SPECIFICATION Spec
CONSTANTS
    N = 2
    Edits = {2}
    MaxUploads = 2
    MaxFaults = 1
INVARIANTS
    ReadersKeepContent
    OnlyCleanPublished
    JournalsFollow
PROPERTIES
    DeletedIsRetained
    FinalIsReclaimed
CHECK_DEADLOCK FALSE
