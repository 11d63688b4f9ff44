SPECIFICATION ASpec
CONSTANTS
    Connections = {1}
    Batches = {1, 2}
    Sizes = {1, 2}
    MaxAttachmentBatchBytes = 2
    MaxBytes = 2
    MaxEntries = 2
INVARIANT UploadsWithinLease
CHECK_DEADLOCK FALSE
