SPECIFICATION ServicesSpec
CONSTANTS
    Commands = 2
    MaxBoots = 2
    MaxEdits = 2
    Leases = {1}
    Activations <- TwoDevices
    Sessions = {1, 2}
    Dials = {1}
    MaxTasks = 3
    MaxTime = 10
    Term = 3
    Grace = 1
    RenewPeriod = 2
    RenewTimeout = 1
    Streams = {1, 2}
    LeaseStreams = 2
    ClientStreams = 1
    Objects = {1, 2}
    Duration = 6
    RenewAfter = 2
    MaxClock = 12
    Connections = {1, 2}
    Batches = {1, 2}
    Sizes = {1, 2}
    MaxAttachmentBatchBytes = 2
    MaxBytes = 2
    MaxEntries = 2
    Recheck = 3
    MaxNow = 7
    Trees = {1, 2}
    Parts = 2
INVARIANTS
    OutcomeTruth
    Repairable
    CaptureQuiet
    SocketOwned
    StoppedRelaysEnd
    TunnelBounded
    TakeoverCovered
    ReceiptTruth
    RevocationObeyed
    ExportFinal
CHECK_DEADLOCK FALSE
