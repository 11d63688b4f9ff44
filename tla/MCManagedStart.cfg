SPECIFICATION Spec
CONSTANTS
  MaxAttempts = 2
  MaxFaults = 2
INVARIANTS JournalAgreesWithServer
PROPERTIES ProposedRuntimeAdmitted AdmittedNeverDrained UnadmittedRuntimeEnds DecidedProposalSettles
CHECK_DEADLOCK FALSE
