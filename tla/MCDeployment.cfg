SPECIFICATION Spec
CONSTANTS
  MaxAttempts = 2
  MaxFaults = 2
  Objects = {o1}
INVARIANTS AcceptedKept JournalTruth
PROPERTIES DrainSeals DecidedSettles
CHECK_DEADLOCK FALSE
