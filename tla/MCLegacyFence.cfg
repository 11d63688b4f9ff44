SPECIFICATION Spec
CONSTANTS
  Sessions = {"s1"}
  Requests <- LegacyRequests
  NoRequest = NoRequest
  Op <- LegacyOp
  SessionOf <- LegacySessionOf
  Managed = {}
  MaxIssues = 4
  MaxFaults = 2
INVARIANTS RuntimesAccounted
PROPERTIES ImplementsGate EveryRequestAnswered
CHECK_DEADLOCK FALSE
