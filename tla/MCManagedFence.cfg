SPECIFICATION Spec
CONSTANTS
  Sessions = {"s1"}
  Requests <- ManagedRequests
  NoRequest = NoRequest
  Op <- ManagedOp
  SessionOf <- ManagedSessionOf
  Managed = {"s1"}
  MaxIssues = 5
  MaxFaults = 2
INVARIANTS RuntimesAccounted
PROPERTIES ImplementsGate
CHECK_DEADLOCK FALSE
