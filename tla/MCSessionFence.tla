---------------------------- MODULE MCSessionFence ----------------------------
(* Small instances of SessionFence. *)
EXTENDS SessionFence

\* One legacy session with two start requests, a stop and an intent record.
LegacyRequests == {"start1", "start2", "stop1", "record1"}
LegacyOp ==
  [r \in LegacyRequests |->
     CASE r \in {"start1", "start2"} -> "start" [] r = "stop1" -> "stop" [] OTHER -> "record"]
LegacySessionOf == [r \in LegacyRequests |-> "s1"]

\* One managed session with every operation on it.
ManagedRequests == {"prepare1", "launch1", "recover1", "cancel1", "stop1"}
ManagedOp ==
  [r \in ManagedRequests |->
     CASE r = "prepare1" -> "prepare" [] r = "launch1" -> "launch" [] r = "recover1" -> "recover"
       [] r = "cancel1" -> "cancel" [] OTHER -> "stop"]
ManagedSessionOf == [r \in ManagedRequests |-> "s1"]
=============================================================================
