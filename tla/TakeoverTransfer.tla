-------------------------- MODULE TakeoverTransfer --------------------------
(***************************************************************************)
(* The worker's side of an account takeover: the task lease under which it *)
(* works, and the upload of the capture that the Helper retains.           *)
(*                                                                         *)
(* The lease is a duration.  The worker counts it from the moment it sent  *)
(* the renewal, the control plane from the moment it granted it, and the   *)
(* work is cancelled as soon as a renewal is uncertain.  The recovery of   *)
(* an account migration runs under a lease of the same kind.               *)
(***************************************************************************)
EXTENDS Integers, FiniteSets

CONSTANTS
    Objects,        \* distinct contents of the captured tree
    Duration,       \* LeaseUntil - ServerTime of a granted lease
    RenewAfter,     \* what the control plane asks for
    MaxClock        \* where the clock stops

ASSUME TakeoverAssumption == Duration \in Nat /\ RenewAfter \in Nat /\ MaxClock \in Nat

VARIABLES
    clock,
    until,      \* when the control plane's lease of the delivered task ends
    server,     \* the takeover, as the control plane has it
    work,       \* the step of the task, and what it holds
    budget,     \* the worker's count of the lease
    renew,      \* the renewal in flight
    captured,   \* whether the Helper retains the capture
    recovery    \* what the control plane was told of the migration

tvars == <<clock, until, server, work, budget, renew, captured, recovery>>

NoWork == [do |-> "idle", kind |-> "takeover", upload |-> 0, sent |-> {}]
NoBudget == [deadline |-> 0, due |-> 0]
NoRenewal == [do |-> "none", started |-> 0]

TInit ==
    /\ clock = 0
    /\ until = 0
    /\ server = [status |-> "reserved", upload |-> 0, have |-> {}, task |-> "open"]
    /\ work = NoWork
    /\ budget = NoBudget
    /\ renew = NoRenewal
    /\ captured = FALSE
    /\ recovery = "open"

\* The work that a lost lease cancels.
Running == work.do \in {"capture", "read", "begin", "put", "inspect", "recovered", "failed"}

Do(step) == work' = [work EXCEPT !.do = step]

\* The renewals end with the work.
WorkDone ==
    /\ Do("report")
    /\ renew' = NoRenewal
    /\ UNCHANGED budget

-----------------------------------------------------------------------------
(* One delivery of the task.                                               *)

\* The control plane delivers a task that nobody holds.
PollTask ==
    /\ work = NoWork /\ clock >= until
    /\ until' = clock + Duration
    /\ \/ server.task = "open" /\ Do("get")
       \/ /\ recovery = "open"
          /\ work' = [do |-> "authorize", kind |-> "recovery", upload |-> 0, sent |-> {}]
    /\ UNCHANGED <<clock, server, budget, renew, captured, recovery>>

\* A takeover that was committed is reported without more work.
GetSkillTakeover ==
    /\ work.do = "get"
    /\ Do(IF server.status = "committed" THEN "report" ELSE "lease")
    /\ UNCHANGED <<clock, until, server, budget, renew, captured, recovery>>

\* StartTask and the fresh authority of the recovery.
AuthorizeRuntimeRecovery ==
    /\ work.do = "authorize"
    /\ Do("lease")
    /\ UNCHANGED <<clock, until, server, budget, renew, captured, recovery>>

\* The task is left to a later delivery.
GiveUp ==
    /\ work' = NoWork
    /\ budget' = NoBudget
    /\ renew' = NoRenewal

\* An error, a lost reply or the end of the worker.
Fail ==
    /\ work.do # "idle" /\ renew.do # "sent"
    /\ Running => clock < budget.deadline
    /\ GiveUp
    /\ UNCHANGED <<clock, until, server, captured, recovery>>

-----------------------------------------------------------------------------
(* The lease.                                                              *)

StartRenewal ==
    /\ renew.do = "none"
    /\ \/ work.do = "lease"
       \/ Running /\ clock >= budget.due /\ clock < budget.deadline
    /\ renew' = [do |-> "sent", started |-> clock]
    /\ UNCHANGED <<clock, until, server, work, budget, captured, recovery>>

\* Only an unexpired lease is extended.
RenewSkillTakeoverLease ==
    /\ renew.do = "sent" /\ clock < until
    /\ until' = clock + Duration
    /\ renew' = [renew EXCEPT !.do = "granted"]
    /\ UNCHANGED <<clock, server, work, budget, captured, recovery>>

\* Mutant: the budget is counted from the reply.
BudgetFromReply(started) ==
    LET remaining == Duration
        third == remaining \div 3
    IN  [deadline |-> clock + Duration,
         due |-> clock + (IF RenewAfter > third THEN third ELSE RenewAfter)]

\* The whole round trip is taken off the lease.
RenewTaskBudget(started) ==
    LET remaining == started + Duration - clock
        third == remaining \div 3
    IN  [deadline |-> started + Duration,
         due |-> clock + (IF RenewAfter > third THEN third ELSE RenewAfter)]

RenewalReply ==
    /\ renew.do = "granted"
    /\ LET next == RenewTaskBudget(renew.started)
       IN  IF clock < next.deadline /\ next.due > clock
           THEN /\ budget' = next
                /\ renew' = NoRenewal
                /\ IF work.do = "lease"
                   THEN Do(IF work.kind = "takeover" THEN "capture" ELSE "inspect")
                   ELSE UNCHANGED work
           ELSE GiveUp
    /\ UNCHANGED <<clock, until, server, captured, recovery>>

\* The renewal is refused, lost, or not answered by the deadline.
LoseLease ==
    /\ renew.do = "sent" \/ (Running /\ clock >= budget.deadline)
    /\ GiveUp
    /\ UNCHANGED <<clock, until, server, captured, recovery>>

-----------------------------------------------------------------------------
(* The work.                                                               *)

CaptureAccountTakeover ==
    /\ work.do = "capture"
    /\ captured' = TRUE
    /\ Do("read")
    /\ UNCHANGED <<clock, until, server, budget, renew, recovery>>

ReadAccountCapture ==
    /\ work.do = "read" /\ captured
    /\ Do("begin")
    /\ UNCHANGED <<clock, until, server, budget, renew, captured, recovery>>

\* The first request fixes the capture; a later one goes on with its upload,
\* or finds the takeover committed.
BeginSkillTakeover ==
    /\ work.do = "begin"
    /\ IF server.status = "committed"
       THEN WorkDone /\ UNCHANGED server
       ELSE LET upload == IF server.upload = 0 THEN 1 ELSE server.upload
            IN  /\ server' = [server EXCEPT !.status = "uploading", !.upload = upload]
                /\ work' = [work EXCEPT !.do = "put", !.upload = upload, !.sent = {}]
                /\ UNCHANGED <<budget, renew>>
    /\ UNCHANGED <<clock, until, captured, recovery>>

OpenAccountCaptureObject(o) == captured /\ o \in Objects

Current == server.status = "uploading" /\ work.upload = server.upload

\* Every distinct content is sent once and acknowledged before the next.
PutSkillTakeoverFile(o) ==
    /\ work.do = "put" /\ o \notin work.sent
    /\ OpenAccountCaptureObject(o)
    /\ Current
    /\ server' = [server EXCEPT !.have = @ \cup {o}]
    /\ \/ work' = [work EXCEPT !.sent = @ \cup {o}] /\ UNCHANGED <<budget, renew>>
       \/ GiveUp                \* the acknowledgement is lost
    /\ UNCHANGED <<clock, until, captured, recovery>>

CompleteSkillTakeover ==
    /\ work.do = "put" /\ work.sent = Objects /\ Current
    /\ server' = [server EXCEPT !.status = "committed"]
    /\ WorkDone \/ GiveUp
    /\ UNCHANGED <<clock, until, captured, recovery>>

\* A commit that was seen is reported, even when the lease was lost since.
CompleteTask ==
    /\ work.do = "report"
    /\ server' = [server EXCEPT !.task = "done"]
    /\ GiveUp
    /\ UNCHANGED <<clock, until, captured, recovery>>

\* The Helper recovers the migration or cannot; only the recovery bound to this
\* authority counts.
InspectRuntimeRecovery ==
    /\ work.do = "inspect"
    /\ \E outcome \in {"recovered", "failed"} : Do(outcome)
    /\ UNCHANGED <<clock, until, server, budget, renew, captured, recovery>>

\* The report belongs to the work; once acknowledged, a refused renewal means
\* nothing.
ReportRuntimeRecovery ==
    /\ work.do \in {"recovered", "failed"}
    /\ recovery' = work.do
    /\ GiveUp
    /\ UNCHANGED <<clock, until, server, captured>>

\* The control plane's upload expires: its files are dropped.
ExpireUpload ==
    /\ server.status = "uploading" /\ server.upload = 1
    /\ server' = [server EXCEPT !.upload = 2, !.have = {}]
    /\ UNCHANGED <<clock, until, work, budget, renew, captured, recovery>>

-----------------------------------------------------------------------------
\* The clock passes neither a renewal that is due nor the deadline.
TickClock ==
    /\ clock < MaxClock
    /\ Running =>
          /\ clock < budget.deadline
          /\ renew.do = "none" => clock < budget.due
    /\ clock' = clock + 1
    /\ UNCHANGED <<until, server, work, budget, renew, captured, recovery>>

TNext ==
    \/ PollTask \/ GetSkillTakeover \/ AuthorizeRuntimeRecovery \/ Fail \/ StartRenewal \/ RenewSkillTakeoverLease
    \/ RenewalReply \/ LoseLease \/ CaptureAccountTakeover \/ ReadAccountCapture \/ BeginSkillTakeover
    \/ \E o \in Objects : PutSkillTakeoverFile(o)
    \/ CompleteSkillTakeover \/ CompleteTask
    \/ InspectRuntimeRecovery \/ ReportRuntimeRecovery \/ ExpireUpload \/ TickClock

TSpec == TInit /\ [][TNext]_tvars

-----------------------------------------------------------------------------
TTypeOK ==
    /\ clock \in Nat /\ until \in Nat
    /\ server \in [status : {"reserved", "uploading", "committed"}, upload : Nat,
                   have : SUBSET Objects, task : {"open", "done"}]
    /\ work \in [do : {"idle", "get", "authorize", "lease", "capture", "read", "begin", "put",
                       "inspect", "recovered", "failed", "report"},
                 kind : {"takeover", "recovery"}, upload : Nat, sent : SUBSET Objects]
    /\ budget \in [deadline : Nat, due : Int]
    /\ renew \in [do : {"none", "sent", "granted"}, started : Nat]
    /\ captured \in BOOLEAN
    /\ recovery \in {"open", "recovered", "failed"}

\* The worker never works on a task whose lease has run out at the control
\* plane: whatever the delays of the renewals, its own count ends first
\* (withTaskLease, maintainTaskLease, renewTaskBudget).  And what is committed
\* is the whole capture, although uploads expire, files and acknowledgements
\* are lost, and the task is delivered again (uploadTakeoverCapture,
\* transferTakeoverCapture).
TakeoverCovered ==
    /\ Running => clock <= until
    /\ server.status = "committed" => captured /\ server.have = Objects
=============================================================================
