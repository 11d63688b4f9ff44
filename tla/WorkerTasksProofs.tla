-------------------------- MODULE WorkerTasksProofs --------------------------
(***************************************************************************)
(* Proofs about WorkerTasks, for any set of tasks and sessions and any     *)
(* number of failures.                                                     *)
(***************************************************************************)
EXTENDS WorkerTasks, TLAPS

(***************************************************************************)
(* The inductive invariants.                                               *)
(***************************************************************************)

\* executeTask works on a task, and has an outcome when it needs one.
Position ==
  /\ pc # "idle" => cur \in Tasks
  /\ pc \in {"observe", "save", "report"} => result \in Outcomes

TypeInv == TypeOK /\ Position

\* While the ledger is not blocked, memory and file agree.
LedgerCurrent == ~failed => entries = file

\* What executeTask knows of the ledger file at each of its steps.
TaskKnowledge ==
  /\ pc # "idle" => ~failed
  /\ pc = "intent" => file[cur] = seen
  /\ pc \in {"start", "exec", "save"} => file[cur] = NoRecord
  /\ pc \in {"observe", "report"} => file[cur] = result

\* A report was recorded before it was sent, and the record is still there.
SentRecorded == \A r \in sent : r.task \notin dropped => file[r.task] = r.outcome

RecordInv == TypeInv /\ LedgerCurrent /\ TaskKnowledge /\ SentRecorded

\* The sessions of t are closed and none of them runs.
Stopped(t) == SessionsOf[t] \cap (open \cup running) = {}

\* The worker waits for one request at a time, the one of its current task.
LiveRequests ==
  \A q \in requests :
    q.live => /\ q.task = cur
              /\ reply = "none"
              /\ \A p \in requests : p.live => p = q
              /\ q.op = "intent" => pc = "intent"
              /\ q.op = "run" => pc \in {"observe", "exec"}

\* No answer is left over when a task is about to be started.
QuietStart == pc = "start" => reply = "none"

\* A fenced request closed its sessions, and only a start is ever past its spec.
FencedRequests ==
  \A q \in requests :
    /\ q.stage = "fenced" => q.task \in Stops /\ SessionsOf[q.task] \cap open = {}
    /\ q.stage = "saved" => q.task \notin Stops

\* Everything from which a success of a stop can be reported.
StopEvidence ==
  \A t \in Stops :
    \/ server[t] = "succeeded"
    \/ [task |-> t, outcome |-> "succeeded"] \in sent
    \/ cur = t /\ pc \in {"save", "report"} /\ result = "succeeded"
    \/ cur = t /\ pc \in {"observe", "exec"} /\ reply = "ok"
    => Stopped(t)

StopInv == TypeInv /\ QuietStart /\ LiveRequests /\ FencedRequests /\ StopEvidence

-----------------------------------------------------------------------------
(* Type correctness. *)

LEMMA InitType == Init => TypeInv
<1> SUFFICES ASSUME Init PROVE TypeInv
  OBVIOUS
<1> USE DEF Init, LedgerInit, GateInit
<1>1. LedgerTypeOK
  BY Zenon DEF LedgerTypeOK, Contents
<1>2. faults \in 0 .. MaxFaults
  BY TaskAssumption
<1>3. server \in [Tasks -> {"queued", "leased", "running"} \cup Outcomes]
  <2>1. server \in [Tasks -> {"queued", "failed"}]
    OBVIOUS
  <2>2. \A t \in Tasks : server[t] \in {"queued", "leased", "running"} \cup Outcomes
    BY <2>1 DEF Outcomes
  <2>3. QED
    BY <2>1, <2>2, Zenon
<1>4. QED
  <2> HIDE DEF Init
  <2>1. batch = {} /\ cur = NoTask /\ pc = "idle" /\ seen = NoRecord /\ result = NoRecord /\ reply = "none"
        /\ sent = {} /\ requests = {} /\ open = Sessions /\ running = {} /\ spec = {} /\ cached = {} /\ dropped = {}
    BY DEF Init
  <2>2. QED
    BY <1>1, <1>2, <1>3, <2>1 DEF TypeInv, TypeOK, Position

LEMMA SendType ==
  ASSUME NEW t \in Tasks, NEW op \in {"intent", "run"}, requests \subseteq Request, Send(t, op)
  PROVE  requests' \subseteq Request
<1>1. [task |-> t, op |-> op, stage |-> "sent", live |-> TRUE] \in Request
  BY DEF Request
<1>2. QED
  BY <1>1, Zenon DEF Send

LEMMA OrphanedType ==
  ASSUME requests \subseteq Request
  PROVE  Orphaned \subseteq Request
  BY Zenon DEF Orphaned, Request

LEMMA ProceedType ==
  ASSUME NEW t \in Tasks, NEW entry \in Records \cup {NoRecord}, requests \subseteq Request, Proceed(t, entry)
  PROVE  /\ requests' \subseteq Request
         /\ pc' \in {"start", "observe", "report"}
         /\ result' \in Records \cup {NoRecord}
         /\ pc' \in {"observe", "report"} => result' \in Outcomes
<1>1. CASE entry = NoRecord
  BY <1>1 DEF Proceed
<1>2. CASE entry # NoRecord /\ t \in Stops
  BY <1>2, SendType, TaskAssumption DEF Proceed
<1>3. CASE entry # NoRecord /\ t \notin Stops
  BY <1>3, TaskAssumption DEF Proceed
<1>4. QED
  BY <1>1, <1>2, <1>3

LEMMA NextType == TypeInv /\ [Next]_vars => TypeInv'
<1> SUFFICES ASSUME TypeInv, [Next]_vars PROVE TypeInv'
  OBVIOUS
<1> USE TaskAssumption, RecordAssumption DEF TypeInv, TypeOK, Position, LedgerTypeOK, ledgerVars, helperVars
<1>1. CASE PollOnce
  BY <1>1, Zenon DEF PollOnce
<1>2. CASE WorkerStep
  <2>1. ASSUME NEW t \in Tasks, BeginTask(t) PROVE TypeInv'
    <3>1. CASE failed
      BY <2>1, <3>1 DEF BeginTask, GiveUp
    <3>2. CASE ~failed /\ Kind[t] = "stop"
      <4>1. requests' \subseteq Request
        BY <2>1, <3>2, SendType DEF BeginTask
      <4>2. QED
        BY <2>1, <3>2, <4>1 DEF BeginTask, Contents
    <3>3. CASE ~failed /\ Kind[t] # "stop"
      <4>1. Proceed(t, entries[t]) /\ entries[t] \in Records \cup {NoRecord}
        BY <2>1, <3>3 DEF BeginTask, Contents
      <4>2. QED
        BY <2>1, <3>3, <4>1, ProceedType DEF BeginTask
    <3>4. QED
      BY <3>1, <3>2, <3>3
  <2>2. CASE IntentRecorded
    <3>1. CASE reply = "ok"
      <4>1. Proceed(cur, seen) /\ cur \in Tasks
        BY <2>2, <3>1 DEF IntentRecorded
      <4>2. QED
        BY <2>2, <3>1, <4>1, ProceedType DEF IntentRecorded
    <3>2. CASE reply # "ok"
      BY <2>2, <3>2 DEF IntentRecorded, GiveUp
    <3>3. QED
      BY <3>1, <3>2
  <2>3. CASE OldStopObserved
    BY <2>3 DEF OldStopObserved, GiveUp
  <2>4. CASE StartTask
    <3>1. cur \in Tasks
      BY <2>4 DEF StartTask
    <3>2. requests' \subseteq Request
      BY <2>4, <3>1, SendType DEF StartTask
    <3>3. server' \in [Tasks -> {"queued", "leased", "running"} \cup Outcomes]
      BY <2>4 DEF StartTask
    <3>4. faults' \in 0 .. MaxFaults
      BY <2>4 DEF StartTask, Fault, NoFault
    <3>5. QED
      BY <2>4, <3>1, <3>2, <3>3, <3>4 DEF StartTask, GiveUp
  <2>5. CASE StartTaskOwnershipRefused
    BY <2>5 DEF StartTaskOwnershipRefused, Outcomes
  <2>6. CASE TaskExecuted
    BY <2>6 DEF TaskExecuted, GiveUp, Outcomes
  <2>7. CASE SaveOutcome
    <3>1. faults' \in 0 .. MaxFaults
      BY <2>7 DEF SaveOutcome, Fault, NoFault
    <3>2. Stored(cur, result) \in Contents
      BY <2>7 DEF SaveOutcome, Stored, Contents
    <3>3. LedgerTypeOK'
      BY <2>7, <3>2, Zenon DEF SaveOutcome, SavePublished, SaveUncertain, SaveRefused
    <3>4. QED
      BY <2>7, <3>1, <3>3 DEF SaveOutcome, GiveUp
  <2>8. CASE ReportOutcome
    BY <2>8 DEF ReportOutcome, Accept, GiveUp, Fault, NoFault, Report
  <2>9. QED
    BY <1>2, <2>1, <2>2, <2>3, <2>4, <2>5, <2>6, <2>7, <2>8 DEF WorkerStep
<1>3. CASE HelperStep
  <2> PICK q \in requests :
        \/ HelperFence(q) \/ HelperFenceFails(q) \/ HelperRecord(q)
        \/ HelperStart(q) \/ HelperLaunch(q) \/ HelperStop(q) \/ HelperOther(q)
    BY <1>3 DEF HelperStep
  <2> USE DEF Answer, Request
  <2>1. CASE HelperFence(q)
    BY <2>1 DEF HelperFence, Close, workerVars
  <2>2. CASE HelperFenceFails(q)
    BY <2>2 DEF HelperFenceFails, Close, Fault
  <2>3. CASE HelperRecord(q)
    BY <2>3 DEF HelperRecord
  <2>4. CASE HelperStart(q)
    BY <2>4 DEF HelperStart, Fault, NoFault, workerVars
  <2>5. CASE HelperLaunch(q)
    <3>1. open' \subseteq Sessions /\ running' \subseteq Sessions
      BY <2>5 DEF HelperLaunch, Submit, Admit, Halt, gateVars
    <3>2. QED
      BY <2>5, <3>1 DEF HelperLaunch, Fault, NoFault
  <2>6. CASE HelperStop(q)
    BY <2>6 DEF HelperStop, Halt, Fault, NoFault
  <2>7. CASE HelperOther(q)
    BY <2>7, Zenon DEF HelperOther
  <2>8. QED
    BY <2>1, <2>2, <2>3, <2>4, <2>5, <2>6, <2>7
<1>4. CASE Environment
  <2>1. ASSUME NEW t \in Tasks, ExpireLease(t) PROVE TypeInv'
    BY <2>1 DEF ExpireLease, Fault, NoFault, workerVars
  <2>2. ASSUME NEW r \in sent, DeliverLate(r) PROVE TypeInv'
    BY <2>2 DEF DeliverLate, Accept, Report, workerVars
  <2>3. ASSUME NEW s \in Sessions, RuntimeExit(s) PROVE TypeInv'
    BY <2>3 DEF RuntimeExit, Halt, workerVars
  <2>4. CASE CallTimeout
    BY <2>4, OrphanedType DEF CallTimeout, Fault
  <2>5. CASE WorkerRestart
    <3>1. LedgerTypeOK'
      BY <2>5, Zenon DEF WorkerRestart, Reopen
    <3>2. QED
      BY <2>5, <3>1, OrphanedType DEF WorkerRestart, Fault, GiveUp
  <2>6. CASE PowerLoss
    <3>1. LedgerTypeOK'
      BY <2>6, Zenon DEF PowerLoss, PowerLossReopen
    <3>2. QED
      BY <2>6, <3>1 DEF PowerLoss, Fault, GiveUp, Halt
  <2>7. CASE HelperRestart
    <3>1. open' \subseteq Sessions /\ running' \subseteq Sessions
      BY <2>7 DEF HelperRestart, Admit, gateVars
    <3>2. QED
      BY <2>7, <3>1 DEF HelperRestart, Fault
  <2>8. QED
    BY <1>4, <2>1, <2>2, <2>3, <2>4, <2>5, <2>6, <2>7 DEF Environment
<1>5. CASE UNCHANGED vars
  BY <1>5 DEF vars, workerVars
<1>6. QED
  BY <1>1, <1>2, <1>3, <1>4, <1>5 DEF Next

\* Every variable keeps its type for ever, with executeTask's task and outcome
\* present wherever it uses them.
THEOREM TypeCorrect == Spec => []TypeOK
<1>1. TypeInv => TypeOK
  BY DEF TypeInv
<1>2. QED
  BY InitType, NextType, <1>1, PTL DEF Spec

-----------------------------------------------------------------------------
(* What is reported was recorded, and the record stays. *)

LEMMA InitRecord == Init => RecordInv
<1> SUFFICES ASSUME Init PROVE RecordInv
  OBVIOUS
<1>1. TypeInv
  BY InitType
<1>2. QED
  BY <1>1 DEF Init, LedgerInit, RecordInv, LedgerCurrent, TaskKnowledge, SentRecorded

\* The helper, the control plane and a passing deadline touch nothing of it.
LEMMA RecordFrame ==
  ASSUME RecordInv, TypeInv', UNCHANGED <<ledgerVars, cur, pc, seen, result, sent, dropped>>
  PROVE  RecordInv'
  BY DEF RecordInv, LedgerCurrent, TaskKnowledge, SentRecorded, ledgerVars

LEMMA NextRecord == RecordInv /\ [Next]_vars => RecordInv'
<1> SUFFICES ASSUME RecordInv, [Next]_vars PROVE RecordInv'
  OBVIOUS
<1>0. TypeInv /\ TypeInv'
  BY NextType DEF RecordInv
<1>1. CASE PollOnce
  BY <1>0, <1>1, RecordFrame, Zenon DEF PollOnce
<1>2. CASE WorkerStep
  <2> USE <1>0, RecordAssumption, TaskAssumption
      DEF RecordInv, LedgerCurrent, TaskKnowledge, SentRecorded, TypeInv, TypeOK, Position, ledgerVars
  <2>1. ASSUME NEW t \in Tasks, BeginTask(t) PROVE RecordInv'
    BY <2>1 DEF BeginTask, Proceed, GiveUp
  <2>2. CASE IntentRecorded
    BY <2>2 DEF IntentRecorded, Proceed, GiveUp
  <2>3. CASE OldStopObserved
    BY <2>3 DEF OldStopObserved, GiveUp
  <2>4. CASE StartTask
    BY <2>4 DEF StartTask, GiveUp
  <2>5. CASE StartTaskOwnershipRefused
    BY <2>5 DEF StartTaskOwnershipRefused
  <2>6. CASE TaskExecuted
    BY <2>6 DEF TaskExecuted, GiveUp
  <2>7. CASE SaveOutcome
    <3>1. file' = file \/ file' = [file EXCEPT ![cur] = result]
      BY <2>7 DEF SaveOutcome, SavePublished, SaveUncertain, SaveRefused, Stored
    <3>2. LedgerCurrent'
      BY <2>7 DEF SaveOutcome, SavePublished, SaveUncertain, SaveRefused, Stored
    <3>3. TaskKnowledge'
      BY <2>7 DEF SaveOutcome, SavePublished, SaveUncertain, SaveRefused, Stored, GiveUp, LedgerTypeOK, Contents
    <3>4. SentRecorded'
      <4>1. file[cur] = NoRecord /\ sent' = sent /\ dropped' = dropped
        BY <2>7 DEF SaveOutcome
      <4>2. ASSUME NEW r \in sent, r.task \notin dropped PROVE file'[r.task] = r.outcome
        <5>1. r.task \in Tasks /\ r.outcome # NoRecord /\ file[r.task] = r.outcome
          BY <4>2 DEF Report
        <5>2. QED
          BY <3>1, <4>1, <5>1 DEF LedgerTypeOK, Contents
      <4>3. QED
        BY <4>1, <4>2
    <3>5. QED
      BY <3>2, <3>3, <3>4
  <2>8. CASE ReportOutcome
    BY <2>8 DEF ReportOutcome, GiveUp
  <2>9. QED
    BY <1>2, <2>1, <2>2, <2>3, <2>4, <2>5, <2>6, <2>7, <2>8, Zenon DEF WorkerStep
<1>3. CASE HelperStep
  <2> PICK q \in requests :
        \/ HelperFence(q) \/ HelperFenceFails(q) \/ HelperRecord(q)
        \/ HelperStart(q) \/ HelperLaunch(q) \/ HelperStop(q) \/ HelperOther(q)
    BY <1>3 DEF HelperStep
  <2>1. UNCHANGED <<ledgerVars, cur, pc, seen, result, sent, dropped>>
    BY Zenon DEF HelperFence, HelperFenceFails, HelperRecord, HelperStart, HelperLaunch, HelperStop, HelperOther, Answer, workerVars
  <2>2. QED
    BY <1>0, <2>1, RecordFrame
<1>4. CASE Environment
  <2>1. ASSUME NEW t \in Tasks, ExpireLease(t) PROVE RecordInv'
    BY <1>0, <2>1, RecordFrame DEF ExpireLease, workerVars
  <2>2. ASSUME NEW r \in sent, DeliverLate(r) PROVE RecordInv'
    BY <1>0, <2>2, RecordFrame DEF DeliverLate, workerVars
  <2>3. ASSUME NEW s \in Sessions, RuntimeExit(s) PROVE RecordInv'
    BY <1>0, <2>3, RecordFrame DEF RuntimeExit, workerVars
  <2>4. CASE CallTimeout
    BY <1>0, <2>4, RecordFrame DEF CallTimeout
  <2>8. CASE HelperRestart
    BY <1>0, <2>8, RecordFrame DEF HelperRestart
  <2>5. CASE WorkerRestart
    BY <1>0, <2>5
    DEF WorkerRestart, Reopen, GiveUp, RecordInv, LedgerCurrent, TaskKnowledge, SentRecorded
  <2>6. CASE PowerLoss
    <3>1. LedgerCurrent' /\ TaskKnowledge'
      BY <2>6 DEF PowerLoss, PowerLossReopen, GiveUp, LedgerCurrent, TaskKnowledge
    <3>2. SentRecorded'
      BY <1>0, <2>6 DEF PowerLoss, RecordInv, SentRecorded, TypeInv, TypeOK, Report
    <3>3. QED
      BY <1>0, <3>1, <3>2 DEF RecordInv
  <2>7. QED
    BY <1>4, <2>1, <2>2, <2>3, <2>4, <2>5, <2>6, <2>8 DEF Environment
<1>5. CASE UNCHANGED vars
  BY <1>0, <1>5, RecordFrame DEF vars, workerVars
<1>6. QED
  BY <1>1, <1>2, <1>3, <1>4, <1>5 DEF Next

\* Reports of one task never disagree (OneOutcome): every report was recorded in
\* the ledger file first, and a recorded task is never executed again.
THEOREM ReportsAgree == Spec => []OneOutcome
<1>1. RecordInv => OneOutcome
  BY DEF RecordInv, SentRecorded, OneOutcome
<1>2. QED
  BY InitRecord, NextRecord, <1>1, PTL DEF Spec

\* The runtime is asked to work on a task that stops nothing only while the
\* ledger file holds no outcome of it (RecordedNeverRepeated).
THEOREM NeverRepeated == Spec => RecordedNeverRepeated
<1> DEFINE Step == \A q \in requests' \ requests :
                     q.live /\ q.stage = "sent" /\ q.task \notin Stops => file[q.task] = NoRecord
<1>1. RecordInv /\ [Next]_vars => [Step]_vars
  <2> SUFFICES ASSUME RecordInv, Next, NEW q \in requests' \ requests,
                      q.live, q.stage = "sent", q.task \notin Stops
               PROVE  file[q.task] = NoRecord
    BY Zenon
  <2>0. TypeInv /\ requests' # requests
    BY DEF RecordInv
  <2>1. CASE WorkerStep
    <3>1. ASSUME NEW t \in Tasks, BeginTask(t) PROVE FALSE
      BY <2>0, <3>1 DEF BeginTask, Proceed, Send, Stops
    <3>2. CASE IntentRecorded
      BY <2>0, <3>2 DEF IntentRecorded, Proceed, Send
    <3>3. CASE StartTask
      BY <2>0, <3>3 DEF StartTask, Send, RecordInv, TaskKnowledge
    <3>4. QED
      BY <2>0, <2>1, <3>1, <3>2, <3>3
      DEF WorkerStep, OldStopObserved, StartTaskOwnershipRefused, TaskExecuted, SaveOutcome, ReportOutcome
  <2>2. CASE HelperStep
    <3> PICK p \in requests :
          \/ HelperFence(p) \/ HelperFenceFails(p) \/ HelperRecord(p)
          \/ HelperStart(p) \/ HelperLaunch(p) \/ HelperStop(p) \/ HelperOther(p)
      BY <2>2 DEF HelperStep
    <3>1. \/ requests' = requests \ {p}
          \/ requests' = (requests \ {p}) \cup {[p EXCEPT !.stage = "fenced"]}
          \/ requests' = (requests \ {p}) \cup {[p EXCEPT !.stage = "saved"]}
      BY Zenon DEF HelperFence, HelperFenceFails, HelperRecord, HelperStart, HelperLaunch, HelperStop, HelperOther, Answer
    <3>2. QED
      BY <2>0, <3>1 DEF TypeInv, TypeOK, Request
  <2>3. CASE Environment
    <3>1. requests' \in {requests, Orphaned, {}}
      BY <2>3, Zenon DEF Environment, ExpireLease, DeliverLate, RuntimeExit, CallTimeout, HelperRestart, WorkerRestart, PowerLoss
    <3>2. q \in Orphaned
      BY <3>1
    <3>3. ~ q.live
      BY <2>0, <3>2 DEF Orphaned, TypeInv, TypeOK, Request
    <3>4. QED
      BY <3>3
  <2>4. QED
    BY <2>0, <2>1, <2>2, <2>3 DEF Next, PollOnce
<1>2. QED
  BY InitRecord, NextRecord, <1>1, PTL DEF Spec, RecordedNeverRepeated

-----------------------------------------------------------------------------
(* A stop that was reported successful holds for good. *)

LEMMA InitStop == Init => StopInv
<1> SUFFICES ASSUME Init PROVE StopInv
  OBVIOUS
<1>1. TypeInv
  BY InitType
<1>2. QED
  BY <1>1, TaskAssumption DEF Init, StopInv, QuietStart, LiveRequests, FencedRequests, StopEvidence, Stops

\* Closed sessions that do not run stay that way when nothing is opened and
\* only open sessions start.
LEMMA StoppedStays ==
  ASSUME open' \subseteq open, running' \subseteq running \cup open, NEW t, Stopped(t)
  PROVE  Stopped(t)'
  BY DEF Stopped

\* A step that sends no request, answers none and reports nothing new.
LEMMA StopFrame ==
  ASSUME StopInv, TypeInv', QuietStart',
         open' \subseteq open, running' \subseteq running \cup open,
         UNCHANGED <<cur, pc, result, reply, sent, requests>>,
         \A t \in Stops : server'[t] = "succeeded" =>
            server[t] = "succeeded" \/ [task |-> t, outcome |-> "succeeded"] \in sent
  PROVE  StopInv'
<1>1. LiveRequests' /\ FencedRequests'
  BY DEF StopInv, LiveRequests, FencedRequests
<1>2. StopEvidence'
  BY StoppedStays DEF StopInv, StopEvidence
<1>3. QED
  BY <1>1, <1>2 DEF StopInv

\* The helper answers a request that the worker may wait for.
LEMMA StopAnswer ==
  ASSUME StopInv, TypeInv', QuietStart', NEW q \in requests, NEW v \in {"ok", "error"}, Answer(q, v),
         open' \subseteq open, running' \subseteq running \cup open, UNCHANGED <<server, sent>>,
         v = "ok" /\ q.op = "run" /\ q.task \in Stops => Stopped(q.task)'
  PROVE  StopInv'
<1>1. LiveRequests'
  BY DEF StopInv, LiveRequests, Answer
<1>2. FencedRequests'
  BY DEF StopInv, FencedRequests, Answer
<1>3. ASSUME NEW t \in Stops, cur = t, pc \in {"observe", "exec"}, reply' = "ok" PROVE Stopped(t)'
  <2>1. CASE q.live
    <3>1. q.task = t /\ v = "ok" /\ q.op = "run"
      BY <1>3, <2>1 DEF StopInv, LiveRequests, Answer, TypeInv, TypeOK, Request
    <3>2. QED
      BY <1>3, <3>1
  <2>2. CASE ~ q.live
    <3>1. Stopped(t)
      BY <1>3, <2>2, Zenon DEF Answer, StopInv, StopEvidence
    <3>2. QED
      BY <3>1, StoppedStays
  <2>3. QED
    BY <2>1, <2>2
<1>4. StopEvidence'
  BY <1>3, StoppedStays DEF StopInv, StopEvidence, Answer
<1>5. QED
  BY <1>1, <1>2, <1>4 DEF StopInv

\* The worker sends a request when it waits for none.
LEMMA StopSend ==
  ASSUME StopInv, NEW t \in Tasks, NEW op \in {"intent", "run"}, Send(t, op),
         \A q \in requests : ~ q.live,
         cur' = t, reply' = "none", UNCHANGED open,
         op = "intent" => pc' = "intent", op = "run" => pc' \in {"observe", "exec"}
  PROVE  LiveRequests' /\ FencedRequests'
<1> DEFINE new == [task |-> t, op |-> op, stage |-> "sent", live |-> TRUE]
<1>1. requests' = requests \cup {new}
  BY DEF Send
<1>2. LiveRequests'
  <2> SUFFICES ASSUME NEW q \in requests', q.live
               PROVE  /\ q = new
                      /\ \A p \in requests' : p.live => p = q
    BY DEF LiveRequests
  <2>1. q = new
    BY <1>1
  <2>2. QED
    BY <1>1, <2>1
<1>3. FencedRequests'
  BY <1>1 DEF StopInv, FencedRequests
<1>4. QED
  BY <1>2, <1>3

\* A request of the helper moves to its next stage.
LEMMA StopStage ==
  ASSUME StopInv, TypeInv', QuietStart', NEW q \in requests, NEW stage \in {"fenced", "saved"},
         requests' = (requests \ {q}) \cup {[q EXCEPT !.stage = stage]},
         stage = "fenced" => q.task \in Stops /\ SessionsOf[q.task] \cap open' = {},
         stage = "saved" => q.task \notin Stops,
         open' \subseteq open, running' = running, UNCHANGED <<workerVars, server, sent>>
  PROVE  StopInv'
<1> DEFINE f == [q EXCEPT !.stage = stage]
<1>0. f.task = q.task /\ f.live = q.live /\ f.op = q.op /\ f.stage = stage
  BY DEF StopInv, TypeInv, TypeOK, Request
<1>1. LiveRequests'
  BY <1>0, Zenon DEF StopInv, LiveRequests, workerVars
<1>2. FencedRequests'
  BY <1>0, Zenon DEF StopInv, FencedRequests
<1>3. StopEvidence'
  BY StoppedStays DEF workerVars, StopInv, StopEvidence
<1>4. QED
  BY <1>1, <1>2, <1>3 DEF StopInv

LEMMA NextQuiet == StopInv /\ [Next]_vars => QuietStart'
<1> SUFFICES ASSUME StopInv, [Next]_vars PROVE QuietStart'
  OBVIOUS
<1> USE DEF StopInv, QuietStart
<1>1. CASE PollOnce
  BY <1>1 DEF PollOnce
<1>2. CASE WorkerStep
  <2>1. ASSUME NEW t \in Tasks, BeginTask(t) PROVE QuietStart'
    BY <2>1 DEF BeginTask, Proceed, GiveUp
  <2>2. QED
    BY <1>2, <2>1
    DEF WorkerStep, IntentRecorded, OldStopObserved, StartTask, StartTaskOwnershipRefused, TaskExecuted,
        SaveOutcome, ReportOutcome, Proceed, GiveUp
<1>3. CASE HelperStep
  <2> PICK q \in requests :
        \/ HelperFence(q) \/ HelperFenceFails(q) \/ HelperRecord(q)
        \/ HelperStart(q) \/ HelperLaunch(q) \/ HelperStop(q) \/ HelperOther(q)
    BY <1>3 DEF HelperStep
  <2>1. UNCHANGED workerVars \/ Answer(q, "ok") \/ Answer(q, "error")
    BY Zenon DEF HelperFence, HelperFenceFails, HelperRecord, HelperStart, HelperLaunch, HelperStop, HelperOther
  <2>2. CASE UNCHANGED workerVars
    BY <2>2 DEF workerVars
  <2>3. ASSUME Answer(q, "ok") \/ Answer(q, "error") PROVE QuietStart'
    BY <2>3 DEF Answer, LiveRequests, TypeInv, TypeOK, Request
  <2>4. QED
    BY <2>1, <2>2, <2>3
<1>4. CASE Environment
  <2>1. UNCHANGED <<pc, reply>> \/ GiveUp \/ CallTimeout \/ HelperRestart
    BY <1>4, Zenon DEF Environment, ExpireLease, DeliverLate, RuntimeExit, WorkerRestart, PowerLoss, workerVars
  <2>2. CASE CallTimeout
    BY <2>2 DEF CallTimeout, LiveRequests, TypeInv, TypeOK, Request
  <2>3. CASE HelperRestart
    BY <2>3 DEF HelperRestart, LiveRequests, TypeInv, TypeOK, Request
  <2>4. QED
    BY <2>1, <2>2, <2>3 DEF GiveUp
<1>5. CASE UNCHANGED vars
  BY <1>5 DEF vars, workerVars
<1>6. QED
  BY <1>1, <1>2, <1>3, <1>4, <1>5 DEF Next

LEMMA NextStop == StopInv /\ [Next]_vars => StopInv'
<1> SUFFICES ASSUME StopInv, [Next]_vars PROVE StopInv'
  OBVIOUS
<1>0. TypeInv /\ TypeInv' /\ QuietStart'
  BY NextType, NextQuiet DEF StopInv
<1>1. CASE PollOnce
  <2>1. \A t \in Stops : server'[t] = "succeeded" => server[t] = "succeeded"
    BY <1>1 DEF PollOnce, Stops
  <2>2. QED
    BY <1>0, <1>1, <2>1, StopFrame DEF PollOnce, helperVars
<1>2. CASE WorkerStep
  <2>0. UNCHANGED <<open, running>>
    BY <1>2
    DEF WorkerStep, helperVars, BeginTask, IntentRecorded, OldStopObserved, StartTask,
        StartTaskOwnershipRefused, TaskExecuted, SaveOutcome, ReportOutcome
  <2>1. ASSUME NEW t \in Tasks, BeginTask(t) PROVE StopInv'
    <3>1. \A q \in requests : ~ q.live
      BY <2>1 DEF BeginTask, StopInv, LiveRequests, TypeInv, TypeOK, Request
    <3>2. LiveRequests' /\ FencedRequests'
      <4>1. CASE requests' = requests
        BY <2>0, <3>1, <4>1 DEF StopInv, LiveRequests, FencedRequests
      <4>2. CASE Send(t, "intent") /\ pc' = "intent" /\ cur' = t /\ reply' = "none"
        BY <2>0, <3>1, <4>2, StopSend
      <4>3. CASE Send(t, "run") /\ pc' = "observe" /\ cur' = t /\ reply' = "none"
        BY <2>0, <3>1, <4>3, StopSend
      <4>4. QED
        BY <2>1, <4>1, <4>2, <4>3 DEF BeginTask, Proceed
    <3>3. StopEvidence'
      BY <1>0, <2>0, <2>1 DEF BeginTask, Proceed, GiveUp, StopInv, StopEvidence, Stopped
    <3>4. QED
      BY <1>0, <3>2, <3>3 DEF StopInv
  <2>2. CASE IntentRecorded
    <3>1. cur \in Tasks /\ \A q \in requests : ~ q.live
      BY <1>0, <2>2 DEF IntentRecorded, StopInv, LiveRequests, TypeInv, Position
    <3>2. LiveRequests' /\ FencedRequests'
      <4>1. CASE requests' = requests
        BY <2>0, <3>1, <4>1 DEF StopInv, LiveRequests, FencedRequests
      <4>2. CASE Send(cur, "run") /\ pc' = "observe" /\ cur' = cur /\ reply' = "none"
        BY <2>0, <3>1, <4>2, StopSend
      <4>3. QED
        BY <2>2, <4>1, <4>2 DEF IntentRecorded, Proceed
    <3>3. StopEvidence'
      BY <1>0, <2>0, <2>2 DEF IntentRecorded, Proceed, GiveUp, StopInv, StopEvidence, Stopped
    <3>4. QED
      BY <1>0, <3>2, <3>3 DEF StopInv
  <2>3. CASE StartTask
    <3>1. cur \in Tasks /\ \A q \in requests : ~ q.live
      BY <1>0, <2>3 DEF StartTask, StopInv, LiveRequests, TypeInv, TypeOK, Request, Position
    <3>2. LiveRequests' /\ FencedRequests'
      <4>1. CASE requests' = requests
        BY <2>0, <3>1, <4>1 DEF StopInv, LiveRequests, FencedRequests
      <4>2. CASE Send(cur, "run") /\ pc' = "exec" /\ cur' = cur /\ reply' = "none"
        BY <2>0, <3>1, <4>2, StopSend
      <4>3. QED
        BY <2>3, <4>1, <4>2 DEF StartTask, StopInv, QuietStart
    <3>3. StopEvidence'
      BY <1>0, <2>0, <2>3 DEF StartTask, GiveUp, StopInv, QuietStart, StopEvidence, Stopped, TypeInv, TypeOK, Stops
    <3>4. QED
      BY <1>0, <3>2, <3>3 DEF StopInv
  <2>4. ASSUME OldStopObserved \/ StartTaskOwnershipRefused \/ TaskExecuted \/ SaveOutcome \/ ReportOutcome
        PROVE  StopInv'
    <3>1. \A q \in requests : ~ q.live
      BY <1>0, <2>4, Zenon
      DEF OldStopObserved, StartTaskOwnershipRefused, TaskExecuted, SaveOutcome, ReportOutcome,
          StopInv, LiveRequests, TypeInv, TypeOK, Request
    <3>2. requests' = requests
      BY <2>4 DEF OldStopObserved, StartTaskOwnershipRefused, TaskExecuted, SaveOutcome, ReportOutcome
    <3>3. LiveRequests' /\ FencedRequests'
      BY <2>0, <3>1, <3>2 DEF StopInv, LiveRequests, FencedRequests
    <3>4. StopEvidence'
      <4> USE <1>0, <2>0 DEF StopInv, StopEvidence, Stopped, GiveUp
      <4>1. CASE OldStopObserved
        BY <4>1 DEF OldStopObserved
      <4>2. CASE StartTaskOwnershipRefused
        BY <4>2 DEF StartTaskOwnershipRefused
      <4>3. CASE TaskExecuted
        BY <4>3 DEF TaskExecuted, TypeInv, TypeOK
      <4>4. CASE SaveOutcome
        BY <4>4 DEF SaveOutcome
      <4>5. CASE ReportOutcome
        BY <4>5 DEF ReportOutcome, Accept, TypeInv, TypeOK, Stops, Position
      <4>6. QED
        BY <2>4, <4>1, <4>2, <4>3, <4>4, <4>5
    <3>5. QED
      BY <1>0, <3>3, <3>4 DEF StopInv
  <2>5. QED
    BY <1>2, <2>1, <2>2, <2>3, <2>4 DEF WorkerStep
<1>3. CASE HelperStep
  <2> PICK q \in requests :
        \/ HelperFence(q) \/ HelperFenceFails(q) \/ HelperRecord(q)
        \/ HelperStart(q) \/ HelperLaunch(q) \/ HelperStop(q) \/ HelperOther(q)
    BY <1>3 DEF HelperStep
  <2>0. q \in Request /\ q.task \in Tasks
    BY <1>0 DEF TypeInv, TypeOK, Request
  <2>1. CASE HelperFence(q)
    BY <1>0, <2>1, StopStage DEF HelperFence, Close, Stopping
  <2>2. CASE HelperFenceFails(q)
    BY <1>0, <2>2, StopAnswer DEF HelperFenceFails, Close
  <2>3. CASE HelperRecord(q)
    BY <1>0, <2>3, StopAnswer DEF HelperRecord, helperVars
  <2>4. CASE HelperStart(q)
    <3>1. q.task \notin Stops /\ UNCHANGED <<open, running, server, sent>>
      BY <2>4 DEF HelperStart, Stops
    <3>2. CASE Answer(q, "ok") \/ Answer(q, "error")
      BY <1>0, <3>1, <3>2, StopAnswer
    <3>3. CASE requests' = (requests \ {q}) \cup {[q EXCEPT !.stage = "saved"]} /\ UNCHANGED workerVars
      BY <1>0, <3>1, <3>3, StopStage, Zenon
    <3>4. QED
      BY <2>4, <3>2, <3>3 DEF HelperStart
  <2>5. CASE HelperLaunch(q)
    <3>1. q.task \notin Stops
      BY <2>5 DEF HelperLaunch, StopInv, FencedRequests, Stops
    <3>2. open' \subseteq open /\ running' \subseteq running \cup open
      BY <2>5, Zenon DEF HelperLaunch, Submit, Admit, Halt, gateVars
    <3>3. PICK v \in {"ok", "error"} : Answer(q, v)
      BY <2>5 DEF HelperLaunch
    <3>4. QED
      BY <1>0, <2>5, <3>1, <3>2, <3>3, StopAnswer, Zenon DEF HelperLaunch
  <2>6. CASE HelperStop(q)
    <3>1. PICK done \in SUBSET SessionsOf[q.task], halted \in SUBSET SessionsOf[q.task] :
            /\ done \subseteq halted /\ running' = running \ halted /\ open' = open
            /\ \/ done = SessionsOf[q.task] /\ Answer(q, "ok")
               \/ Answer(q, "error")
      BY <2>6, Zenon DEF HelperStop, Halt
    <3>2. UNCHANGED <<server, sent>>
      BY <2>6 DEF HelperStop
    <3>3. CASE done = SessionsOf[q.task] /\ Answer(q, "ok")
      <4>1. SessionsOf[q.task] \cap open = {}
        BY <2>6 DEF HelperStop, StopInv, FencedRequests
      <4>2. Stopped(q.task)'
        BY <3>1, <3>3, <4>1 DEF Stopped
      <4>3. QED
        BY <1>0, <3>1, <3>2, <3>3, <4>2, StopAnswer, Zenon
    <3>4. CASE Answer(q, "error")
      BY <1>0, <3>1, <3>2, <3>4, StopAnswer, Zenon
    <3>5. QED
      BY <3>1, <3>3, <3>4, Zenon
  <2>7. CASE HelperOther(q)
    <3>1. q.task \notin Stops
      BY <2>7 DEF HelperOther, Stops
    <3>2. PICK v \in {"ok", "error"} : Answer(q, v)
      BY <2>7 DEF HelperOther
    <3>3. QED
      BY <1>0, <2>7, <3>1, <3>2, StopAnswer, Zenon DEF HelperOther
  <2>8. QED
    BY <2>1, <2>2, <2>3, <2>4, <2>5, <2>6, <2>7
<1>4. CASE Environment
  <2>1. ASSUME NEW t \in Tasks, ExpireLease(t) PROVE StopInv'
    <3>1. \A u \in Stops : server'[u] = "succeeded" => server[u] = "succeeded"
      BY <1>0, <2>1 DEF ExpireLease, TypeInv, TypeOK, Stops
    <3>2. QED
      BY <1>0, <2>1, <3>1, StopFrame DEF ExpireLease, workerVars, helperVars
  <2>2. ASSUME NEW r \in sent, DeliverLate(r) PROVE StopInv'
    <3>1. \A t \in Stops : server'[t] = "succeeded" =>
            server[t] = "succeeded" \/ [task |-> t, outcome |-> "succeeded"] \in sent
      BY <1>0, <2>2 DEF DeliverLate, Accept, TypeInv, TypeOK, Stops, Report
    <3>2. QED
      BY <1>0, <2>2, <3>1, StopFrame DEF DeliverLate, workerVars, helperVars
  <2>3. ASSUME NEW s \in Sessions, RuntimeExit(s) PROVE StopInv'
    BY <1>0, <2>3, StopFrame DEF RuntimeExit, Halt, workerVars
  <2>4. ASSUME CallTimeout \/ HelperRestart \/ WorkerRestart \/ PowerLoss PROVE StopInv'
    <3>1. requests' \in {Orphaned, {}} /\ open' = open /\ running' \subseteq running \cup open
      BY <2>4 DEF CallTimeout, HelperRestart, WorkerRestart, PowerLoss, Halt, Admit, helperVars, gateVars
    <3>2. \A q \in Orphaned : ~ q.live /\ \E p \in requests : p.task = q.task /\ p.stage = q.stage
      BY <1>0 DEF Orphaned, TypeInv, TypeOK, Request
    <3>3. LiveRequests' /\ FencedRequests'
      BY <3>1, <3>2 DEF StopInv, LiveRequests, FencedRequests
    <3>4. StopEvidence'
      <4>1. CASE CallTimeout \/ HelperRestart
        BY <3>1, <4>1, StoppedStays, Zenon DEF CallTimeout, HelperRestart, StopInv, StopEvidence
      <4>2. CASE WorkerRestart \/ PowerLoss
        BY <3>1, <4>2, StoppedStays DEF WorkerRestart, PowerLoss, GiveUp, StopInv, StopEvidence
      <4>3. QED
        BY <2>4, <4>1, <4>2, Zenon
    <3>5. QED
      BY <1>0, <3>3, <3>4 DEF StopInv
  <2>5. QED
    BY <1>4, <2>1, <2>2, <2>3, <2>4 DEF Environment
<1>5. CASE UNCHANGED vars
  BY <1>0, <1>5, StopFrame DEF vars, workerVars, helperVars
<1>6. QED
  BY <1>1, <1>2, <1>3, <1>4, <1>5 DEF Next

\* The success of a stop that the control plane accepted holds for good
\* (StoppedForGood): the intent closed the sessions before the runtime was
\* stopped, so no start that is still in flight can bring one back.
THEOREM StopsHold == Spec => []StoppedForGood
<1>1. StopInv => StoppedForGood
  BY Zenon DEF StopInv, StopEvidence, StoppedForGood, Stopped
<1>2. QED
  BY InitStop, NextStop, <1>1, PTL DEF Spec

-----------------------------------------------------------------------------
(* The worker and the helper together implement SessionGate. *)

LEMMA NextGate == TypeInv /\ [Next]_vars => [GateNext]_gateVars
<1> SUFFICES ASSUME TypeInv, [Next]_vars PROVE GateNext \/ UNCHANGED gateVars
  BY DEF gateVars
<1>1. CASE PollOnce \/ WorkerStep \/ UNCHANGED vars
  BY <1>1
  DEF PollOnce, WorkerStep, helperVars, BeginTask, IntentRecorded, OldStopObserved, StartTask,
      StartTaskOwnershipRefused, TaskExecuted, SaveOutcome, ReportOutcome, vars, gateVars
<1>2. CASE HelperStep
  <2> PICK q \in requests :
        \/ HelperFence(q) \/ HelperFenceFails(q) \/ HelperRecord(q)
        \/ HelperStart(q) \/ HelperLaunch(q) \/ HelperStop(q) \/ HelperOther(q)
    BY <1>2 DEF HelperStep
  <2>0. q.task \in Tasks /\ SessionsOf[q.task] \in SUBSET Sessions
    BY TaskAssumption DEF TypeInv, TypeOK, Request
  <2>1. CASE HelperFence(q)
    BY <2>0, <2>1 DEF HelperFence, GateNext
  <2>2. CASE HelperFenceFails(q)
    <3>1. PICK S \in SUBSET SessionsOf[q.task] : Close(S)
      BY <2>2 DEF HelperFenceFails
    <3>2. QED
      BY <2>0, <3>1 DEF GateNext
  <2>3. CASE HelperLaunch(q)
    <3>1. PICK s \in SessionsOf[q.task] : UNCHANGED gateVars \/ Admit(s) \/ Halt({s})
      BY <2>3 DEF HelperLaunch, Submit
    <3>2. s \in Sessions /\ {s} \in SUBSET Sessions
      BY <2>0
    <3>3. QED
      BY <3>1, <3>2 DEF GateNext
  <2>4. CASE HelperStop(q)
    <3>1. PICK halted \in SUBSET (SessionsOf[q.task] \cap spec) : Halt(halted)
      BY <2>4 DEF HelperStop
    <3>2. halted \in SUBSET Sessions
      BY <2>0
    <3>3. QED
      BY <3>1, <3>2 DEF GateNext
  <2>5. CASE HelperRecord(q) \/ HelperStart(q) \/ HelperOther(q)
    BY <2>5 DEF HelperRecord, HelperStart, HelperOther, helperVars, gateVars
  <2>6. QED
    BY <2>1, <2>2, <2>3, <2>4, <2>5
<1>3. CASE Environment
  <2>1. ASSUME NEW s \in Sessions, RuntimeExit(s) PROVE GateNext
    <3>1. {s} \in SUBSET Sessions /\ Halt({s})
      BY <2>1 DEF RuntimeExit
    <3>2. QED
      BY <3>1 DEF GateNext
  <2>2. CASE PowerLoss
    BY <2>2 DEF PowerLoss, GateNext, TypeInv, TypeOK
  <2>3. CASE HelperRestart
    <3>1. \/ UNCHANGED gateVars
          \/ \E q \in requests : q.task \in Tasks /\ \E s \in SessionsOf[q.task] : Admit(s)
      BY <2>3 DEF HelperRestart, TypeInv, TypeOK, Request
    <3>2. QED
      BY <3>1, TaskAssumption DEF GateNext
  <2>4. QED
    BY <1>3, <2>1, <2>2, <2>3
    DEF Environment, ExpireLease, DeliverLate, CallTimeout, WorkerRestart, helperVars, gateVars
<1>4. QED
  BY <1>1, <1>2, <1>3 DEF Next

\* Whatever the worker, the helper and the failures do, a session is launched
\* only while it is open and a closed one never opens again (Gate).
THEOREM ImplementsGate == Spec => Gate
<1>1. Init => GateInit
  BY DEF Init
<1>2. QED
  BY <1>1, InitType, NextType, NextGate, PTL DEF Spec, Gate, GateSpec
=============================================================================
