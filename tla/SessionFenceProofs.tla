-------------------------- MODULE SessionFenceProofs --------------------------
(***************************************************************************)
(* The fence of the privileged runtime helper implements the gate, and     *)
(* every runtime is accounted for, for every set of sessions and of        *)
(* requests and any number of calls and faults.                            *)
(*                                                                         *)
(* FenceInv says what a handler may rely on at each of its steps: that it  *)
(* is alone in the engine, that the intent lock it submits under keeps the *)
(* session open, that a stop has published its intent before it goes on,   *)
(* and that a launch is recorded before it is submitted.                   *)
(***************************************************************************)
EXTENDS SessionFence, TLAPS

Replies == {"none", "running", "not_started", "spec_ready", "stopped", "recorded", "error"}

FenceTypes ==
  /\ intent \in [Sessions -> {"none", "visible", "durable"}]
  /\ ilock \in [Sessions -> Requests \cup {NoRequest}]
  /\ mu \in Requests \cup {NoRequest}
  /\ running \subseteq Sessions
  /\ journal \in [Sessions -> {"none", "starting", "started"}]
  /\ attempts \in [Sessions -> Nat]
  /\ pc \in [Requests -> PCs]
  /\ reply \in [Requests -> Replies]

\* Server.mu is held from Execute to the response.
OutsideEngine == {"idle", "publish", "enter", "done"}

\* The record that authorises the stop of a session.
Authority(s) == IF s \in Managed THEN journal[s] # "none" ELSE s \in spec

\* One request at a time is in the engine.
EngineIsSerial == \A r \in Requests : pc[r] \notin OutsideEngine => mu = r

\* A launch is submitted under the intent lock of an open session.
SubmitsFenced ==
  \A r \in Requests :
    pc[r] = "submit" => ilock[SessionOf[r]] = r /\ intent[SessionOf[r]] = "none"

\* A stop waits for Server.mu only after its intent is durable.
StopsPublished ==
  \A r \in Requests :
    Op[r] \in StopOps /\ pc[r] \notin {"idle", "publish", "done"} => intent[SessionOf[r]] = "durable"

\* The spec or the journal is written before the launch, and a journal is used once.
LaunchesRecorded ==
  \A r \in Requests :
    pc[r] \in {"admit", "submit"} =>
      /\ Authority(SessionOf[r])
      /\ SessionOf[r] \in Managed => attempts[SessionOf[r]] = 0

\* The result of a stop is stored after its runtime is gone.
Drained ==
  \A r \in Requests :
    pc[r] = "store" /\ Op[r] # "start" => SessionOf[r] \notin running /\ Op[r] \in StopOps

\* Without a journal nothing was submitted.
JournalFirst == \A s \in Managed : journal[s] = "none" => attempts[s] = 0

FenceInv ==
  /\ FenceTypes /\ EngineIsSerial /\ SubmitsFenced /\ StopsPublished
  /\ LaunchesRecorded /\ Drained /\ JournalFirst /\ RuntimesAccounted

-----------------------------------------------------------------------------
(* Each action keeps the invariant. *)

USE FenceAssumption
    DEF locks, store, counts, Goto, PCs, Replies, Ops, StopOps, ManagedOps, FenceInv, FenceTypes,
        OutsideEngine, EngineIsSerial, SubmitsFenced, StopsPublished, LaunchesRecorded,
        Drained, JournalFirst, RuntimesAccounted, Authority

LEMMA IssueKeeps ==
  ASSUME FenceInv, NEW r \in Requests, Issue(r)
  PROVE  FenceInv'
  BY DEF Issue, Goto

LEMMA PublishIntentKeeps ==
  ASSUME FenceInv, NEW r \in Requests, PublishIntent(r)
  PROVE  FenceInv'
  BY DEF PublishIntent, Goto, Succeed, Fail, Fault, NoFault

LEMMA EnterEngineKeeps ==
  ASSUME FenceInv, NEW r \in Requests, EnterEngine(r)
  PROVE  FenceInv'
  BY DEF EnterEngine, Goto

LEMMA LockRuntimeKeeps ==
  ASSUME FenceInv, NEW r \in Requests, LockRuntime(r)
  PROVE  FenceInv'
  BY DEF LockRuntime, Goto

LEMMA RefuseRequestKeeps ==
  ASSUME FenceInv, NEW r \in Requests, RefuseRequest(r)
  PROVE  FenceInv'
  BY DEF RefuseRequest, Goto, Fail, Fault

LEMMA StartSessionKeeps ==
  ASSUME FenceInv, NEW r \in Requests, StartSession(r)
  PROVE  FenceInv'
  BY DEF StartSession, Goto, ReadIntent, AnswerReplay, Succeed, Fail, Fault, NoFault

LEMMA PrepareManagedKeeps ==
  ASSUME FenceInv, NEW r \in Requests, PrepareManaged(r)
  PROVE  FenceInv'
  BY DEF PrepareManaged, Goto, ReadIntent, Succeed, Fail, Fault, NoFault

LEMMA LaunchManagedKeeps ==
  ASSUME FenceInv, NEW r \in Requests, LaunchManaged(r)
  PROVE  FenceInv'
  BY DEF LaunchManaged, Goto, ReadIntent, ResumeLaunch, AnswerReplay, Succeed, Fail, Fault, NoFault

LEMMA RecoverManagedKeeps ==
  ASSUME FenceInv, NEW r \in Requests, RecoverManaged(r)
  PROVE  FenceInv'
  BY DEF RecoverManaged, Goto, ReadIntent, ResumeLaunch, Succeed, Fail, Fault, NoFault

LEMMA StopSessionKeeps ==
  ASSUME FenceInv, NEW r \in Requests, StopSession(r)
  PROVE  FenceInv'
  BY DEF StopSession, Goto, Fail, NoFault

LEMMA AdmitLaunchKeeps ==
  ASSUME FenceInv, NEW r \in Requests, AdmitLaunch(r)
  PROVE  FenceInv'
  BY DEF AdmitLaunch, Goto, ReadIntent, Fault, NoFault

LEMMA PrepareLaunchFailsKeeps ==
  ASSUME FenceInv, NEW r \in Requests, PrepareLaunchFails(r)
  PROVE  FenceInv'
  BY DEF PrepareLaunchFails, Goto, Fail, Fault

LEMMA AdoptTerminalKeeps ==
  ASSUME FenceInv, NEW r \in Requests, AdoptTerminal(r)
  PROVE  FenceInv'
  BY DEF AdoptTerminal, Goto

LEMMA SubmitLaunchKeeps ==
  ASSUME FenceInv, NEW r \in Requests, SubmitLaunch(r)
  PROVE  FenceInv'
  BY DEF SubmitLaunch, Goto, Fault, NoFault

LEMMA WaitForSessionReadyKeeps ==
  ASSUME FenceInv, NEW r \in Requests, WaitForSessionReady(r)
  PROVE  FenceInv'
  BY DEF WaitForSessionReady, Goto, Fault, NoFault

LEMMA FinishLaunchKeeps ==
  ASSUME FenceInv, NEW r \in Requests, FinishLaunch(r)
  PROVE  FenceInv'
  BY DEF FinishLaunch, Goto, ReadIntent, Succeed, Fail, Fault, NoFault

LEMMA StoreResultKeeps ==
  ASSUME FenceInv, NEW r \in Requests, StoreResult(r)
  PROVE  FenceInv'
  BY DEF StoreResult, Goto, Succeed, Fail, Fault, NoFault

LEMMA CleanupFailedLaunchKeeps ==
  ASSUME FenceInv, NEW r \in Requests, CleanupFailedLaunch(r)
  PROVE  FenceInv'
  BY DEF CleanupFailedLaunch, Goto, Fail, Fault, NoFault

LEMMA DrainSessionKeeps ==
  ASSUME FenceInv, NEW r \in Requests, DrainSession(r)
  PROVE  FenceInv'
  BY DEF DrainSession, Goto, Succeed, Fail, Fault, NoFault

LEMMA RuntimeExitKeeps ==
  ASSUME FenceInv, NEW s \in Sessions, RuntimeExit(s)
  PROVE  FenceInv'
  BY DEF RuntimeExit

LEMMA PowerLossKeeps ==
  ASSUME FenceInv, PowerLoss
  PROVE  FenceInv'
  BY DEF PowerLoss, HandlersDie, Fault

HIDE FenceAssumption
    DEF locks, store, counts, Goto, PCs, Replies, Ops, StopOps, ManagedOps, FenceInv, FenceTypes,
        OutsideEngine, EngineIsSerial, SubmitsFenced, StopsPublished, LaunchesRecorded,
        Drained, JournalFirst, RuntimesAccounted, Authority

\* The answer is sent: only the intent may have become durable meanwhile.
LEMMA RespondKeeps ==
  ASSUME FenceInv, NEW r \in Requests, Respond(r)
  PROVE  FenceInv'
  <1>1. /\ intent' \in {intent, [intent EXCEPT ![SessionOf[r]] = "durable"]}
        /\ intent[SessionOf[r]] = "none" => intent' = intent
        /\ reply' \in {reply, [reply EXCEPT ![r] = "error"]}
    BY DEF Respond, ReadIntent
  <1>2. /\ pc[r] = "respond" /\ pc' = [pc EXCEPT ![r] = "done"] /\ mu' = NoRequest
        /\ UNCHANGED <<ilock, running, spec, journal, attempts>>
    BY DEF Respond, Goto, store
  <1>3. /\ \A s \in Sessions : intent'[s] = intent[s] \/ intent'[s] = "durable"
        /\ \A q \in Requests : reply'[q] = reply[q] \/ reply'[q] = "error"
        /\ \A q \in Requests : pc'[q] \in OutsideEngine
        /\ \A q \in Requests : q # r => pc'[q] = pc[q]
    BY <1>1, <1>2 DEF FenceInv, FenceTypes, EngineIsSerial, OutsideEngine
  <1>4. FenceTypes'
    BY <1>1, <1>2, FenceAssumption DEF FenceInv, FenceTypes, PCs, Replies
  <1>5. EngineIsSerial' /\ SubmitsFenced' /\ LaunchesRecorded' /\ Drained'
    BY <1>3 DEF EngineIsSerial, SubmitsFenced, LaunchesRecorded, Drained, OutsideEngine
  <1>6. StopsPublished'
    BY <1>2, <1>3, FenceAssumption, Zenon DEF FenceInv, FenceTypes, StopsPublished
  <1>7. JournalFirst' /\ RuntimesAccounted'
    BY <1>2, <1>3, FenceAssumption DEF FenceInv, JournalFirst, RuntimesAccounted
  <1> QED
    BY <1>4, <1>5, <1>6, <1>7 DEF FenceInv

\* A submission that survives the crash was fenced and recorded.
LEMMA HelperCrashKeeps ==
  ASSUME FenceInv, HelperCrash
  PROVE  FenceInv'
  <1> DEFINE submitting == {SessionOf[r] : r \in {q \in Requests : pc[q] = "submit"}}
  <1>1. /\ \A r \in Requests : pc'[r] \in {"idle", "done"}
        /\ \A r \in Requests : reply'[r] = reply[r] \/ reply'[r] = "error"
        /\ UNCHANGED <<intent, spec, journal>>
        /\ FenceTypes'
    BY FenceAssumption
    DEF HelperCrash, HandlersDie, Fault, store, FenceInv, FenceTypes, PCs, Replies
  <1>2. EngineIsSerial' /\ SubmitsFenced' /\ StopsPublished' /\ LaunchesRecorded' /\ Drained'
    BY <1>1
    DEF EngineIsSerial, SubmitsFenced, StopsPublished, LaunchesRecorded, Drained, OutsideEngine
  <1>3. CASE UNCHANGED <<running, attempts>>
    BY <1>1, <1>2, <1>3 DEF FenceInv, JournalFirst, RuntimesAccounted
  <1>4. CASE /\ running' = running \cup submitting
             /\ attempts' = [s \in Sessions |-> IF s \in submitting THEN attempts[s] + 1 ELSE attempts[s]]
    <2>1. \A s \in submitting :
            /\ s \in Sessions /\ intent[s] = "none" /\ Authority(s)
            /\ s \in Managed => journal[s] # "none" /\ attempts[s] = 0
      BY FenceAssumption DEF FenceInv, SubmitsFenced, LaunchesRecorded, Authority
    <2> HIDE DEF submitting
    <2>2. JournalFirst'
      BY <1>1, <1>4, <2>1, FenceAssumption DEF FenceInv, FenceTypes, JournalFirst
    <2>3. RuntimesAccounted'
      BY <1>1, <1>4, <2>1, FenceAssumption DEF FenceInv, FenceTypes, RuntimesAccounted, Authority
    <2> QED BY <1>1, <1>2, <2>2, <2>3 DEF FenceInv
  <1> QED BY <1>3, <1>4 DEF HelperCrash

LEMMA InitFence == Init => FenceInv
  BY FenceAssumption
  DEF Init, FenceInv, FenceTypes, EngineIsSerial, SubmitsFenced, StopsPublished, LaunchesRecorded,
      Drained, JournalFirst, RuntimesAccounted, OutsideEngine, PCs, Replies

LEMMA StutterKeeps ==
  ASSUME FenceInv, UNCHANGED vars
  PROVE  FenceInv'
  BY DEF vars, locks, store, FenceInv, FenceTypes, EngineIsSerial, SubmitsFenced, StopsPublished,
      LaunchesRecorded, Drained, JournalFirst, RuntimesAccounted, Authority

LEMMA FenceStep == FenceInv /\ [Next]_vars => FenceInv'
  <1> SUFFICES ASSUME FenceInv, [Next]_vars PROVE FenceInv'
    OBVIOUS
  <1>1. ASSUME NEW r \in Requests, Issue(r) PROVE FenceInv'
    BY <1>1, IssueKeeps
  <1>2. ASSUME NEW r \in Requests, Serve(r) PROVE FenceInv'
    <2>1. CASE PublishIntent(r) \/ EnterEngine(r) \/ LockRuntime(r) \/ RefuseRequest(r) \/ Respond(r)
      BY <2>1, PublishIntentKeeps, EnterEngineKeeps, LockRuntimeKeeps, RefuseRequestKeeps, RespondKeeps
    <2>2. CASE \/ StartSession(r) \/ PrepareManaged(r) \/ LaunchManaged(r) \/ RecoverManaged(r)
               \/ StopSession(r)
      BY <2>2, StartSessionKeeps, PrepareManagedKeeps, LaunchManagedKeeps, RecoverManagedKeeps,
         StopSessionKeeps
    <2>3. CASE \/ AdmitLaunch(r) \/ PrepareLaunchFails(r) \/ AdoptTerminal(r) \/ SubmitLaunch(r)
               \/ WaitForSessionReady(r) \/ FinishLaunch(r)
      BY <2>3, AdmitLaunchKeeps, PrepareLaunchFailsKeeps, AdoptTerminalKeeps, SubmitLaunchKeeps,
         WaitForSessionReadyKeeps, FinishLaunchKeeps
    <2>4. CASE StoreResult(r) \/ CleanupFailedLaunch(r) \/ DrainSession(r)
      BY <2>4, StoreResultKeeps, CleanupFailedLaunchKeeps, DrainSessionKeeps
    <2> QED BY <1>2, <2>1, <2>2, <2>3, <2>4 DEF Serve
  <1>3. ASSUME NEW s \in Sessions, RuntimeExit(s) PROVE FenceInv'
    BY <1>3, RuntimeExitKeeps
  <1>4. CASE HelperCrash \/ PowerLoss
    BY <1>4, HelperCrashKeeps, PowerLossKeeps
  <1>5. CASE UNCHANGED vars
    BY <1>5, StutterKeeps
  <1> QED BY <1>1, <1>2, <1>3, <1>4, <1>5 DEF Next

LEMMA FenceInvariant == Spec => []FenceInv
  BY InitFence, FenceStep, PTL DEF Spec

\* Every live runtime has the record that authorises its stop, an answered stop
\* stays true, and a managed unit is submitted at most once
\* (engine.go:855-860 and 1298-1349, managed_launch_linux.go:57-153).
THEOREM RuntimesAreAccounted == Spec => []RuntimesAccounted
  <1>1. FenceInv => RuntimesAccounted
    BY DEF FenceInv
  <1> QED BY <1>1, FenceInvariant, PTL

-----------------------------------------------------------------------------
(* The fence implements the gate. *)

\* The three kinds of step of the gate.
LEMMA Closing ==
  ASSUME FenceInv, FenceInv', running' = running,
         \A s \in Sessions : intent[s] = "durable" => intent'[s] = "durable"
  PROVE  Gate!GateNext
  <1> DEFINE closed == {s \in Sessions : intent'[s] = "durable"}
  <1>1. closed \in SUBSET Sessions
    OBVIOUS
  <1>2. PICK S \in SUBSET Sessions : S = closed
    BY <1>1, Zenon
  <1>3. Gate!Close(S)
    BY <1>2 DEF Gate!Close
  <1> QED BY <1>3 DEF Gate!GateNext

LEMMA Halting ==
  ASSUME FenceInv, running' \subseteq running,
         \A s \in Sessions : intent'[s] = "durable" <=> intent[s] = "durable"
  PROVE  Gate!GateNext
  <1> DEFINE halted == running \ running'
  <1>1. Gate!Halt(halted)
    BY DEF Gate!Halt
  <1>2. halted \in SUBSET Sessions
    BY DEF FenceInv, FenceTypes
  <1> QED BY <1>1, <1>2 DEF Gate!GateNext

LEMMA Admitting ==
  ASSUME FenceInv, NEW s \in Sessions, intent[s] = "none",
         running' = running \cup {s}, intent' = intent
  PROVE  Gate!GateNext
  <1>1. Gate!Admit(s)
    BY DEF Gate!Admit
  <1> QED BY <1>1 DEF Gate!GateNext

\* A handler that neither submits nor stops a runtime can only close its session.
LEMMA QuietServe ==
  ASSUME FenceInv, NEW r \in Requests, Issue(r) \/ Serve(r),
         ~SubmitLaunch(r), ~CleanupFailedLaunch(r), ~DrainSession(r)
  PROVE  /\ running' = running
         /\ \A s \in Sessions : intent[s] = "durable" => intent'[s] = "durable"
  <1> USE FenceAssumption DEF FenceInv, FenceTypes, NoFault
  <1>1. CASE Issue(r) \/ EnterEngine(r) \/ LockRuntime(r) \/ RefuseRequest(r) \/ StopSession(r)
    BY <1>1 DEF Issue, EnterEngine, LockRuntime, RefuseRequest, StopSession
  <1>2. CASE PublishIntent(r)
    BY <1>2 DEF PublishIntent
  <1>3. CASE Respond(r) \/ StartSession(r) \/ PrepareManaged(r)
    BY <1>3 DEF Respond, StartSession, PrepareManaged, ReadIntent
  <1>4. CASE LaunchManaged(r) \/ RecoverManaged(r)
    BY <1>4 DEF LaunchManaged, RecoverManaged, ReadIntent
  <1>5. CASE AdmitLaunch(r) \/ FinishLaunch(r)
    BY <1>5 DEF AdmitLaunch, FinishLaunch, ReadIntent
  <1>6. CASE PrepareLaunchFails(r) \/ AdoptTerminal(r) \/ WaitForSessionReady(r) \/ StoreResult(r)
    BY <1>6 DEF PrepareLaunchFails, AdoptTerminal, WaitForSessionReady, StoreResult
  <1> QED BY <1>1, <1>2, <1>3, <1>4, <1>5, <1>6 DEF Serve

LEMMA GateStep == FenceInv /\ FenceInv' /\ [Next]_vars => [Gate!GateNext]_(Gate!gateVars)
  <1> SUFFICES ASSUME FenceInv, FenceInv', [Next]_vars
               PROVE  Gate!GateNext \/ UNCHANGED Gate!gateVars
    OBVIOUS
  <1>1. ASSUME NEW r \in Requests, SubmitLaunch(r) PROVE Gate!GateNext
    <2>1. SessionOf[r] \in Sessions /\ intent[SessionOf[r]] = "none" /\ intent' = intent
      BY <1>1, FenceAssumption DEF SubmitLaunch, FenceInv, SubmitsFenced
    <2>2. running' = running \/ running' = running \cup {SessionOf[r]}
      BY <1>1 DEF SubmitLaunch
    <2> QED BY <2>1, <2>2, Closing, Admitting
  <1>2. ASSUME NEW r \in Requests, CleanupFailedLaunch(r) \/ DrainSession(r) PROVE Gate!GateNext
    <2>1. running' \subseteq running /\ intent' = intent
      BY <1>2 DEF CleanupFailedLaunch, DrainSession
    <2> QED BY <2>1, Halting
  <1>3. ASSUME NEW r \in Requests, Issue(r) \/ Serve(r) PROVE Gate!GateNext
    BY <1>1, <1>2, <1>3, QuietServe, Closing
  <1>4. ASSUME NEW s \in Sessions, RuntimeExit(s) PROVE Gate!GateNext
    <2>1. running' \subseteq running /\ intent' = intent
      BY <1>4 DEF RuntimeExit
    <2> QED BY <2>1, Halting
  <1>5. CASE HelperCrash
    <2> DEFINE submitting == {SessionOf[r] : r \in {q \in Requests : pc[q] = "submit"}}
    <2>1. intent' = intent /\ (running' = running \/ running' = running \cup submitting)
      BY <1>5 DEF HelperCrash
    <2>2. CASE running' = running
      BY <2>1, <2>2, Closing
    <2>3. CASE running' # running
      <3>1. PICK r \in Requests : pc[r] = "submit"
        BY <2>1, <2>3
      <3>2. \A q \in Requests : pc[q] = "submit" => q = r
        BY <3>1 DEF FenceInv, EngineIsSerial, OutsideEngine
      <3>3. running' = running \cup {SessionOf[r]}
        BY <2>1, <2>3, <3>1, <3>2
      <3>4. SessionOf[r] \in Sessions /\ intent[SessionOf[r]] = "none"
        BY <3>1, FenceAssumption DEF FenceInv, SubmitsFenced
      <3> QED BY <2>1, <3>3, <3>4, Admitting
    <2> QED BY <2>2, <2>3
  <1>6. CASE PowerLoss
    <2>1. running' \subseteq running
      BY <1>6 DEF PowerLoss
    <2>2. \A s \in Sessions : intent'[s] = "durable" <=> intent[s] = "durable"
      BY <1>6 DEF PowerLoss
    <2> QED BY <2>1, <2>2, Halting
  <1>7. CASE UNCHANGED vars
    BY <1>7 DEF vars, Gate!gateVars
  <1> QED BY <1>3, <1>4, <1>5, <1>6, <1>7 DEF Next

\* The locks, the intents and the journal of the helper implement the gate: no
\* session is launched once its stop is durable, and a stop is permanent, for any
\* number of sessions and requests and whatever crashes between
\* (session_lifecycle_linux.go:112-233).
THEOREM FenceImplementsGate == Spec => ImplementsGate
  <1>1. Init => Gate!GateInit
    BY DEF Init, Gate!GateInit
  <1> QED BY <1>1, FenceInvariant, GateStep, PTL DEF Spec, ImplementsGate, Gate!GateSpec

=============================================================================
