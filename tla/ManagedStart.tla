----------------------------- MODULE ManagedStart -----------------------------
(***************************************************************************)
(* The start of a managed session by the worker: the startup task that     *)
(* launches the runtime under a renewed lease and publishes the outcome,   *)
(* the journal of that outcome in the task ledger, the loop that settles   *)
(* proposals whose acknowledgement was lost, and the admission gate that   *)
(* keeps the finalization loop from draining a runtime being started.      *)
(*                                                                         *)
(* One session and its one startup task.  The helper's operations are      *)
(* atomic here; SessionFence has their interleavings.                      *)
(***************************************************************************)
EXTENDS Naturals

CONSTANTS MaxAttempts,  \* how often the control plane leases the task
          MaxFaults     \* how many failures of the environment a behaviour has

ASSUME StartAssumption == MaxAttempts \in Nat \ {0} /\ MaxFaults \in Nat

Attempts == 1 .. MaxAttempts
Outcome == [attempt : Attempts, kind : {"running", "stopped"}]
NoOutcome == [attempt |-> 0, kind |-> "none"]

\* A nonce is random.  What survives of old ones is the runtime's and the
\* granted one, so a third value is always fresh.
Nonces == 1 .. 3
NoNonce == 0

VARIABLES
  ego,       \* whether the session has the browser, and so a peer to admit
  status, attempt, accepted,  \* the control plane's task, lease and result
  sent,      \* confirmations on their way that the control plane would not refuse
  entry,     \* the ledger's entry of the task
  closed, prepared, launched, running, ended, nonce,  \* the helper's session
  late,      \* a cancellation whose caller gave up is still in the helper
  reg, peer, \* the broker's registration and whether its peer is authorized
  granted,   \* managedRuntimeAdmissions.granted
  gate,      \* holder of managedRuntimeAdmissions.gate
  pc, job,   \* executeManagedStartup
  ipc, ient, iobs,  \* inspectPendingManagedStarts
  draining,  \* the finalization loop saw a runtime it must drain
  faults

server == <<status, attempt, accepted>>
helper == <<closed, prepared, launched, running, ended, nonce, late>>
broker == <<reg, peer>>
inspection == <<ipc, ient, iobs>>
vars == <<ego, server, sent, entry, helper, broker, granted, gate, pc, job, inspection, draining, faults>>

Entry == [status : {"none", "pending", "confirmed", "retired"},
          outcome : Outcome \cup {NoOutcome}, evidence : 0 .. MaxAttempts]
NoEntry == [status |-> "none", outcome |-> NoOutcome, evidence |-> 0]

Statuses == {"queued", "leased", "cancelled", "done"}
Observation == [accepted : BOOLEAN, status : Statuses, attempt : 0 .. MaxAttempts]
NoObservation == [accepted |-> FALSE, status |-> "queued", attempt |-> 0]

Job == [att : 0 .. MaxAttempts, prev : Entry, obs : Observation, nonce : Nonces \cup {NoNonce},
        made : BOOLEAN, authorized : BOOLEAN, admitted : BOOLEAN, live : BOOLEAN,
        kind : {"none", "running", "stopped"}, result : {"none", "running", "stopped"}]
NoJob == [att |-> 0, prev |-> NoEntry, obs |-> NoObservation, nonce |-> NoNonce,
          made |-> FALSE, authorized |-> FALSE, admitted |-> FALSE, live |-> FALSE,
          kind |-> "none", result |-> "none"]

PCs == {"idle", "lock", "inspect", "decide", "lease", "recover", "prepare", "authorize",
        "launch", "propose", "send", "await", "ack", "cancel", "finish", "stop"}
\* Where the work function of withSnapshotLease runs.
Working == {"recover", "prepare", "authorize", "launch", "propose", "send", "await", "ack"}

TypeOK ==
  /\ ego \in BOOLEAN
  /\ status \in Statuses /\ attempt \in 0 .. MaxAttempts
  /\ accepted \in Outcome \cup {NoOutcome}
  /\ sent \subseteq Outcome
  /\ entry \in Entry
  /\ closed \in BOOLEAN /\ prepared \in BOOLEAN /\ launched \in BOOLEAN
  /\ running \in BOOLEAN /\ ended \in BOOLEAN /\ late \in BOOLEAN
  /\ nonce \in Nonces \cup {NoNonce} /\ reg \in Nonces \cup {NoNonce} /\ peer \in BOOLEAN
  /\ granted \in Nonces \cup {NoNonce}
  /\ gate \in {"free", "startup", "finalization"}
  /\ pc \in PCs /\ job \in Job
  /\ ipc \in {"idle", "call", "apply"} /\ ient \in Entry /\ iobs \in Observation
  /\ draining \in BOOLEAN
  /\ faults \in 0 .. MaxFaults

Init ==
  /\ ego \in BOOLEAN
  /\ status = "queued" /\ attempt = 0 /\ accepted = NoOutcome /\ sent = {}
  /\ entry = NoEntry
  /\ closed = FALSE /\ prepared = FALSE /\ launched = FALSE /\ running = FALSE /\ ended = FALSE /\ late = FALSE
  /\ nonce = NoNonce /\ reg = NoNonce /\ peer = FALSE
  /\ granted = NoNonce /\ gate = "free"
  /\ pc = "idle" /\ job = NoJob
  /\ ipc = "idle" /\ ient = NoEntry /\ iobs = NoObservation
  /\ draining = FALSE /\ faults = 0

Fault == faults < MaxFaults /\ faults' = faults + 1
NoFault == UNCHANGED faults

-----------------------------------------------------------------------------
(* The control plane. *)

\* A later lease, a cancellation and an acceptance fence the confirmations sent
\* before them; the expiry of a lease does not, and does not stop its worker.
ExpireLease ==
  /\ status = "leased" /\ status' = "queued"
  /\ UNCHANGED <<ego, attempt, accepted, sent, entry, helper, broker, granted, gate, pc, job, inspection, draining, faults>>

CancelTask ==
  /\ status \in {"queued", "leased"} /\ status' = "cancelled" /\ sent' = {}
  /\ UNCHANGED <<ego, attempt, accepted, entry, helper, broker, granted, gate, pc, job, inspection, draining, faults>>

Acceptable(o) == status \in {"queued", "leased"} /\ o.attempt = attempt

\* A confirmation arrives, however late.
AcceptConfirmation(o) ==
  /\ o \in sent /\ Acceptable(o)
  /\ accepted' = o /\ status' = "done" /\ sent' = {}
  /\ UNCHANGED <<ego, attempt, entry, helper, broker, granted, gate, pc, job, inspection, draining, faults>>

\* InspectManagedSessionStart.
Observe(o) == [accepted |-> accepted = o, status |-> status, attempt |-> attempt]

\* What the client accepts as an answer about outcome o.
Consistent(o) == accepted \in {NoOutcome, o}

-----------------------------------------------------------------------------
(* The journal. *)

\* confirm: the exact proposal that was accepted, or nothing.
Confirm(p) ==
  entry' = IF entry = p /\ p.status = "pending" THEN [p EXCEPT !.status = "confirmed"] ELSE entry

\* Mutant: only the lease of the proposal itself can be seen cancelled.
CancelledSameLease(o, seen) == ~seen.accepted /\ seen.status = "cancelled" /\ seen.attempt = o.attempt

\* cancelledManagedStart.
CancelledStart(o, seen) == ~seen.accepted /\ seen.status = "cancelled" /\ seen.attempt >= o.attempt

Retire(p, seen) ==
  entry' = IF entry = p /\ p.status = "pending" /\ CancelledStart(p.outcome, seen)
           THEN [p EXCEPT !.status = "retired", !.evidence = seen.attempt] ELSE entry

\* Mutant: a proposal of the same lease is replaced as well.
ReplaceableSameLease(p, seen, o) ==
  /\ p.status = "pending" /\ ~seen.accepted /\ seen.status = "leased"
  /\ seen.attempt = o.attempt /\ o.attempt >= p.outcome.attempt

\* propose: only a proposal of an earlier, fenced lease is replaced.
Replaceable(p, seen, o) ==
  /\ p.status = "pending" /\ ~seen.accepted /\ seen.status = "leased"
  /\ seen.attempt = o.attempt /\ o.attempt > p.outcome.attempt

-----------------------------------------------------------------------------
(* executeManagedStartup. *)

Goto(label) == pc' = label
Set(field, value) == job' = [job EXCEPT ![field] = value]

\* The queue delivers the task under a new lease, or again under the current one.
Poll ==
  /\ pc = "idle" /\ entry.status # "retired"
  /\ \/ status = "leased" /\ UNCHANGED <<status, attempt, sent>>
     \/ status = "queued" /\ attempt < MaxAttempts /\ status' = "leased" /\ attempt' = attempt + 1 /\ sent' = {}
  /\ job' = [NoJob EXCEPT !.att = attempt'] /\ Goto("lock")
  /\ UNCHANGED <<ego, accepted, entry, helper, broker, granted, gate, inspection, draining, faults>>

\* RegisterToolSession: an existing registration keeps its nonce.
Registered == IF ~ego THEN NoNonce
              ELSE IF reg # NoNonce THEN reg
              ELSE CHOOSE n \in Nonces : n \notin {nonce, granted}

\* managedAdmissions.lock, prepareManagedSessionPeer and the load of the journal.
LockAdmissions ==
  /\ pc = "lock" /\ gate = "free"
  /\ gate' = "startup" /\ reg' = Registered /\ peer' = (peer /\ reg # NoNonce)
  /\ job' = [job EXCEPT !.nonce = Registered, !.made = ego /\ reg = NoNonce, !.prev = entry]
  /\ Goto(CASE entry.status = "retired" -> "finish"
            [] entry.status = "none" -> "lease"
            [] OTHER -> "inspect")
  /\ UNCHANGED <<ego, server, sent, entry, helper, granted, inspection, draining, faults>>

InspectPrevious ==
  /\ pc = "inspect"
  /\ \/ Consistent(job.prev.outcome) /\ Set("obs", Observe(job.prev.outcome)) /\ Goto("decide") /\ NoFault
     \/ Goto("finish") /\ UNCHANGED job /\ IF Consistent(job.prev.outcome) THEN Fault ELSE NoFault
  /\ UNCHANGED <<ego, server, sent, entry, helper, broker, granted, gate, inspection, draining>>

\* An earlier proposal is settled, waited for, or outlived by this lease.
DecidePrevious ==
  /\ pc = "decide"
  /\ LET p == job.prev  seen == job.obs IN
       \/ /\ seen.accepted /\ Set("result", p.outcome.kind) /\ Goto("finish")
          /\ \/ Confirm(p) /\ NoFault
             \/ UNCHANGED entry /\ Fault
       \/ /\ ~seen.accepted /\ seen.status = "cancelled" /\ Goto("finish") /\ UNCHANGED job
          /\ \/ Retire(p, seen) /\ NoFault
             \/ UNCHANGED entry /\ Fault
       \/ /\ ~seen.accepted /\ seen.status # "cancelled"
          /\ Goto(IF p.status = "confirmed" \/ seen.attempt # job.att \/ job.att < p.outcome.attempt
                  THEN "finish" ELSE "lease")
          /\ NoFault /\ UNCHANGED <<entry, job>>
  /\ UNCHANGED <<ego, server, sent, helper, broker, granted, gate, inspection, draining>>

\* withTaskLease renews once before any work, then the snapshot is fetched.
AcquireLease ==
  /\ pc = "lease"
  /\ \/ status = "leased" /\ attempt = job.att /\ Set("live", TRUE) /\ Goto("recover") /\ NoFault
     \/ (status # "leased" \/ attempt # job.att) /\ Goto("finish") /\ NoFault /\ UNCHANGED job
     \/ Goto("finish") /\ Fault /\ UNCHANGED job
  /\ UNCHANGED <<ego, server, sent, entry, helper, broker, granted, gate, inspection, draining>>

\* maintainTaskLease fails and cancels the work, at any point of it.  The
\* acceptance of the outcome itself ends the lease as well.
LoseLease ==
  /\ pc \in Working /\ job.live /\ Set("live", FALSE)
  /\ IF status = "leased" /\ attempt = job.att THEN Fault ELSE NoFault
  /\ UNCHANGED <<ego, server, sent, entry, helper, broker, granted, gate, pc, inspection, draining>>

\* The step finds its context cancelled, or fails.
StepFails ==
  /\ pc \in {"prepare", "authorize", "launch", "propose", "send"}
  /\ Goto("cancel")
  /\ IF job.live THEN Fault ELSE NoFault
  /\ UNCHANGED <<ego, server, sent, entry, helper, broker, granted, gate, job, inspection, draining>>

\* Mutant: a registration with an authorized peer is enough.
OwnPeerRegistered == ego => (reg = job.nonce /\ nonce \in Nonces)

\* managedSessionPeer.recover: this process granted this very nonce.
OwnPeer == ego => (granted = job.nonce /\ reg = job.nonce /\ peer)

\* RecoverManagedSessionExecution comes first and never launches.
RecoverRuntime ==
  /\ pc = "recover"
  /\ \/ ~job.live /\ Goto("finish") /\ NoFault /\ UNCHANGED <<job, ended>>
     \/ (~job.live \/ closed) /\ Goto("cancel") /\ NoFault /\ UNCHANGED <<job, ended>>
     \/ Goto("cancel") /\ Fault /\ UNCHANGED <<job, ended>>
     \/ /\ job.live /\ ~closed /\ NoFault
        /\ \/ ~launched /\ Goto("prepare") /\ UNCHANGED <<job, ended>>
           \/ /\ launched /\ running /\ ~ended /\ UNCHANGED ended
              /\ IF OwnPeer THEN job' = [job EXCEPT !.admitted = TRUE, !.kind = "running"] /\ Goto("propose")
                 ELSE Goto("cancel") /\ UNCHANGED job
           \/ /\ launched /\ (ended \/ ~running)
              /\ ended' = TRUE /\ Set("kind", "stopped") /\ Goto("propose")
  /\ UNCHANGED <<ego, late, server, sent, entry, closed, prepared, launched, running, nonce, broker, granted, gate, inspection, draining>>

PrepareSnapshot ==
  /\ pc = "prepare" /\ job.live
  /\ IF closed \/ ended THEN Goto("cancel") /\ UNCHANGED prepared ELSE prepared' = TRUE /\ Goto("authorize")
  /\ UNCHANGED <<ego, late, server, sent, entry, closed, launched, running, ended, nonce, broker, granted, gate, job, inspection, draining, faults>>

AuthorizePeer ==
  /\ pc = "authorize" /\ job.live
  /\ IF ego /\ reg # job.nonce THEN Goto("cancel") /\ UNCHANGED <<peer, job>>
     ELSE /\ peer' = ego /\ Goto("launch")
          /\ job' = [job EXCEPT !.admitted = TRUE, !.authorized = ego]
  /\ UNCHANGED <<ego, server, sent, entry, helper, reg, granted, gate, inspection, draining, faults>>

\* StartManagedSessionExecution.  A failed launch may have submitted the unit,
\* and its cleanup may have failed as well.
LaunchRuntime ==
  /\ pc = "launch"
  /\ \/ /\ closed \/ launched \/ ended
        /\ Goto("cancel") /\ NoFault /\ UNCHANGED <<job, launched, running, ended, nonce>>
     \/ /\ ~closed /\ ~launched /\ ~ended
        /\ launched' = TRUE /\ nonce' = job.nonce
        /\ \/ /\ job.live /\ running' = TRUE /\ UNCHANGED ended /\ NoFault
              /\ Set("kind", "running") /\ Goto("propose")
           \/ /\ Fault /\ Goto("cancel") /\ UNCHANGED job
              /\ \/ running' = TRUE /\ UNCHANGED ended
                 \/ running' = FALSE /\ ended' = TRUE
  /\ UNCHANGED <<ego, late, server, sent, entry, closed, prepared, broker, granted, gate, inspection, draining>>

Proposal == [attempt |-> job.att, kind |-> job.kind]

\* confirmManagedStart persists the outcome before it is sent.
Propose ==
  /\ pc = "propose" /\ job.live
  /\ LET p == job.prev  pending == [status |-> "pending", outcome |-> Proposal, evidence |-> 0] IN
       \/ /\ p.status # "none" /\ p.outcome = Proposal /\ UNCHANGED entry
          /\ IF entry.outcome = Proposal /\ entry.status = "confirmed"
             THEN Set("result", job.kind) /\ Goto("finish")
             ELSE /\ Goto(IF entry.outcome = Proposal /\ entry.status = "pending" THEN "send" ELSE "cancel")
                  /\ UNCHANGED job
       \/ /\ p.outcome # Proposal /\ UNCHANGED job
          /\ IF entry = p /\ (p.status = "none" \/ Replaceable(p, job.obs, Proposal))
             THEN entry' = pending /\ Goto("send")
             ELSE UNCHANGED entry /\ Goto("cancel")
  /\ UNCHANGED <<ego, server, sent, helper, broker, granted, gate, inspection, draining, faults>>

SendConfirmation ==
  /\ pc = "send" /\ job.live
  /\ sent' = sent \cup {Proposal} /\ Goto("await")
  /\ UNCHANGED <<ego, server, entry, helper, broker, granted, gate, job, inspection, draining, faults>>

\* ConfirmManagedSessionStart returns the receipt, a refusal, or nothing in time.
AwaitReceipt ==
  /\ pc = "await"
  /\ \/ accepted = Proposal /\ Set("result", job.kind) /\ Goto("ack") /\ NoFault
     \/ Goto("cancel") /\ NoFault /\ UNCHANGED job
  /\ UNCHANGED <<ego, server, sent, entry, helper, broker, granted, gate, inspection, draining>>

\* The receipt wins over a lost lease and over a failed local write.
Acknowledge ==
  /\ pc = "ack" /\ Goto("finish")
  /\ \/ Confirm([status |-> "pending", outcome |-> Proposal, evidence |-> 0]) /\ NoFault
     \/ UNCHANGED entry /\ Fault
  /\ UNCHANGED <<ego, server, sent, helper, broker, granted, gate, job, inspection, draining>>

\* CancelManagedSession: the stop intent is recorded first, then the runtime drained.
CancelRuntime ==
  /\ pc = "cancel" /\ Goto("finish")
  /\ \/ closed' = TRUE /\ running' = FALSE /\ ended' = (ended \/ launched) /\ NoFault /\ UNCHANGED late
     \/ /\ Fault /\ UNCHANGED <<running, ended>>
        /\ \/ closed' = TRUE /\ UNCHANGED late
           \/ late' = TRUE /\ UNCHANGED closed
  /\ UNCHANGED <<ego, server, sent, entry, prepared, launched, nonce, broker, granted, gate, job, inspection, draining>>

\* The helper executes a cancellation that its caller no longer waits for.
CancelLate ==
  /\ late /\ late' = FALSE
  /\ closed' = TRUE /\ running' = FALSE /\ ended' = (ended \/ launched)
  /\ UNCHANGED <<ego, server, sent, entry, prepared, launched, nonce, broker, granted, gate, pc, job, inspection, draining, faults>>

\* remember, rollbackRegistration and unlock.
FinishStartup ==
  /\ pc = "finish"
  /\ granted' = IF job.authorized THEN job.nonce ELSE granted
  /\ IF (job.result # "running" \/ ~job.admitted) /\ job.made /\ reg = job.nonce
     THEN reg' = NoNonce /\ peer' = FALSE ELSE UNCHANGED broker
  /\ gate' = "free" /\ Goto("idle") /\ job' = NoJob
  /\ UNCHANGED <<ego, server, sent, entry, helper, inspection, draining, faults>>

\* executeManagedStop, from the same serial task loop, closes the session before
\* it waits for the gate.  The answer of the helper may be lost.
RecordStopIntent ==
  /\ pc = "idle"
  /\ \/ closed' = TRUE /\ Goto("stop") /\ NoFault
     \/ closed' \in {closed, TRUE} /\ UNCHANGED pc /\ Fault
  /\ UNCHANGED <<ego, late, server, sent, entry, prepared, launched, running, ended, nonce, broker, granted, gate, job, inspection, draining>>

\* Under the gate the browser is gone whatever becomes of the stop; the grant
\* only when it succeeds.  A failed stop may have stopped the runtime and not
\* captured it.  Without the second intent or the gate nothing is done.
StopManagedWriters ==
  /\ pc = "stop" /\ Goto("idle")
  /\ \/ /\ gate = "free" /\ reg' = NoNonce /\ peer' = FALSE
        /\ \/ prepared /\ running' = FALSE /\ ended' = TRUE /\ granted' = NoNonce /\ NoFault
           \/ ~prepared /\ NoFault /\ UNCHANGED <<running, ended, granted>>
           \/ Fault /\ running' \in {running, FALSE} /\ UNCHANGED <<ended, granted>>
     \/ Fault /\ UNCHANGED <<broker, running, ended, granted>>
  /\ UNCHANGED <<ego, late, server, sent, entry, closed, prepared, launched, nonce, gate, job, inspection, draining>>

-----------------------------------------------------------------------------
(* inspectPendingManagedStarts, in a loop of its own. *)

ListPending ==
  /\ ipc = "idle" /\ entry.status = "pending"
  /\ ient' = entry /\ ipc' = "call"
  /\ UNCHANGED <<ego, server, sent, entry, helper, broker, granted, gate, pc, job, iobs, draining, faults>>

InspectPending ==
  /\ ipc = "call"
  /\ \/ Consistent(ient.outcome) /\ iobs' = Observe(ient.outcome) /\ ipc' = "apply" /\ NoFault /\ UNCHANGED ient
     \/ /\ ipc' = "idle" /\ ient' = NoEntry /\ UNCHANGED iobs
        /\ IF Consistent(ient.outcome) THEN Fault ELSE NoFault
  /\ UNCHANGED <<ego, server, sent, entry, helper, broker, granted, gate, pc, job, draining>>

SettlePending ==
  /\ ipc = "apply" /\ ipc' = "idle" /\ ient' = NoEntry /\ iobs' = NoObservation
  /\ \/ /\ NoFault
        /\ IF iobs.accepted THEN Confirm(ient)
           ELSE IF iobs.status = "cancelled" THEN Retire(ient, iobs) ELSE UNCHANGED entry
     \/ UNCHANGED entry /\ Fault
  /\ UNCHANGED <<ego, server, sent, helper, broker, granted, gate, pc, job, draining>>

-----------------------------------------------------------------------------
(* managedFinalizationReader, in the finalization loop. *)

Forget ==
  /\ granted' = NoNonce
  /\ IF granted # NoNonce /\ reg = granted THEN reg' = NoNonce /\ peer' = FALSE ELSE UNCHANGED broker

\* Mutant: a remembered grant is trusted without asking the broker.
AdmittedByGrant == granted # NoNonce

\* VerifyToolSessionPeer for the grant this process remembers.
Admitted == granted # NoNonce /\ reg = granted /\ peer

\* Mutant: the observation does not wait for a startup to finish.
ReconcileUngated ==
  /\ ~draining /\ prepared
  /\ \/ launched /\ running /\ ~ended /\ ~Admitted /\ draining' = TRUE /\ UNCHANGED <<ended, broker, granted>>
     \/ launched /\ ~running /\ ended' = TRUE /\ Forget /\ UNCHANGED draining
  /\ UNCHANGED <<ego, late, server, sent, entry, closed, prepared, launched, running, nonce, gate, pc, job, inspection, faults>>

\* ListSkillFinalizations and ReconcileSkillSession.  The gate is kept only for
\* the drain; everything else is one call of the helper.
ReconcileSession ==
  /\ ~draining /\ prepared /\ gate = "free"
  /\ \/ ended /\ Forget /\ UNCHANGED <<ended, draining, gate>>
     \/ ~ended /\ ~launched /\ Forget /\ UNCHANGED <<ended, draining, gate>>
     \/ ~ended /\ launched /\ ~running /\ ended' = TRUE /\ Forget /\ UNCHANGED <<draining, gate>>
     \/ /\ ~ended /\ launched /\ running /\ ~Admitted
        /\ draining' = TRUE /\ gate' = "finalization" /\ UNCHANGED <<ended, broker, granted>>
  /\ UNCHANGED <<ego, late, server, sent, entry, closed, prepared, launched, running, nonce, pc, job, inspection, faults>>

\* DrainUnadmittedSkillSession does nothing to a session without the browser.
DrainUnadmitted ==
  /\ draining /\ draining' = FALSE
  /\ gate' = IF gate = "finalization" THEN "free" ELSE gate
  /\ \/ (ego \/ ~running) /\ running' = FALSE /\ ended' = TRUE /\ Forget /\ NoFault
     \/ ~ego /\ running /\ NoFault /\ UNCHANGED <<running, ended, broker, granted>>
     \/ Fault /\ UNCHANGED <<running, ended, broker, granted>>
  /\ UNCHANGED <<ego, late, server, sent, entry, closed, prepared, launched, nonce, pc, job, inspection>>

-----------------------------------------------------------------------------
RuntimeExit ==
  /\ running /\ running' = FALSE
  /\ UNCHANGED <<ego, late, server, sent, entry, closed, prepared, launched, ended, nonce, broker, granted, gate, pc, job, inspection, draining, faults>>

\* The worker restarts: registrations and grants live in its memory only.
WorkerCrash ==
  /\ Fault
  /\ reg' = NoNonce /\ peer' = FALSE /\ granted' = NoNonce /\ gate' = "free"
  /\ pc' = "idle" /\ job' = NoJob /\ draining' = FALSE
  /\ ipc' = "idle" /\ ient' = NoEntry /\ iobs' = NoObservation
  /\ UNCHANGED <<ego, server, sent, entry, helper>>

StartupStep ==
  \/ LockAdmissions \/ InspectPrevious \/ DecidePrevious \/ AcquireLease
  \/ StepFails \/ RecoverRuntime \/ PrepareSnapshot \/ AuthorizePeer \/ LaunchRuntime
  \/ Propose \/ SendConfirmation \/ AwaitReceipt \/ Acknowledge \/ CancelRuntime \/ FinishStartup
  \/ StopManagedWriters

InspectionStep == ListPending \/ InspectPending \/ SettlePending

Next ==
  \/ ExpireLease \/ CancelTask \/ (\E o \in Outcome : AcceptConfirmation(o))
  \/ Poll \/ StartupStep \/ LoseLease \/ RecordStopIntent \/ CancelLate
  \/ InspectionStep
  \/ ReconcileSession \/ DrainUnadmitted
  \/ RuntimeExit \/ WorkerCrash

\* Every loop of the worker is scheduled and every call it makes has a deadline.
\* Waiters of the gate, a Go channel, are served in order.
Fairness ==
  /\ WF_vars(StartupStep) /\ WF_vars(InspectionStep)
  /\ SF_vars(ReconcileSession) /\ WF_vars(DrainUnadmitted)

Spec == Init /\ [][Next]_vars /\ Fairness

-----------------------------------------------------------------------------
(* Properties. *)

\* The journal and the control plane never disagree.  An accepted outcome is
\* the one the journal holds, neither replaced by a later proposal nor retired,
\* and only an accepted outcome is confirmed, in whatever order the task loop,
\* the inspection loop, late confirmations and crashes come
\* (start_journal.go:56-122, start_retirement.go:15-56).
JournalAgreesWithServer ==
  /\ accepted # NoOutcome => entry.status \in {"pending", "confirmed"} /\ entry.outcome = accepted
  /\ entry.status = "confirmed" => entry.outcome = accepted

\* A runtime is proposed as running only while its own browser peer is
\* authorized: never one whose nonce an earlier worker process handed out
\* (snapshot_peer.go:66-88, snapshot_startup.go:87-125).
ProposedRuntimeAdmitted ==
  [][(entry'.outcome # entry.outcome /\ entry'.outcome.kind = "running" /\ ego)
       => (launched /\ reg = nonce /\ peer)]_vars

\* The finalization loop never drains a runtime that this process admitted, not
\* even when it looked before the admission (managed_admission_recovery.go:16-18).
AdmittedNeverDrained ==
  [][(draining /\ ~draining' /\ running /\ ~running') => ~(granted = nonce /\ reg = nonce /\ peer)]_vars

\* A runtime with a browser ends up admitted or stopped: it does not run on
\* unadmitted when its cancellation failed or its worker died
\* (managed_admission_recovery.go:91-119, snapshot_startup.go:138-145).
UnadmittedRuntimeEnds ==
  (ego /\ running) ~> (~running \/ (granted = nonce /\ reg = nonce /\ peer))

\* Every proposal whose fate the control plane decided leaves the pending state
\* without another delivery of its task (start_confirmation.go:50-85).
DecidedProposalSettles ==
  (entry.status = "pending" /\ (status = "cancelled" \/ accepted # NoOutcome)) ~> (entry.status # "pending")
=============================================================================
