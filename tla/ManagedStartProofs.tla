-------------------------- MODULE ManagedStartProofs --------------------------
(***************************************************************************)
(* The start journal and the control plane never disagree, and a runtime   *)
(* is proposed and drained as its admission says, for every number of      *)
(* leases and of faults.                                                   *)
(*                                                                         *)
(* Two loops write the journal from observations that are stale when they  *)
(* are used.  StartInv says what stays true of an observation (Observed),  *)
(* what a confirmation under way can still do (SentPending), and that a    *)
(* startup works under the latest lease (LeaseHeld).                       *)
(***************************************************************************)
EXTENDS ManagedStart, TLAPS

StartTypes ==
  /\ status \in Statuses /\ attempt \in 0 .. MaxAttempts
  /\ accepted \in Outcome \cup {NoOutcome} /\ sent \subseteq Outcome
  /\ entry \in Entry /\ pc \in PCs /\ job \in Job
  /\ ient \in Entry /\ iobs \in Observation

\* A decision of the control plane is final.
Decided ==
  /\ accepted # NoOutcome => status = "done" /\ accepted.attempt = attempt
  /\ entry.status = "retired" => status = "cancelled"

\* A startup under way has the latest lease: the task is polled only between two.
LeaseHeld ==
  /\ status = "leased" => attempt # 0
  /\ pc \notin {"idle", "stop"} => job.att = attempt /\ attempt # 0

\* What the control plane could still accept is the proposal of the journal.
SentPending ==
  \A o \in sent : Acceptable(o) => entry.status = "pending" /\ entry.outcome = o

\* An outcome is in the journal before it is sent, and acknowledged once accepted.
Proposing ==
  /\ pc \in {"propose", "send", "await", "ack"} => job.kind # "none"
  /\ pc = "send" => entry.status # "none" /\ entry.outcome = Proposal
  /\ pc = "ack" => accepted = Proposal

\* An acceptance or a cancellation that was observed is still one.
StillTrue(seen, p) ==
  /\ seen.accepted => accepted = p.outcome /\ accepted # NoOutcome
  /\ seen.status = "cancelled" => status = "cancelled"

\* A journal entry names an outcome.
Recorded(p) == p.status # "none" => p.outcome # NoOutcome

Observed ==
  /\ Recorded(entry) /\ Recorded(job.prev) /\ Recorded(ient)
  /\ pc = "inspect" => job.prev.status # "none"
  /\ ipc = "call" => ient.status # "none"
  /\ StillTrue(job.obs, job.prev)
  /\ StillTrue(iobs, ient)
  /\ pc = "lock" => job.obs = NoObservation
  /\ ipc # "apply" => iobs = NoObservation

StartInv ==
  /\ StartTypes /\ Decided /\ LeaseHeld /\ SentPending /\ Proposing /\ Observed
  /\ JournalAgreesWithServer

-----------------------------------------------------------------------------
(* The records of a startup. *)

LEMMA NoObservationType == NoObservation \in Observation
  BY StartAssumption DEF NoObservation, Observation, Statuses

LEMMA NoEntryType == NoEntry \in Entry
  BY StartAssumption DEF NoEntry, Entry

LEMMA NoJobType == NoJob \in Job /\ NoJob.obs = NoObservation /\ NoJob.prev = NoEntry
  BY NoObservationType, NoEntryType, StartAssumption DEF NoJob, Job

LEMMA ObserveType ==
  ASSUME StartTypes, NEW o \in Outcome \cup {NoOutcome}
  PROVE  /\ Observe(o) \in Observation
         /\ Observe(o).accepted => accepted = o
         /\ Observe(o).status = status
  BY Zenon DEF StartTypes, Observe, Observation

\* What a step of executeManagedStartup leaves of its work.
SameWork(j) == j \in Job /\ j.att = job.att /\ j.prev = job.prev /\ j.obs = job.obs

LEMMA LiveWork ==
  ASSUME job \in Job, NEW b \in BOOLEAN
  PROVE  LET j == [job EXCEPT !.live = b] IN SameWork(j) /\ j.kind = job.kind
  BY DEF Job, SameWork

LEMMA AdmittedWork ==
  ASSUME job \in Job
  PROVE  /\ \A b \in BOOLEAN : SameWork([job EXCEPT !.admitted = TRUE, !.authorized = b])
         /\ LET j == [job EXCEPT !.admitted = TRUE, !.kind = "running"]
            IN  SameWork(j) /\ j.kind = "running"
  BY Zenon DEF Job, SameWork

LEMMA StoppedWork ==
  ASSUME job \in Job
  PROVE  LET j == [job EXCEPT !.kind = "stopped"] IN SameWork(j) /\ j.kind = "stopped"
  BY DEF Job, SameWork

LEMMA SettledWork ==
  ASSUME job \in Job, NEW k \in {"running", "stopped"}
  PROVE  LET j == [job EXCEPT !.result = k] IN SameWork(j) /\ j.kind = job.kind
  BY DEF Job, SameWork

LEMMA InspectedWork ==
  ASSUME job \in Job, NEW seen \in Observation
  PROVE  LET j == [job EXCEPT !.obs = seen]
         IN  /\ j \in Job /\ j.att = job.att /\ j.prev = job.prev /\ j.kind = job.kind
             /\ j.obs = seen
  BY DEF Job

LEMMA PolledWork ==
  ASSUME NEW a \in 0 .. MaxAttempts
  PROVE  LET j == [NoJob EXCEPT !.att = a]
         IN  j \in Job /\ j.att = a /\ j.obs = NoObservation /\ j.prev = NoEntry
  BY NoJobType DEF Job

\* A step that moves the startup on and leaves the journal and the control plane
\* alone.
LEMMA StartupMoves ==
  ASSUME StartInv, UNCHANGED <<server, sent, entry, inspection>>, pc' \in PCs, SameWork(job'),
         pc' \in {"idle", "stop"} \/ pc \notin {"idle", "stop"},
         pc' \in {"lock", "inspect", "send", "ack"} => pc' = pc /\ job'.kind = job.kind,
         pc' \in {"propose", "await"} => job'.kind # "none"
  PROVE  StartInv'
  BY DEF SameWork, server, inspection, StartInv, StartTypes, Decided, LeaseHeld, SentPending,
         Proposing, StillTrue, Recorded, Observed, JournalAgreesWithServer, Acceptable, Proposal

\* RegisterToolSession gives the session its nonce or a fresh one.
BrokerTypes == ego \in BOOLEAN /\ reg \in Nonces \cup {NoNonce}

LEMMA RegisteredType ==
  ASSUME BrokerTypes
  PROVE  Registered \in Nonces \cup {NoNonce}
  <1>1. \E n \in Nonces : n \notin {nonce, granted}
    BY DEF Nonces
  <1> QED BY <1>1 DEF Registered, BrokerTypes

\* Either loop settles a proposal p from an observation, or leaves the journal alone.
Settled(p, seen) ==
  \/ entry' = entry
  \/ /\ entry = p /\ p.status = "pending"
     /\ \/ seen.accepted /\ entry' = [p EXCEPT !.status = "confirmed"]
        \/ /\ ~seen.accepted /\ seen.status = "cancelled"
           /\ entry' = [p EXCEPT !.status = "retired", !.evidence = seen.attempt]

\* Then the journal is settled as the control plane has decided.
SettledEntry ==
  /\ entry' \in Entry /\ entry'.outcome = entry.outcome
  /\ \/ entry' = entry
     \/ entry.status = "pending" /\ entry'.status = "confirmed" /\ accepted = entry.outcome /\ accepted # NoOutcome
     \/ entry.status = "pending" /\ entry'.status = "retired" /\ status = "cancelled"

LEMMA SettlesEntry ==
  ASSUME entry \in Entry, NEW p \in Entry, NEW seen \in Observation, seen.attempt \in 0 .. MaxAttempts,
         StillTrue(seen, p), Settled(p, seen)
  PROVE  SettledEntry
  BY Zenon DEF Settled, SettledEntry, StillTrue, Entry

(* Each action keeps the invariant. *)

USE StartAssumption
    DEF server, inspection, StartInv, StartTypes, Decided, LeaseHeld, SentPending, Proposing, StillTrue,
        Observed, Recorded, JournalAgreesWithServer, Acceptable, Proposal, Attempts, Outcome, NoOutcome, Entry,
        Statuses, Observation, NoObservation, NoEntry, Job, PCs

LEMMA AcceptConfirmationKeeps ==
  ASSUME StartInv, NEW o \in Outcome, AcceptConfirmation(o)
  PROVE  StartInv'
  BY DEF AcceptConfirmation

LEMMA ExpireLeaseKeeps ==
  ASSUME StartInv, ExpireLease
  PROVE  StartInv'
  BY DEF ExpireLease

LEMMA CancelTaskKeeps ==
  ASSUME StartInv, CancelTask
  PROVE  StartInv'
  BY DEF CancelTask

LEMMA RecordStopIntentKeeps ==
  ASSUME StartInv, RecordStopIntent
  PROVE  StartInv'
  <1>1. CASE closed' = TRUE
    BY <1>1 DEF RecordStopIntent, Goto
  <1>2. CASE closed' = closed
    BY <1>2 DEF RecordStopIntent, Goto
  <1> QED BY <1>1, <1>2, Zenon DEF RecordStopIntent

LEMMA CancelLateKeeps ==
  ASSUME StartInv, CancelLate
  PROVE  StartInv'
  BY DEF CancelLate

LEMMA StepFailsKeeps ==
  ASSUME StartInv, StepFails
  PROVE  StartInv'
  BY DEF StepFails, Goto

LEMMA PrepareSnapshotKeeps ==
  ASSUME StartInv, PrepareSnapshot
  PROVE  StartInv'
  BY DEF PrepareSnapshot, Goto

LEMMA LaunchRuntimeKeeps ==
  ASSUME StartInv, LaunchRuntime
  PROVE  StartInv'
  BY DEF LaunchRuntime, Goto, Set

LEMMA ProposeKeeps ==
  ASSUME StartInv, Propose
  PROVE  StartInv'
  BY DEF Propose, Goto, Set, Replaceable

LEMMA SendConfirmationKeeps ==
  ASSUME StartInv, SendConfirmation
  PROVE  StartInv'
  BY DEF SendConfirmation, Goto

LEMMA AwaitReceiptKeeps ==
  ASSUME StartInv, AwaitReceipt
  PROVE  StartInv'
  BY DEF AwaitReceipt, Goto, Set

LEMMA AcknowledgeKeeps ==
  ASSUME StartInv, Acknowledge
  PROVE  StartInv'
  BY DEF Acknowledge, Goto, Confirm

LEMMA CancelRuntimeKeeps ==
  ASSUME StartInv, CancelRuntime
  PROVE  StartInv'
  BY DEF CancelRuntime, Goto

LEMMA FinishStartupKeeps ==
  ASSUME StartInv, FinishStartup
  PROVE  StartInv'
  BY DEF FinishStartup, Goto, NoJob, NoEntry, NoObservation

LEMMA StopManagedWritersKeeps ==
  ASSUME StartInv, StopManagedWriters
  PROVE  StartInv'
  BY DEF StopManagedWriters, Goto

LEMMA ListPendingKeeps ==
  ASSUME StartInv, ListPending
  PROVE  StartInv'
  BY DEF ListPending

LEMMA ReconcileSessionKeeps ==
  ASSUME StartInv, ReconcileSession
  PROVE  StartInv'
  BY DEF ReconcileSession

LEMMA DrainUnadmittedKeeps ==
  ASSUME StartInv, DrainUnadmitted
  PROVE  StartInv'
  BY DEF DrainUnadmitted

LEMMA RuntimeExitKeeps ==
  ASSUME StartInv, RuntimeExit
  PROVE  StartInv'
  BY DEF RuntimeExit

LEMMA WorkerCrashKeeps ==
  ASSUME StartInv, WorkerCrash
  PROVE  StartInv'
  BY DEF WorkerCrash, NoJob, NoEntry, NoObservation

HIDE StartAssumption
    DEF server, inspection, StartInv, StartTypes, Decided, LeaseHeld, SentPending, Proposing, StillTrue,
        Observed, Recorded, JournalAgreesWithServer, Acceptable, Proposal, Attempts, Outcome, NoOutcome, Entry,
        Statuses, Observation, NoObservation, NoEntry, Job, PCs

LEMMA AcquireLeaseKeeps ==
  ASSUME StartInv, AcquireLease
  PROVE  StartInv'
  <1>1. job \in Job
    BY DEF StartInv, StartTypes
  <1>2. SameWork(job')
    BY <1>1, LiveWork, Zenon DEF AcquireLease, Set, SameWork
  <1>3. pc = "lease" /\ pc' \in {"recover", "finish"} /\ UNCHANGED <<server, sent, entry, inspection>>
    BY Zenon DEF AcquireLease, Goto
  <1> QED BY <1>2, <1>3, StartupMoves DEF PCs

LEMMA LoseLeaseKeeps ==
  ASSUME StartInv, LoseLease
  PROVE  StartInv'
  <1>1. job \in Job /\ pc \in PCs
    BY DEF StartInv, StartTypes
  <1>2. SameWork(job') /\ job'.kind = job.kind
    BY <1>1, LiveWork, Zenon DEF LoseLease, Set
  <1>3. pc \in Working /\ pc' = pc /\ UNCHANGED <<server, sent, entry, inspection>>
    BY DEF LoseLease
  <1>4. pc \in {"propose", "await"} => job.kind # "none"
    BY DEF StartInv, Proposing
  <1> QED BY <1>1, <1>2, <1>3, <1>4, StartupMoves DEF Working

LEMMA AuthorizePeerKeeps ==
  ASSUME StartInv, BrokerTypes, AuthorizePeer
  PROVE  StartInv'
  <1>1. job \in Job /\ ego \in BOOLEAN
    BY DEF StartInv, StartTypes, BrokerTypes
  <1>2. SameWork([job EXCEPT !.admitted = TRUE, !.authorized = ego])
    BY <1>1, AdmittedWork, Zenon
  <1>3. SameWork(job')
    BY <1>1, <1>2, Zenon DEF AuthorizePeer, SameWork
  <1>4. pc = "authorize" /\ pc' \in {"cancel", "launch"} /\ UNCHANGED <<server, sent, entry, inspection>>
    BY DEF AuthorizePeer, Goto
  <1> QED BY <1>3, <1>4, StartupMoves DEF PCs

LEMMA RecoverRuntimeKeeps ==
  ASSUME StartInv, RecoverRuntime
  PROVE  StartInv'
  <1>1. job \in Job
    BY DEF StartInv, StartTypes
  <1>2. /\ pc = "recover" /\ UNCHANGED <<server, sent, entry, inspection>>
        /\ \/ pc' \in {"finish", "cancel", "prepare"} /\ job' = job
           \/ pc' = "propose" /\ job' \in {[job EXCEPT !.admitted = TRUE, !.kind = "running"],
                                           [job EXCEPT !.kind = "stopped"]}
    BY DEF RecoverRuntime, Goto, Set
  <1>3. SameWork(job') /\ (pc' = "propose" => job'.kind # "none")
    BY <1>1, <1>2, AdmittedWork, StoppedWork, Zenon DEF SameWork
  <1> QED BY <1>2, <1>3, StartupMoves DEF PCs

LEMMA InspectPreviousKeeps ==
  ASSUME StartInv, InspectPrevious
  PROVE  StartInv'
  <1>1. job \in Job /\ StartTypes /\ pc = "inspect" /\ UNCHANGED <<server, sent, entry, inspection>>
    BY DEF StartInv, StartTypes, InspectPrevious
  <1>2. CASE job' = job /\ pc' = "finish"
    BY <1>1, <1>2, StartupMoves DEF SameWork, PCs
  <1>3. CASE job' = [job EXCEPT !.obs = Observe(job.prev.outcome)] /\ pc' = "decide"
    <2>1. job.prev.outcome \in Outcome \cup {NoOutcome}
      BY <1>1 DEF Job, Entry
    <2>2. job.prev.outcome # NoOutcome
      BY <1>1 DEF StartInv, Observed, Recorded
    <2> DEFINE seen == Observe(job.prev.outcome)
    <2>3. /\ seen \in Observation /\ seen.status = status
          /\ seen.accepted => accepted = job.prev.outcome
      BY <1>1, <2>1, ObserveType
    <2> HIDE DEF seen
    <2>4. /\ job' \in Job /\ job'.att = job.att /\ job'.prev = job.prev /\ job'.kind = job.kind
          /\ job'.obs = seen
      BY <1>1, <1>3, <2>3, InspectedWork DEF seen
    <2>5. StillTrue(job.obs, job.prev)'
      BY <1>1, <2>2, <2>3, <2>4 DEF StillTrue, server
    <2> QED
      BY <1>1, <1>3, <2>4, <2>5
      DEF server, inspection, StartInv, StartTypes, Decided, LeaseHeld, SentPending, Proposing, StillTrue,
          Recorded, Observed, JournalAgreesWithServer, Acceptable, PCs
  <1> QED BY <1>2, <1>3 DEF InspectPrevious, Goto, Set

LEMMA LockAdmissionsKeeps ==
  ASSUME StartInv, BrokerTypes, LockAdmissions
  PROVE  StartInv'
  <1>1. job \in Job /\ entry \in Entry /\ pc = "lock" /\ UNCHANGED <<server, sent, entry, inspection>>
    BY DEF StartInv, StartTypes, LockAdmissions
  <1>2. Registered \in Nonces \cup {NoNonce}
    BY RegisteredType, Zenon
  <1>3. PICK b \in BOOLEAN : b = (ego /\ reg = NoNonce)
    OBVIOUS
  <1>4. job' = [job EXCEPT !.nonce = Registered, !.made = b, !.prev = entry]
    BY <1>3, Zenon DEF LockAdmissions
  <1>5. /\ job' \in Job /\ job'.att = job.att /\ job'.prev = entry /\ job'.obs = job.obs
    BY <1>1, <1>2, <1>3, <1>4, Zenon DEF Job
  <1>6. pc' \in {"finish", "lease", "inspect"} /\ (pc' = "inspect" => entry.status # "none")
    BY DEF LockAdmissions, Goto
  <1>7. job.obs = NoObservation /\ ~NoObservation.accepted /\ NoObservation.status # "cancelled"
    BY <1>1 DEF StartInv, Observed, NoObservation
  <1> QED
    BY <1>1, <1>5, <1>6, <1>7
    DEF server, inspection, StartInv, StartTypes, Decided, LeaseHeld, SentPending, Proposing, StillTrue,
        Recorded, Observed, JournalAgreesWithServer, Acceptable, PCs

LEMMA PollKeeps ==
  ASSUME StartInv, Poll
  PROVE  StartInv'
  <1>1. attempt' \in 0 .. MaxAttempts /\ attempt' # 0
    BY StartAssumption DEF Poll, StartInv, StartTypes, LeaseHeld
  <1>2. job' \in Job /\ job'.att = attempt' /\ job'.obs = NoObservation /\ job'.prev = NoEntry
    BY <1>1, PolledWork DEF Poll
  <1>3. UNCHANGED <<accepted, entry, inspection>> /\ pc' = "lock" /\ status' = "leased"
    BY DEF Poll, Goto
  <1>4. (sent' = {}) \/ (sent' = sent /\ status' = status /\ attempt' = attempt)
    BY DEF Poll
  <1>5. accepted = NoOutcome /\ entry.status # "retired" /\ status # "cancelled"
    BY DEF Poll, StartInv, Decided
  <1>6. ~NoObservation.accepted /\ NoObservation.status # "cancelled" /\ NoEntry.status = "none"
    BY DEF NoObservation, NoEntry
  <1> QED
    BY <1>1, <1>2, <1>3, <1>4, <1>5, <1>6
    DEF inspection, StartInv, StartTypes, Decided, LeaseHeld, SentPending, Proposing, StillTrue, Recorded,
        Observed, JournalAgreesWithServer, Acceptable, PCs, Statuses

LEMMA DecidePreviousKeeps ==
  ASSUME StartInv, DecidePrevious
  PROVE  StartInv'
  <1>1. /\ job \in Job /\ entry \in Entry /\ pc = "decide" /\ pc' \in {"finish", "lease"}
        /\ UNCHANGED <<server, sent, inspection>>
    BY DEF StartInv, StartTypes, DecidePrevious, Goto
  <1>2. job.prev \in Entry /\ job.obs \in Observation /\ job.obs.attempt \in 0 .. MaxAttempts
    BY <1>1 DEF Job, Observation
  <1>3. SameWork(job')
    <2>1. CASE job' = job
      BY <1>1, <2>1 DEF SameWork
    <2>2. CASE job' = [job EXCEPT !.result = job.prev.outcome.kind] /\ job.obs.accepted
      <3>1. job.prev.outcome \in Outcome
        BY <1>2, <2>2 DEF StartInv, Observed, StillTrue, Entry
      <3>2. job.prev.outcome.kind \in {"running", "stopped"}
        BY <3>1 DEF Outcome
      <3> QED BY <1>1, <2>2, <3>2, SettledWork
    <2> QED BY <2>1, <2>2 DEF DecidePrevious, Set
  <1>4. Settled(job.prev, job.obs)
    BY DEF DecidePrevious, Settled, Confirm, Retire
  <1>5. SettledEntry
    BY <1>1, <1>2, <1>4, SettlesEntry DEF StartInv, Observed
  <1> QED
    BY <1>1, <1>3, <1>5
    DEF SettledEntry, SameWork, server, inspection, StartInv, StartTypes, Decided, LeaseHeld, SentPending,
        Proposing, StillTrue, Recorded, Observed, JournalAgreesWithServer, Acceptable, PCs

LEMMA InspectPendingKeeps ==
  ASSUME StartInv, InspectPending
  PROVE  StartInv'
  <1>1. /\ StartTypes /\ ipc = "call" /\ ient \in Entry /\ ient.status # "none" /\ iobs = NoObservation
        /\ UNCHANGED <<server, sent, entry, pc, job>>
    BY DEF StartInv, StartTypes, Observed, InspectPending
  <1>2. ~NoObservation.accepted /\ NoObservation.status # "cancelled" /\ NoEntry.status = "none"
    BY DEF NoObservation, NoEntry
  <1>3. CASE ipc' = "idle" /\ ient' = NoEntry /\ iobs' = iobs
    <2>1. StartTypes'
      BY <1>1, <1>3, NoEntryType DEF server, StartTypes
    <2> QED
      BY <1>1, <1>2, <1>3, <2>1
      DEF server, StartInv, Decided, LeaseHeld, SentPending, Proposing, StillTrue,
          Recorded, Observed, JournalAgreesWithServer, Acceptable, Proposal
  <1>4. CASE ipc' = "apply" /\ ient' = ient /\ iobs' = Observe(ient.outcome)
    <2>1. ient.outcome \in Outcome \cup {NoOutcome} /\ ient.outcome # NoOutcome
      BY <1>1 DEF Entry, StartInv, Observed, Recorded
    <2>2. /\ iobs' \in Observation /\ iobs'.status = status
          /\ iobs'.accepted => accepted = ient.outcome
      BY <1>1, <1>4, <2>1, ObserveType
    <2>3. StartTypes'
      BY <1>1, <1>4, <2>2 DEF server, StartTypes
    <2> QED
      BY <1>1, <1>4, <2>1, <2>2, <2>3
      DEF server, StartInv, Decided, LeaseHeld, SentPending, Proposing, StillTrue,
          Recorded, Observed, JournalAgreesWithServer, Acceptable, Proposal
  <1> QED BY <1>3, <1>4 DEF InspectPending

LEMMA SettlePendingKeeps ==
  ASSUME StartInv, SettlePending
  PROVE  StartInv'
  <1>1. /\ entry \in Entry /\ ient \in Entry /\ iobs \in Observation
        /\ ipc' = "idle" /\ ient' = NoEntry /\ iobs' = NoObservation
        /\ UNCHANGED <<server, sent, pc, job>>
    BY DEF StartInv, StartTypes, SettlePending
  <1>2. iobs.attempt \in 0 .. MaxAttempts
    BY <1>1 DEF Observation
  <1>3. Settled(ient, iobs)
    BY Zenon DEF SettlePending, Settled, Confirm, Retire
  <1>4. SettledEntry
    BY <1>1, <1>2, <1>3, SettlesEntry DEF StartInv, Observed
  <1>5. ~NoObservation.accepted /\ NoObservation.status # "cancelled" /\ NoEntry.status = "none"
    BY DEF NoObservation, NoEntry
  <1>6. StartTypes'
    BY <1>1, <1>4, NoEntryType, NoObservationType DEF SettledEntry, server, StartInv, StartTypes
  <1> QED
    BY <1>1, <1>4, <1>5, <1>6
    DEF SettledEntry, server, StartInv, Decided, LeaseHeld, SentPending, Proposing, StillTrue,
        Recorded, Observed, JournalAgreesWithServer, Acceptable, Proposal

LEMMA BrokerStep == BrokerTypes /\ [Next]_vars => BrokerTypes'
  <1> SUFFICES ASSUME BrokerTypes, [Next]_vars PROVE BrokerTypes'
    OBVIOUS
  <1>1. ego' = ego
    BY Zenon DEF Next, vars, ExpireLease, CancelTask, AcceptConfirmation, Poll, StartupStep, LockAdmissions,
           InspectPrevious, DecidePrevious, AcquireLease, StepFails, RecoverRuntime, PrepareSnapshot,
           AuthorizePeer, LaunchRuntime, Propose, SendConfirmation, AwaitReceipt, Acknowledge,
           CancelRuntime, FinishStartup, StopManagedWriters, LoseLease, RecordStopIntent, CancelLate,
           InspectionStep, ListPending, InspectPending, SettlePending, ReconcileSession,
           DrainUnadmitted, RuntimeExit, WorkerCrash
  <1>2. reg' \in {reg, NoNonce, Registered}
    BY Zenon DEF Next, vars, broker, ExpireLease, CancelTask, AcceptConfirmation, Poll, StartupStep,
           LockAdmissions, InspectPrevious, DecidePrevious, AcquireLease, StepFails, RecoverRuntime,
           PrepareSnapshot, AuthorizePeer, LaunchRuntime, Propose, SendConfirmation, AwaitReceipt,
           Acknowledge, CancelRuntime, FinishStartup, StopManagedWriters, LoseLease, RecordStopIntent,
           CancelLate, InspectionStep, ListPending, InspectPending, SettlePending, ReconcileSession,
           DrainUnadmitted, Forget, RuntimeExit, WorkerCrash
  <1> QED BY <1>1, <1>2, RegisteredType DEF BrokerTypes

LEMMA StartInit == Init => StartInv /\ BrokerTypes
  <1> SUFFICES ASSUME Init PROVE StartInv /\ BrokerTypes
    OBVIOUS
  <1>1. job \in Job /\ job.obs = NoObservation /\ job.prev = NoEntry
    BY NoJobType DEF Init
  <1>2. ~NoObservation.accepted /\ NoObservation.status # "cancelled" /\ NoEntry.status = "none"
    BY DEF NoObservation, NoEntry
  <1> QED
    BY <1>1, <1>2, NoEntryType, NoObservationType, StartAssumption
    DEF Init, BrokerTypes, StartInv, StartTypes, Decided, LeaseHeld, SentPending, Proposing,
        StillTrue, Recorded, Observed, JournalAgreesWithServer, PCs, Statuses

LEMMA StartStep == StartInv /\ BrokerTypes /\ [Next]_vars => StartInv'
  <1> SUFFICES ASSUME StartInv, BrokerTypes, [Next]_vars PROVE StartInv'
    OBVIOUS
  <1>1. CASE ExpireLease \/ CancelTask \/ (\E o \in Outcome : AcceptConfirmation(o)) \/ Poll
    BY <1>1, ExpireLeaseKeeps, CancelTaskKeeps, AcceptConfirmationKeeps, PollKeeps
  <1>2. CASE StartupStep
    <2>1. CASE LockAdmissions \/ InspectPrevious \/ DecidePrevious \/ AcquireLease
      BY <2>1, LockAdmissionsKeeps, InspectPreviousKeeps, DecidePreviousKeeps, AcquireLeaseKeeps
    <2>2. CASE StepFails \/ RecoverRuntime \/ PrepareSnapshot \/ AuthorizePeer \/ LaunchRuntime
      BY <2>2, StepFailsKeeps, RecoverRuntimeKeeps, PrepareSnapshotKeeps, AuthorizePeerKeeps,
         LaunchRuntimeKeeps
    <2>3. CASE Propose \/ SendConfirmation \/ AwaitReceipt \/ Acknowledge
      BY <2>3, ProposeKeeps, SendConfirmationKeeps, AwaitReceiptKeeps, AcknowledgeKeeps
    <2>4. CASE CancelRuntime \/ FinishStartup \/ StopManagedWriters
      BY <2>4, CancelRuntimeKeeps, FinishStartupKeeps, StopManagedWritersKeeps
    <2> QED BY <1>2, <2>1, <2>2, <2>3, <2>4 DEF StartupStep
  <1>3. CASE LoseLease \/ RecordStopIntent \/ CancelLate \/ RuntimeExit \/ WorkerCrash
    BY <1>3, LoseLeaseKeeps, RecordStopIntentKeeps, CancelLateKeeps, RuntimeExitKeeps, WorkerCrashKeeps
  <1>4. CASE InspectionStep
    BY <1>4, ListPendingKeeps, InspectPendingKeeps, SettlePendingKeeps DEF InspectionStep
  <1>5. CASE ReconcileSession \/ DrainUnadmitted
    BY <1>5, ReconcileSessionKeeps, DrainUnadmittedKeeps, Zenon
  <1>6. CASE UNCHANGED vars
    BY <1>6 DEF vars, server, inspection, StartInv, StartTypes, Decided, LeaseHeld, SentPending, Proposing,
        StillTrue, Recorded, Observed, JournalAgreesWithServer, Acceptable, Proposal
  <1> QED BY <1>1, <1>2, <1>3, <1>4, <1>5, <1>6 DEF Next

\* An accepted outcome is the one the journal holds, neither replaced nor retired, and
\* only an accepted outcome is confirmed, in whatever order the two loops, late
\* confirmations and crashes come (start_journal.go:56-122, start_retirement.go:15-56).
THEOREM JournalAgrees == Spec => []JournalAgreesWithServer
  <1>1. StartInv => JournalAgreesWithServer
    BY DEF StartInv
  <1> QED BY <1>1, StartInit, BrokerStep, StartStep, PTL DEF Spec

-----------------------------------------------------------------------------
(***************************************************************************)
(* Admission.  The gate is held from the registration of a startup to its  *)
(* end, and for a drain; between the two nothing changes the registration, *)
(* the peer and the grant.                                                 *)
(***************************************************************************)

\* Where executeManagedStartup holds managedAdmissions.gate.
Holding == PCs \ {"idle", "lock", "stop"}

GateHeld ==
  /\ gate = "startup" <=> pc \in Holding
  /\ gate = "finalization" <=> draining

\* The broker authorizes registered peers only, and only of a session with the browser.
PeerRegistered ==
  /\ peer => ego /\ reg # NoNonce
  /\ ego /\ pc \in Holding => job.nonce # NoNonce

\* The runtime is launched once, with the nonce of the startup that authorized it.
LaunchedOnce ==
  /\ pc \in {"prepare", "authorize", "launch"} => ~launched
  /\ pc = "launch" /\ ego => reg = job.nonce /\ peer /\ job.authorized
  /\ job.authorized => ego /\ pc \in {"launch", "propose", "send", "await", "ack", "cancel", "finish"}
  /\ job.authorized /\ launched => nonce = job.nonce

\* What this process granted is what the runtime has, once its startup ended.
GrantTrue ==
  /\ granted # NoNonce => ego
  /\ launched /\ granted # NoNonce => granted = nonce \/ job.authorized

\* A startup that proposes a running runtime has its peer authorized.
ProposingAdmitted ==
  pc = "propose" /\ job.kind = "running" /\ ego => launched /\ reg = nonce /\ peer

DrainUnwanted == draining /\ running => ~(granted = nonce /\ reg = nonce /\ peer)

AdmissionInv ==
  GateHeld /\ PeerRegistered /\ LaunchedOnce /\ GrantTrue /\ ProposingAdmitted /\ DrainUnwanted

\* What admission knows of a startup's work.
SameAdmission(j) == j.nonce = job.nonce /\ j.authorized = job.authorized

LEMMA WorkAdmission ==
  ASSUME job \in Job
  PROVE  /\ \A b \in BOOLEAN : LET j == [job EXCEPT !.live = b] IN SameAdmission(j) /\ j.kind = job.kind
         /\ \A seen \in Observation : LET j == [job EXCEPT !.obs = seen] IN SameAdmission(j) /\ j.kind = job.kind
         /\ \A k \in {"running", "stopped"} : LET j == [job EXCEPT !.result = k] IN SameAdmission(j) /\ j.kind = job.kind
         /\ \A k \in {"running", "stopped"} : LET j == [job EXCEPT !.kind = k] IN SameAdmission(j) /\ j.kind = k
         /\ LET j == [job EXCEPT !.admitted = TRUE, !.kind = "running"] IN SameAdmission(j) /\ j.kind = "running"
  BY Zenon DEF Job, SameAdmission

\* A step that admission does not notice, except that the runtime may end.
LEMMA AdmissionIdle ==
  ASSUME AdmissionInv, UNCHANGED <<ego, launched, nonce, broker, granted, gate, draining, pc>>,
         SameAdmission(job'), job'.kind = job.kind, running' => running
  PROVE  AdmissionInv'
  BY DEF AdmissionInv, GateHeld, PeerRegistered, LaunchedOnce, GrantTrue, ProposingAdmitted, DrainUnwanted,
         SameAdmission, broker

\* A startup moves on within the gate.
LEMMA AdmissionMoves ==
  ASSUME AdmissionInv, UNCHANGED <<ego, launched, nonce, broker, granted, gate, draining>>,
         SameAdmission(job'), running' => running,
         pc \in Holding, pc' \in Holding \ {"launch"},
         pc' \in {"prepare", "authorize"} => ~launched,
         job.authorized => pc' \in {"propose", "send", "await", "ack", "cancel", "finish"},
         pc' = "propose" /\ job'.kind = "running" /\ ego => launched /\ reg = nonce /\ peer
  PROVE  AdmissionInv'
  BY DEF AdmissionInv, GateHeld, PeerRegistered, LaunchedOnce, GrantTrue, ProposingAdmitted, DrainUnwanted,
         SameAdmission, broker

LEMMA OutsideAdmission ==
  ASSUME StartInv, AdmissionInv,
         ExpireLease \/ CancelTask \/ (\E o \in Outcome : AcceptConfirmation(o)) \/ InspectionStep \/ CancelLate
           \/ RuntimeExit \/ UNCHANGED vars
  PROVE  AdmissionInv'
  <1>1. UNCHANGED <<ego, launched, nonce, broker, granted, gate, draining, pc, job>> /\ (running' => running)
    BY DEF ExpireLease, CancelTask, AcceptConfirmation, InspectionStep, ListPending, InspectPending, SettlePending,
           CancelLate, RuntimeExit, vars, helper, broker
  <1> QED BY <1>1, AdmissionIdle, Zenon DEF SameAdmission

LEMMA LoseLeaseAdmits ==
  ASSUME StartInv, AdmissionInv, LoseLease
  PROVE  AdmissionInv'
  <1>1. job' = [job EXCEPT !.live = FALSE] /\ job \in Job
    BY Zenon DEF LoseLease, Set, StartInv, StartTypes
  <1>2. UNCHANGED <<ego, launched, nonce, broker, granted, gate, draining, pc, running>>
    BY DEF LoseLease, helper
  <1> QED BY <1>1, <1>2, WorkAdmission, AdmissionIdle, Zenon

LEMMA StartupAdmits ==
  ASSUME StartInv, AdmissionInv,
         InspectPrevious \/ DecidePrevious \/ AcquireLease \/ StepFails \/ PrepareSnapshot \/ Propose
           \/ SendConfirmation \/ AwaitReceipt \/ Acknowledge \/ CancelRuntime
  PROVE  AdmissionInv'
  <1>1. job \in Job
    BY DEF StartInv, StartTypes
  <1>2. UNCHANGED <<ego, launched, nonce, broker, granted, gate, draining>> /\ (running' => running)
    <2>1. CASE CancelRuntime
      BY <2>1 DEF CancelRuntime
    <2>2. CASE PrepareSnapshot
      BY <2>2 DEF PrepareSnapshot
    <2>3. CASE InspectPrevious
      BY <2>3 DEF InspectPrevious, helper
    <2>4. CASE AcquireLease
      BY <2>4, Zenon DEF AcquireLease, helper
    <2>5. CASE DecidePrevious
      BY <2>5 DEF DecidePrevious, helper
    <2>6. CASE StepFails
      BY <2>6, Zenon DEF StepFails, helper
    <2>7. CASE Propose
      BY <2>7 DEF Propose, helper
    <2>8. CASE SendConfirmation
      BY <2>8 DEF SendConfirmation, helper
    <2>9. CASE AwaitReceipt
      BY <2>9 DEF AwaitReceipt, helper
    <2>10. CASE Acknowledge
      BY <2>10 DEF Acknowledge, helper
    <2> QED BY <2>1, <2>2, <2>3, <2>4, <2>5, <2>6, <2>7, <2>8, <2>9, <2>10
  <1>3. SameAdmission(job')
    <2>1. CASE InspectPrevious
      <3>1. job.prev.outcome \in Outcome \cup {NoOutcome}
        BY <1>1 DEF Job, Entry
      <3>2. Observe(job.prev.outcome) \in Observation
        BY <3>1, ObserveType DEF StartInv
      <3> QED BY <1>1, <2>1, <3>2, WorkAdmission, Zenon DEF InspectPrevious, Set, SameAdmission
    <2>2. CASE DecidePrevious
      <3>1. CASE job' = job
        BY <3>1 DEF SameAdmission
      <3>2. CASE job.obs.accepted /\ job' = [job EXCEPT !.result = job.prev.outcome.kind]
        BY <1>1, <3>2 DEF SameAdmission, Job
      <3> QED BY <2>2, <3>1, <3>2 DEF DecidePrevious, Set
    <2>3. CASE AcquireLease
      BY <1>1, <2>3, WorkAdmission, Zenon DEF AcquireLease, Set, SameAdmission
    <2>4. CASE Propose \/ AwaitReceipt
      <3>1. job' = job \/ job' = [job EXCEPT !.result = job.kind]
        BY <2>4 DEF Propose, AwaitReceipt, Set
      <3> QED BY <1>1, <3>1 DEF SameAdmission, Job
    <2>5. CASE StepFails \/ PrepareSnapshot \/ SendConfirmation \/ Acknowledge \/ CancelRuntime
      BY <2>5 DEF StepFails, PrepareSnapshot, SendConfirmation, Acknowledge, CancelRuntime, SameAdmission
    <2> QED BY <2>1, <2>2, <2>3, <2>4, <2>5
  <1>4. /\ pc \in Holding /\ pc' \in Holding \ {"launch", "prepare", "propose"}
        /\ pc' = "authorize" => pc = "prepare"
        /\ pc \in {"launch", "propose", "send", "await", "ack", "cancel", "finish"}
             => pc' \in {"send", "await", "ack", "cancel", "finish"}
    BY Zenon DEF InspectPrevious, DecidePrevious, AcquireLease, StepFails, PrepareSnapshot, Propose, SendConfirmation,
           AwaitReceipt, Acknowledge, CancelRuntime, Goto, Holding, PCs
  <1> QED BY <1>2, <1>3, <1>4, AdmissionMoves, Zenon DEF AdmissionInv, LaunchedOnce

LEMMA RecoverRuntimeAdmits ==
  ASSUME StartInv, AdmissionInv, RecoverRuntime
  PROVE  AdmissionInv'
  <1>1. job \in Job
    BY DEF StartInv, StartTypes
  <1>2. /\ UNCHANGED <<ego, launched, nonce, broker, granted, gate, draining, running>>
        /\ pc = "recover" /\ pc \in Holding
    BY DEF RecoverRuntime, Holding, PCs
  <1>3. ~job.authorized
    BY <1>2 DEF AdmissionInv, LaunchedOnce
  <1>4. CASE job' = job /\ pc' \in {"finish", "cancel", "prepare"} /\ (pc' = "prepare" => ~launched)
    BY <1>2, <1>3, <1>4, AdmissionMoves DEF SameAdmission, Holding, PCs
  <1>5. CASE launched /\ OwnPeer /\ job' = [job EXCEPT !.admitted = TRUE, !.kind = "running"] /\ pc' = "propose"
    <2>1. SameAdmission(job')
      BY <1>1, <1>5, WorkAdmission
    <2>2. ego => reg = nonce /\ peer
      BY <1>2, <1>3, <1>5 DEF OwnPeer, AdmissionInv, PeerRegistered, GrantTrue
    <2> QED BY <1>2, <1>3, <1>5, <2>1, <2>2, AdmissionMoves DEF Holding, PCs
  <1>6. CASE job' = [job EXCEPT !.kind = "stopped"] /\ pc' = "propose"
    BY <1>1, <1>2, <1>3, <1>6, WorkAdmission, AdmissionMoves DEF Holding, PCs
  <1> QED BY <1>4, <1>5, <1>6 DEF RecoverRuntime, Goto, Set

LEMMA PollAdmits ==
  ASSUME StartInv, AdmissionInv, Poll
  PROVE  AdmissionInv'
  <1>1. job' = [NoJob EXCEPT !.att = attempt'] /\ pc = "idle" /\ pc' = "lock"
    BY DEF Poll, Goto
  <1>2. ~job'.authorized
    BY <1>1 DEF NoJob
  <1>3. ~job.authorized
    BY <1>1, Zenon DEF AdmissionInv, LaunchedOnce
  <1> QED
    BY <1>1, <1>2, <1>3
    DEF Poll, AdmissionInv, GateHeld, PeerRegistered, LaunchedOnce, GrantTrue, ProposingAdmitted, DrainUnwanted,
        Holding, helper, broker

LEMMA LockAdmissionsAdmits ==
  ASSUME StartInv, BrokerTypes, AdmissionInv, LockAdmissions
  PROVE  AdmissionInv'
  <1>1. job \in Job /\ pc = "lock" /\ gate = "free" /\ gate' = "startup"
        /\ UNCHANGED <<ego, launched, nonce, running, granted, draining>>
    BY DEF LockAdmissions, StartInv, StartTypes, helper
  <1>2. ~job.authorized
    BY <1>1 DEF AdmissionInv, LaunchedOnce
  <1>3. job'.nonce = Registered /\ ~job'.authorized
    <2>1. job' = [job EXCEPT !.nonce = Registered, !.made = ego /\ reg = NoNonce, !.prev = entry]
      BY DEF LockAdmissions
    <2> QED BY <1>1, <1>2, <2>1 DEF Job
  <1>4. (ego => Registered # NoNonce) /\ (reg # NoNonce /\ ego => Registered = reg)
    <2>1. \E n \in Nonces : n \notin {nonce, granted}
      BY DEF Nonces
    <2>2. ego => Registered \in Nonces \cup {reg} /\ (reg = NoNonce => Registered \in Nonces)
      BY <2>1 DEF Registered
    <2> QED BY <2>2 DEF Nonces, NoNonce, Registered
  <1>5. reg' = Registered /\ peer' = (peer /\ reg # NoNonce)
    BY DEF LockAdmissions
  <1>6. pc' \in {"finish", "lease", "inspect"}
    BY DEF LockAdmissions, Goto
  <1>7. GateHeld'
    BY <1>1, <1>6 DEF AdmissionInv, GateHeld, Holding, PCs
  <1> QED
    BY <1>1, <1>2, <1>3, <1>4, <1>5, <1>6, <1>7, Zenon
    DEF AdmissionInv, GateHeld, PeerRegistered, LaunchedOnce, GrantTrue, ProposingAdmitted, DrainUnwanted

LEMMA AuthorizePeerAdmits ==
  ASSUME StartInv, BrokerTypes, AdmissionInv, AuthorizePeer
  PROVE  AdmissionInv'
  <1>1. job \in Job /\ pc = "authorize" /\ UNCHANGED <<ego, launched, nonce, running, reg, granted, gate, draining>>
    BY DEF AuthorizePeer, StartInv, StartTypes, helper
  <1>2. CASE pc' = "cancel" /\ UNCHANGED <<peer, job>>
    BY <1>1, <1>2, AdmissionMoves DEF SameAdmission, AdmissionInv, LaunchedOnce, Holding, PCs, broker
  <1>3. CASE ~(ego /\ reg # job.nonce) /\ peer' = ego /\ pc' = "launch"
             /\ job' = [job EXCEPT !.admitted = TRUE, !.authorized = ego]
    <2>1. job'.nonce = job.nonce /\ job'.authorized = ego
      BY <1>1, <1>3 DEF Job
    <2>2. ~launched /\ ~draining /\ gate = "startup"
      BY <1>1 DEF AdmissionInv, LaunchedOnce, GateHeld, Holding, PCs
    <2>3. GateHeld'
      BY <1>1, <1>3, <2>2 DEF GateHeld, Holding, PCs
    <2>4. ego => job.nonce # NoNonce
      BY <1>1 DEF AdmissionInv, PeerRegistered, Holding, PCs
    <2> QED
      BY <1>1, <1>3, <2>1, <2>2, <2>3, <2>4
      DEF AdmissionInv, PeerRegistered, LaunchedOnce, GrantTrue, ProposingAdmitted, DrainUnwanted, BrokerTypes
  <1> QED BY <1>2, <1>3 DEF AuthorizePeer, Goto

LEMMA LaunchRuntimeAdmits ==
  ASSUME StartInv, AdmissionInv, LaunchRuntime
  PROVE  AdmissionInv'
  <1>1. job \in Job /\ pc = "launch" /\ UNCHANGED <<ego, reg, peer, granted, gate, draining>>
    BY DEF LaunchRuntime, StartInv, StartTypes, broker
  <1>2. ~launched /\ ~draining /\ gate = "startup"
    BY <1>1 DEF AdmissionInv, LaunchedOnce, GateHeld, Holding, PCs
  <1>3. CASE pc' = "cancel" /\ UNCHANGED <<job, launched, running, nonce>>
    BY <1>1, <1>3, AdmissionMoves DEF SameAdmission, Holding, PCs, broker
  <1>4. CASE /\ launched' = TRUE /\ nonce' = job.nonce
             /\ \/ pc' = "propose" /\ job' = [job EXCEPT !.kind = "running"]
                \/ pc' = "cancel" /\ job' = job
    <2>1. SameAdmission(job')
      BY <1>1, <1>4, WorkAdmission, Zenon DEF SameAdmission
    <2>2. GateHeld'
      BY <1>1, <1>2, <1>4 DEF GateHeld, Holding, PCs
    <2>3. granted # NoNonce => job.authorized
      BY <1>1 DEF AdmissionInv, GrantTrue, LaunchedOnce
    <2> QED
      BY <1>1, <1>2, <1>4, <2>1, <2>2, <2>3
      DEF SameAdmission, AdmissionInv, PeerRegistered, LaunchedOnce, GrantTrue, ProposingAdmitted, DrainUnwanted, Holding
  <1> QED BY <1>3, <1>4, Zenon DEF LaunchRuntime, Goto, Set

LEMMA FinishStartupAdmits ==
  ASSUME StartInv, AdmissionInv, FinishStartup
  PROVE  AdmissionInv'
  <1>1. pc = "finish" /\ pc' = "idle" /\ gate' = "free" /\ job' = NoJob
        /\ UNCHANGED <<ego, launched, nonce, running, draining>>
    BY DEF FinishStartup, Goto, helper
  <1>2. ~draining /\ ~job'.authorized
    BY <1>1 DEF AdmissionInv, GateHeld, Holding, PCs, NoJob
  <1>3. granted' = (IF job.authorized THEN job.nonce ELSE granted) /\ (peer' => peer /\ reg' = reg)
    BY DEF FinishStartup, broker
  <1> QED
    BY <1>1, <1>2, <1>3
    DEF AdmissionInv, GateHeld, PeerRegistered, LaunchedOnce, GrantTrue, ProposingAdmitted, DrainUnwanted, Holding

LEMMA StopsAdmit ==
  ASSUME StartInv, AdmissionInv, RecordStopIntent \/ StopManagedWriters
  PROVE  AdmissionInv'
  <1>1. CASE RecordStopIntent
    BY <1>1, Zenon DEF RecordStopIntent, Goto, AdmissionInv, GateHeld, PeerRegistered, LaunchedOnce, GrantTrue,
                ProposingAdmitted, DrainUnwanted, Holding, broker
  <1>2. CASE StopManagedWriters
    <2>1. /\ pc = "stop" /\ pc' = "idle" /\ UNCHANGED <<ego, launched, nonce, gate, job, draining>>
          /\ \/ gate = "free" /\ ~peer' /\ granted' \in {granted, NoNonce}
             \/ UNCHANGED <<reg, peer, granted, running>>
      BY <1>2, Zenon DEF StopManagedWriters, Goto, broker
    <2>2. CASE gate = "free" /\ ~peer' /\ granted' \in {granted, NoNonce}
      <3>1. ~draining /\ ~job.authorized
        BY <2>1, <2>2 DEF AdmissionInv, GateHeld, LaunchedOnce
      <3> QED
        BY <2>1, <2>2, <3>1
        DEF AdmissionInv, GateHeld, PeerRegistered, LaunchedOnce, GrantTrue, ProposingAdmitted, DrainUnwanted, Holding
    <2>3. CASE UNCHANGED <<reg, peer, granted, running>>
      BY <2>1, <2>3
      DEF AdmissionInv, GateHeld, PeerRegistered, LaunchedOnce, GrantTrue, ProposingAdmitted, DrainUnwanted, Holding
    <2> QED BY <2>1, <2>2, <2>3
  <1> QED BY <1>1, <1>2, Zenon

\* The finalization loop forgets a grant, or leaves it.
LEMMA FinalizationAdmits ==
  ASSUME StartInv, AdmissionInv, ReconcileSession \/ DrainUnadmitted
  PROVE  AdmissionInv'
  <1>1. UNCHANGED <<ego, launched, nonce, pc, job>> /\ gate \in {"free", "finalization"} /\ (running' => running)
    BY DEF ReconcileSession, DrainUnadmitted, AdmissionInv, GateHeld
  <1>2. (granted' = granted /\ UNCHANGED broker) \/ (granted' = NoNonce /\ (peer' => peer /\ reg' = reg))
    BY DEF ReconcileSession, DrainUnadmitted, Forget, broker
  <1>3. /\ gate' \in {"free", "finalization"}
        /\ gate' = "finalization" <=> draining'
        /\ draining' => UNCHANGED <<broker, granted>> /\ ~Admitted
    BY DEF ReconcileSession, DrainUnadmitted, AdmissionInv, GateHeld
  <1>4. pc \notin Holding
    BY <1>1 DEF AdmissionInv, GateHeld
  <1>5. pc \notin {"launch", "propose", "prepare", "authorize", "send", "await", "ack", "cancel", "finish"}
    BY <1>4 DEF Holding, PCs
  <1> QED
    BY <1>1, <1>2, <1>3, <1>4, <1>5
    DEF AdmissionInv, GateHeld, PeerRegistered, LaunchedOnce, GrantTrue, ProposingAdmitted, DrainUnwanted, Admitted, broker

LEMMA WorkerCrashAdmits ==
  ASSUME StartInv, AdmissionInv, WorkerCrash
  PROVE  AdmissionInv'
  <1>1. ~job'.authorized
    BY DEF WorkerCrash, NoJob
  <1> QED
    BY <1>1 DEF WorkerCrash, AdmissionInv, GateHeld, PeerRegistered, LaunchedOnce, GrantTrue, ProposingAdmitted,
                DrainUnwanted, Holding

LEMMA AdmissionInit == Init => AdmissionInv
  BY DEF Init, AdmissionInv, GateHeld, PeerRegistered, LaunchedOnce, GrantTrue, ProposingAdmitted, DrainUnwanted,
         Holding, NoJob

LEMMA AdmissionStep == StartInv /\ BrokerTypes /\ AdmissionInv /\ [Next]_vars => AdmissionInv'
  <1> SUFFICES ASSUME StartInv, BrokerTypes, AdmissionInv, [Next]_vars PROVE AdmissionInv'
    OBVIOUS
  <1>1. CASE StartupStep
    BY <1>1, LockAdmissionsAdmits, StartupAdmits, RecoverRuntimeAdmits, AuthorizePeerAdmits, LaunchRuntimeAdmits,
       FinishStartupAdmits, StopsAdmit DEF StartupStep
  <1>2. CASE ExpireLease \/ CancelTask \/ (\E o \in Outcome : AcceptConfirmation(o)) \/ InspectionStep \/ CancelLate
               \/ RuntimeExit \/ UNCHANGED vars
    BY <1>2, OutsideAdmission
  <1>3. CASE Poll \/ LoseLease \/ RecordStopIntent \/ ReconcileSession \/ DrainUnadmitted \/ WorkerCrash
    BY <1>3, PollAdmits, LoseLeaseAdmits, StopsAdmit, FinalizationAdmits, WorkerCrashAdmits
  <1> QED BY <1>1, <1>2, <1>3 DEF Next

\* A runtime is proposed as running only while its own browser peer is authorized
\* (snapshot_peer.go:66-88, snapshot_startup.go:87-125).
THEOREM ProposalsAreAdmitted == Spec => ProposedRuntimeAdmitted
  <1>1. StartInv /\ AdmissionInv /\ [Next]_vars =>
          [(entry'.outcome # entry.outcome /\ entry'.outcome.kind = "running" /\ ego)
             => (launched /\ reg = nonce /\ peer)]_vars
    <2> SUFFICES ASSUME StartInv, AdmissionInv, Next, entry'.outcome # entry.outcome,
                        entry'.outcome.kind = "running", ego
                 PROVE  launched /\ reg = nonce /\ peer
      BY DEF vars
    <2>1. entry \in Entry /\ job \in Job /\ ient \in Entry
      BY DEF StartInv, StartTypes
    <2>2. CASE Propose
      <3>1. entry' = [status |-> "pending", outcome |-> Proposal, evidence |-> 0]
        BY <2>2, Zenon DEF Propose
      <3>2. pc = "propose" /\ job.kind = "running"
        BY <2>2, <3>1 DEF Propose, Proposal
      <3> QED BY <3>2, Zenon DEF AdmissionInv, ProposingAdmitted
    <2>3. CASE DecidePrevious
      <3>1. Settled(job.prev, job.obs)
        BY <2>3 DEF DecidePrevious, Settled, Confirm, Retire
      <3> QED BY <2>1, <3>1, Zenon DEF Settled, Entry
    <2>4. CASE SettlePending
      <3>1. Settled(ient, iobs)
        BY <2>4 DEF SettlePending, Settled, Confirm, Retire
      <3> QED BY <2>1, <3>1, Zenon DEF Settled, Entry
    <2>5. CASE Acknowledge
      BY <2>1, <2>5 DEF Acknowledge, Confirm, Entry
    <2> QED
      BY <2>2, <2>3, <2>4, <2>5, Zenon
      DEF Next, ExpireLease, CancelTask, AcceptConfirmation, Poll, StartupStep, LockAdmissions, InspectPrevious,
          AcquireLease, StepFails, RecoverRuntime, PrepareSnapshot, AuthorizePeer, LaunchRuntime, SendConfirmation,
          AwaitReceipt, CancelRuntime, FinishStartup, StopManagedWriters, LoseLease, RecordStopIntent, CancelLate,
          InspectionStep, ListPending, InspectPending, ReconcileSession, DrainUnadmitted, RuntimeExit, WorkerCrash
  <1> QED
    BY <1>1, StartInit, BrokerStep, StartStep, AdmissionInit, AdmissionStep, PTL DEF Spec, ProposedRuntimeAdmitted

\* The finalization loop never drains a runtime that this process admitted
\* (managed_admission_recovery.go:16-18).
THEOREM DrainsAreUnwanted == Spec => AdmittedNeverDrained
  <1>1. AdmissionInv /\ [Next]_vars =>
          [(draining /\ ~draining' /\ running /\ ~running') => ~(granted = nonce /\ reg = nonce /\ peer)]_vars
    BY DEF AdmissionInv, DrainUnwanted
  <1> QED
    BY <1>1, StartInit, BrokerStep, StartStep, AdmissionInit, AdmissionStep, PTL DEF Spec, AdmittedNeverDrained

=============================================================================
