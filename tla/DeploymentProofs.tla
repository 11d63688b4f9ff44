--------------------------- MODULE DeploymentProofs ---------------------------
(***************************************************************************)
(* An accepted deployment stays retained, the record says no more than     *)
(* happened, and a drained attempt stays sealed, for every number of       *)
(* leases and faults and every set of files.                               *)
(*                                                                         *)
(* Two actors write one record from what they read of it, of the control   *)
(* plane and of the helper some steps earlier.  Truthful says what a       *)
(* record claims; none of its claims can become false again, so it holds   *)
(* of an actor's old copy as well as of the record.  Supported says what   *)
(* an actor relies on at each of its steps, HelperInv that a bundle is     *)
(* copied under Server.mu and published whole, ServerInv what the control  *)
(* plane's decision rests on.                                              *)
(***************************************************************************)
EXTENDS Deployment, TLAPS

Statuses == {"none", "pending", "confirmed", "requested", "revoked", "drained", "ended"}
Results == [att : Nat, rid : Nat]
Intents == [att : Nat, outcome : {"none", "failed", "superseded"}]
Records == [status : Statuses, result : Results, req : Nat, intent : Intents]
Streams == [pc : {"none", "lock", "copy", "publish", "prepared", "failed"},
            open : BOOLEAN, files : SUBSET Objects]
Jobs == [att : Nat, obs : [accepted : BOOLEAN, attempt : Nat, status : TaskStatus],
         live : BOOLEAN, slot : Nat, rid : Nat]

DeploymentTypes ==
  /\ status \in TaskStatus /\ attempt \in Nat /\ accepted \in Results /\ intent \in Intents
  /\ entry \in Records /\ stream \in [Slots -> Streams] /\ drained \in BOOLEAN
  /\ drain \in [Actors -> {"none", "lock", "drained", "failed"}]
  /\ pc \in [Actors -> PCs] /\ mine \in [Actors -> Records]
  /\ seen \in [Actors -> Intents] /\ job \in Jobs

\* The bundle that is published: the first one is the only one.
Whole == [rid |-> 1, files |-> Objects]

\* What a result claims: its preparation is retained, whole.
Kept(r) == r # NoResult => bundle = Whole /\ r.rid = 1

Truthful(r) ==
  /\ Kept(r.result)
  /\ r.status \in {"pending", "confirmed"} => r.result # NoResult
  /\ r.status = "confirmed" => accepted = r.result
  /\ r.status \in {"revoked", "drained", "ended"} => r.intent = intent /\ intent # NoIntent
  /\ r.status \in {"drained", "ended"} => drained
  /\ r.status = "ended" => TerminationAccepted

\* What actor a relies on at step p with record m and the intent i it was told.
Ready(a, p, m, i) ==
  /\ Truthful(m)
  /\ i # NoIntent => i = intent
  /\ p \in {"begin", "saveIntent"} => i # NoIntent
  /\ a = "loop" /\ p = "intent" => m.status = "pending"
  /\ p \in {"inspect", "send", "await", "ack"} => m.status \in {"pending", "confirmed"}
  /\ p = "compete" => m.result # NoResult
  /\ p \in {"confirm", "ack", "restore"} => accepted = m.result /\ accepted # NoResult
  /\ p \in {"drain", "draining", "saveDrain"} => m.status = "revoked"
  /\ p = "saveDrain" => drained
  /\ p \in {"finish", "close"} => m.status = "drained"
  /\ p = "close" => TerminationAccepted

\* A drain handler works for a revoked attempt.
DrainBacked(a) ==
  /\ drain[a] # "none" => intent # NoIntent
  /\ drain[a] = "drained" => drained

Supported == \A a \in Actors : Ready(a, pc[a], mine[a], seen[a]) /\ DrainBacked(a)

\* What the task has in hand at step p.
TaskHolds(p, j) ==
  /\ p = "stream" => j.slot \in Slots
  /\ p = "propose" => j.rid = 1 /\ bundle = Whole

HelperInv ==
  /\ bundle \in {NoBundle, Whole}
  /\ \A i \in Slots :
       /\ stream[i].pc \in {"copy", "publish"} => mu = i /\ bundle = NoBundle /\ ~drained
       /\ stream[i].pc = "publish" => stream[i].files = Objects
       /\ stream[i].pc = "prepared" => bundle = Whole
  /\ TaskHolds(pc["task"], job)

ServerInv ==
  /\ \A r \in sent : Kept(r)
  /\ accepted # NoResult => status = "succeeded" /\ intent = NoIntent /\ Kept(accepted)
  /\ drained => intent # NoIntent
  /\ status \in {"failed", "cancelled"} => drained

DeploymentInv ==
  /\ DeploymentTypes /\ HelperInv /\ ServerInv
  /\ Truthful(entry) /\ Supported

-----------------------------------------------------------------------------
(* Frames. *)

LEMMA Constants ==
  /\ NoRecord \in Records /\ NoResult \in Results /\ NoIntent \in Intents /\ NoJob \in Jobs
  /\ NoStream \in Streams /\ Whole # NoBundle
  <1>1. NoResult \in Results /\ NoIntent \in Intents
    BY DEF NoResult, Results, NoIntent, Intents
  <1>2. NoRecord \in Records
    BY <1>1 DEF NoRecord, Records, Statuses
  <1>3. NoJob \in Jobs
    BY DEF NoJob, Jobs, NoObservation, TaskStatus
  <1>4. NoStream \in Streams /\ Whole # NoBundle
    BY DEF NoStream, Streams, Whole, NoBundle
  <1> QED BY <1>1, <1>2, <1>3, <1>4

\* What nobody holds is no claim.
LEMMA NothingIsReady ==
  ASSUME NEW a \in Actors
  PROVE  Truthful(NoRecord) /\ Ready(a, "idle", NoRecord, NoIntent)
  BY DEF Ready, Truthful, Kept, NoRecord

\* What decisions, drains and bundles there are stays.
Lasting ==
  /\ bundle = Whole => bundle' = Whole
  /\ drained => drained'
  /\ accepted # NoResult => accepted' = accepted
  /\ intent # NoIntent => intent' = intent
  /\ TerminationAccepted => TerminationAccepted'

\* So what an actor may rely on now, it may rely on after the step.
LEMMA ReadyLasts ==
  ASSUME Lasting, NEW a \in Actors, Ready(a, pc'[a], mine'[a], seen'[a])
  PROVE  Ready(a, pc[a], mine[a], seen[a])'
  <1>1. Truthful(mine'[a])
    BY DEF Ready
  <1>2. Truthful(mine[a])'
    BY <1>1 DEF Lasting, Truthful, Kept
  <1> QED BY <1>2 DEF Lasting, Ready

\* The control plane or the helper moves, and the worker does not.
LEMMA OthersMove ==
  ASSUME DeploymentInv, Lasting, UNCHANGED <<entry, actors>>,
         DeploymentTypes', HelperInv', ServerInv', \A a \in Actors : DrainBacked(a)'
  PROVE  DeploymentInv'
  <1>1. Truthful(entry)'
    BY DEF DeploymentInv, Lasting, Truthful, Kept
  <1>2. ASSUME NEW a \in Actors
        PROVE  Ready(a, pc[a], mine[a], seen[a])'
    BY <1>2 DEF DeploymentInv, Supported, Lasting, Ready, Truthful, Kept, actors
  <1> QED BY <1>1, <1>2 DEF DeploymentInv, Supported

\* The worker moves, and the control plane does not.
LEMMA WorkerMoves ==
  ASSUME DeploymentInv, UNCHANGED <<control, wire, bundle, drained>>,
         DeploymentTypes', HelperInv', Truthful(entry'),
         \A b \in Actors : Ready(b, pc'[b], mine'[b], seen'[b]) /\ DrainBacked(b)'
  PROVE  DeploymentInv'
  <1>1. ServerInv'
    BY DEF DeploymentInv, ServerInv, control, wire, Kept
  <1>2. Truthful(entry)'
    BY DEF control, Truthful, Kept, TerminationAccepted
  <1>3. ASSUME NEW b \in Actors
        PROVE  Ready(b, pc[b], mine[b], seen[b])'
    BY <1>3 DEF Ready, Truthful, Kept, TerminationAccepted, control
  <1> QED BY <1>1, <1>2, <1>3 DEF DeploymentInv, Supported

\* One actor moves, and the helper does not either.
LEMMA ActorMoves ==
  ASSUME DeploymentInv, UNCHANGED <<control, wire, helper>>,
         NEW a \in Actors, NEW p \in PCs, NEW m \in Records, NEW i \in Intents,
         pc' = [pc EXCEPT ![a] = p], mine' = [mine EXCEPT ![a] = m], seen' = [seen EXCEPT ![a] = i],
         Ready(a, p, m, i), job' \in Jobs, entry' \in Records, Truthful(entry'),
         TaskHolds(pc'["task"], job')
  PROVE  DeploymentInv'
  <1>1. DeploymentTypes'
    BY DEF DeploymentInv, DeploymentTypes, control, helper
  <1>2. HelperInv'
    BY DEF DeploymentInv, HelperInv, TaskHolds, helper
  <1>3. ASSUME NEW b \in Actors
        PROVE  Ready(b, pc'[b], mine'[b], seen'[b]) /\ DrainBacked(b)'
    BY <1>3 DEF DeploymentInv, DeploymentTypes, Supported, DrainBacked, control, helper
  <1> QED BY <1>1, <1>2, <1>3, WorkerMoves DEF helper

\* It ends its pass.
LEMMA ActorReturns ==
  ASSUME DeploymentInv, UNCHANGED <<control, wire, helper>>, NEW a \in Actors, Return(a),
         entry' \in Records, Truthful(entry')
  PROVE  DeploymentInv'
  <1>1. job' \in Jobs
    BY Constants DEF DeploymentInv, DeploymentTypes, Return, Forgets
  <1>2. TaskHolds(pc'["task"], job')
    BY DEF DeploymentInv, DeploymentTypes, HelperInv, TaskHolds, Return, Forgets, Actors, PCs
  <1>3. "idle" \in PCs
    BY DEF PCs
  <1> QED BY <1>1, <1>2, <1>3, ActorMoves, Constants, NothingIsReady, Zenon DEF Return, Forgets

\* It goes on to a step that asks for nothing more.
LEMMA ActorGoesOn ==
  ASSUME DeploymentInv, UNCHANGED <<control, wire, helper, entry, mine, seen>>,
         NEW a \in Actors, NEW p \in PCs, pc' = [pc EXCEPT ![a] = p], job' \in Jobs,
         Ready(a, p, mine[a], seen[a]),
         TaskHolds(pc'["task"], job')
  PROVE  DeploymentInv'
  <1>1. mine' = [mine EXCEPT ![a] = mine[a]] /\ seen' = [seen EXCEPT ![a] = seen[a]]
    BY DEF DeploymentInv, DeploymentTypes
  <1>2. mine[a] \in Records /\ seen[a] \in Intents /\ entry' \in Records /\ Truthful(entry')
    BY DEF DeploymentInv, DeploymentTypes
  <1> QED BY <1>1, <1>2, ActorMoves, Zenon

\* It saves a record and goes on, or ends its pass.
LEMMA ActorSaves ==
  ASSUME DeploymentInv, UNCHANGED <<control, wire, helper>>,
         NEW a \in Actors, NEW new \in Records, NEW next \in PCs \ {"stream", "propose"}, Save(a, new, next),
         Ready(a, next, new, NoIntent)
  PROVE  DeploymentInv'
  <1>1. Truthful(new)
    BY DEF Ready
  <1>2. CASE /\ entry' = new /\ mine' = [mine EXCEPT ![a] = new] /\ pc' = [pc EXCEPT ![a] = next]
             /\ seen' = [seen EXCEPT ![a] = NoIntent] /\ job' = IF a = "task" THEN NoJob ELSE job
    <2>1. job' \in Jobs
      BY <1>2, Constants DEF DeploymentInv, DeploymentTypes
    <2>2. TaskHolds(pc'["task"], job')
      BY <1>2 DEF DeploymentInv, DeploymentTypes, HelperInv, TaskHolds, Actors
    <2> QED BY <1>1, <1>2, <2>1, <2>2, ActorMoves, Constants, Zenon
  <1>3. CASE Return(a) /\ UNCHANGED entry
    BY <1>3, ActorReturns DEF DeploymentInv, DeploymentTypes
  <1> QED BY <1>2, <1>3 DEF Save, Swap

-----------------------------------------------------------------------------
(* The control plane. *)

LEMMA ExpireLeaseKeeps ==
  ASSUME DeploymentInv, ExpireLease
  PROVE  DeploymentInv'
  BY OthersMove DEF ExpireLease, DeploymentInv, DeploymentTypes, HelperInv, TaskHolds, ServerInv, Supported, DrainBacked, Kept, Lasting,
     TerminationAccepted, TaskStatus, helper, actors, wire

LEMMA SupersedeKeeps ==
  ASSUME DeploymentInv, Supersede
  PROVE  DeploymentInv'
  BY OthersMove DEF Supersede, DeploymentInv, DeploymentTypes, HelperInv, TaskHolds, ServerInv, Supported, DrainBacked, Kept, Lasting,
     TerminationAccepted, Open, Intents, NoIntent, helper, actors

LEMMA AcceptResultKeeps ==
  ASSUME DeploymentInv, NEW r \in PreparedResult, AcceptResult(r)
  PROVE  DeploymentInv'
  <1>1. r \in Results /\ r # NoResult
    BY DeploymentAssumption DEF PreparedResult, Attempts, Receipts, Results, NoResult
  <1> QED
    BY <1>1, OthersMove DEF AcceptResult, Acceptable, DeploymentInv, DeploymentTypes, HelperInv, TaskHolds, ServerInv, Supported,
       DrainBacked, Kept, Lasting, TerminationAccepted, TaskStatus, Open, helper, actors

LEMMA AcceptRequestKeeps ==
  ASSUME DeploymentInv, NEW n \in Attempts, AcceptRequest(n)
  PROVE  DeploymentInv'
  BY OthersMove DEF AcceptRequest, Revocable, DeploymentInv, DeploymentTypes, HelperInv, TaskHolds, ServerInv, Supported, DrainBacked,
     Kept, Lasting, TerminationAccepted, Open, Intents, NoIntent, helper, actors

-----------------------------------------------------------------------------
(* The helper. *)

LEMMA LockPreparationKeeps ==
  ASSUME DeploymentInv, NEW i \in Slots, LockPreparation(i)
  PROVE  DeploymentInv'
  <1>1. DeploymentTypes' /\ HelperInv'
    BY Constants DEF LockPreparation, StreamTo, MayLock, Sealed, Retained, Intact, DeploymentInv, DeploymentTypes, Streams, HelperInv, TaskHolds,
       Whole, NoBundle, Slots, control, wire, actors
  <1> QED BY <1>1, OthersMove DEF LockPreparation, DeploymentInv, ServerInv, Supported, DrainBacked, Kept, Lasting,
             TerminationAccepted, control, wire, actors

LEMMA CopyObjectKeeps ==
  ASSUME DeploymentInv, NEW i \in Slots, NEW o \in Objects, CopyObject(i, o)
  PROVE  DeploymentInv'
  <1>1. DeploymentTypes' /\ HelperInv'
    BY DEF CopyObject, DeploymentInv, DeploymentTypes, Streams, HelperInv, TaskHolds, control, wire, actors
  <1> QED BY <1>1, OthersMove DEF CopyObject, DeploymentInv, ServerInv, Supported, DrainBacked, Kept, Lasting,
             TerminationAccepted, control, wire, actors

LEMMA SealBundleKeeps ==
  ASSUME DeploymentInv, NEW i \in Slots, SealBundle(i)
  PROVE  DeploymentInv'
  <1>1. DeploymentTypes' /\ HelperInv'
    BY Zenon DEF SealBundle, StreamTo, Wanted, DeploymentInv, DeploymentTypes, Streams, HelperInv, TaskHolds, control, wire, actors
  <1> QED BY <1>1, OthersMove DEF SealBundle, DeploymentInv, ServerInv, Supported, DrainBacked, Kept, Lasting,
             TerminationAccepted, control, wire, actors

LEMMA PublishBundleKeeps ==
  ASSUME DeploymentInv, NEW i \in Slots, PublishBundle(i)
  PROVE  DeploymentInv'
  <1>1. bundle = NoBundle /\ bundle' = Whole
    BY DEF PublishBundle, DeploymentInv, HelperInv, TaskHolds, NoBundle, Whole
  <1>2. DeploymentTypes' /\ HelperInv'
    BY <1>1, Constants DEF PublishBundle, StreamTo, DeploymentInv, DeploymentTypes, Streams, HelperInv, TaskHolds, Slots, control, wire, actors
  <1> QED BY <1>1, <1>2, OthersMove, Constants DEF PublishBundle, DeploymentInv, ServerInv, Supported, DrainBacked, Kept, Lasting,
             TerminationAccepted, control, wire, actors

LEMMA PreparationFailsKeeps ==
  ASSUME DeploymentInv, NEW i \in Slots, PreparationFails(i)
  PROVE  DeploymentInv'
  <1>1. DeploymentTypes' /\ HelperInv'
    BY DEF PreparationFails, StreamTo, DeploymentInv, DeploymentTypes, Streams, HelperInv, TaskHolds, Slots, control, wire, actors
  <1> QED BY <1>1, OthersMove DEF PreparationFails, DeploymentInv, ServerInv, Supported, DrainBacked, Kept, Lasting,
             TerminationAccepted, control, wire, actors

LEMMA PreparationEndsKeeps ==
  ASSUME DeploymentInv, NEW i \in Slots, PreparationEnds(i)
  PROVE  DeploymentInv'
  <1>1. DeploymentTypes' /\ HelperInv'
    BY Constants DEF PreparationEnds, NoStream, DeploymentInv, DeploymentTypes, HelperInv, TaskHolds, Slots, control, wire, actors
  <1> QED BY <1>1, OthersMove DEF PreparationEnds, DeploymentInv, ServerInv, Supported, DrainBacked, Kept, Lasting,
             TerminationAccepted, control, wire, actors

LEMMA DrainAttemptKeeps ==
  ASSUME DeploymentInv, NEW a \in Actors, DrainAttempt(a)
  PROVE  DeploymentInv'
  <1>1. DeploymentTypes' /\ HelperInv'
    BY DEF DrainAttempt, MayLock, DeploymentInv, DeploymentTypes, HelperInv, TaskHolds, Slots, control, wire, actors
  <1> QED BY <1>1, OthersMove DEF DrainAttempt, DeploymentInv, DeploymentTypes, ServerInv, Supported, DrainBacked, Kept, Lasting,
             TerminationAccepted, control, wire, actors

LEMMA DrainEndsKeeps ==
  ASSUME DeploymentInv, NEW a \in Actors, DrainEnds(a)
  PROVE  DeploymentInv'
  <1>1. DeploymentTypes' /\ HelperInv'
    BY DEF DrainEnds, DeploymentInv, DeploymentTypes, HelperInv, TaskHolds, control, wire, actors
  <1> QED BY <1>1, OthersMove DEF DrainEnds, DeploymentInv, DeploymentTypes, ServerInv, Supported, DrainBacked, Kept, Lasting,
             TerminationAccepted, control, wire, actors

-----------------------------------------------------------------------------
(* The task. *)

\* What a position that asks for nothing is given anyway.
Plain == PCs \ {"begin", "saveIntent", "intent", "inspect", "send", "await", "ack", "compete", "confirm",
                "restore", "drain", "draining", "saveDrain", "finish", "close", "stream", "propose"}

LEMMA PlainIsReady ==
  ASSUME DeploymentInv, NEW a \in Actors, NEW p \in Plain
  PROVE  Ready(a, p, mine[a], seen[a])
  BY DEF DeploymentInv, Supported, Ready, Plain

\* The task, or the loop, goes on to a plain position.
LEMMA ActorGoesPlain ==
  ASSUME DeploymentInv, UNCHANGED <<control, wire, helper, entry, mine, seen>>,
         NEW a \in Actors, NEW p \in Plain, pc' = [pc EXCEPT ![a] = p], job' \in Jobs,
         a = "task" \/ job' = job
  PROVE  DeploymentInv'
  <1>1. p \in PCs /\ p \notin {"stream", "propose"}
    BY DEF Plain
  <1>2. TaskHolds(pc'["task"], job')
    BY <1>1 DEF DeploymentInv, DeploymentTypes, HelperInv, TaskHolds, Actors
  <1> QED BY <1>1, <1>2, PlainIsReady, ActorGoesOn, Zenon

Observations == [accepted : BOOLEAN, attempt : Nat, status : TaskStatus]

LEMMA LiveJob ==
  ASSUME job \in Jobs, NEW b \in BOOLEAN
  PROVE  LET j == [job EXCEPT !.live = b] IN j \in Jobs /\ j.slot = job.slot /\ j.rid = job.rid
  BY DEF Jobs

LEMMA PreparedJob ==
  ASSUME job \in Jobs, NEW n \in Nat
  PROVE  LET j == [job EXCEPT !.slot = 0, !.rid = n] IN j \in Jobs /\ j.rid = n
  BY Zenon DEF Jobs

LEMMA FailedJob ==
  ASSUME job \in Jobs
  PROVE  [NoJob EXCEPT !.att = job.att] \in Jobs
  BY Zenon DEF Jobs, NoJob, NoObservation, TaskStatus

LEMMA LeasedJob ==
  ASSUME job \in Jobs, attempt \in Nat
  PROVE  [job EXCEPT !.att = attempt + 1] \in Jobs
  BY DEF Jobs

LEMMA InspectedJob ==
  ASSUME job \in Jobs, NEW o \in Observations
  PROVE  [job EXCEPT !.obs = o] \in Jobs
  BY DEF Jobs, Observations

LEMMA ObservationTypes ==
  ASSUME attempt \in Nat, status \in TaskStatus
  PROVE  NoObservation \in Observations /\ \A r : Observe(r) \in Observations
  BY DEF NoObservation, Observe, Observations, TaskStatus

LEMMA FailedWork ==
  ASSUME DeploymentInv, UNCHANGED <<control, wire, helper, entry>>, FailWork
  PROVE  DeploymentInv'
  <1>1. "task" \in Actors /\ "fail" \in Plain /\ job \in Jobs /\ attempt \in Nat /\ status \in TaskStatus
    BY DEF Actors, Plain, PCs, DeploymentInv, DeploymentTypes
  <1>2. CASE pc' = [pc EXCEPT !["task"] = "fail"] /\ job' = [NoJob EXCEPT !.att = job.att] /\ UNCHANGED <<mine, seen>>
    BY <1>1, <1>2, ActorGoesPlain, FailedJob, Zenon
  <1>3. CASE Return("task")
    BY <1>1, <1>3, ActorReturns DEF DeploymentInv, DeploymentTypes
  <1> QED BY <1>2, <1>3 DEF FailWork

LEMMA PollKeeps ==
  ASSUME DeploymentInv, Poll
  PROVE  DeploymentInv'
  <1>1. job \in Jobs /\ attempt \in Nat /\ status \in TaskStatus
    BY DEF DeploymentInv, DeploymentTypes
  <1>2. DeploymentTypes'
    BY <1>1, LeasedJob DEF Poll, DeploymentInv, DeploymentTypes, TaskStatus, PCs, Actors, helper
  <1>3. HelperInv' /\ ServerInv'
    BY DEF Poll, DeploymentInv, DeploymentTypes, HelperInv, TaskHolds, ServerInv, Kept, Actors, helper
  <1>4. Truthful(entry)'
    BY DEF Poll, DeploymentInv, Truthful, Kept, TerminationAccepted, helper
  <1>5. ASSUME NEW a \in Actors
        PROVE  Ready(a, pc[a], mine[a], seen[a])' /\ DrainBacked(a)'
    BY <1>5 DEF Poll, DeploymentInv, DeploymentTypes, Supported, Ready, DrainBacked, Truthful, Kept, TerminationAccepted, Actors, helper
  <1> QED BY <1>2, <1>3, <1>4, <1>5 DEF DeploymentInv, Supported

\* Where a termination record is resumed, it supports the step.
LEMMA PhaseIsReady ==
  ASSUME NEW a \in Actors, NEW m, Truthful(m), NEW i \in {NoIntent, intent}
  PROVE  Phase(m) \in PCs \ {"stream", "propose"} /\ Ready(a, Phase(m), m, i)
  BY DEF Phase, PCs, Ready

LEMMA LookUpKeeps ==
  ASSUME DeploymentInv, LookUp
  PROVE  DeploymentInv'
  <1> DEFINE p == IF TerminationStatus(entry.status)
                  THEN IF entry.status = "requested" /\ job.att > entry.req THEN "refresh" ELSE Phase(entry)
                  ELSE IF entry.status = "confirmed" THEN "load" ELSE "intent"
  <1>1. "task" \in Actors /\ entry \in Records /\ Truthful(entry) /\ seen["task"] \in {NoIntent, intent}
    BY DEF Actors, DeploymentInv, DeploymentTypes, Supported, Ready
  <1>2. job' \in Jobs
    BY Constants DEF LookUp, DeploymentInv, DeploymentTypes
  <1>3. p \in PCs \ {"stream", "propose"} /\ Ready("task", p, entry, seen["task"])
    <2>1. Phase(entry) \in PCs \ {"stream", "propose"} /\ Ready("task", Phase(entry), entry, seen["task"])
      BY <1>1, PhaseIsReady
    <2>2. \A q \in {"refresh", "load", "intent"} : q \in PCs \ {"stream", "propose"} /\ Ready("task", q, entry, seen["task"])
      BY <1>1 DEF PCs, Ready
    <2> QED BY <2>1, <2>2
  <1>4. pc' = [pc EXCEPT !["task"] = p] /\ mine' = [mine EXCEPT !["task"] = entry] /\ UNCHANGED <<control, wire, helper, entry, seen>>
    BY DEF LookUp
  <1>5. seen' = [seen EXCEPT !["task"] = seen["task"]] /\ seen["task"] \in Intents /\ pc'["task"] \notin {"stream", "propose"}
    BY <1>1, <1>3, <1>4 DEF DeploymentInv, DeploymentTypes
  <1>6. TaskHolds(pc'["task"], job')
    BY <1>5 DEF TaskHolds
  <1> HIDE DEF p
  <1> QED BY <1>1, <1>2, <1>3, <1>4, <1>5, <1>6, ActorMoves, Zenon

LEMMA SaveRefreshKeeps ==
  ASSUME DeploymentInv, SaveRefresh
  PROVE  DeploymentInv'
  <1> DEFINE old == mine["task"]
             new == IF seen["task"] # NoIntent
                    THEN [old EXCEPT !.status = "revoked", !.req = seen["task"].att, !.intent = seen["task"]]
                    ELSE [old EXCEPT !.req = job.att]
  <1>1. "task" \in Actors /\ old \in Records /\ Truthful(old) /\ seen["task"] \in Intents
        /\ (seen["task"] # NoIntent => seen["task"] = intent) /\ job \in Jobs
    BY DEF Actors, DeploymentInv, DeploymentTypes, Supported, Ready
  <1>2. new \in Records
    BY <1>1, Zenon DEF Records, Statuses, Intents, Jobs
  <1>3. Truthful(new)
    BY <1>1 DEF Records, Truthful, Kept
  <1>4. Save("task", new, Phase(new)) /\ UNCHANGED <<control, wire, helper>>
    BY DEF SaveRefresh
  <1> HIDE DEF new
  <1>5. Phase(new) \in PCs \ {"stream", "propose"} /\ Ready("task", Phase(new), new, NoIntent)
    BY <1>1, <1>3, PhaseIsReady
  <1> QED BY <1>1, <1>2, <1>4, <1>5, ActorSaves

LEMMA LoadPreviousKeeps ==
  ASSUME DeploymentInv, LoadPrevious
  PROVE  DeploymentInv'
  <1>1. "task" \in Actors /\ entry \in Records /\ Truthful(entry) /\ seen["task"] \in Intents /\ job \in Jobs
        /\ (seen["task"] # NoIntent => seen["task"] = intent)
    BY DEF Actors, DeploymentInv, DeploymentTypes, Supported, Ready
  <1>2. CASE Return("task")
    BY <1>1, <1>2, ActorReturns DEF LoadPrevious
  <1>3. CASE /\ ~TerminationStatus(entry.status) /\ mine' = [mine EXCEPT !["task"] = entry]
             /\ pc' = [pc EXCEPT !["task"] = IF entry.status = "none" THEN "lease" ELSE "inspect"]
             /\ UNCHANGED <<seen, job>>
    <2> DEFINE p == IF entry.status = "none" THEN "lease" ELSE "inspect"
    <2>1. p \in PCs /\ Ready("task", p, entry, seen["task"]) /\ p \notin {"stream", "propose"}
      BY <1>1, <1>3 DEF TerminationStatus, Records, Statuses, PCs, Ready
    <2>2. seen' = [seen EXCEPT !["task"] = seen["task"]] /\ pc' = [pc EXCEPT !["task"] = p] /\ pc'["task"] \notin {"stream", "propose"}
      BY <1>1, <1>3, <2>1 DEF DeploymentInv, DeploymentTypes
    <2>3. TaskHolds(pc'["task"], job')
      BY <2>2 DEF TaskHolds
    <2> HIDE DEF p
    <2> QED BY <1>1, <1>3, <2>1, <2>2, <2>3, ActorMoves, Zenon DEF LoadPrevious
  <1> QED BY <1>2, <1>3 DEF LoadPrevious

LEMMA AcquireLeaseKeeps ==
  ASSUME DeploymentInv, AcquireLease
  PROVE  DeploymentInv'
  <1>1. "task" \in Actors /\ "fetch" \in Plain /\ job \in Jobs /\ attempt \in Nat /\ status \in TaskStatus
    BY DEF Actors, Plain, PCs, DeploymentInv, DeploymentTypes
  <1>2. CASE FailWork
    BY <1>2, FailedWork DEF AcquireLease
  <1>3. CASE /\ pc' = [pc EXCEPT !["task"] = "fetch"] /\ job' = [job EXCEPT !.live = TRUE] /\ UNCHANGED <<mine, seen>>
    BY <1>1, <1>3, ActorGoesPlain, LiveJob, Zenon DEF AcquireLease
  <1> QED BY <1>2, <1>3 DEF AcquireLease

LEMMA LoseLeaseKeeps ==
  ASSUME DeploymentInv, LoseLease
  PROVE  DeploymentInv'
  <1>1. "task" \in Actors /\ job \in Jobs /\ attempt \in Nat /\ status \in TaskStatus /\ job' \in Jobs
        /\ job'.slot = job.slot /\ job'.rid = job.rid
    BY LiveJob, Zenon DEF LoseLease, Actors, DeploymentInv, DeploymentTypes
  <1>2. pc' = [pc EXCEPT !["task"] = pc["task"]] /\ pc["task"] \in PCs
    BY DEF LoseLease, DeploymentInv, DeploymentTypes, Actors
  <1>3. Ready("task", pc["task"], mine["task"], seen["task"])
        /\ TaskHolds(pc'["task"], job')
    BY <1>1, <1>2 DEF DeploymentInv, DeploymentTypes, HelperInv, TaskHolds, Supported
  <1> QED BY <1>1, <1>2, <1>3, ActorGoesOn, Zenon DEF LoseLease

LEMMA WorkFailsKeeps ==
  ASSUME DeploymentInv, WorkFails
  PROVE  DeploymentInv'
  <1>1. "task" \in Actors /\ entry \in Records /\ Truthful(entry) /\ "fail" \in Plain /\ Plain \subseteq PCs
        /\ job \in Jobs /\ attempt \in Nat /\ status \in TaskStatus
    BY DEF Actors, DeploymentInv, DeploymentTypes, Plain, PCs
  <1>2. /\ stream' \in [Slots -> Streams]
        /\ \A i \in Slots : stream'[i].pc = stream[i].pc /\ stream'[i].files = stream[i].files
    BY Zenon DEF WorkFails, HangUp, DeploymentInv, DeploymentTypes, Streams
  <1>3. /\ job' \in Jobs /\ pc' \in [Actors -> PCs] /\ mine' \in [Actors -> Records] /\ seen' \in [Actors -> Intents]
        /\ pc'["task"] \notin {"stream", "propose"}
    BY <1>1, Constants, FailedJob DEF WorkFails, FailWork, Return, Forgets, DeploymentInv, DeploymentTypes, PCs
  <1>4. DeploymentTypes'
    BY <1>2, <1>3 DEF WorkFails, DeploymentInv, DeploymentTypes, control
  <1>5. HelperInv'
    BY <1>2, <1>3 DEF WorkFails, DeploymentInv, HelperInv, TaskHolds
  <1>6. ASSUME NEW a \in Actors
        PROVE  Ready(a, pc'[a], mine'[a], seen'[a]) /\ DrainBacked(a)'
    BY <1>1, <1>6, PlainIsReady, NothingIsReady
       DEF WorkFails, FailWork, Return, Forgets, DeploymentInv, DeploymentTypes, Supported, DrainBacked, control
  <1> QED BY <1>1, <1>4, <1>5, <1>6, WorkerMoves DEF WorkFails

LEMMA FetchInputKeeps ==
  ASSUME DeploymentInv, FetchInput
  PROVE  DeploymentInv'
  <1>1. "task" \in Actors /\ "prepare" \in Plain /\ job \in Jobs
    BY DEF Actors, Plain, PCs, DeploymentInv, DeploymentTypes
  <1> QED BY <1>1, ActorGoesPlain, Zenon DEF FetchInput, At

LEMMA FetchEndsKeeps ==
  ASSUME DeploymentInv, FetchRefused \/ InputRejected
  PROVE  DeploymentInv'
  <1>1. "task" \in Actors /\ entry \in Records /\ Truthful(entry)
    BY DEF Actors, DeploymentInv, DeploymentTypes
  <1> QED BY <1>1, FailedWork, ActorReturns DEF FetchRefused, InputRejected

LEMMA OpenStreamKeeps ==
  ASSUME DeploymentInv, NEW i \in Slots, OpenStream(i)
  PROVE  DeploymentInv'
  <1>1. "task" \in Actors /\ "stream" \in PCs /\ i \in Nat
    BY DEF Actors, PCs, Slots
  <1>2. job' \in Jobs
    BY <1>1 DEF OpenStream, DeploymentInv, DeploymentTypes, Jobs
  <1>3. stream' \in [Slots -> Streams]
    BY DEF OpenStream, DeploymentInv, DeploymentTypes, Streams
  <1>4. DeploymentTypes'
    BY <1>1, <1>2, <1>3 DEF OpenStream, At, DeploymentInv, DeploymentTypes, control
  <1>5. HelperInv'
    BY DEF OpenStream, At, DeploymentInv, DeploymentTypes, HelperInv, TaskHolds, Actors
  <1>6. ASSUME NEW a \in Actors
        PROVE  Ready(a, pc'[a], mine'[a], seen'[a]) /\ DrainBacked(a)'
    BY <1>1, <1>6 DEF OpenStream, At, Ready, DeploymentInv, DeploymentTypes, Supported, DrainBacked, control
  <1> QED BY <1>4, <1>5, <1>6, WorkerMoves DEF OpenStream, DeploymentInv

LEMMA StreamAnsweredKeeps ==
  ASSUME DeploymentInv, StreamAnswered
  PROVE  DeploymentInv'
  <1>1. "task" \in Actors /\ "fail" \in Plain /\ Plain \subseteq PCs /\ "propose" \in PCs /\ job \in Jobs
        /\ attempt \in Nat /\ status \in TaskStatus /\ entry \in Records /\ Truthful(entry)
    BY DEF Actors, Plain, PCs, DeploymentInv, DeploymentTypes
  <1>2. stream' \in [Slots -> Streams]
    BY Constants, Zenon DEF StreamAnswered, DeploymentInv, DeploymentTypes
  <1>3. \A i \in Slots : stream'[i] \in {stream[i], NoStream}
    BY <1>2 DEF StreamAnswered, DeploymentInv, DeploymentTypes
  <1>4. UNCHANGED <<control, wire, entry, bundle, drained, mu, drain>>
    BY DEF StreamAnswered
  <1>5. CASE /\ stream[job.slot].pc = "prepared" /\ pc' = [pc EXCEPT !["task"] = "propose"]
             /\ job' = [job EXCEPT !.slot = 0, !.rid = bundle.rid] /\ UNCHANGED <<mine, seen>>
    <2>0. job.slot \in Slots
      BY DEF StreamAnswered, DeploymentInv, HelperInv, TaskHolds
    <2>1. bundle = Whole /\ bundle.rid = 1
      BY <1>5, <2>0 DEF DeploymentInv, HelperInv, TaskHolds, Whole
    <2>2. job' \in Jobs /\ job'.rid = 1
      BY <1>1, <1>5, <2>1, PreparedJob, Zenon
    <2>3. DeploymentTypes'
      BY <1>1, <1>2, <1>4, <1>5, <2>2 DEF DeploymentInv, DeploymentTypes, control
    <2>4. HelperInv'
      <3>1. pc'["task"] = "propose"
        BY <1>1, <1>5 DEF DeploymentInv, DeploymentTypes
      <3> QED BY <1>3, <1>4, <2>1, <2>2, <3>1 DEF DeploymentInv, HelperInv, TaskHolds, NoStream
    <2>5. ASSUME NEW a \in Actors
          PROVE  Ready(a, pc'[a], mine'[a], seen'[a]) /\ DrainBacked(a)'
      <3>1. Ready("task", "propose", mine["task"], seen["task"])
        BY <1>1 DEF DeploymentInv, Supported, Ready
      <3> QED BY <1>4, <1>5, <2>5, <3>1 DEF DeploymentInv, DeploymentTypes, Supported, DrainBacked, control
    <2> QED BY <1>1, <1>4, <2>3, <2>4, <2>5, WorkerMoves
  <1>6. CASE FailWork
    <2>1. /\ job' \in Jobs /\ pc' \in [Actors -> PCs] /\ mine' \in [Actors -> Records] /\ seen' \in [Actors -> Intents]
          /\ pc'["task"] \notin {"stream", "propose"}
      BY <1>1, <1>6, Constants, FailedJob DEF FailWork, Return, Forgets, DeploymentInv, DeploymentTypes, PCs
    <2>2. DeploymentTypes'
      BY <1>2, <1>4, <2>1 DEF DeploymentInv, DeploymentTypes, control
    <2>3. HelperInv'
      BY <1>3, <1>4, <2>1 DEF DeploymentInv, HelperInv, TaskHolds, NoStream
    <2>4. ASSUME NEW a \in Actors
          PROVE  Ready(a, pc'[a], mine'[a], seen'[a]) /\ DrainBacked(a)'
      BY <1>1, <1>4, <1>6, <2>4, PlainIsReady, NothingIsReady
         DEF FailWork, Return, Forgets, DeploymentInv, DeploymentTypes, Supported, DrainBacked, control
    <2> QED BY <1>1, <1>4, <2>2, <2>3, <2>4, WorkerMoves
  <1> QED BY <1>5, <1>6 DEF StreamAnswered

LEMMA ProposeKeeps ==
  ASSUME DeploymentInv, Propose
  PROVE  DeploymentInv'
  <1> DEFINE r == [att |-> job.att, rid |-> job.rid]
             new == [NoRecord EXCEPT !.status = "pending", !.result = r]
  <1>1. "task" \in Actors /\ "reload" \in Plain /\ Plain \subseteq PCs /\ job \in Jobs /\ attempt \in Nat
        /\ status \in TaskStatus /\ entry \in Records /\ Truthful(entry)
    BY DEF Actors, Plain, PCs, DeploymentInv, DeploymentTypes
  <1>2. bundle = Whole /\ job.rid = 1
    BY DEF Propose, DeploymentInv, HelperInv, TaskHolds
  <1>3. new \in Records /\ Truthful(new)
    <2>1. r \in Results /\ r # NoResult /\ r.rid = 1
      BY <1>1, <1>2 DEF Jobs, Results, NoResult
    <2> HIDE DEF r
    <2>2. new \in Records /\ new.status = "pending" /\ new.result = r
      BY <2>1, Constants, Zenon DEF Records, Statuses
    <2> HIDE DEF new
    <2> QED BY <1>2, <2>1, <2>2 DEF Truthful, Kept
  <1>4. UNCHANGED <<control, wire, helper>>
    BY DEF Propose
  <1>5. CASE /\ entry' \in {entry, new} /\ pc' = [pc EXCEPT !["task"] = "reload"]
             /\ job' = [job EXCEPT !.obs = NoObservation] /\ UNCHANGED <<mine, seen>>
    <2>1. mine' = [mine EXCEPT !["task"] = mine["task"]] /\ seen' = [seen EXCEPT !["task"] = seen["task"]]
          /\ mine["task"] \in Records /\ seen["task"] \in Intents
      BY <1>1, <1>5 DEF DeploymentInv, DeploymentTypes
    <2>2. job' \in Jobs /\ pc'["task"] = "reload"
      BY <1>1, <1>5, InspectedJob, ObservationTypes DEF DeploymentInv, DeploymentTypes
    <2>3. TaskHolds(pc'["task"], job')
      BY <2>2 DEF TaskHolds
    <2>4. Ready("task", "reload", mine["task"], seen["task"])
      BY <1>1, PlainIsReady
    <2>5. entry' \in Records /\ Truthful(entry')
      BY <1>1, <1>3, <1>5
    <2>6. "reload" \in PCs
      BY <1>1
    <2> HIDE DEF new
    <2> QED BY <1>1, <1>4, <1>5, <2>1, <2>2, <2>3, <2>4, <2>5, <2>6, ActorMoves, Zenon
  <1>6. CASE (Return("task") \/ FailWork) /\ UNCHANGED entry
    BY <1>1, <1>4, <1>6, FailedWork, ActorReturns
  <1> QED BY <1>5, <1>6 DEF Propose

LEMMA ReloadKeeps ==
  ASSUME DeploymentInv, Reload
  PROVE  DeploymentInv'
  <1>1. "task" \in Actors /\ "send" \in PCs /\ job \in Jobs /\ seen["task"] \in Intents
        /\ entry \in Records /\ Truthful(entry) /\ (seen["task"] # NoIntent => seen["task"] = intent)
    BY DEF Actors, PCs, DeploymentInv, DeploymentTypes, Supported, Ready
  <1>2. UNCHANGED <<control, wire, entry, helper>>
    BY DEF Reload
  <1>3. CASE /\ entry.status \in {"pending", "confirmed"} /\ mine' = [mine EXCEPT !["task"] = entry]
             /\ pc' = [pc EXCEPT !["task"] = "send"] /\ UNCHANGED <<seen, job>>
    <2>1. Ready("task", "send", entry, seen["task"])
      BY <1>1, <1>3 DEF Ready
    <2>2. seen' = [seen EXCEPT !["task"] = seen["task"]] /\ pc'["task"] = "send"
      BY <1>1, <1>3 DEF DeploymentInv, DeploymentTypes
    <2>3. TaskHolds(pc'["task"], job')
      BY <2>2 DEF TaskHolds
    <2> QED BY <1>1, <1>2, <1>3, <2>1, <2>2, <2>3, ActorMoves, Zenon
  <1>4. CASE Return("task") \/ FailWork
    BY <1>1, <1>2, <1>4, FailedWork, ActorReturns
  <1> QED BY <1>3, <1>4 DEF Reload

LEMMA SendResultKeeps ==
  ASSUME DeploymentInv, SendResult
  PROVE  DeploymentInv'
  <1>1. "task" \in Actors /\ "await" \in PCs /\ pc["task"] = "send" /\ pc' = [pc EXCEPT !["task"] = "await"]
        /\ UNCHANGED <<control, entry, helper, mine, seen, job>>
    BY DEF SendResult, At, Actors, PCs
  <1>2. DeploymentTypes'
    BY <1>1 DEF DeploymentInv, DeploymentTypes, control, helper
  <1>3. HelperInv'
    BY <1>1 DEF DeploymentInv, DeploymentTypes, HelperInv, TaskHolds, helper
  <1>4. ServerInv'
    BY <1>1 DEF SendResult, DeploymentInv, ServerInv, Supported, Ready, Truthful, Kept, control, helper
  <1>5. Truthful(entry)'
    BY <1>1 DEF DeploymentInv, Truthful, Kept, TerminationAccepted, control, helper
  <1>6. ASSUME NEW a \in Actors
        PROVE  Ready(a, pc[a], mine[a], seen[a])' /\ DrainBacked(a)'
    BY <1>1, <1>6 DEF DeploymentInv, DeploymentTypes, Supported, Ready, DrainBacked, Truthful, Kept, TerminationAccepted, control, helper
  <1> QED BY <1>2, <1>3, <1>4, <1>5, <1>6 DEF DeploymentInv, Supported

LEMMA ReceiveReceiptKeeps ==
  ASSUME DeploymentInv, ReceiveReceipt
  PROVE  DeploymentInv'
  <1>1. "task" \in Actors /\ "ack" \in PCs /\ job \in Jobs /\ pc' = [pc EXCEPT !["task"] = "ack"] /\ pc'["task"] = "ack"
    BY DEF ReceiveReceipt, At, Actors, PCs, DeploymentInv, DeploymentTypes
  <1>2. Ready("task", "ack", mine["task"], seen["task"])
    BY <1>1 DEF ReceiveReceipt, At, DeploymentInv, Supported, Ready, Truthful
  <1>3. TaskHolds(pc'["task"], job')
    BY <1>1 DEF TaskHolds
  <1> QED BY <1>1, <1>2, <1>3, ActorGoesOn, Zenon DEF ReceiveReceipt

LEMMA ResultRefusedKeeps ==
  ASSUME DeploymentInv, ResultRefused
  PROVE  DeploymentInv'
  BY FailedWork DEF ResultRefused

LEMMA LoadAfterFailureKeeps ==
  ASSUME DeploymentInv, LoadAfterFailure
  PROVE  DeploymentInv'
  <1>1. "task" \in Actors /\ "revoke" \in PCs /\ job \in Jobs /\ seen["task"] \in Intents
        /\ entry \in Records /\ Truthful(entry) /\ (seen["task"] # NoIntent => seen["task"] = intent)
    BY DEF Actors, PCs, DeploymentInv, DeploymentTypes, Supported, Ready
  <1>2. UNCHANGED <<control, wire, entry, helper>>
    BY DEF LoadAfterFailure
  <1>3. CASE /\ mine' = [mine EXCEPT !["task"] = entry]
             /\ pc' = [pc EXCEPT !["task"] = "revoke"] /\ UNCHANGED <<seen, job>>
    <2>1. Ready("task", "revoke", entry, seen["task"])
      BY <1>1 DEF Ready
    <2>2. seen' = [seen EXCEPT !["task"] = seen["task"]] /\ pc'["task"] = "revoke"
      BY <1>1, <1>3 DEF DeploymentInv, DeploymentTypes
    <2>3. TaskHolds(pc'["task"], job')
      BY <2>2 DEF TaskHolds
    <2> QED BY <1>1, <1>2, <1>3, <2>1, <2>2, <2>3, ActorMoves, Zenon
  <1>4. CASE Return("task")
    BY <1>1, <1>2, <1>4, ActorReturns
  <1> QED BY <1>3, <1>4 DEF LoadAfterFailure

\* A termination that starts from a record keeps its result.
LEMMA BegunIsTruthful ==
  ASSUME NEW m \in Records, Truthful(m), NEW n \in Nat, NEW i \in Intents, i # NoIntent => i = intent
  PROVE  /\ BeginTermination(m, n, i) \in Records /\ Truthful(BeginTermination(m, n, i))
         /\ BeginTermination(m, n, i).status = IF i = NoIntent THEN "requested" ELSE "revoked"
  BY DEF BeginTermination, Records, Statuses, Truthful, Kept

LEMMA RevokeAfterFailureKeeps ==
  ASSUME DeploymentInv, RevokeAfterFailure
  PROVE  DeploymentInv'
  <1> DEFINE new == BeginTermination(mine["task"], job.att, NoIntent)
  <1>1. "task" \in Actors /\ mine["task"] \in Records /\ Truthful(mine["task"]) /\ job.att \in Nat
        /\ "resume" \in PCs \ {"stream", "propose"}
    BY DEF Actors, PCs, DeploymentInv, DeploymentTypes, Supported, Ready, Jobs
  <1>2. new \in Records /\ Truthful(new)
    BY <1>1, BegunIsTruthful, Constants
  <1>3. Ready("task", "resume", new, NoIntent)
    BY <1>2 DEF Ready
  <1>4. Save("task", new, "resume") /\ UNCHANGED <<control, wire, helper>>
    BY DEF RevokeAfterFailure
  <1> HIDE DEF new
  <1> QED BY <1>1, <1>2, <1>3, <1>4, ActorSaves

-----------------------------------------------------------------------------
(* The loop, and what both actors do. *)

LEMMA ListKeeps ==
  ASSUME DeploymentInv, LoopStep
  PROVE  DeploymentInv'
  <1>1. "loop" \in Actors /\ entry \in Records /\ Truthful(entry) /\ seen["loop"] \in {NoIntent, intent}
        /\ seen["loop"] \in Intents /\ job \in Jobs /\ "intent" \in PCs \ {"stream", "propose"}
    BY DEF Actors, PCs, DeploymentInv, DeploymentTypes, Supported, Ready
  <1>2. PICK p \in PCs : /\ pc' = [pc EXCEPT !["loop"] = p] /\ Ready("loop", p, entry, seen["loop"])
    <2>1. CASE ListPending
      <3>1. Ready("loop", "intent", entry, seen["loop"])
        BY <1>1, <2>1 DEF ListPending, Ready
      <3> QED BY <1>1, <2>1, <3>1, Zenon DEF ListPending, At
    <2>2. CASE ListTerminations
      BY <1>1, <2>2, PhaseIsReady, Zenon DEF ListTerminations, At
    <2> QED BY <2>1, <2>2 DEF LoopStep
  <1>3. mine' = [mine EXCEPT !["loop"] = entry] /\ UNCHANGED <<control, wire, entry, helper, seen, job>>
    BY DEF LoopStep, ListPending, ListTerminations
  <1>4. seen' = [seen EXCEPT !["loop"] = seen["loop"]]
    BY <1>3 DEF DeploymentInv, DeploymentTypes
  <1>5. TaskHolds(pc'["task"], job')
    BY <1>2, <1>3 DEF DeploymentInv, DeploymentTypes, HelperInv, Actors
  <1> QED BY <1>1, <1>2, <1>3, <1>4, <1>5, ActorMoves, Zenon

\* What the task has in hand is not touched by a step of an actor to p.
LEMMA HoldsOn ==
  ASSUME DeploymentInv, NEW a \in Actors, NEW p \in PCs \ {"stream", "propose"}, pc' = [pc EXCEPT ![a] = p],
         a = "task" \/ job' = job, UNCHANGED bundle
  PROVE  TaskHolds(pc'["task"], job')
  BY DEF DeploymentInv, DeploymentTypes, HelperInv, TaskHolds, Actors

LEMMA GetIntentKeeps ==
  ASSUME DeploymentInv, NEW a \in Actors, GetIntent(a)
  PROVE  DeploymentInv'
  <1> DEFINE found == intent # NoIntent
             next == CASE pc[a] = "refresh" -> "saveRefresh"
                       [] pc[a] = "intent"  -> IF found THEN "begin" ELSE IF a = "task" THEN "load" ELSE "inspect"
                       [] OTHER             -> IF found THEN "saveIntent"
                                               ELSE IF mine[a].result # NoResult THEN "compete" ELSE "request"
  <1>1. mine[a] \in Records /\ intent \in Intents /\ job \in Jobs /\ entry \in Records /\ Truthful(entry)
    BY DEF DeploymentInv, DeploymentTypes
  <1>2. next \in PCs \ {"stream", "propose"}
    BY DEF PCs
  <1>3. Ready(a, next, mine[a], intent)
    BY DEF DeploymentInv, Supported, Ready, Actors, GetIntent
  <1>4. /\ pc' = [pc EXCEPT ![a] = next] /\ mine' = [mine EXCEPT ![a] = mine[a]]
        /\ seen' = [seen EXCEPT ![a] = intent] /\ UNCHANGED <<control, wire, entry, helper, job>>
    BY DEF GetIntent, DeploymentInv, DeploymentTypes
  <1> HIDE DEF next
  <1>5. TaskHolds(pc'["task"], job')
    BY <1>2, <1>4, HoldsOn, Zenon DEF helper
  <1> QED BY <1>1, <1>2, <1>3, <1>4, <1>5, ActorMoves, Zenon

LEMMA SaveBeginKeeps ==
  ASSUME DeploymentInv, NEW a \in Actors, SaveBegin(a)
  PROVE  DeploymentInv'
  <1> DEFINE new == BeginTermination(mine[a], seen[a].att, seen[a])
  <1>1. mine[a] \in Records /\ Truthful(mine[a]) /\ seen[a].att \in Nat /\ seen[a] \in Intents /\ seen[a] # NoIntent
        /\ seen[a] = intent /\ "drain" \in PCs \ {"stream", "propose"}
    BY DEF SaveBegin, PCs, DeploymentInv, DeploymentTypes, Supported, Ready, Intents
  <1>2. new \in Records /\ Truthful(new) /\ new.status = "revoked"
    BY <1>1, BegunIsTruthful
  <1>3. Ready(a, "drain", new, NoIntent)
    BY <1>2 DEF Ready
  <1>4. Save(a, new, "drain") /\ UNCHANGED <<control, wire, helper>>
    BY Zenon DEF SaveBegin
  <1> HIDE DEF new
  <1> QED BY <1>1, <1>2, <1>3, <1>4, ActorSaves

LEMMA InspectResultKeeps ==
  ASSUME DeploymentInv, NEW a \in Actors, InspectResult(a)
  PROVE  DeploymentInv'
  <1>1. mine[a] \in Records /\ entry \in Records /\ Truthful(entry) /\ job \in Jobs /\ attempt \in Nat /\ status \in TaskStatus
        /\ mine[a].result # NoResult
    BY DEF InspectResult, DeploymentInv, DeploymentTypes, Supported, Ready, Truthful
  <1>2. UNCHANGED <<control, wire, entry, helper>>
    BY DEF InspectResult
  <1>3. CASE accepted = mine[a].result /\ pc' = [pc EXCEPT ![a] = "confirm"] /\ UNCHANGED <<mine, seen, job>>
    <2>1. Ready(a, "confirm", mine[a], seen[a]) /\ "confirm" \in PCs \ {"stream", "propose"}
      BY <1>1, <1>3 DEF DeploymentInv, Supported, Ready, PCs
    <2>2. TaskHolds(pc'["task"], job')
      BY <1>2, <1>3, <2>1, HoldsOn, Zenon DEF helper
    <2> QED BY <1>1, <1>2, <1>3, <2>1, <2>2, ActorGoesOn, Zenon
  <1>4. CASE /\ a = "task" /\ pc' = [pc EXCEPT ![a] = "lease"]
             /\ job' = [job EXCEPT !.obs = Observe(mine[a].result)] /\ UNCHANGED <<mine, seen>>
    <2>1. job' \in Jobs /\ "lease" \in Plain
      BY <1>1, <1>4, InspectedJob, ObservationTypes DEF Plain, PCs
    <2> QED BY <1>2, <1>4, <2>1, ActorGoesPlain, Zenon
  <1>5. CASE Return(a)
    BY <1>1, <1>2, <1>5, ActorReturns
  <1> QED BY <1>3, <1>4, <1>5, Zenon DEF InspectResult, Observe

\* The confirmation of a proposal that was accepted.
LEMMA ConfirmedIsTruthful ==
  ASSUME DeploymentInv, NEW a \in Actors, accepted = mine[a].result, accepted # NoResult
  PROVE  Confirmed(mine[a].result) \in Records /\ Truthful(Confirmed(mine[a].result))
  <1>1. mine[a].result \in Results /\ Kept(mine[a].result)
    BY DEF DeploymentInv, DeploymentTypes, Records, Supported, Ready, Truthful
  <1> QED BY <1>1, Constants DEF Confirmed, Records, Statuses, Truthful

LEMMA ConfirmKeeps ==
  ASSUME DeploymentInv, NEW a \in Actors, ConfirmAccepted(a) \/ RestoreConfirmed(a) \/ (a = "task" /\ Acknowledge)
  PROVE  DeploymentInv'
  <1>1. accepted = mine[a].result /\ accepted # NoResult /\ Return(a) /\ UNCHANGED <<control, wire, helper>>
    BY Zenon DEF ConfirmAccepted, RestoreConfirmed, Acknowledge, DeploymentInv, Supported, Ready
  <1>2. entry' \in {entry, Confirmed(mine[a].result)}
    BY Zenon DEF ConfirmAccepted, RestoreConfirmed, Acknowledge, Confirm
  <1>3. entry' \in Records /\ Truthful(entry')
    BY <1>1, <1>2, ConfirmedIsTruthful DEF DeploymentInv, DeploymentTypes
  <1> QED BY <1>1, <1>3, ActorReturns

LEMMA CompetingSuccessKeeps ==
  ASSUME DeploymentInv, NEW a \in Actors, CompetingSuccess(a)
  PROVE  DeploymentInv'
  <1> DEFINE p == IF accepted = mine[a].result THEN "restore" ELSE "request"
  <1>1. entry \in Records /\ Truthful(entry) /\ job \in Jobs /\ UNCHANGED <<control, wire, entry, helper>>
    BY DEF CompetingSuccess, DeploymentInv, DeploymentTypes
  <1>2. CASE pc' = [pc EXCEPT ![a] = p] /\ UNCHANGED <<mine, seen, job>>
    <2>1. Ready(a, p, mine[a], seen[a]) /\ p \in PCs \ {"stream", "propose"}
      BY DEF CompetingSuccess, DeploymentInv, Supported, Ready, PCs
    <2>2. TaskHolds(pc'["task"], job')
      BY <1>1, <1>2, <2>1, HoldsOn, Zenon DEF helper
    <2> QED BY <1>1, <1>2, <2>1, <2>2, ActorGoesOn, Zenon
  <1>3. CASE Return(a)
    BY <1>1, <1>3, ActorReturns
  <1> QED BY <1>2, <1>3 DEF CompetingSuccess

LEMMA SaveIntentKeeps ==
  ASSUME DeploymentInv, NEW a \in Actors, SaveIntent(a)
  PROVE  DeploymentInv'
  <1> DEFINE new == [mine[a] EXCEPT !.status = "revoked", !.req = seen[a].att, !.intent = seen[a]]
  <1>1. mine[a] \in Records /\ Truthful(mine[a]) /\ seen[a].att \in Nat /\ seen[a] \in Intents /\ seen[a] # NoIntent
        /\ seen[a] = intent /\ "drain" \in PCs \ {"stream", "propose"}
    BY DEF SaveIntent, PCs, DeploymentInv, DeploymentTypes, Supported, Ready, Intents
  <1>2. new \in Records /\ Truthful(new) /\ new.status = "revoked"
    BY <1>1, Zenon DEF Records, Statuses, Truthful, Kept
  <1>3. Ready(a, "drain", new, NoIntent)
    BY <1>2 DEF Ready
  <1>4. Save(a, new, "drain") /\ UNCHANGED <<control, wire, helper>>
    BY DEF SaveIntent
  <1> HIDE DEF new
  <1> QED BY <1>1, <1>2, <1>3, <1>4, ActorSaves

LEMMA SaveDrainKeeps ==
  ASSUME DeploymentInv, NEW a \in Actors, SaveDrain(a)
  PROVE  DeploymentInv'
  <1> DEFINE new == [mine[a] EXCEPT !.status = "drained"]
  <1>1. mine[a] \in Records /\ Truthful(mine[a]) /\ mine[a].status = "revoked" /\ drained
        /\ "report" \in PCs \ {"stream", "propose"}
    BY DEF SaveDrain, PCs, DeploymentInv, DeploymentTypes, Supported, Ready
  <1>2. new \in Records /\ Truthful(new)
    BY <1>1 DEF Records, Statuses, Truthful, Kept
  <1>3. Ready(a, "report", new, NoIntent)
    BY <1>2 DEF Ready
  <1>4. Save(a, new, "report") /\ UNCHANGED <<control, wire, helper>>
    BY DEF SaveDrain
  <1> HIDE DEF new
  <1> QED BY <1>1, <1>2, <1>3, <1>4, ActorSaves

LEMMA RequestTerminationKeeps ==
  ASSUME DeploymentInv, NEW a \in Actors, RequestTermination(a)
  PROVE  DeploymentInv'
  <1> DEFINE n == mine[a].req
             i == [att |-> n, outcome |-> "failed"]
  <1>1. entry \in Records /\ Truthful(entry) /\ job \in Jobs /\ mine[a] \in Records /\ i \in Intents /\ i # NoIntent
    BY DEF DeploymentInv, DeploymentTypes, Records, Intents, NoIntent
  <1>2. UNCHANGED <<status, attempt, accepted, entry, helper>>
    BY DEF RequestTermination
  <1>3. CASE Return(a) /\ intent' = intent /\ sent' = sent
    <2>1. DeploymentTypes'
      BY <1>2, <1>3, Constants DEF Return, Forgets, DeploymentInv, DeploymentTypes, PCs, helper
    <2>2. HelperInv'
      BY <1>2, <1>3 DEF Return, Forgets, DeploymentInv, DeploymentTypes, HelperInv, TaskHolds, Actors, helper
    <2>3. ServerInv'
      BY <1>2, <1>3 DEF DeploymentInv, ServerInv, Kept, helper
    <2>4. Truthful(entry)'
      BY <1>2, <1>3 DEF DeploymentInv, Truthful, Kept, TerminationAccepted, helper
    <2>5. ASSUME NEW b \in Actors
          PROVE  Ready(b, pc[b], mine[b], seen[b])' /\ DrainBacked(b)'
      <3>1. Ready(b, pc'[b], mine'[b], seen'[b])
        BY <1>3, <2>5, NothingIsReady DEF Return, Forgets, DeploymentInv, DeploymentTypes, Supported
      <3> QED BY <1>2, <1>3, <2>5, <3>1, Zenon DEF DeploymentInv, Supported, Ready, Truthful, Kept, TerminationAccepted, DrainBacked, helper
    <2> QED BY <2>1, <2>2, <2>3, <2>4, <2>5 DEF DeploymentInv, Supported
  <1>4. CASE /\ Open /\ (intent = NoIntent \/ intent = i) /\ intent' = i /\ sent' = {}
             /\ seen' = [seen EXCEPT ![a] = i] /\ pc' = [pc EXCEPT ![a] = "saveIntent"] /\ UNCHANGED <<mine, job>>
    <2>1. DeploymentTypes'
      BY <1>1, <1>2, <1>4 DEF DeploymentInv, DeploymentTypes, PCs, helper
    <2>2. HelperInv'
      BY <1>2, <1>4 DEF DeploymentInv, DeploymentTypes, HelperInv, TaskHolds, Actors, helper
    <2>3. ServerInv'
      BY <1>1, <1>2, <1>4 DEF DeploymentInv, ServerInv, Kept, Open, helper
    <2>4. Lasting
      BY <1>2, <1>4 DEF DeploymentInv, ServerInv, Lasting, TerminationAccepted, Open, helper
    <2>5. Truthful(entry)'
      BY <1>1, <1>2, <2>4 DEF Truthful, Kept, Lasting
    <2>6. ASSUME NEW b \in Actors
          PROVE  Ready(b, pc[b], mine[b], seen[b])' /\ DrainBacked(b)'
      <3>1. DrainBacked(b)'
        BY <1>1, <1>2, <1>4, <2>6 DEF DeploymentInv, Supported, DrainBacked, helper
      <3>2. CASE b = a
        <4>1. Truthful(mine'[b])
          BY <1>4, <3>2, Zenon DEF DeploymentInv, Supported, Ready
        <4>2. Truthful(mine[b])'
          BY <2>4, <4>1, Zenon DEF Lasting, Truthful, Kept
        <4>3. pc'[b] = "saveIntent" /\ seen'[b] = i
          BY <1>4, <3>2 DEF DeploymentInv, DeploymentTypes
        <4> QED BY <1>1, <1>4, <3>1, <4>2, <4>3 DEF Ready
      <3>3. CASE b # a
        <4>1. Ready(b, pc'[b], mine'[b], seen'[b])
          BY <1>4, <2>6, <3>3 DEF DeploymentInv, DeploymentTypes, Supported
        <4> QED BY <2>4, <3>1, <4>1, ReadyLasts
      <3> QED BY <3>2, <3>3
    <2> QED BY <2>1, <2>2, <2>3, <2>5, <2>6 DEF DeploymentInv, Supported
  <1> QED BY <1>3, <1>4 DEF RequestTermination, Revocable, wire

\* The drain handler of an actor that waits for it, was answered, or gave up.
LEMMA DrainMoves ==
  ASSUME DeploymentInv, NEW a \in Actors, UNCHANGED <<control, wire, entry, bundle, drained, mu, stream>>,
         NEW d \in {"none", "lock"}, drain' = [drain EXCEPT ![a] = d], d = "none" \/ intent # NoIntent \/ d = drain[a],
         NEW p \in PCs \ {"stream", "propose"}, pc' = [pc EXCEPT ![a] = p],
         mine' \in [Actors -> Records], seen' \in [Actors -> Intents], job' \in Jobs, a = "task" \/ job' = job,
         Ready(a, p, mine'[a], seen'[a]),
         \A b \in Actors \ {a} : mine'[b] = mine[b] /\ seen'[b] = seen[b]
  PROVE  DeploymentInv'
  <1>1. DeploymentTypes'
    BY Zenon DEF DeploymentInv, DeploymentTypes, control
  <1>2. HelperInv'
    <2>1. TaskHolds(pc'["task"], job') /\ UNCHANGED <<bundle, drained, mu, stream>>
      BY Zenon, HoldsOn
    <2> QED BY <2>1 DEF DeploymentInv, HelperInv, TaskHolds
  <1>3. ASSUME NEW b \in Actors
        PROVE  Ready(b, pc'[b], mine'[b], seen'[b]) /\ DrainBacked(b)'
    BY <1>3 DEF DeploymentInv, DeploymentTypes, Supported, DrainBacked, control
  <1> QED BY <1>1, <1>2, <1>3, WorkerMoves DEF DeploymentInv

LEMMA CallDrainKeeps ==
  ASSUME DeploymentInv, NEW a \in Actors, CallDrain(a)
  PROVE  DeploymentInv'
  <1>1. Ready(a, "draining", mine[a], seen[a]) /\ intent # NoIntent /\ "draining" \in PCs \ {"stream", "propose"}
    BY Zenon DEF CallDrain, At, DeploymentInv, Supported, Ready, Truthful, PCs
  <1>2. mine \in [Actors -> Records] /\ seen \in [Actors -> Intents] /\ job \in Jobs
    BY DEF DeploymentInv, DeploymentTypes
  <1> QED BY <1>1, <1>2, DrainMoves, Zenon DEF CallDrain, At

LEMMA DrainAnsweredKeeps ==
  ASSUME DeploymentInv, NEW a \in Actors, DrainAnswered(a)
  PROVE  DeploymentInv'
  <1>1. Ready(a, "saveDrain", mine[a], seen[a]) /\ "saveDrain" \in PCs \ {"stream", "propose"}
    BY DEF DrainAnswered, At, DeploymentInv, Supported, Ready, DrainBacked, PCs
  <1>2. mine \in [Actors -> Records] /\ seen \in [Actors -> Intents] /\ job \in Jobs
    BY DEF DeploymentInv, DeploymentTypes
  <1> QED BY <1>1, <1>2, DrainMoves, Zenon DEF DrainAnswered, At

LEMMA DrainUnansweredKeeps ==
  ASSUME DeploymentInv, NEW a \in Actors, DrainUnanswered(a)
  PROVE  DeploymentInv'
  <1>1. UNCHANGED <<control, wire, entry, bundle, drained, mu, stream>> /\ Return(a) /\ drain[a] \in {"lock", "drained"}
    BY DEF DrainUnanswered
  <1>2. PICK d \in {"none", "lock"} : drain' = [drain EXCEPT ![a] = d] /\ (d = "none" \/ d = drain[a])
    BY Zenon DEF DrainUnanswered
  <1>3. mine' \in [Actors -> Records] /\ seen' \in [Actors -> Intents] /\ job' \in Jobs /\ (a = "task" \/ job' = job)
    BY <1>1, Constants DEF Return, Forgets, DeploymentInv, DeploymentTypes
  <1>4. Ready(a, "idle", mine'[a], seen'[a]) /\ "idle" \in PCs \ {"stream", "propose"}
        /\ \A b \in Actors \ {a} : mine'[b] = mine[b] /\ seen'[b] = seen[b]
    BY <1>1, NothingIsReady DEF Return, Forgets, DeploymentInv, DeploymentTypes, PCs
  <1> QED BY <1>1, <1>2, <1>3, <1>4, DrainMoves, Zenon DEF Return

LEMMA InspectTerminationKeeps ==
  ASSUME DeploymentInv, NEW a \in Actors, InspectTermination(a)
  PROVE  DeploymentInv'
  <1> DEFINE p == IF TerminationAccepted THEN "close" ELSE "finish"
  <1>1. entry \in Records /\ Truthful(entry) /\ job \in Jobs /\ UNCHANGED <<control, wire, entry, helper>>
    BY DEF InspectTermination, DeploymentInv, DeploymentTypes
  <1>2. CASE mine[a].status = "drained" /\ pc' = [pc EXCEPT ![a] = p] /\ UNCHANGED <<mine, seen, job>>
    <2>1. Ready(a, p, mine[a], seen[a]) /\ p \in PCs \ {"stream", "propose"}
      BY <1>2 DEF DeploymentInv, Supported, Ready, PCs
    <2>2. TaskHolds(pc'["task"], job')
      BY <1>1, <1>2, <2>1, HoldsOn, Zenon DEF helper
    <2> HIDE DEF p
    <2> QED BY <1>1, <1>2, <2>1, <2>2, ActorGoesOn, Zenon
  <1>3. CASE Return(a)
    BY <1>1, <1>3, ActorReturns
  <1> QED BY <1>2, <1>3 DEF InspectTermination

LEMMA ConfirmTerminationKeeps ==
  ASSUME DeploymentInv, NEW a \in Actors, ConfirmTermination(a)
  PROVE  DeploymentInv'
  <1>1. intent # NoIntent /\ drained /\ mine[a].status = "drained" /\ accepted = NoResult
    BY Zenon DEF ConfirmTermination, DeploymentInv, ServerInv, Supported, Ready, Truthful
  <1>2. status' \in {"failed", "cancelled"} /\ UNCHANGED <<attempt, accepted, intent, wire, entry, helper>>
    BY Zenon DEF ConfirmTermination
  <1>3. \/ pc' = [pc EXCEPT ![a] = "close"] /\ UNCHANGED <<mine, seen, job>>
        \/ Return(a)
    BY DEF ConfirmTermination
  <1>4. Lasting /\ TerminationAccepted'
    BY <1>1, <1>2 DEF Lasting, TerminationAccepted, helper
  <1>5. DeploymentTypes'
    BY <1>2, <1>3, Constants DEF Return, Forgets, DeploymentInv, DeploymentTypes, TaskStatus, PCs, helper
  <1>6. HelperInv'
    BY <1>2, <1>3 DEF Return, Forgets, DeploymentInv, DeploymentTypes, HelperInv, TaskHolds, Actors, helper
  <1>7. ServerInv'
    BY <1>1, <1>2, Zenon DEF DeploymentInv, ServerInv, Kept, wire, helper
  <1>8. Truthful(entry)'
    BY <1>2, <1>4, Zenon DEF DeploymentInv, Truthful, Kept, Lasting
  <1>9. ASSUME NEW b \in Actors
        PROVE  Ready(b, pc[b], mine[b], seen[b])' /\ DrainBacked(b)'
    <2>1. DrainBacked(b)'
      BY <1>2, <1>9 DEF DeploymentInv, Supported, DrainBacked, helper
    <2>2. Ready(b, pc'[b], mine'[b], seen'[b]) \/ (b = a /\ pc'[b] = "close" /\ mine'[b] = mine[b] /\ seen'[b] = seen[b])
      BY <1>3, <1>9, NothingIsReady, Zenon DEF Return, Forgets, DeploymentInv, DeploymentTypes, Supported
    <2>3. CASE Ready(b, pc'[b], mine'[b], seen'[b])
      BY <1>4, <2>1, <2>3, ReadyLasts, Zenon
    <2>4. CASE b = a /\ pc'[b] = "close" /\ mine'[b] = mine[b] /\ seen'[b] = seen[b]
      <3>1. Truthful(mine'[b]) /\ (seen'[b] # NoIntent => seen'[b] = intent)
        BY <2>4 DEF DeploymentInv, Supported, Ready
      <3>2. Truthful(mine[b])'
        BY <1>4, <3>1, Zenon DEF Lasting, Truthful, Kept
      <3> QED BY <1>1, <1>2, <1>4, <2>1, <2>4, <3>1, <3>2 DEF Ready
    <2> QED BY Zenon, <2>1, <2>2, <2>3, <2>4
  <1> QED BY <1>5, <1>6, <1>7, <1>8, <1>9 DEF DeploymentInv, Supported

LEMMA SaveEndKeeps ==
  ASSUME DeploymentInv, NEW a \in Actors, SaveEnd(a)
  PROVE  DeploymentInv'
  <1>1. mine[a] \in Records /\ Truthful(mine[a]) /\ mine[a].status = "drained" /\ TerminationAccepted
    BY DEF SaveEnd, DeploymentInv, DeploymentTypes, Supported, Ready
  <1>2. [mine[a] EXCEPT !.status = "ended"] \in Records /\ Truthful([mine[a] EXCEPT !.status = "ended"])
    BY <1>1 DEF Records, Statuses, Truthful, Kept
  <1>3. entry' \in Records /\ Truthful(entry')
    BY <1>2 DEF SaveEnd, DeploymentInv, DeploymentTypes
  <1> QED BY <1>3, ActorReturns DEF SaveEnd

LEMMA CallFailsKeeps ==
  ASSUME DeploymentInv, NEW a \in Actors, CallFails(a)
  PROVE  DeploymentInv'
  <1>1. entry \in Records /\ Truthful(entry)
    BY DEF DeploymentInv, DeploymentTypes
  <1> QED BY <1>1, ActorReturns DEF CallFails

-----------------------------------------------------------------------------
(* Crashes. *)

LEMMA HungUp ==
  ASSUME stream \in [Slots -> Streams], HangUp
  PROVE  /\ stream' \in [Slots -> Streams]
         /\ \A i \in Slots : stream'[i].pc = stream[i].pc /\ stream'[i].files = stream[i].files
  <1>1. ASSUME NEW i \in Slots
        PROVE  stream'[i] \in Streams /\ stream'[i].pc = stream[i].pc /\ stream'[i].files = stream[i].files
    <2>1. stream'[i] = IF i = job.slot THEN [stream[i] EXCEPT !.open = FALSE] ELSE stream[i]
      BY DEF HangUp
    <2> QED BY <2>1, Zenon DEF Streams
  <1>2. stream' = [i \in Slots |-> stream'[i]]
    BY DEF HangUp
  <1> QED BY <1>1, <1>2

LEMMA WorkerCrashKeeps ==
  ASSUME DeploymentInv, WorkerCrash
  PROVE  DeploymentInv'
  <1>1. /\ stream' \in [Slots -> Streams]
        /\ \A i \in Slots : stream'[i].pc = stream[i].pc /\ stream'[i].files = stream[i].files
    BY HungUp DEF WorkerCrash, DeploymentInv, DeploymentTypes
  <1>2. DeploymentTypes'
    BY <1>1, Constants DEF WorkerCrash, DeploymentInv, DeploymentTypes, PCs, control
  <1>3. HelperInv'
    BY <1>1 DEF WorkerCrash, DeploymentInv, HelperInv, TaskHolds, Actors
  <1>4. ASSUME NEW a \in Actors
        PROVE  Ready(a, pc'[a], mine'[a], seen'[a]) /\ DrainBacked(a)'
    BY <1>4, NothingIsReady DEF WorkerCrash, DeploymentInv, Supported, DrainBacked, control
  <1>5. Truthful(entry') /\ UNCHANGED <<control, wire, bundle, drained>>
    BY DEF WorkerCrash, DeploymentInv
  <1> QED BY <1>2, <1>3, <1>4, <1>5, WorkerMoves

LEMMA HelperCrashKeeps ==
  ASSUME DeploymentInv, HelperCrash
  PROVE  DeploymentInv'
  <1>1. /\ stream' \in [Slots -> Streams]
        /\ \A i \in Slots : stream'[i].pc \in {"none", "failed"}
    BY Zenon DEF HelperCrash, NoStream, Streams
  <1>2. \A a \in Actors : pc'[a] = pc[a] \/ (pc[a] = "draining" /\ pc'[a] = "drain")
    BY DEF HelperCrash
  <1>3. DeploymentTypes'
    BY <1>1 DEF HelperCrash, DeploymentInv, DeploymentTypes, PCs, control
  <1>4. HelperInv'
    BY <1>1, <1>2 DEF HelperCrash, DeploymentInv, HelperInv, TaskHolds, Actors
  <1>5. ASSUME NEW a \in Actors
        PROVE  Ready(a, pc'[a], mine'[a], seen'[a]) /\ DrainBacked(a)'
    <2>1. CASE pc'[a] = pc[a]
      BY <1>5, <2>1 DEF HelperCrash, DeploymentInv, Supported, DrainBacked, control
    <2>2. CASE pc[a] = "draining" /\ pc'[a] = "drain"
      BY <1>5, <2>2 DEF HelperCrash, DeploymentInv, Supported, Ready, DrainBacked, control
    <2> QED BY <1>2, <2>1, <2>2
  <1>6. Truthful(entry') /\ UNCHANGED <<control, wire, bundle, drained>>
    BY DEF HelperCrash, DeploymentInv
  <1> QED BY <1>3, <1>4, <1>5, <1>6, WorkerMoves

-----------------------------------------------------------------------------
(* The theorems. *)

LEMMA InitDeployment == Init => DeploymentInv
  <1> SUFFICES ASSUME Init PROVE DeploymentInv
    OBVIOUS
  <1>1. DeploymentTypes
    BY Constants, Zenon DEF Init, DeploymentTypes, TaskStatus, PCs
  <1>2. HelperInv /\ ServerInv
    BY DEF Init, HelperInv, TaskHolds, ServerInv, Actors, NoStream
  <1>3. Truthful(entry)
    BY NothingIsReady DEF Init, Actors
  <1>4. Supported
    BY NothingIsReady DEF Init, Supported, DrainBacked
  <1> QED BY <1>1, <1>2, <1>3, <1>4 DEF DeploymentInv

LEMMA DeploymentStep == DeploymentInv /\ [Next]_vars => DeploymentInv'
  <1> SUFFICES ASSUME DeploymentInv, [Next]_vars PROVE DeploymentInv'
    OBVIOUS
  <1>1. CASE Control
    BY <1>1, ExpireLeaseKeeps, SupersedeKeeps, AcceptResultKeeps, AcceptRequestKeeps DEF Control
  <1>2. CASE Poll \/ LoseLease
    BY <1>2, PollKeeps, LoseLeaseKeeps
  <1>3. CASE TaskStep
    <2>1. "task" \in Actors
      BY DEF Actors
    <2> QED
      BY <1>3, <2>1, LookUpKeeps, SaveRefreshKeeps, LoadPreviousKeeps, AcquireLeaseKeeps, FetchInputKeeps, FetchEndsKeeps,
         OpenStreamKeeps, StreamAnsweredKeeps, ProposeKeeps, ReloadKeeps, SendResultKeeps, ReceiveReceiptKeeps,
         ResultRefusedKeeps, ConfirmKeeps, LoadAfterFailureKeeps, RevokeAfterFailureKeeps, WorkFailsKeeps DEF TaskStep
  <1>4. CASE LoopStep
    BY <1>4, ListKeeps
  <1>5. ASSUME NEW a \in Actors, CommonStep(a) \/ DrainUnanswered(a) \/ CallFails(a)
        PROVE  DeploymentInv'
    BY <1>5, GetIntentKeeps, SaveBeginKeeps, InspectResultKeeps, ConfirmKeeps, CompetingSuccessKeeps, RequestTerminationKeeps,
       SaveIntentKeeps, CallDrainKeeps, DrainAnsweredKeeps, SaveDrainKeeps, InspectTerminationKeeps, ConfirmTerminationKeeps,
       SaveEndKeeps, DrainUnansweredKeeps, CallFailsKeeps DEF CommonStep
  <1>6. CASE HelperStep \/ \E i \in Slots : PreparationFails(i)
    BY <1>6, LockPreparationKeeps, CopyObjectKeeps, SealBundleKeeps, PublishBundleKeeps, PreparationEndsKeeps,
       PreparationFailsKeeps, DrainAttemptKeeps, DrainEndsKeeps DEF HelperStep, HandlerStep, DrainStep
  <1>7. CASE WorkerCrash \/ HelperCrash
    BY <1>7, WorkerCrashKeeps, HelperCrashKeeps
  <1>8. CASE UNCHANGED vars
    <2>1. UNCHANGED <<entry, actors>> /\ Lasting
      BY <1>8 DEF vars, Lasting, control, wire, helper, actors, TerminationAccepted
    <2>2. DeploymentTypes' /\ HelperInv' /\ ServerInv' /\ \A a \in Actors : DrainBacked(a)'
      BY <1>8 DEF vars, control, wire, helper, actors, DeploymentInv, DeploymentTypes, HelperInv, TaskHolds, ServerInv,
         Supported, DrainBacked, Kept
    <2> QED BY <2>1, <2>2, OthersMove
  <1> QED BY <1>1, <1>2, <1>3, <1>4, <1>5, <1>6, <1>7, <1>8 DEF Next

LEMMA DeploymentInvariant == Spec => []DeploymentInv
  BY InitDeployment, DeploymentStep, PTL DEF Spec

\* What the control plane accepted stays retained, whole and undrained, whatever
\* receipts are lost and whatever arrives late (runDeployment,
\* resumeDeploymentTermination).
THEOREM AcceptedIsKept == Spec => []AcceptedKept
  <1>1. DeploymentInv => AcceptedKept
    BY DEF DeploymentInv, ServerInv, Kept, Whole, AcceptedKept
  <1> QED BY <1>1, DeploymentInvariant, PTL

\* The record of a deployment says no more than happened, although two actors write it
\* from what they read some steps before (confirm, saveTermination,
\* restoreConfirmedPreparation).
THEOREM RecordIsTrue == Spec => []JournalTruth
  <1>1. DeploymentInv => JournalTruth
    BY DEF DeploymentInv, ServerInv, Truthful, TerminationAccepted, JournalTruth
  <1> QED BY <1>1, DeploymentInvariant, PTL

\* Nothing is published for a drained attempt (DrainDeployment, PrepareDeployment).
THEOREM DrainIsFinal == Spec => DrainSeals
  <1>1. DeploymentInv /\ [Next]_vars => [drained => UNCHANGED bundle]_vars
    <2> SUFFICES ASSUME DeploymentInv, [Next]_vars, drained PROVE bundle' = bundle
      BY DEF vars, helper
    <2>1. ASSUME NEW i \in Slots, PublishBundle(i) PROVE FALSE
      BY <2>1, Zenon DEF PublishBundle, DeploymentInv, HelperInv
    <2>2. CASE Control \/ Poll \/ LoseLease \/ LoopStep
      BY <2>2, Zenon DEF Control, ExpireLease, Supersede, AcceptResult, AcceptRequest, Poll, LoseLease, LoopStep, ListPending,
         ListTerminations, helper
    <2>3. CASE TaskStep
      BY <2>3, Zenon DEF TaskStep, LookUp, SaveRefresh, LoadPrevious, AcquireLease, FetchInput, FetchRefused, InputRejected,
         OpenStream, StreamAnswered, Propose, Reload, SendResult, ReceiveReceipt, ResultRefused, Acknowledge,
         LoadAfterFailure, RevokeAfterFailure, WorkFails, helper
    <2>4. ASSUME NEW a \in Actors, CommonStep(a) \/ DrainUnanswered(a) \/ CallFails(a)
          PROVE  bundle' = bundle
      BY <2>4, Zenon DEF CommonStep, GetIntent, SaveBegin, InspectResult, ConfirmAccepted, CompetingSuccess, RestoreConfirmed,
         RequestTermination, SaveIntent, CallDrain, DrainAnswered, SaveDrain, InspectTermination, ConfirmTermination,
         SaveEnd, DrainUnanswered, CallFails, helper
    <2>5. ASSUME NEW i \in Slots, HandlerStep(i) \/ PreparationFails(i)
          PROVE  bundle' = bundle
      BY <2>1, <2>5, Zenon DEF HandlerStep, LockPreparation, CopyObject, SealBundle, PreparationEnds, PreparationFails
    <2>6. ASSUME NEW a \in Actors, DrainStep(a)
          PROVE  bundle' = bundle
      BY <2>6, Zenon DEF DrainStep, DrainAttempt, DrainEnds
    <2>7. CASE WorkerCrash \/ HelperCrash \/ UNCHANGED vars
      BY <2>7, Zenon DEF WorkerCrash, HelperCrash, vars, helper
    <2> QED BY <2>2, <2>3, <2>4, <2>5, <2>6, <2>7 DEF Next, HelperStep
  <1> QED BY <1>1, DeploymentInvariant, PTL DEF Spec, DrainSeals

=============================================================================
