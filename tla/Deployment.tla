------------------------------ MODULE Deployment ------------------------------
(***************************************************************************)
(* The preparation of one skill deployment: the worker's task that         *)
(* prepares it under a lease and reports it, the worker's loop that        *)
(* settles what the task left open, their common record in the task        *)
(* ledger, the helper that retains the content or drains the attempt, and  *)
(* the control plane that accepts the one or the other.                    *)
(*                                                                         *)
(* One original attempt of one deployment.  The ledger's compare-and-swap  *)
(* is the one of TaskLedger; what a record says is what matters here.      *)
(***************************************************************************)
EXTENDS Naturals, FiniteSets

CONSTANTS MaxAttempts,  \* how often the control plane leases the task
          MaxFaults,    \* how many failures of the environment a behaviour has
          Objects       \* the distinct files of the deployment's manifest

ASSUME DeploymentAssumption == MaxAttempts \in Nat \ {0} /\ MaxFaults \in Nat /\ IsFiniteSet(Objects)

Attempts == 1 .. MaxAttempts
Receipts == 1 .. 2

\* A prepared result: the lease it was made under and the helper's receipt.
PreparedResult == [att : Attempts, rid : Receipts]
NoResult == [att |-> 0, rid |-> 0]

\* A termination intent: the lease it revokes and what becomes of the task.
TerminationIntent == [att : Attempts, outcome : {"failed", "superseded"}]
NoIntent == [att |-> 0, outcome |-> "none"]

\* The ledger's record.  The drain and the confirmation of a termination
\* record are its status.
Record == [status : {"none", "pending", "confirmed", "requested", "revoked", "drained", "ended"},
           result : PreparedResult \cup {NoResult}, req : 0 .. MaxAttempts,
           intent : TerminationIntent \cup {NoIntent}]
NoRecord == [status |-> "none", result |-> NoResult, req |-> 0, intent |-> NoIntent]

TaskStatus == {"queued", "leased", "succeeded", "failed", "cancelled"}
Observation == [accepted : BOOLEAN, attempt : 0 .. MaxAttempts, status : TaskStatus]
NoObservation == [accepted |-> FALSE, attempt |-> 0, status |-> "queued"]

Actors == {"task", "loop"}

\* The connections the helper serves: one of the task, one it gave up.
Slots == 1 .. 2

VARIABLES
  status, attempt, accepted, intent,  \* the control plane's task
  sent,     \* prepared results on their way that would still be accepted
  asked,    \* termination requests on their way
  entry,    \* the ledger's record of the task
  bundle,   \* the retained deployment: its receipt and its files
  drained,  \* the attempt's drain receipt exists
  mu,       \* the handler that holds Server.mu in the helper, 0 when none
  stream,   \* the preparation handlers
  drain,    \* the drain handler of each actor
  pc, mine, seen,  \* each actor's position, its record and the intent it was told
  job,      \* prepareDeployment's lease attempt, observation, lease and receipt
  faults

control == <<status, attempt, accepted, intent>>
wire == <<sent, asked>>
helper == <<bundle, drained, mu, stream, drain>>
actors == <<pc, mine, seen, job>>
vars == <<control, wire, entry, helper, actors, faults>>

NoBundle == [rid |-> 0, files |-> {}]
NoStream == [pc |-> "none", open |-> FALSE, files |-> {}]
NoJob == [att |-> 0, obs |-> NoObservation, live |-> FALSE, slot |-> 0, rid |-> 0]

PCs == {"idle", "look", "refresh", "saveRefresh", "intent", "begin", "load", "inspect", "confirm",
        "lease", "fetch", "prepare", "stream", "propose", "reload", "send", "await", "ack",
        "fail", "revoke", "resume", "compete", "restore", "request", "saveIntent", "drain",
        "draining", "saveDrain", "report", "finish", "close"}

TypeOK ==
  /\ status \in TaskStatus /\ attempt \in 0 .. MaxAttempts
  /\ accepted \in PreparedResult \cup {NoResult} /\ intent \in TerminationIntent \cup {NoIntent}
  /\ sent \subseteq PreparedResult /\ asked \subseteq Attempts
  /\ entry \in Record /\ (entry.status \in {"requested", "revoked", "drained", "ended"} => entry.req # 0)
  /\ bundle \in [rid : 0 .. 2, files : SUBSET Objects] /\ drained \in BOOLEAN
  /\ mu \in {0} \cup Slots
  /\ stream \in [Slots -> [pc : {"none", "lock", "copy", "publish", "prepared", "failed"},
                           open : BOOLEAN, files : SUBSET Objects]]
  /\ drain \in [Actors -> {"none", "lock", "drained", "failed"}]
  /\ pc \in [Actors -> PCs] /\ mine \in [Actors -> Record]
  /\ seen \in [Actors -> TerminationIntent \cup {NoIntent}]
  /\ job \in [att : 0 .. MaxAttempts, obs : Observation, live : BOOLEAN, slot : 0 .. 2, rid : 0 .. 2]
  /\ faults \in 0 .. MaxFaults

Init ==
  /\ status = "queued" /\ attempt = 0 /\ accepted = NoResult /\ intent = NoIntent
  /\ sent = {} /\ asked = {} /\ entry = NoRecord
  /\ bundle = NoBundle /\ drained = FALSE /\ mu = 0
  /\ stream = [i \in Slots |-> NoStream] /\ drain = [a \in Actors |-> "none"]
  /\ pc = [a \in Actors |-> "idle"] /\ mine = [a \in Actors |-> NoRecord]
  /\ seen = [a \in Actors |-> NoIntent] /\ job = NoJob
  /\ faults = 0

Fault == faults < MaxFaults /\ faults' = faults + 1

\* The actor moves on, or ends its pass and forgets what it held.
At(a, from, to) == pc[a] = from /\ pc' = [pc EXCEPT ![a] = to]
Forgets(a) ==
  /\ mine' = [mine EXCEPT ![a] = NoRecord] /\ seen' = [seen EXCEPT ![a] = NoIntent]
  /\ job' = IF a = "task" THEN NoJob ELSE job
Return(a) == pc' = [pc EXCEPT ![a] = "idle"] /\ Forgets(a)

-----------------------------------------------------------------------------
(* The control plane. *)

Open == status \in {"queued", "leased"}
Acceptable(r) == Open /\ intent = NoIntent /\ r.att = attempt

ExpireLease ==
  /\ status = "leased" /\ status' = "queued"
  /\ UNCHANGED <<attempt, accepted, intent, wire, entry, helper, actors, faults>>

\* The operation was superseded: the control plane revokes by itself.
Supersede ==
  /\ Open /\ attempt > 0 /\ intent = NoIntent
  /\ intent' = [att |-> attempt, outcome |-> "superseded"] /\ sent' = {} /\ asked' = {}
  /\ UNCHANGED <<status, attempt, accepted, entry, helper, actors, faults>>

\* A prepared result arrives, however late.
AcceptResult(r) ==
  /\ r \in sent /\ Acceptable(r)
  /\ accepted' = r /\ status' = "succeeded" /\ sent' = {} /\ asked' = {}
  /\ UNCHANGED <<attempt, intent, entry, helper, actors, faults>>

\* A termination request revokes the current lease, however late.
Revocable(n) == Open /\ intent = NoIntent /\ n = attempt
AcceptRequest(n) ==
  /\ n \in asked /\ Revocable(n)
  /\ intent' = [att |-> n, outcome |-> "failed"] /\ sent' = {} /\ asked' = {}
  /\ UNCHANGED <<status, attempt, accepted, entry, helper, actors, faults>>

Observe(r) == [accepted |-> accepted = r, attempt |-> attempt, status |-> status]

\* Whether an answer about result r passes the client's checks.
Consistent(r) ==
  /\ attempt >= r.att
  /\ IF accepted = r THEN status = "succeeded" /\ attempt = r.att
                     ELSE status \in {"queued", "leased", "cancelled"}

\* Whether an answer about the termination passes the client's checks.
TerminationAccepted == status \in {"failed", "cancelled"} /\ intent # NoIntent
TerminationConsistent(i) ==
  /\ i = intent /\ attempt >= i.att
  /\ IF TerminationAccepted THEN status = (IF i.outcome = "failed" THEN "failed" ELSE "cancelled")
                            ELSE Open

\* validTerminationObservation: the worker checks the answer once more.
ValidTermination(i) ==
  /\ i # NoIntent /\ attempt >= i.att
  /\ IF TerminationAccepted THEN status \in {"failed", "cancelled"} ELSE Open

-----------------------------------------------------------------------------
(* The journal. *)

TerminationStatus(s) == s \in {"requested", "revoked", "drained", "ended"}

\* The record of a termination that starts from record old.
BeginTermination(old, n, i) ==
  [status |-> IF i = NoIntent THEN "requested" ELSE "revoked", result |-> old.result, req |-> n, intent |-> i]

\* terminationAdvance: what is recorded of a termination is never changed.
TerminationAdvance(old, new) ==
  /\ old.result = new.result
  /\ old.intent # NoIntent => new.intent = old.intent
  /\ old.intent = NoIntent /\ new.intent = NoIntent => new.req >= old.req
  /\ old.status = "drained" => new.status \in {"drained", "ended"}
  /\ old.status = "ended" => new = old

\* saveTermination: a termination follows nothing, a pending proposal it keeps,
\* or an earlier state of itself.
MayFollow(old, new) ==
  \/ old.status = "none"
  \/ TerminationStatus(old.status) /\ TerminationAdvance(old, new)
  \/ old.status = "pending" /\ new.result = old.result

\* CompareAndSwap against what the actor holds.
Swap(a, new) == entry = mine[a] /\ entry' = new

\* A save succeeds and the actor holds the new record, or it ends its pass.
Save(a, new, next) ==
  \/ /\ MayFollow(mine[a], new) /\ Swap(a, new)
     /\ mine' = [mine EXCEPT ![a] = new] /\ pc' = [pc EXCEPT ![a] = next]
     /\ seen' = [seen EXCEPT ![a] = NoIntent] /\ job' = IF a = "task" THEN NoJob ELSE job
  \/ /\ ~(MayFollow(mine[a], new) /\ entry = mine[a])
     /\ Return(a) /\ UNCHANGED entry

\* confirm: the exact proposal that was accepted, or nothing.
Confirmed(r) == [status |-> "confirmed", result |-> r, req |-> 0, intent |-> NoIntent]
Confirm(a) ==
  entry' = IF entry = mine[a] /\ mine[a].status = "pending" THEN Confirmed(mine[a].result) ELSE entry

-----------------------------------------------------------------------------
(* The helper: preparation and drain of the attempt, under Server.mu. *)

StreamTo(i, to) == stream' = [stream EXCEPT ![i].pc = to]

\* lockSkillPreparation.
MayLock == mu = 0

\* ReadDeploymentDrain.
Sealed == drained

\* readDeploymentBundle: every retained byte is there.
Intact == bundle.files = Objects

\* ReadDeploymentPreparation: an earlier preparation answers for itself.
Retained == bundle # NoBundle /\ Intact

\* The objects a preparation still asks its client for.
Wanted(i) == Objects \ stream[i].files

\* PrepareDeployment up to its copy: refused after a drain, answered from a
\* complete bundle, refused by a damaged one.
LockPreparation(i) ==
  /\ stream[i].pc = "lock" /\ MayLock
  /\ IF ~Sealed /\ bundle = NoBundle
     THEN StreamTo(i, "copy") /\ mu' = i
     ELSE /\ StreamTo(i, IF ~Sealed /\ Retained THEN "prepared" ELSE "failed")
          /\ UNCHANGED mu
  /\ UNCHANGED <<control, wire, entry, bundle, drained, drain, actors, faults>>

\* The client downloads, verifies and acknowledges one requested object.
CopyObject(i, o) ==
  /\ stream[i].pc = "copy" /\ stream[i].open /\ o \in Wanted(i)
  /\ stream' = [stream EXCEPT ![i].files = @ \cup {o}]
  /\ UNCHANGED <<control, wire, entry, bundle, drained, mu, drain, actors, faults>>

\* Mutant: an interrupted copy is published like a finished one.
SealPartial(i) ==
  /\ stream[i].pc = "copy" /\ StreamTo(i, "publish")
  /\ UNCHANGED <<control, wire, entry, bundle, drained, mu, drain, actors, faults>>

\* The staged bundle is complete and its context still alive: past this point
\* a closed connection no longer stops its publication.
SealBundle(i) ==
  /\ stream[i].pc = "copy" /\ Wanted(i) = {}
  /\ StreamTo(i, "publish")
  /\ UNCHANGED <<control, wire, entry, bundle, drained, mu, drain, actors, faults>>

\* The rename, after which the bundle stays whatever the answer.
PublishBundle(i) ==
  /\ stream[i].pc = "publish"
  /\ bundle' = [rid |-> bundle.rid + 1, files |-> stream[i].files] /\ mu' = 0
  /\ \/ StreamTo(i, "prepared") /\ UNCHANGED faults
     \/ StreamTo(i, "failed") /\ Fault
  /\ UNCHANGED <<control, wire, entry, drained, drain, actors>>

\* A step of the preparation fails; its staging directory is removed.
PreparationFails(i) ==
  /\ stream[i].pc \in {"lock", "copy"} /\ Fault
  /\ StreamTo(i, "failed") /\ mu' = IF mu = i THEN 0 ELSE mu
  /\ UNCHANGED <<control, wire, entry, bundle, drained, drain, actors>>

\* The handler notices that its client is gone, or has answered nobody.
PreparationEnds(i) ==
  /\ stream[i].pc \in {"lock", "copy", "prepared", "failed"} /\ ~stream[i].open
  /\ stream' = [stream EXCEPT ![i] = NoStream] /\ mu' = IF mu = i THEN 0 ELSE mu
  /\ UNCHANGED <<control, wire, entry, bundle, drained, drain, actors, faults>>

\* Mutant: the drain does not wait for Server.mu.
DrainUnlocked(a) ==
  /\ drain[a] = "lock"
  /\ drained' = TRUE /\ drain' = [drain EXCEPT ![a] = IF pc[a] = "draining" THEN "drained" ELSE "none"]
  /\ UNCHANGED <<control, wire, entry, bundle, mu, stream, actors, faults>>

\* DrainDeployment, for a caller that may have left.  A retained bundle that
\* requireOriginalDeploymentBundle cannot read fails the call instead:
\* DrainUnanswered, then DrainEnds.
DrainAttempt(a) ==
  /\ drain[a] = "lock" /\ MayLock
  /\ drained' = TRUE /\ drain' = [drain EXCEPT ![a] = IF pc[a] = "draining" THEN "drained" ELSE "none"]
  /\ UNCHANGED <<control, wire, entry, bundle, mu, stream, actors, faults>>

\* The drain handler fails, or notices that its client is gone, before it has
\* written the receipt.
DrainEnds(a) ==
  /\ drain[a] = "lock" /\ pc[a] # "draining"
  /\ drain' = [drain EXCEPT ![a] = "none"]
  /\ UNCHANGED <<control, wire, entry, bundle, drained, mu, stream, actors, faults>>

-----------------------------------------------------------------------------
(* The task: runDeployment and prepareDeployment. *)

\* The control plane leases the task and the worker receives it.
Poll ==
  /\ pc["task"] = "idle" /\ status = "queued" /\ attempt < MaxAttempts
  /\ status' = "leased" /\ attempt' = attempt + 1 /\ sent' = {} /\ asked' = {}
  /\ pc' = [pc EXCEPT !["task"] = "look"] /\ job' = [job EXCEPT !.att = attempt + 1]
  /\ UNCHANGED <<accepted, intent, entry, helper, mine, seen, faults>>

\* Where a termination record is resumed.
Phase(r) == CASE r.status = "requested" -> "resume"
              [] r.status = "revoked"   -> "drain"
              [] OTHER                  -> "report"

LookUp ==
  LET e == entry IN
  /\ pc["task"] = "look" /\ mine' = [mine EXCEPT !["task"] = e]
  /\ pc' = [pc EXCEPT !["task"] =
       IF TerminationStatus(e.status)
       THEN IF e.status = "requested" /\ job.att > e.req THEN "refresh" ELSE Phase(e)
       ELSE IF e.status = "confirmed" THEN "load" ELSE "intent"]
  /\ job' = IF TerminationStatus(e.status) /\ job.att <= e.req THEN NoJob ELSE job
  /\ UNCHANGED <<control, wire, entry, helper, seen, faults>>

\* A newer lease renews a request the control plane has not answered.
SaveRefresh ==
  LET old == mine["task"]
      new == IF seen["task"] # NoIntent
             THEN [old EXCEPT !.status = "revoked", !.req = seen["task"].att, !.intent = seen["task"]]
             ELSE [old EXCEPT !.req = job.att] IN
  /\ pc["task"] = "saveRefresh" /\ Save("task", new, Phase(new))
  /\ UNCHANGED <<control, wire, helper, faults>>

\* prepareDeployment reads the record again.
LoadPrevious ==
  /\ pc["task"] = "load"
  /\ IF TerminationStatus(entry.status) THEN Return("task")
     ELSE /\ mine' = [mine EXCEPT !["task"] = entry]
          /\ pc' = [pc EXCEPT !["task"] = IF entry.status = "none" THEN "lease" ELSE "inspect"]
          /\ UNCHANGED <<seen, job>>
  /\ UNCHANGED <<control, wire, entry, helper, faults>>

\* The work ends without an accepted result: with a reason to revoke, or with
\* one the task must not act on.  A lost lease always is a reason, unless the
\* control plane's refusal says something else.
FailWork ==
  \/ pc' = [pc EXCEPT !["task"] = "fail"] /\ job' = [NoJob EXCEPT !.att = job.att] /\ UNCHANGED <<mine, seen>>
  \/ Return("task")
HangUp == stream' = [i \in Slots |-> IF i = job.slot THEN [stream[i] EXCEPT !.open = FALSE] ELSE stream[i]]

\* The control plane renews only the current lease of an open task.
Renewable == status = "leased" /\ attempt = job.att /\ intent = NoIntent

AcquireLease ==
  /\ pc["task"] = "lease"
  /\ \/ /\ Renewable /\ pc' = [pc EXCEPT !["task"] = "fetch"]
        /\ job' = [job EXCEPT !.live = TRUE] /\ UNCHANGED <<mine, seen, faults>>
     \/ ~Renewable /\ FailWork /\ UNCHANGED faults
     \/ Fault /\ FailWork
  /\ UNCHANGED <<control, wire, entry, helper>>

Working == {"fetch", "prepare", "stream", "propose", "reload", "send", "await"}

\* maintainTaskLease gives up and cancels the work's context.
LoseLease ==
  /\ pc["task"] \in Working /\ job.live
  /\ job' = [job EXCEPT !.live = FALSE]
  /\ \/ ~Renewable /\ UNCHANGED faults
     \/ Fault
  /\ UNCHANGED <<control, wire, entry, helper, pc, mine, seen>>

\* A call of the work fails, because its context ended or by itself.
WorkFails ==
  /\ pc["task"] \in {"fetch", "prepare", "stream", "send", "await"}
  /\ \/ ~job.live /\ UNCHANGED faults
     \/ Fault
  /\ HangUp /\ FailWork
  /\ UNCHANGED <<control, wire, entry, bundle, drained, mu, drain>>

\* The input is served to the current lease only.
FetchInput ==
  /\ Renewable /\ job.live /\ At("task", "fetch", "prepare")
  /\ UNCHANGED <<control, wire, entry, helper, mine, seen, job, faults>>

\* The answer is not the original input (SkillDeployment.Validate).
InputRejected ==
  /\ pc["task"] = "fetch" /\ Fault
  /\ (IF job.live THEN Return("task") ELSE FailWork)
  /\ UNCHANGED <<control, wire, entry, helper>>

FetchRefused ==
  /\ pc["task"] = "fetch" /\ ~Renewable /\ FailWork
  /\ UNCHANGED <<control, wire, entry, helper, faults>>

OpenStream(i) ==
  /\ stream[i] = NoStream /\ \A k \in 1 .. i - 1 : stream[k] # NoStream
  /\ job.live /\ At("task", "prepare", "stream")
  /\ stream' = [stream EXCEPT ![i] = [pc |-> "lock", open |-> TRUE, files |-> {}]]
  /\ job' = [job EXCEPT !.slot = i]
  /\ UNCHANGED <<control, wire, entry, bundle, drained, mu, drain, mine, seen, faults>>

\* The helper's answer; a receipt counts only while the lease is held.
StreamAnswered ==
  /\ pc["task"] = "stream" /\ stream[job.slot].pc \in {"prepared", "failed"}
  /\ stream' = [stream EXCEPT ![job.slot] = NoStream]
  /\ IF stream[job.slot].pc = "prepared" /\ job.live
     THEN /\ pc' = [pc EXCEPT !["task"] = "propose"]
          /\ job' = [job EXCEPT !.slot = 0, !.rid = bundle.rid] /\ UNCHANGED <<mine, seen>>
     ELSE FailWork
  /\ UNCHANGED <<control, wire, entry, bundle, drained, mu, drain, faults>>
\* propose's guard: a proposal is replaced only by the same preparation under
\* a later lease, which the control plane said is current.
Replaceable(old, r) ==
  /\ old.status = "pending" /\ ~job.obs.accepted /\ job.obs.status = "leased"
  /\ job.obs.attempt = r.att /\ r.att > old.result.att /\ r.rid = old.result.rid

Propose ==
  LET old == mine["task"]
      r == [att |-> job.att, rid |-> job.rid]
      swaps == old.status = "none" \/ Replaceable(old, r)
      same == old.status # "none" /\ old.result = r IN
  /\ pc["task"] = "propose"
  /\ \/ /\ same \/ (swaps /\ entry = old)
        /\ entry' = IF same THEN entry ELSE [NoRecord EXCEPT !.status = "pending", !.result = r]
        /\ pc' = [pc EXCEPT !["task"] = "reload"] /\ job' = [job EXCEPT !.obs = NoObservation]
        /\ UNCHANGED <<mine, seen>>
     \/ /\ ~same /\ ~(swaps /\ entry = old)
        /\ (IF job.live THEN Return("task") ELSE FailWork) /\ UNCHANGED entry
  /\ UNCHANGED <<control, wire, helper, faults>>

\* The record as it is after the swap, unless it already is a termination.
Reload ==
  /\ pc["task"] = "reload"
  /\ IF entry.status \in {"pending", "confirmed"} /\ entry.result = [att |-> job.att, rid |-> job.rid]
     THEN /\ mine' = [mine EXCEPT !["task"] = entry]
          /\ pc' = [pc EXCEPT !["task"] = "send"] /\ UNCHANGED <<seen, job>>
     ELSE IF job.live THEN Return("task") ELSE FailWork
  /\ UNCHANGED <<control, wire, entry, helper, faults>>

SendResult ==
  LET r == mine["task"].result IN
  /\ At("task", "send", "await")
  /\ sent' = IF Acceptable(r) THEN sent \cup {r} ELSE sent
  /\ UNCHANGED <<control, asked, entry, helper, mine, seen, job, faults>>

\* The receipt wins over a lease lost meanwhile.
ReceiveReceipt ==
  /\ accepted = mine["task"].result /\ Consistent(accepted)
  /\ At("task", "await", "ack")
  /\ UNCHANGED <<control, wire, entry, helper, mine, seen, job, faults>>

ResultRefused ==
  /\ pc["task"] = "await" /\ accepted # mine["task"].result /\ ~Acceptable(mine["task"].result)
  /\ FailWork
  /\ UNCHANGED <<control, wire, entry, helper, faults>>

Acknowledge ==
  /\ pc["task"] = "ack" /\ Confirm("task") /\ Return("task")
  /\ UNCHANGED <<control, wire, helper, faults>>

\* The failed task reads the record once more and saves a request to revoke.
LoadAfterFailure ==
  /\ pc["task"] = "fail"
  /\ IF entry.status \in {"none", "pending"}
     THEN /\ mine' = [mine EXCEPT !["task"] = entry]
          /\ pc' = [pc EXCEPT !["task"] = "revoke"] /\ UNCHANGED <<seen, job>>
     ELSE Return("task")
  /\ UNCHANGED <<control, wire, entry, helper, faults>>

RevokeAfterFailure ==
  /\ pc["task"] = "revoke"
  /\ Save("task", BeginTermination(mine["task"], job.att, NoIntent), "resume")
  /\ UNCHANGED <<control, wire, helper, faults>>

-----------------------------------------------------------------------------
(* The loop: inspectPendingDeployments and recoverDeploymentTerminations. *)

ListPending ==
  /\ entry.status = "pending" /\ At("loop", "idle", "intent")
  /\ mine' = [mine EXCEPT !["loop"] = entry]
  /\ UNCHANGED <<control, wire, entry, helper, seen, job, faults>>

ListTerminations ==
  /\ entry.status \in {"requested", "revoked", "drained"} /\ At("loop", "idle", Phase(entry))
  /\ mine' = [mine EXCEPT !["loop"] = entry]
  /\ UNCHANGED <<control, wire, entry, helper, seen, job, faults>>

-----------------------------------------------------------------------------
(* What both do: questions to the control plane and the termination. *)

\* GetSkillDeploymentTermination, at each of its callers.
GetIntent(a) ==
  LET found == intent # NoIntent
      next == CASE pc[a] = "refresh" -> "saveRefresh"
                [] pc[a] = "intent"  -> IF found THEN "begin" ELSE IF a = "task" THEN "load" ELSE "inspect"
                [] OTHER             -> IF found THEN "saveIntent"
                                        ELSE IF mine[a].result # NoResult THEN "compete" ELSE "request" IN
  /\ pc[a] \in {"refresh", "intent", "resume"}
  /\ seen' = [seen EXCEPT ![a] = intent] /\ pc' = [pc EXCEPT ![a] = next]
  /\ UNCHANGED <<control, wire, entry, helper, mine, job, faults>>

\* The control plane had an intent: it becomes the record.
SaveBegin(a) ==
  /\ pc[a] = "begin" /\ Save(a, BeginTermination(mine[a], seen[a].att, seen[a]), "drain")
  /\ UNCHANGED <<control, wire, helper, faults>>

\* InspectSkillDeployment of the recorded proposal.  Only the task goes on
\* with a proposal that was not accepted, under the lease that is current.
InspectResult(a) ==
  LET r == mine[a].result
      o == Observe(r)
      goesOn == a = "task" /\ mine[a].status = "pending" /\ o.attempt = job.att /\ o.status = "leased" IN
  /\ pc[a] = "inspect"
  /\ \/ /\ Consistent(r) /\ o.accepted
        /\ pc' = [pc EXCEPT ![a] = "confirm"] /\ UNCHANGED <<mine, seen, job>>
     \/ /\ Consistent(r) /\ ~o.accepted /\ goesOn
        /\ pc' = [pc EXCEPT ![a] = "lease"] /\ job' = [job EXCEPT !.obs = o] /\ UNCHANGED <<mine, seen>>
     \/ /\ ~(Consistent(r) /\ (o.accepted \/ goesOn)) /\ Return(a)
  /\ UNCHANGED <<control, wire, entry, helper, faults>>

ConfirmAccepted(a) ==
  /\ pc[a] = "confirm" /\ Confirm(a) /\ Return(a)
  /\ UNCHANGED <<control, wire, helper, faults>>

\* Mutant: a saved request is repeated without a look for an earlier success.
CompeteNever(a) ==
  /\ At(a, "compete", "request")
  /\ UNCHANGED <<control, wire, entry, helper, mine, seen, job, faults>>

\* A success may have been accepted after the request was saved.
CompetingSuccess(a) ==
  LET r == mine[a].result IN
  /\ pc[a] = "compete"
  /\ IF Consistent(r)
     THEN /\ pc' = [pc EXCEPT ![a] = IF accepted = r THEN "restore" ELSE "request"]
          /\ UNCHANGED <<mine, seen, job>>
     ELSE Return(a)
  /\ UNCHANGED <<control, wire, entry, helper, faults>>

\* restoreConfirmedPreparation.
RestoreConfirmed(a) ==
  /\ pc[a] = "restore" /\ mine[a].status = "requested"
  /\ entry' = IF entry = mine[a] THEN Confirmed(mine[a].result) ELSE entry
  /\ Return(a)
  /\ UNCHANGED <<control, wire, helper, faults>>

\* RequestSkillDeploymentTermination; a lost request may still arrive.
RequestTermination(a) ==
  LET n == mine[a].req IN
  /\ pc[a] = "request"
  /\ \/ /\ Revocable(n) \/ (intent = [att |-> n, outcome |-> "failed"] /\ Open)
        /\ intent' = [att |-> n, outcome |-> "failed"] /\ sent' = {} /\ asked' = {}
        /\ seen' = [seen EXCEPT ![a] = intent'] /\ pc' = [pc EXCEPT ![a] = "saveIntent"]
        /\ UNCHANGED <<mine, job, faults>>
     \/ ~Revocable(n) /\ Return(a) /\ UNCHANGED <<intent, wire, faults>>
     \/ Revocable(n) /\ Fault /\ asked' = asked \cup {n} /\ Return(a) /\ UNCHANGED <<intent, sent>>
  /\ UNCHANGED <<status, attempt, accepted, entry, helper>>

SaveIntent(a) ==
  /\ pc[a] = "saveIntent"
  /\ Save(a, [mine[a] EXCEPT !.status = "revoked", !.req = seen[a].att, !.intent = seen[a]], "drain")
  /\ UNCHANGED <<control, wire, helper, faults>>

CallDrain(a) ==
  /\ drain[a] = "none" /\ At(a, "drain", "draining")
  /\ drain' = [drain EXCEPT ![a] = "lock"]
  /\ UNCHANGED <<control, wire, entry, bundle, drained, mu, stream, mine, seen, job, faults>>

DrainAnswered(a) ==
  /\ drain[a] = "drained" /\ At(a, "draining", "saveDrain")
  /\ drain' = [drain EXCEPT ![a] = "none"]
  /\ UNCHANGED <<control, wire, entry, bundle, drained, mu, stream, mine, seen, job, faults>>

\* Mutant: an unanswered drain counts as done.
DrainAssumed(a) ==
  /\ drain[a] \in {"lock", "drained"} /\ Fault /\ At(a, "draining", "saveDrain")
  /\ drain' = [drain EXCEPT ![a] = IF @ = "drained" THEN "none" ELSE @]
  /\ UNCHANGED <<control, wire, entry, bundle, drained, mu, stream, mine, seen, job>>

\* No answer or an error: the handler may still drain the attempt.
DrainUnanswered(a) ==
  /\ pc[a] = "draining" /\ drain[a] \in {"lock", "drained"} /\ Fault /\ Return(a)
  /\ drain' = [drain EXCEPT ![a] = IF @ = "drained" THEN "none" ELSE @]
  /\ UNCHANGED <<control, wire, entry, bundle, drained, mu, stream>>

SaveDrain(a) ==
  /\ pc[a] = "saveDrain" /\ Save(a, [mine[a] EXCEPT !.status = "drained"], "report")
  /\ UNCHANGED <<control, wire, helper, faults>>

\* InspectSkillDeploymentTermination.
InspectTermination(a) ==
  /\ pc[a] = "report"
  /\ IF TerminationConsistent(mine[a].intent) /\ ValidTermination(mine[a].intent) /\ mine[a].status = "drained"
     THEN /\ pc' = [pc EXCEPT ![a] = IF TerminationAccepted THEN "close" ELSE "finish"]
          /\ UNCHANGED <<mine, seen, job>>
     ELSE Return(a)
  /\ UNCHANGED <<control, wire, entry, helper, faults>>

\* ConfirmSkillDeploymentTermination, whose answer may be lost.
ConfirmTermination(a) ==
  /\ pc[a] = "finish" /\ mine[a].intent = intent
  /\ status' = IF intent.outcome = "failed" THEN "failed" ELSE "cancelled"
  /\ \/ pc' = [pc EXCEPT ![a] = "close"] /\ UNCHANGED <<mine, seen, job, faults>>
     \/ Fault /\ Return(a)
  /\ UNCHANGED <<attempt, accepted, intent, wire, entry, helper>>

SaveEnd(a) ==
  /\ pc[a] = "close"
  /\ entry' = IF entry = mine[a] THEN [mine[a] EXCEPT !.status = "ended"] ELSE entry
  /\ Return(a)
  /\ UNCHANGED <<control, wire, helper, faults>>

\* A question or a request gets no usable answer.
CallFails(a) ==
  /\ pc[a] \in {"refresh", "intent", "resume", "inspect", "compete", "report", "finish", "drain"}
  /\ Fault /\ Return(a)
  /\ UNCHANGED <<control, wire, entry, helper>>
-----------------------------------------------------------------------------
(* Crashes. *)

WorkerCrash ==
  /\ Fault /\ \E a \in Actors : pc[a] # "idle"
  /\ pc' = [a \in Actors |-> "idle"] /\ mine' = [a \in Actors |-> NoRecord]
  /\ seen' = [a \in Actors |-> NoIntent] /\ job' = NoJob
  /\ HangUp
  /\ drain' = [a \in Actors |-> IF drain[a] = "drained" THEN "none" ELSE drain[a]]
  /\ UNCHANGED <<control, wire, entry, bundle, drained, mu>>

\* The bundle and the drain are durable, a staging directory is not used again.
HelperCrash ==
  /\ Fault /\ \E i \in Slots : stream[i] # NoStream
  /\ mu' = 0 /\ drain' = [a \in Actors |-> "none"]
  /\ stream' = [i \in Slots |-> IF i = job.slot THEN [NoStream EXCEPT !.pc = "failed"] ELSE NoStream]
  /\ pc' = [a \in Actors |-> IF pc[a] = "draining" THEN "drain" ELSE pc[a]]
  /\ UNCHANGED <<control, wire, entry, bundle, drained, mine, seen, job>>

-----------------------------------------------------------------------------
Control ==
  \/ ExpireLease \/ Supersede
  \/ \E r \in PreparedResult : AcceptResult(r)
  \/ \E n \in Attempts : AcceptRequest(n)

HandlerStep(i) ==
  \/ LockPreparation(i) \/ \E o \in Objects : CopyObject(i, o)
  \/ SealBundle(i) \/ PublishBundle(i) \/ PreparationEnds(i)

DrainStep(a) == DrainAttempt(a) \/ DrainEnds(a)

HelperStep == (\E i \in Slots : HandlerStep(i)) \/ (\E a \in Actors : DrainStep(a))

TaskStep ==
  \/ LookUp \/ SaveRefresh \/ LoadPrevious \/ AcquireLease \/ FetchInput \/ FetchRefused \/ InputRejected
  \/ \E i \in Slots : OpenStream(i)
  \/ StreamAnswered \/ Propose \/ Reload \/ SendResult \/ ReceiveReceipt \/ ResultRefused
  \/ Acknowledge \/ LoadAfterFailure \/ RevokeAfterFailure \/ WorkFails

CommonStep(a) ==
  \/ GetIntent(a) \/ SaveBegin(a) \/ InspectResult(a) \/ ConfirmAccepted(a)
  \/ CompetingSuccess(a) \/ RestoreConfirmed(a) \/ RequestTermination(a) \/ SaveIntent(a)
  \/ CallDrain(a) \/ DrainAnswered(a) \/ SaveDrain(a)
  \/ InspectTermination(a) \/ ConfirmTermination(a) \/ SaveEnd(a)

LoopStep == ListPending \/ ListTerminations

Next ==
  \/ Control \/ Poll \/ TaskStep \/ LoseLease \/ LoopStep
  \/ \E a \in Actors : CommonStep(a) \/ DrainUnanswered(a) \/ CallFails(a)
  \/ HelperStep \/ \E i \in Slots : PreparationFails(i)
  \/ WorkerCrash \/ HelperCrash

\* Both loops of the worker and the helper's handlers go on; the control
\* plane owes nothing.
Fairness ==
  /\ WF_vars(TaskStep \/ CommonStep("task")) /\ WF_vars(LoopStep \/ CommonStep("loop"))
  /\ WF_vars(HelperStep)

Spec == Init /\ [][Next]_vars /\ Fairness

-----------------------------------------------------------------------------
(* Properties. *)

\* What the control plane accepted is what the helper retains, complete and
\* under the same receipt, and no termination drained it: the lost receipts,
\* late acceptances and revocations of runDeployment and
\* resumeDeploymentTermination never take an accepted deployment away.
AcceptedKept ==
  accepted # NoResult => /\ bundle = [rid |-> accepted.rid, files |-> Objects]
                         /\ ~drained /\ status = "succeeded"

\* The record never says more than happened: a confirmed preparation was
\* accepted, a revocation is the control plane's, and the end of a deployment
\* is reported or recorded only over the helper's permanent drain
\* (deploymentTerminationRecord.status, confirm, restoreConfirmedPreparation).
JournalTruth ==
  /\ entry.status = "confirmed" => accepted = entry.result
  /\ entry.status \in {"revoked", "drained", "ended"} => entry.intent = intent
  /\ entry.status \in {"drained", "ended"} \/ TerminationAccepted => drained
  /\ entry.status = "ended" => TerminationAccepted

\* Once the attempt is drained nothing is published for it any more, however
\* late a preparation whose caller is gone gets Server.mu (DrainDeployment).
DrainSeals == [][drained => UNCHANGED bundle]_vars

\* Whatever the control plane decided of a deployment the ledger knows, the
\* record follows it in the end, without another lease of the task
\* (recoverDeploymentConfirmations).
DecidedSettles ==
  entry.status # "none" /\ (accepted # NoResult \/ intent # NoIntent)
    ~> entry.status \in {"confirmed", "ended"}
=============================================================================
