------------------------------ MODULE WorkerTasks ------------------------------
(***************************************************************************)
(* The task loop of the unprivileged worker (Worker.PollOnce and           *)
(* executeTask), its ledger, the control plane that leases tasks to it and *)
(* the runtime helper it calls over a Unix socket.                         *)
(*                                                                         *)
(* The worker is one goroutine that executes a leased batch serially.      *)
(* Every blocking point is an action boundary: the helper keeps executing  *)
(* a request whose caller timed out or died, a lease can expire under a    *)
(* running task, and a report can be lost or arrive late.                  *)
(***************************************************************************)
EXTENDS TaskLedger, SessionGate, Naturals

CONSTANTS Kind,        \* the task_type of a task, as its class
          SessionsOf,  \* the sessions its payload names
          NoTask,
          MaxFaults    \* how many failures of the environment a behaviour has

Kinds == {"create", "stop", "cleanup", "import"}
Outcomes == {"succeeded", "failed"}

ASSUME TaskAssumption ==
  /\ Records = Outcomes
  /\ NoTask \notin Tasks
  /\ Kind \in [Tasks -> Kinds]
  /\ SessionsOf \in [Tasks -> SUBSET Sessions]
  /\ \A t \in Tasks : Kind[t] = "create" => \E s \in Sessions : SessionsOf[t] = {s}
  /\ MaxFaults \in Nat

Stops == {t \in Tasks : Kind[t] \in {"stop", "cleanup"}}

VARIABLES
  server,    \* the control plane's status of every task
  batch,     \* tasks of the polled batch that were not executed yet
  cur,       \* the task executeTask works on
  pc,        \* where executeTask is
  seen,      \* the ledger entry executeTask read
  result,    \* the outcome executeTask is about to store or report
  sent,      \* reports ever sent, which the network may deliver late
  requests,  \* requests the runtime helper has not answered
  reply,     \* the answer to the worker's own request
  spec,      \* sessions with a saved runtime spec
  cached,    \* tasks whose result the helper stored
  faults,    \* failures so far
  dropped    \* tasks whose unsynced ledger record a power failure took

workerVars == <<batch, cur, pc, seen, result, reply>>
helperVars == <<open, running, spec, cached>>
vars == <<ledgerVars, workerVars, helperVars, server, sent, requests, faults, dropped>>

Report == [task : Tasks, outcome : Outcomes]
Request == [task : Tasks, op : {"intent", "run"}, stage : {"sent", "fenced", "saved"}, live : BOOLEAN]

TypeOK ==
  /\ LedgerTypeOK
  /\ server \in [Tasks -> {"queued", "leased", "running"} \cup Outcomes]
  /\ batch \subseteq Tasks
  /\ cur \in Tasks \cup {NoTask}
  /\ pc \in {"idle", "intent", "observe", "start", "exec", "save", "report"}
  /\ seen \in Records \cup {NoRecord}
  /\ result \in Records \cup {NoRecord}
  /\ sent \subseteq Report
  /\ requests \subseteq Request
  /\ reply \in {"none", "ok", "error"}
  /\ open \subseteq Sessions
  /\ running \subseteq Sessions
  /\ spec \subseteq Sessions
  /\ cached \subseteq Tasks
  /\ faults \in 0 .. MaxFaults
  /\ dropped \subseteq Tasks

\* The control plane has tasks for this worker, and tasks it closed itself.
Init ==
  /\ LedgerInit
  /\ GateInit
  /\ server \in [Tasks -> {"queued", "failed"}]
  /\ batch = {} /\ cur = NoTask /\ pc = "idle"
  /\ seen = NoRecord /\ result = NoRecord /\ reply = "none"
  /\ sent = {} /\ requests = {}
  /\ spec = {} /\ cached = {}
  /\ faults = 0 /\ dropped = {}

Fault == faults < MaxFaults /\ faults' = faults + 1
NoFault == UNCHANGED faults

-----------------------------------------------------------------------------
(* The control plane. *)

\* PollTasks leases every queued task; the order of the batch is the server's.
PollOnce ==
  /\ pc = "idle" /\ batch = {}
  /\ \E t \in Tasks : server[t] = "queued"
  /\ batch' = {t \in Tasks : server[t] = "queued"}
  /\ server' = [t \in Tasks |-> IF server[t] = "queued" THEN "leased" ELSE server[t]]
  /\ UNCHANGED <<ledgerVars, helperVars, cur, pc, seen, result, reply, sent, requests, faults, dropped>>

\* A lease runs out: by itself when the worker gave the task up, as a failure
\* when the worker still holds it.
ExpireLease(t) ==
  /\ server[t] \in {"leased", "running"}
  /\ IF t \in batch \cup {cur} THEN Fault ELSE NoFault
  /\ server' = [server EXCEPT ![t] = "queued"]
  /\ UNCHANGED <<ledgerVars, workerVars, helperVars, sent, requests, dropped>>

Accept(r) ==
  IF server[r.task] \in Outcomes THEN server ELSE [server EXCEPT ![r.task] = r.outcome]

\* A report that was lost for its sender reaches the control plane after all.
DeliverLate(r) ==
  /\ r \in sent
  /\ server' = Accept(r) /\ server' # server
  /\ UNCHANGED <<ledgerVars, workerVars, helperVars, sent, requests, faults, dropped>>

-----------------------------------------------------------------------------
(* executeTask. *)

GiveUp ==
  /\ pc' = "idle" /\ cur' = NoTask /\ seen' = NoRecord /\ result' = NoRecord /\ reply' = "none"

Send(t, op) ==
  requests' = requests \cup {[task |-> t, op |-> op, stage |-> "sent", live |-> TRUE]}

\* Mutant: a stored failure is executed again.
ProceedRetriesFailure(t, entry) ==
  IF entry # "succeeded"
  THEN pc' = "start" /\ result' = NoRecord /\ UNCHANGED requests
  ELSE pc' = "report" /\ result' = entry /\ UNCHANGED requests

\* What follows once the intent of a stop is recorded: a stored outcome is
\* reported again, after a fresh observation when the task stops sessions.
Proceed(t, entry) ==
  IF entry = NoRecord
  THEN pc' = "start" /\ result' = NoRecord /\ UNCHANGED requests
  ELSE /\ result' = entry
       /\ IF t \in Stops
          THEN pc' = "observe" /\ Send(t, "run")
          ELSE pc' = "report" /\ UNCHANGED requests

BeginTask(t) ==
  /\ pc = "idle" /\ t \in batch
  /\ batch' = batch \ {t}
  /\ IF failed
     THEN GiveUp /\ UNCHANGED requests
     ELSE /\ cur' = t /\ seen' = entries[t] /\ reply' = "none"
          /\ IF Kind[t] = "stop"
             THEN pc' = "intent" /\ Send(t, "intent") /\ UNCHANGED result
             ELSE Proceed(t, entries[t])
  /\ UNCHANGED <<ledgerVars, helperVars, server, sent, faults, dropped>>

IntentRecorded ==
  /\ pc = "intent" /\ reply # "none"
  /\ IF reply = "ok"
     THEN Proceed(cur, seen) /\ reply' = "none" /\ UNCHANGED <<cur, seen>>
     ELSE GiveUp /\ UNCHANGED requests
  /\ UNCHANGED <<ledgerVars, helperVars, server, batch, sent, faults, dropped>>

OldStopObserved ==
  /\ pc = "observe" /\ reply # "none"
  /\ IF reply = "ok"
     THEN pc' = "report" /\ reply' = "none" /\ UNCHANGED <<cur, seen, result>>
     ELSE GiveUp
  /\ UNCHANGED <<ledgerVars, helperVars, server, batch, sent, requests, faults, dropped>>

\* StartTask succeeds while the lease is held.  The answer may be lost after the
\* server moved the task to running.
StartTask ==
  /\ pc = "start"
  /\ \/ /\ server[cur] \in {"leased", "running"}
        /\ server' = [server EXCEPT ![cur] = "running"]
        /\ \/ NoFault /\ pc' = "exec" /\ Send(cur, "run") /\ UNCHANGED <<cur, seen, result, reply>>
           \/ Fault /\ GiveUp /\ UNCHANGED requests
     \/ /\ server[cur] \notin {"leased", "running"}
        /\ NoFault /\ GiveUp /\ UNCHANGED <<server, requests>>
  /\ UNCHANGED <<ledgerVars, helperVars, batch, sent, dropped>>

\* The control plane refuses a config import because the node owns the path:
\* the worker settles the task as failed without executing it.
StartTaskOwnershipRefused ==
  /\ pc = "start" /\ Kind[cur] = "import" /\ server[cur] = "leased"
  /\ pc' = "save" /\ result' = "failed"
  /\ UNCHANGED <<ledgerVars, helperVars, server, batch, cur, seen, reply, sent, requests, faults, dropped>>

\* Mutant: every failure is left for a later attempt, not only that of a stop.
TaskExecutedDropsFailures ==
  /\ pc = "exec" /\ reply # "none"
  /\ IF reply = "error"
     THEN GiveUp
     ELSE pc' = "save" /\ reply' = "none" /\ result' = "succeeded" /\ UNCHANGED <<cur, seen>>
  /\ UNCHANGED <<ledgerVars, helperVars, server, batch, sent, requests, faults, dropped>>

\* executeKnownTask returned.  A stop that failed is neither recorded nor reported.
TaskExecuted ==
  /\ pc = "exec" /\ reply # "none"
  /\ IF reply = "error" /\ cur \in Stops
     THEN GiveUp
     ELSE /\ pc' = "save" /\ reply' = "none"
          /\ result' = IF reply = "ok" THEN "succeeded" ELSE "failed"
          /\ UNCHANGED <<cur, seen>>
  /\ UNCHANGED <<ledgerVars, helperVars, server, batch, sent, requests, faults, dropped>>

SaveOutcome ==
  /\ pc = "save"
  /\ \/ /\ SavePublished(cur, result)
        /\ pc' = "report" /\ NoFault /\ UNCHANGED <<cur, seen, result, reply>>
     \/ SaveUncertain(cur, result) /\ Fault /\ GiveUp
     \/ SaveRefused /\ Fault /\ GiveUp
  /\ UNCHANGED <<helperVars, server, batch, sent, requests, dropped>>

\* CompleteTask or FailTask: delivered, or lost for now.
ReportOutcome ==
  /\ pc = "report"
  /\ LET r == [task |-> cur, outcome |-> result] IN
       /\ sent' = sent \cup {r}
       /\ \/ NoFault /\ server' = Accept(r)
          \/ Fault /\ UNCHANGED server
  /\ GiveUp
  /\ UNCHANGED <<ledgerVars, helperVars, batch, requests, dropped>>

-----------------------------------------------------------------------------
(* The runtime helper.  A request is executed whether or not its caller waits. *)

\* The answer reaches the worker only if it still waits for this request.
Answer(q, value) ==
  /\ requests' = requests \ {q}
  /\ reply' = IF q.live THEN value ELSE reply
  /\ UNCHANGED <<batch, cur, pc, seen, result>>

Stopping(q) == q.task \in Stops

\* Mutant: the request is served without a published intent.
HelperFenceSkipped(q) ==
  /\ q \in requests /\ q.stage = "sent" /\ Stopping(q)
  /\ requests' = (requests \ {q}) \cup {[q EXCEPT !.stage = "fenced"]}
  /\ UNCHANGED <<ledgerVars, workerVars, helperVars, server, sent, faults, dropped>>

\* Server.handle publishes the intents of a stop request before anything else.
HelperFence(q) ==
  /\ q \in requests /\ q.stage = "sent" /\ Stopping(q)
  /\ Close(SessionsOf[q.task])
  /\ requests' = (requests \ {q}) \cup {[q EXCEPT !.stage = "fenced"]}
  /\ UNCHANGED <<ledgerVars, workerVars, spec, cached, server, sent, faults, dropped>>

\* One of the publications fails; the intents before it stay.
HelperFenceFails(q) ==
  /\ q \in requests /\ q.stage = "sent" /\ Stopping(q)
  /\ Fault /\ Answer(q, "error")
  /\ \E S \in SUBSET SessionsOf[q.task] : Close(S)
  /\ UNCHANGED <<ledgerVars, spec, cached, server, sent, dropped>>

\* Server.mu: no start is between its saved spec and its launch.
EngineFree == \A q \in requests : q.stage # "saved"

\* record_session_stop_intent has nothing more to do.
HelperRecord(q) ==
  /\ q \in requests /\ q.stage = "fenced" /\ q.op = "intent" /\ EngineFree
  /\ Answer(q, "ok")
  /\ UNCHANGED <<ledgerVars, helperVars, server, sent, faults, dropped>>

\* start_session and docker_start_session up to the launch.  The spec, which is
\* the authority to stop the runtime, is saved first.
HelperStart(q) ==
  /\ q \in requests /\ q.stage = "sent" /\ Kind[q.task] = "create" /\ EngineFree
  /\ \/ q.task \in cached /\ Answer(q, "ok") /\ NoFault /\ UNCHANGED spec
     \/ q.task \notin cached /\ ~ SessionsOf[q.task] \subseteq open /\ Answer(q, "error") /\ NoFault /\ UNCHANGED spec
     \/ Answer(q, "error") /\ Fault /\ UNCHANGED spec
     \/ /\ q.task \notin cached /\ SessionsOf[q.task] \subseteq open
        /\ spec' = spec \cup SessionsOf[q.task]
        /\ requests' = (requests \ {q}) \cup {[q EXCEPT !.stage = "saved"]}
        /\ NoFault /\ UNCHANGED workerVars
  /\ UNCHANGED <<ledgerVars, open, running, cached, server, sent, dropped>>

\* Mutant: the launch does not look at the stop intent.
SubmitUnfenced(s) == running' = running \cup {s} /\ UNCHANGED open

\* submitSessionLaunch under the fence; docker_start_session adopts a terminal that
\* is there already.
Submit(s) == Admit(s) \/ (s \in running /\ UNCHANGED gateVars)

\* The launch is submitted under the fence.  Whatever fails, the spec is kept; the
\* runtime is stopped again unless that fails too.  systemd-run refuses a second unit.
HelperLaunch(q) ==
  /\ q \in requests /\ q.stage = "saved"
  /\ \E s \in SessionsOf[q.task] :
       \/ /\ Submit(s)
          /\ cached' = cached \cup {q.task} /\ Answer(q, "ok") /\ NoFault
       \/ /\ s \notin open \/ s \in running
          /\ Halt({s}) /\ Answer(q, "error") /\ NoFault /\ UNCHANGED cached
       \/ /\ Halt({s}) \/ Admit(s) \/ UNCHANGED gateVars
          /\ Answer(q, "error") /\ Fault /\ UNCHANGED cached
  /\ UNCHANGED <<ledgerVars, spec, server, sent, dropped>>

\* stop_session, docker_stop_session and cleanup_resources, first time or observed
\* again: the members before the first that fails lose their spec, the failing one
\* may be halted.  Without a spec nothing can be stopped.
HelperStop(q) ==
  /\ q \in requests /\ q.op = "run" /\ q.stage = "fenced" /\ EngineFree
  /\ LET S == SessionsOf[q.task] IN
       \E halted \in SUBSET (S \cap spec) : \E done \in SUBSET halted :
         /\ Halt(halted) /\ spec' = spec \ done
         /\ \/ /\ done = S
               /\ cached' = cached \cup {q.task} /\ Answer(q, "ok") /\ NoFault
            \/ /\ IF S \subseteq spec \/ halted # done THEN Fault ELSE NoFault
               /\ Answer(q, "error") /\ UNCHANGED cached
  /\ UNCHANGED <<ledgerVars, server, sent, dropped>>

\* import_account_config and the other operations that own no session.
HelperOther(q) ==
  /\ q \in requests /\ Kind[q.task] = "import" /\ EngineFree
  /\ \/ Answer(q, "ok") /\ cached' = cached \cup {q.task}
     \/ q.task \notin cached /\ Answer(q, "error") /\ UNCHANGED cached
  /\ UNCHANGED <<ledgerVars, open, running, spec, server, sent, faults, dropped>>

\* A session's runtime exits by itself.
RuntimeExit(s) ==
  /\ s \in running /\ Halt({s})
  /\ UNCHANGED <<ledgerVars, workerVars, spec, cached, server, sent, requests, faults, dropped>>

-----------------------------------------------------------------------------
(* Failures. *)

Orphaned == {[q EXCEPT !.live = FALSE] : q \in requests}

\* The client's 30 second deadline passes; the helper goes on.
CallTimeout ==
  /\ \E q \in requests : q.live
  /\ Fault /\ requests' = Orphaned /\ reply' = "error"
  /\ UNCHANGED <<ledgerVars, helperVars, batch, cur, pc, seen, result, server, sent, dropped>>

\* The helper dies: its callers see the connection close.  A launch that was being
\* submitted may still happen.
HelperRestart ==
  /\ Fault /\ requests' = {}
  /\ reply' = IF \E q \in requests : q.live THEN "error" ELSE reply
  /\ \/ UNCHANGED gateVars
     \/ \E q \in requests : q.stage = "saved" /\ \E s \in SessionsOf[q.task] : Admit(s)
  /\ UNCHANGED <<ledgerVars, batch, cur, pc, seen, result, spec, cached, server, sent, dropped>>

\* The worker process dies and is restarted.
WorkerRestart ==
  /\ Fault /\ Reopen /\ GiveUp
  /\ batch' = {} /\ requests' = Orphaned
  /\ UNCHANGED <<helperVars, server, sent, dropped>>

\* The host loses power: worker, helper and runtimes are gone.  Specs and cached
\* results are written without a sync.
PowerLoss ==
  /\ Fault /\ PowerLossReopen /\ GiveUp /\ Halt(running)
  /\ batch' = {} /\ requests' = {}
  /\ dropped' = dropped \cup {t \in Tasks : file'[t] # file[t]}
  /\ spec' \in SUBSET spec /\ cached' \in SUBSET cached
  /\ UNCHANGED <<server, sent>>

-----------------------------------------------------------------------------
WorkerStep ==
  \/ \E t \in Tasks : BeginTask(t)
  \/ IntentRecorded \/ OldStopObserved \/ StartTask \/ StartTaskOwnershipRefused
  \/ TaskExecuted \/ SaveOutcome \/ ReportOutcome

HelperStep ==
  \E q \in requests :
    \/ HelperFence(q) \/ HelperFenceFails(q) \/ HelperRecord(q)
    \/ HelperStart(q) \/ HelperLaunch(q) \/ HelperStop(q) \/ HelperOther(q)

Environment ==
  \/ \E t \in Tasks : ExpireLease(t)
  \/ \E r \in sent : DeliverLate(r)
  \/ \E s \in Sessions : RuntimeExit(s)
  \/ CallTimeout \/ HelperRestart \/ WorkerRestart \/ PowerLoss

Next == PollOnce \/ WorkerStep \/ HelperStep \/ Environment

\* The loops of Worker.run keep running, the helper answers, and the control
\* plane takes back the lease of a task the worker no longer holds.
Fairness ==
  /\ WF_vars(PollOnce) /\ WF_vars(WorkerStep) /\ WF_vars(HelperStep)
  /\ \A t \in Tasks : WF_vars(t \notin batch \cup {cur} /\ ExpireLease(t))

Spec == Init /\ [][Next]_vars /\ Fairness

-----------------------------------------------------------------------------
(* Properties. *)

\* Two reports of one task never disagree: a failure recorded for a task is not
\* followed by a success of it or the reverse, across lease reissues, worker
\* restarts and late deliveries.  The exception is a task whose record was
\* visible but not synced when the host lost power (ledger.go:35-51 does not
\* sync what it opens).
OneOutcome ==
  \A r1, r2 \in sent :
    r1.task = r2.task /\ r1.task \notin dropped => r1.outcome = r2.outcome

\* When the control plane accepted the success of a stop or cleanup task, every
\* session it names is closed and not running, whatever start request is still
\* in flight from a caller that timed out or died (worker.go:386-430,
\* server.go:126).
StoppedForGood ==
  \A t \in Stops :
    server[t] = "succeeded" => SessionsOf[t] \cap (open \cup running) = {}

\* A task that does not stop sessions is never handed to the runtime while the
\* ledger file holds an outcome of it (worker.go:396-403).
RecordedNeverRepeated ==
  [][\A q \in requests' \ requests :
       q.live /\ q.stage = "sent" /\ q.task \notin Stops => file[q.task] = NoRecord]_vars

\* The helper's part of the composition keeps the promise of SessionGate.
Gate == GateSpec

\* Every task that does not stop sessions is settled at the control plane, unless
\* the ledger is blocked by an uncertain publication, which only a restart
\* resolves (ledger.go:54-58).
TasksSettle ==
  \A t \in Tasks \ Stops : <>(server[t] \in Outcomes \/ failed)

\* What docs/rules/02-architecture.md:26-28 says of a reissued lease: the stored
\* terminal outcome is reported instead of invoking the runtime operation again.
StoredOutcomeNotInvokedAgain ==
  [][\A q \in requests' \ requests :
       q.live /\ q.stage = "sent" /\ q.op = "run" => file[q.task] = NoRecord]_vars
=============================================================================
