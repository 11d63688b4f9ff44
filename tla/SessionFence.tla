----------------------------- MODULE SessionFence -----------------------------
(***************************************************************************)
(* The session lifecycle of the privileged runtime helper: the permanent   *)
(* stop intent of a session, the locks around it, the result cache of the  *)
(* legacy operations and the launch journal of managed ones.               *)
(*                                                                         *)
(* A request is served by a goroutine of its own.  Server.mu serializes    *)
(* the engine; the intents of a stop are published before the mutex is     *)
(* taken, so a stop can close a session while its start is executing.      *)
(* systemd-run is submitted while the session's intent lock is held.       *)
(***************************************************************************)
EXTENDS Naturals

CONSTANTS Sessions, Requests, NoRequest,
          Op,          \* the operation of a request
          SessionOf,   \* the session it names
          Managed,     \* sessions started with a skill snapshot
          MaxIssues,   \* how many calls, retries included, a behaviour has
          MaxFaults    \* how many failures

StopOps == {"stop", "record", "cancel"}
ManagedOps == {"prepare", "launch", "recover", "cancel"}
Ops == StopOps \cup ManagedOps \cup {"start"}

ASSUME FenceAssumption ==
  /\ NoRequest \notin Requests
  /\ Op \in [Requests -> Ops]
  /\ SessionOf \in [Requests -> Sessions]
  /\ Managed \subseteq Sessions
  /\ \A r \in Requests : Op[r] \in ManagedOps => SessionOf[r] \in Managed
  /\ \A r \in Requests : Op[r] = "start" => SessionOf[r] \notin Managed
  /\ MaxIssues \in Nat /\ MaxFaults \in Nat

VARIABLES
  intent,    \* stop record of a session: none, visible or durable
  ilock,     \* holder of the intent lock of a session
  rlock,     \* holder of the runtime lock of a session
  mu,        \* holder of Server.mu
  running,   \* sessions whose unit is alive
  spec,      \* sessions with a saved runtime spec
  prepared,  \* managed sessions with a snapshot bundle and a ready spec receipt
  stale,     \* managed sessions prepared in an earlier boot
  journal,   \* launch journal of a managed session
  ended,     \* managed sessions whose work was finalized
  cached,    \* requests whose result is stored
  attempts,  \* how often the unit of a session was submitted
  pc, fresh, replay, reply,
  issues, faults

locks == <<ilock, rlock, mu>>
store == <<spec, prepared, stale, journal, ended, cached>>
counts == <<issues, faults>>
vars == <<intent, locks, running, store, attempts, pc, fresh, replay, reply, counts>>

PCs == {"idle", "publish", "enter", "republish", "lock", "body", "admit", "submit",
        "ready", "finish", "store", "drain", "cleanup", "respond", "done"}

TypeOK ==
  /\ intent \in [Sessions -> {"none", "visible", "durable"}]
  /\ ilock \in [Sessions -> Requests \cup {NoRequest}]
  /\ rlock \in [Sessions -> Requests \cup {NoRequest}]
  /\ mu \in Requests \cup {NoRequest}
  /\ running \subseteq Sessions /\ spec \subseteq Sessions
  /\ prepared \subseteq Managed /\ stale \subseteq Managed /\ ended \subseteq Managed
  /\ journal \in [Sessions -> {"none", "starting", "started"}]
  /\ cached \subseteq Requests
  /\ attempts \in [Sessions -> Nat]
  /\ pc \in [Requests -> PCs]
  /\ fresh \in [Requests -> BOOLEAN] /\ replay \in [Requests -> BOOLEAN]
  /\ reply \in [Requests -> {"none", "running", "not_started", "spec_ready", "stopped", "recorded", "error"}]
  /\ issues \in 0 .. MaxIssues /\ faults \in 0 .. MaxFaults

Init ==
  /\ intent = [s \in Sessions |-> "none"]
  /\ ilock = [s \in Sessions |-> NoRequest]
  /\ rlock = [s \in Sessions |-> NoRequest]
  /\ mu = NoRequest
  /\ running = {} /\ spec = {} /\ prepared = {} /\ stale = {} /\ ended = {}
  /\ journal = [s \in Sessions |-> "none"]
  /\ cached = {}
  /\ attempts = [s \in Sessions |-> 0]
  /\ pc = [r \in Requests |-> "idle"]
  /\ fresh = [r \in Requests |-> FALSE] /\ replay = [r \in Requests |-> FALSE]
  /\ reply = [r \in Requests |-> "none"]
  /\ issues = 0 /\ faults = 0

Fault == faults < MaxFaults /\ faults' = faults + 1 /\ UNCHANGED issues
NoFault == UNCHANGED counts

Goto(r, label) == pc' = [pc EXCEPT ![r] = label]

\* Execute returned a result: its runtime lock is released, Server.mu is not.
Succeed(r, answer) ==
  /\ Goto(r, "respond")
  /\ reply' = [reply EXCEPT ![r] = answer]
  /\ rlock' = [rlock EXCEPT ![SessionOf[r]] = NoRequest]
  /\ UNCHANGED <<ilock, mu>>

\* Mutant: an error response leaves Server.mu locked.
FailKeepsMutex(r) ==
  /\ Goto(r, "done")
  /\ reply' = [reply EXCEPT ![r] = "error"]
  /\ rlock' = [rlock EXCEPT ![SessionOf[r]] = IF @ = r THEN NoRequest ELSE @]
  /\ UNCHANGED <<ilock, mu>>

\* Execute returned an error: the response is an error and both locks are free.
Fail(r) ==
  /\ Goto(r, "done")
  /\ reply' = [reply EXCEPT ![r] = "error"]
  /\ rlock' = [rlock EXCEPT ![SessionOf[r]] = IF @ = r THEN NoRequest ELSE @]
  /\ mu' = IF mu = r THEN NoRequest ELSE mu
  /\ UNCHANGED ilock

\* readSessionStop under the intent lock.  A visible record is synced before it
\* counts as a stop; when that fails the caller gets an error, never "open".
ReadIntent(s, IfOpen, IfClosed, IfError) ==
  /\ ilock[s] = NoRequest
  /\ \/ intent[s] = "none" /\ NoFault /\ UNCHANGED intent /\ IfOpen
     \/ intent[s] # "none" /\ NoFault /\ intent' = [intent EXCEPT ![s] = "durable"] /\ IfClosed
     \/ intent[s] # "none" /\ Fault /\ UNCHANGED intent /\ IfError

-----------------------------------------------------------------------------
(* Server.handle. *)

\* A client sends a request, for the first time or again under the same id.
Issue(r) ==
  /\ pc[r] \in {"idle", "done"} /\ issues < MaxIssues
  /\ issues' = issues + 1
  /\ Goto(r, IF Op[r] \in StopOps THEN "publish" ELSE "enter")
  /\ fresh' = [fresh EXCEPT ![r] = FALSE] /\ replay' = [replay EXCEPT ![r] = FALSE]
  /\ reply' = [reply EXCEPT ![r] = "none"]
  /\ UNCHANGED <<intent, locks, running, store, attempts, faults>>

\* Mutant: the intent is renamed into place and its directory never synced.
PublishUnsynced(r) ==
  /\ pc[r] \in {"publish", "republish"} /\ ilock[SessionOf[r]] = NoRequest
  /\ intent' = [intent EXCEPT ![SessionOf[r]] = IF @ = "none" THEN "visible" ELSE @]
  /\ IF pc[r] = "publish" THEN Goto(r, "enter") /\ UNCHANGED <<locks, reply>>
     ELSE IF Op[r] = "record" THEN Succeed(r, "recorded")
     ELSE Goto(r, "lock") /\ UNCHANGED <<locks, reply>>
  /\ NoFault /\ UNCHANGED <<running, store, attempts, fresh, replay>>

\* prepareSessionStopIntents, before Server.mu and again inside Execute.
PublishIntent(r) ==
  /\ pc[r] \in {"publish", "republish"} /\ ilock[SessionOf[r]] = NoRequest
  /\ \/ /\ intent' = [intent EXCEPT ![SessionOf[r]] = "durable"]
        /\ IF pc[r] = "publish" THEN Goto(r, "enter") /\ UNCHANGED <<locks, reply>>
           ELSE IF Op[r] = "record" THEN Succeed(r, "recorded")
           ELSE Goto(r, "lock") /\ UNCHANGED <<locks, reply>>
        /\ NoFault
     \/ /\ \/ UNCHANGED intent
           \/ intent[SessionOf[r]] = "none" /\ intent' = [intent EXCEPT ![SessionOf[r]] = "visible"]
        /\ Fail(r) /\ Fault
  /\ UNCHANGED <<running, store, attempts, fresh, replay>>

EnterEngine(r) ==
  /\ pc[r] = "enter" /\ mu = NoRequest
  /\ mu' = r
  /\ Goto(r, IF Op[r] \in StopOps THEN "republish" ELSE "lock")
  /\ UNCHANGED <<intent, ilock, rlock, running, store, attempts, fresh, replay, reply, counts>>

LockRuntime(r) ==
  /\ pc[r] = "lock" /\ rlock[SessionOf[r]] = NoRequest
  /\ rlock' = [rlock EXCEPT ![SessionOf[r]] = r]
  /\ Goto(r, "body")
  /\ UNCHANGED <<intent, ilock, mu, running, store, attempts, fresh, replay, reply, counts>>

\* executeSessionResponse reads the stop state again before it answers.
Respond(r) ==
  /\ pc[r] = "respond"
  /\ ReadIntent(SessionOf[r],
       UNCHANGED <<fresh, reply>>,
       fresh' = [fresh EXCEPT ![r] = FALSE] /\ UNCHANGED reply,
       fresh' = [fresh EXCEPT ![r] = FALSE] /\ reply' = [reply EXCEPT ![r] = "error"])
  /\ mu' = NoRequest /\ Goto(r, "done")
  /\ UNCHANGED <<ilock, rlock, running, store, attempts, replay>>

-----------------------------------------------------------------------------
(* Engine.Execute, one action per operation up to its first blocking step. *)

\* A check before the first durable write of the operation fails.
RefuseRequest(r) ==
  /\ pc[r] = "body" /\ Fault /\ Fail(r)
  /\ UNCHANGED <<intent, running, store, attempts, fresh, replay>>

AnswerReplay(r, answer) ==
  /\ replay' = [replay EXCEPT ![r] = TRUE]
  /\ Succeed(r, answer)

\* start_session and docker_start_session: the spec, which is the authority to
\* stop the runtime, is saved before the launch.
StartSession(r) ==
  /\ pc[r] = "body" /\ Op[r] = "start"
  /\ \/ /\ r \in cached /\ AnswerReplay(r, "running")
        /\ NoFault /\ UNCHANGED <<intent, spec>>
     \/ /\ r \notin cached /\ UNCHANGED replay
        /\ ReadIntent(SessionOf[r],
             spec' = spec \cup {SessionOf[r]} /\ Goto(r, "admit") /\ UNCHANGED <<locks, reply>>,
             Fail(r) /\ UNCHANGED spec, Fail(r) /\ UNCHANGED spec)
  /\ UNCHANGED <<running, prepared, stale, journal, ended, cached, attempts, fresh>>

\* prepare_skill_snapshot and prepare_managed_session_spec.
PrepareManaged(r) ==
  /\ pc[r] = "body" /\ Op[r] = "prepare"
  /\ ReadIntent(SessionOf[r],
       \/ SessionOf[r] \notin stale /\ prepared' = prepared \cup {SessionOf[r]} /\ Succeed(r, "spec_ready")
       \/ SessionOf[r] \in stale /\ UNCHANGED prepared /\ Fail(r),
       UNCHANGED prepared /\ Fail(r), UNCHANGED prepared /\ Fail(r))
  /\ UNCHANGED <<running, spec, stale, journal, ended, cached, attempts, fresh, replay>>

\* recoverManagedLaunch: adopt the runtime of the original submission, or drain it.
ResumeLaunch(r, s) ==
  /\ UNCHANGED journal
  /\ IF s \in ended THEN Fail(r)
     ELSE Goto(r, IF s \in running /\ s \notin stale THEN "finish" ELSE "drain") /\ UNCHANGED <<locks, reply>>

\* runManagedSession for start_managed_session.
LaunchManaged(r) ==
  /\ pc[r] = "body" /\ Op[r] = "launch"
  /\ LET s == SessionOf[r] IN
       \/ /\ s \notin prepared /\ Fail(r) /\ NoFault /\ UNCHANGED <<intent, journal, replay>>
       \/ /\ s \in prepared /\ journal[s] = "started" /\ AnswerReplay(r, "running")
          /\ NoFault /\ UNCHANGED <<intent, journal>>
       \/ /\ s \in prepared /\ journal[s] # "started" /\ UNCHANGED replay
          /\ ReadIntent(s,
               IF journal[s] = "starting" THEN ResumeLaunch(r, s)
               ELSE IF s \in stale \cup ended THEN Fail(r) /\ UNCHANGED journal
               ELSE /\ journal' = [journal EXCEPT ![s] = "starting"]
                    /\ Goto(r, "admit") /\ UNCHANGED <<locks, reply>>,
               Fail(r) /\ UNCHANGED journal, Fail(r) /\ UNCHANGED journal)
  /\ UNCHANGED <<running, spec, prepared, stale, ended, cached, attempts, fresh>>

\* recover_managed_session never submits a launch.
RecoverManaged(r) ==
  /\ pc[r] = "body" /\ Op[r] = "recover"
  /\ ReadIntent(SessionOf[r],
       IF journal[SessionOf[r]] = "none" THEN Succeed(r, "not_started") /\ UNCHANGED journal
       ELSE ResumeLaunch(r, SessionOf[r]),
       Fail(r) /\ UNCHANGED journal, Fail(r) /\ UNCHANGED journal)
  /\ UNCHANGED <<running, spec, prepared, stale, ended, cached, attempts, fresh, replay>>

\* stop_session, docker_stop_session and cancel_managed_session.  A missing spec
\* proves nothing; a cached result is never answered without a new observation.
StopSession(r) ==
  /\ pc[r] = "body" /\ Op[r] \in {"stop", "cancel"}
  /\ LET s == SessionOf[r]
         authority == IF Op[r] = "cancel" THEN journal[s] # "none"
                      ELSE s \in spec \cup prepared IN
       IF authority THEN Goto(r, "drain") /\ UNCHANGED <<locks, reply>> ELSE Fail(r)
  /\ replay' = [replay EXCEPT ![r] = r \in cached]
  /\ NoFault /\ UNCHANGED <<intent, running, store, attempts, fresh>>

-----------------------------------------------------------------------------
(* The blocking steps. *)

\* Mutant: the intent lock is released between the check and the submission.
AdmitUnlocked(r) ==
  /\ pc[r] = "admit"
  /\ ReadIntent(SessionOf[r], Goto(r, "submit"), Goto(r, "cleanup"), Goto(r, "cleanup"))
  /\ UNCHANGED <<locks, running, store, attempts, fresh, replay, reply>>

\* submitSessionLaunch: the intent lock is held from the check to the submission.
AdmitLaunch(r) ==
  /\ pc[r] = "admit"
  /\ ReadIntent(SessionOf[r],
       Goto(r, "submit") /\ ilock' = [ilock EXCEPT ![SessionOf[r]] = r],
       Goto(r, "cleanup") /\ UNCHANGED ilock, Goto(r, "cleanup") /\ UNCHANGED ilock)
  /\ UNCHANGED <<rlock, mu, running, store, attempts, fresh, replay, reply>>

\* The mounts or the network namespace cannot be set up.  Only a managed launch
\* cleans up then.
PrepareLaunchFails(r) ==
  /\ pc[r] = "admit" /\ Fault
  /\ IF Op[r] = "launch" THEN Goto(r, "cleanup") /\ UNCHANGED <<locks, reply>> ELSE Fail(r)
  /\ UNCHANGED <<intent, running, store, attempts, fresh, replay>>

\* docker_start_session finds the terminal of an earlier attempt and submits nothing.
AdoptTerminal(r) ==
  /\ pc[r] = "admit" /\ Op[r] = "start" /\ SessionOf[r] \in running
  /\ Goto(r, "store")
  /\ UNCHANGED <<intent, locks, running, store, attempts, fresh, replay, reply, counts>>

\* systemd-run returned.  A failure does not say whether the unit was created.
SubmitLaunch(r) ==
  /\ pc[r] = "submit"
  /\ LET s == SessionOf[r] IN
       /\ ilock' = [ilock EXCEPT ![s] = NoRequest]
       /\ attempts' = [attempts EXCEPT ![s] = @ + 1]
       /\ \/ /\ s \notin running /\ running' = running \cup {s}
             /\ fresh' = [fresh EXCEPT ![r] = TRUE]
             /\ Goto(r, "ready") /\ NoFault
          \/ /\ IF s \in running THEN NoFault ELSE Fault
             /\ running' \in {running, running \cup {s}}
             /\ Goto(r, "cleanup") /\ UNCHANGED fresh
  /\ UNCHANGED <<intent, rlock, mu, store, replay, reply>>

WaitForSessionReady(r) ==
  /\ pc[r] = "ready"
  /\ \/ SessionOf[r] \in running /\ Goto(r, IF Op[r] = "start" THEN "store" ELSE "finish") /\ NoFault
     \/ SessionOf[r] \notin running /\ Goto(r, "cleanup") /\ NoFault
     \/ Goto(r, "cleanup") /\ Fault
  /\ UNCHANGED <<intent, locks, running, store, attempts, fresh, replay, reply>>

\* FinishSessionLaunch under the fence.  After a failure the execution that
\* submitted the launch cleans up after itself, a recovery leaves the runtime to
\* a stop; a request that was cancelled, even after the journal says started,
\* cleans up in both (the deferred functions of launchManagedOnce and
\* recoverManagedLaunch).
FinishLaunch(r) ==
  /\ pc[r] = "finish"
  /\ LET s == SessionOf[r]
         started == [journal EXCEPT ![s] = "started"]
         GiveUp == /\ UNCHANGED journal
                   /\ IF fresh[r] THEN Goto(r, "cleanup") /\ UNCHANGED <<locks, reply>> ELSE Fail(r)
         Cancelled == /\ Goto(r, "cleanup") /\ UNCHANGED <<locks, reply>>
                      /\ \/ UNCHANGED journal
                         \/ ilock[s] = NoRequest /\ intent[s] = "none" /\ journal' = started
     IN \/ ReadIntent(s, journal' = started /\ Succeed(r, "running"), GiveUp, GiveUp)
        \/ Fault /\ UNCHANGED intent /\ (GiveUp \/ Cancelled)
  /\ UNCHANGED <<running, spec, prepared, stale, ended, cached, attempts, fresh, replay>>

\* saveResult.
StoreResult(r) ==
  /\ pc[r] = "store"
  /\ \/ /\ cached' = cached \cup {r} /\ NoFault
        /\ Succeed(r, IF Op[r] = "start" THEN "running" ELSE "stopped")
     \/ r \notin cached /\ Fault /\ Fail(r) /\ UNCHANGED cached
  /\ UNCHANGED <<intent, running, spec, prepared, stale, journal, ended, attempts, fresh, replay>>

\* Mutant: a failed launch forgets the session, stopped or not.
CleanupForgets(r) ==
  /\ pc[r] = "cleanup"
  /\ LET s == SessionOf[r] IN
       /\ spec' = spec \ {s} /\ journal' = [journal EXCEPT ![s] = "none"]
       /\ \/ running' = running \ {s} /\ NoFault
          \/ UNCHANGED running /\ Fault
  /\ fresh' = [fresh EXCEPT ![r] = FALSE] /\ Fail(r)
  /\ UNCHANGED <<intent, prepared, stale, ended, cached, attempts, replay>>

\* cleanupFailedNativeLaunch: the unit is stopped, the spec is kept.
CleanupFailedLaunch(r) ==
  /\ pc[r] = "cleanup"
  /\ LET s == SessionOf[r] IN
       \/ /\ running' = running \ {s} /\ NoFault
          /\ ended' = IF s \in Managed THEN ended \cup {s} ELSE ended
       \/ UNCHANGED <<running, ended>> /\ Fault
  /\ fresh' = [fresh EXCEPT ![r] = FALSE] /\ Fail(r)
  /\ UNCHANGED <<intent, spec, prepared, stale, journal, cached, attempts, replay>>

\* stopSession: writers are stopped, managed work is finalized and kept, the spec
\* of a legacy session goes last.  Any of the steps may fail.
DrainSession(r) ==
  /\ pc[r] = "drain"
  /\ LET s == SessionOf[r] IN
       \/ /\ running' = running \ {s} /\ NoFault
          /\ IF s \in Managed THEN ended' = ended \cup {s} /\ UNCHANGED spec
             ELSE spec' = spec \ {s} /\ UNCHANGED ended
          /\ CASE Op[r] = "stop" -> Goto(r, "store") /\ UNCHANGED <<locks, reply>>
               [] Op[r] = "cancel" -> Succeed(r, "stopped")
               [] OTHER -> Fail(r)
       \/ /\ Fault /\ Fail(r) /\ UNCHANGED ended
          /\ \/ UNCHANGED <<running, spec>>
             \/ running' = running \ {s} /\ spec' \in {spec, spec \ {s}}
  /\ UNCHANGED <<intent, prepared, stale, journal, cached, attempts, fresh, replay>>

-----------------------------------------------------------------------------
(* The environment. *)

RuntimeExit(s) ==
  /\ s \in running /\ running' = running \ {s}
  /\ UNCHANGED <<intent, locks, store, attempts, pc, fresh, replay, reply, counts>>

\* Handlers die with their process, and the kernel drops its locks.
HandlersDie ==
  /\ ilock' = [s \in Sessions |-> NoRequest]
  /\ rlock' = [s \in Sessions |-> NoRequest]
  /\ mu' = NoRequest
  /\ pc' = [r \in Requests |-> IF pc[r] = "idle" THEN "idle" ELSE "done"]
  /\ reply' = [r \in Requests |-> IF pc[r] \in {"idle", "done"} THEN reply[r] ELSE "error"]
  /\ fresh' = [r \in Requests |-> pc[r] = "done" /\ fresh[r]]
  /\ UNCHANGED replay

\* A submission that was under way may still create its unit.
HelperCrash ==
  /\ Fault /\ HandlersDie
  /\ LET submitting == {SessionOf[r] : r \in {q \in Requests : pc[q] = "submit"}} IN
       \/ UNCHANGED <<running, attempts>>
       \/ /\ submitting # {} /\ running' = running \cup submitting
          /\ attempts' = [s \in Sessions |-> IF s \in submitting THEN attempts[s] + 1 ELSE attempts[s]]
  /\ UNCHANGED <<intent, store>>

\* What was not synced may be lost: a visible intent, a spec, a cached result.
PowerLoss ==
  /\ Fault /\ HandlersDie
  /\ running' = {}
  /\ \E lost \in SUBSET {s \in Sessions : intent[s] = "visible"} :
       intent' = [s \in Sessions |-> IF s \in lost THEN "none" ELSE intent[s]]
  /\ spec' \in SUBSET spec /\ cached' \in SUBSET cached
  /\ stale' = prepared
  /\ UNCHANGED <<prepared, journal, ended, attempts>>

Serve(r) ==
  \/ PublishIntent(r) \/ EnterEngine(r) \/ LockRuntime(r) \/ RefuseRequest(r) \/ Respond(r)
  \/ StartSession(r) \/ PrepareManaged(r) \/ LaunchManaged(r) \/ RecoverManaged(r) \/ StopSession(r)
  \/ AdmitLaunch(r) \/ PrepareLaunchFails(r) \/ AdoptTerminal(r) \/ SubmitLaunch(r) \/ WaitForSessionReady(r) \/ FinishLaunch(r)
  \/ StoreResult(r) \/ CleanupFailedLaunch(r) \/ DrainSession(r)

Next ==
  \/ \E r \in Requests : Issue(r) \/ Serve(r)
  \/ \E s \in Sessions : RuntimeExit(s)
  \/ HelperCrash \/ PowerLoss

\* Every goroutine is scheduled and every command it waits for has a deadline.
Fairness == \A r \in Requests : WF_vars(Serve(r))

Spec == Init /\ [][Next]_vars /\ Fairness

-----------------------------------------------------------------------------
(* Properties. *)

Gate == INSTANCE SessionGate
          WITH open <- {s \in Sessions : intent[s] # "durable"}, running <- running

\* The locks, caches and journals implement the gate: no launch is submitted
\* once the intent of its session is durable, however the handlers interleave
\* and whatever a crash or a power failure leaves behind
\* (session_lifecycle_linux.go:112-233).
ImplementsGate == Gate!GateSpec

\* Every runtime is accounted for.  A live one has the record that authorises
\* its stop: its spec, or the launch journal written before it was submitted
\* (engine.go:855-860).  A stop or cancellation that was answered as stopped left
\* none behind and none appears later, whatever starts were waiting for Server.mu
\* (engine.go:1298-1349, server.go:126).  The unit of a managed session is submitted
\* at most once in its life, across retries, crashes, reboots and recoveries
\* (managed_launch_linux.go:57-153).
RuntimesAccounted ==
  /\ \A s \in running : IF s \in Managed THEN journal[s] # "none" ELSE s \in spec
  /\ \A r \in Requests :
       reply[r] = "stopped" => SessionOf[r] \notin running /\ intent[SessionOf[r]] = "durable"
  /\ \A s \in Managed : attempts[s] <= 1

\* Every request is answered: no handler waits for ever for Server.mu, a runtime
\* lock or an intent lock (docs/session-lifecycle.md:28-30).
EveryRequestAnswered ==
  \A r \in Requests : pc[r] \notin {"idle", "done"} ~> pc[r] = "done"
=============================================================================
