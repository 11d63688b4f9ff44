---------------------------- MODULE Finalization ----------------------------
(***************************************************************************)
(* One managed session's skill directory, from the running tool to the     *)
(* deletion of the node's copy.  The privileged Helper proves that the     *)
(* writers are gone, freezes the work tree, and keeps a small journal of   *)
(* files; the unprivileged worker uploads the frozen objects, obtains the  *)
(* Server's receipts and hands them back; the Helper then removes the      *)
(* runtime's resources and, under a fresh authorization, the content.      *)
(*                                                                         *)
(* Four parties run concurrently: the worker's recovery loop, the stop     *)
(* task, an export reader in its own process, and the Helper, which works  *)
(* on one request at a time (Server.mu).  Worker or Helper may crash at    *)
(* any step, the machine may reboot, the disk may fill, answers may get    *)
(* lost, and somebody may edit the work tree after the tool has exited.    *)
(***************************************************************************)
EXTENDS Integers

CONSTANTS
    N,           \* files in the skill directory
    Edits,       \* files that are written to, each at most once
    MaxUploads,  \* upload attempts the Server hands out
    MaxFaults    \* environment failures in one behaviour, and one more
                 \* while the stop task waits for the capture's objects

ASSUME FinalizationAssumption ==
    N \in Nat \ {0} /\ Edits \subseteq 1..N /\ MaxUploads \in Nat \ {0} /\ MaxFaults \in Nat

Files == 1..N
Gone == -1
Versions == {0, 1}
NoTree == [f \in Files |-> Gone]
Resources == {"mounts", "net", "root"}
Terminal == {"published", "conflicted", "detached"}

\* A Server receipt as the worker's ledger and the Helper's journal keep it:
\* upload attempt (0: none), whether a checkpoint retains the input, and the
\* publication decision with its attempt.
NoReceipt == [up |-> 0, ckpt |-> FALSE, pub |-> "none", att |-> 0]

Idle == [op |-> "idle", by |-> "none", pc |-> "idle", unclean |-> FALSE,
         snap |-> NoTree, arg |-> NoReceipt, auth |-> "none"]

VARIABLES
    unit,     \* the systemd unit: "running", "exited", "gone" (released), "lost" (earlier boot)
    exit,     \* how its writers really ended: "none", "clean", "unclean"
    work,     \* the live work tree
    term,     \* termination.json: "none", "clean", "unclean"
    cap,      \* finalization/: record.json's state, manifest.json and objects/
    ack,      \* acknowledgement.json
    marks,    \* the subset of {"cleaned", "intent", "done"} written to the journal
    roots,    \* content roots that still exist
    res,      \* runtime resources still present
    job,      \* the request the Helper is working on
    loop,     \* the recovery loop
    stop,     \* the stop task
    recorded, \* the stop task's ledger entry exists
    gate,     \* who owns the transfer gate
    xfer,     \* the transfer in progress
    seen,     \* capture handed to a transfer was already terminal
    led,      \* the worker's transfer ledger
    hold,     \* the transfer holds the manifest's shared lock
    reader,   \* the export reader's descriptors
    srv,      \* the Server
    faults

helper == <<term, cap, ack, marks, roots, res>>
worker == <<loop, stop, recorded, gate, xfer, seen, led, hold>>
world == <<unit, exit, work>>
vars == <<unit, exit, work, term, cap, ack, marks, roots, res, job, loop, stop,
          recorded, gate, xfer, seen, led, hold, reader, srv, faults>>

Init ==
    /\ unit = "running" /\ exit = "none"
    /\ work = [f \in Files |-> 0]
    /\ term = "none"
    /\ cap = [state |-> "none", tree |-> NoTree, objs |-> NoTree]
    /\ ack = NoReceipt
    /\ marks = {} /\ roots = {"work", "objects"} /\ res = Resources
    /\ job = Idle
    /\ loop = "idle" /\ stop = "idle" /\ recorded = FALSE
    /\ gate = "free" /\ xfer = "none" /\ seen = [loop |-> FALSE, stop |-> FALSE]
    /\ led = NoReceipt /\ hold = FALSE
    /\ reader = "idle"
    /\ srv = [told |-> {}, up |-> 0, status |-> "none", files |-> NoTree,
              pub |-> "none", att |-> 0]
    /\ faults = 0

Captured == cap.state # "none"

FaultBound ==
    IF stop = "observing" /\ job.by = "stop" /\ job.pc = "copy" THEN MaxFaults + 1 ELSE MaxFaults

Fault == faults < FaultBound /\ faults' = faults + 1
NoFault == faults' = faults

CanDeleteSession == cap.state \in Terminal

-----------------------------------------------------------------------------
(* What a receipt says, and which receipt may replace which.               *)

State(r, unclean) ==
    IF r.pub \in Terminal THEN r.pub
    ELSE IF ~r.ckpt THEN "upload_pending"
    ELSE IF unclean THEN "persisted_unclean" ELSE "persisted"

ReceiptFollows(r, p) == r.up >= p.up /\ (p.ckpt => r.ckpt /\ r.up = p.up)

Follows(r, p) ==
    /\ ReceiptFollows(r, p)
    /\ p.pub # "none" => r.pub = p.pub /\ r.att = p.att

ValidPublication(status, unclean) ==
    IF unclean THEN status = "detached"
    ELSE status \in {"published", "conflicted", "detached", "superseded"}

AllowedTransition(current, next, unclean) ==
    \/ /\ current = "local_durable"
       /\ next = "upload_pending"
    \/ /\ current = "upload_pending"
       /\ next = IF unclean THEN "persisted_unclean" ELSE "persisted"
    \/ /\ current = "persisted"
       /\ next \in Terminal
    \/ /\ current = "persisted_unclean"
       /\ next = "detached"

\* The next journal phase on the way from current to target; "none" where
\* there is no way, because that would replace a later phase.
NextPhase(current, target, unclean) ==
    LET next == CASE current = "local_durable" -> "upload_pending"
                  [] current = "upload_pending" ->
                        IF unclean THEN "persisted_unclean" ELSE "persisted"
                  [] current \in {"persisted", "persisted_unclean"} -> target
                  [] OTHER -> "none"
    IN  IF AllowedTransition(current, next, unclean) THEN next ELSE "none"

\* The whole path exists: at most three phases lie between the two.
AcknowledgementPath(current, target, unclean) ==
    LET a == NextPhase(current, target, unclean)
        b == NextPhase(a, target, unclean)
        c == NextPhase(b, target, unclean)
    IN  target \in {current, a, b, c}

\* A fresh authorization (the Server's present decision) against the
\* acknowledgement the Helper kept.
Match(status, att, r) ==
    /\ r.pub \in Terminal /\ r.ckpt
    /\ status \in Terminal
    /\ att >= r.att
    /\ \/ att > r.att
       \/ status = r.pub
       \/ r.pub = "conflicted" /\ status = "published"

-----------------------------------------------------------------------------
(* The tool and whoever else can reach its directory.                      *)

\* The tool writes a file; after it has exited only a fault does.
Write(f) ==
    /\ work[f] = 0 /\ f \in Edits
    /\ work' = [work EXCEPT ![f] = 1]
    /\ IF unit = "running" THEN NoFault ELSE Fault
    /\ UNCHANGED <<unit, exit, helper, job, worker, reader, srv>>

\* The tool exits by itself.
Exit ==
    /\ unit = "running"
    /\ unit' = "exited"
    /\ exit' \in {"clean", "unclean"}
    /\ NoFault
    /\ UNCHANGED <<work, helper, job, worker, reader, srv>>

-----------------------------------------------------------------------------
(* Requests and replies.  The Helper takes the next request when it has    *)
(* finished the last; the caller waits for the reply.                      *)

Request(op, by, pc, arg) ==
    /\ job = Idle
    /\ job' = [Idle EXCEPT !.op = op, !.by = by, !.pc = pc, !.arg = arg]

Continue(next) == job' = [job EXCEPT !.pc = next]

\* The first call of a transfer: a saved publication is only acknowledged
\* again, a saved receipt is looked up, anything else starts over.
TransferStart ==
    IF led.pub # "none" THEN "ack" ELSE IF led.up = 0 THEN "observe" ELSE "get"

\* The transfer returns to the loop (which goes on to reclaim after a
\* success) or to the stop task (which ignores the outcome).
EndTransfer(ok) ==
    /\ xfer' = "none" /\ hold' = FALSE
    /\ seen' = [seen EXCEPT ![gate] = FALSE]
    /\ IF gate = "loop"
       THEN /\ loop' = IF ok THEN "reclaim" ELSE "idle"
            /\ gate' = IF ok THEN "loop" ELSE "free"
            /\ UNCHANGED stop
       ELSE stop' = "save" /\ gate' = "free" /\ UNCHANGED loop

\* After a confirmed receipt: publish a retained checkpoint, otherwise
\* upload under the hold, otherwise take the hold first.
AfterReceipt(r) == IF r.ckpt THEN "publish" ELSE IF hold THEN "open" ELSE "hold"

Resume(next) == xfer' = next /\ UNCHANGED <<loop, stop, gate, seen, hold>>

TransferReply(out) ==
    IF out # "ok" THEN EndTransfer(FALSE)
    ELSE IF job.op = "cleanup" THEN EndTransfer(TRUE)
    ELSE IF led.pub = "none" THEN Resume(AfterReceipt(led))
    ELSE IF led.pub = "superseded" THEN EndTransfer(FALSE)
    ELSE Resume("cleanup")

LoopReply(out) ==
    IF job.op \in {"ack", "cleanup"} THEN TransferReply(out)
    ELSE /\ UNCHANGED <<stop, hold>>
         /\ CASE job.op = "reconcile" /\ out = "finalized" ->
                    /\ loop' = "transfer" /\ xfer' = TransferStart
                    /\ seen' = [seen EXCEPT !.loop = CanDeleteSession]
                    /\ UNCHANGED gate
              [] job.op = "reconcile" /\ out = "pending" ->
                    loop' = "pend" /\ UNCHANGED <<gate, xfer, seen>>
              [] OTHER ->
                    loop' = "idle" /\ gate' = "free" /\ UNCHANGED <<xfer, seen>>

\* The stop call's own outcome grants nothing: the task always asks the
\* Helper for an independent observation next.
StopReply(out) ==
    IF job.op \in {"ack", "cleanup"} THEN TransferReply(out)
    ELSE /\ UNCHANGED <<loop, gate, xfer, hold>>
         /\ stop' = CASE job.op = "stop" -> "observe"
                      [] job.op # "stop" /\ out \in {"finalized", "pending"} ->
                            IF recorded THEN "complete"
                            ELSE IF out = "finalized" THEN "transfer" ELSE "pend"
                      [] OTHER -> "idle"
         /\ seen' = [seen EXCEPT !.stop = CanDeleteSession /\ stop' = "transfer"]

Reply(out) ==
    /\ job' = Idle
    /\ UNCHANGED <<recorded, led>>
    /\ CASE job.by = "loop" -> LoopReply(out)
         [] job.by = "stop" -> StopReply(out)
         [] OTHER -> UNCHANGED <<loop, stop, gate, xfer, seen, hold>>

-----------------------------------------------------------------------------
(* The Helper stops the writers and freezes the tree.                      *)

\* The node has rebooted since the launch: its writers, mounts and namespace
\* are gone, and nothing says how the writers ended.
PreviousBoot == unit = "lost"

\* Whatever may still write: only a unit that is not running has none.
WritersStopped == unit # "running"

\* An exit is clean only by the exact evidence of the unit as it was before
\* its release; a released unit, or an earlier boot's, certifies nothing.
SuccessfulExit(u, e) == u \notin {"gone", "lost"} /\ e = "clean"

\* stop_session stops what runs and takes the flag from what it saw.
StopWriters ==
    /\ job.op = "stop" /\ job.pc = "inspect" /\ ~Captured
    /\ exit' \in IF unit = "running" THEN {"clean", "unclean"} ELSE {exit}
    /\ unit' = IF unit = "lost" THEN "lost" ELSE "gone"
    /\ job' = [job EXCEPT !.pc = "capture",
                          !.unclean = ~SuccessfulExit(unit, exit')]
    /\ NoFault
    /\ UNCHANGED <<work, helper, worker, reader, srv>>

\* No reclamation has been decided: the work tree and objects may be used.
Unreclaimed == "intent" \notin marks

Completed == "done" \in marks

\* stop_session on a frozen session keeps the capture.  Only when its
\* publication is final does it also remove the runtime's resources.
StopCaptured ==
    /\ job.op = "stop" /\ job.pc = "inspect" /\ Captured /\ ~PreviousBoot
    /\ IF CanDeleteSession /\ Unreclaimed
       THEN Continue("wipe") /\ UNCHANGED worker
       ELSE Reply("ok")
    /\ NoFault
    /\ UNCHANGED <<world, helper, reader, srv>>

\* On a later boot it goes through the cleanup operation instead.
StopPreviousBoot ==
    /\ job.op = "stop" /\ job.pc = "inspect" /\ Captured /\ PreviousBoot
    /\ IF CanDeleteSession
       THEN Continue("start") /\ UNCHANGED worker
       ELSE Reply("ok")
    /\ NoFault
    /\ UNCHANGED <<world, helper, reader, srv>>

\* Mutant: a unit that is already released counts as a successful exit.
InspectReleased ==
    /\ job.op = "reconcile" /\ job.pc = "inspect"
    /\ IF Captured \/ ~WritersStopped
       THEN Reply(IF Captured THEN "finalized" ELSE "running") /\ UNCHANGED unit
       ELSE /\ job' = [job EXCEPT !.pc = "capture",
                                  !.unclean = unit = "exited" /\ exit # "clean"]
            /\ unit' = IF unit = "exited" THEN "gone" ELSE unit
            /\ UNCHANGED worker
    /\ NoFault
    /\ UNCHANGED <<exit, work, helper, reader, srv>>

\* Reconciliation itself never stops a running unit and never recaptures.  A
\* session that was never launched has nothing to freeze and is not modelled.
Inspect ==
    /\ job.op = "reconcile" /\ job.pc = "inspect"
    /\ IF Captured \/ ~WritersStopped
       THEN Reply(IF Captured THEN "finalized" ELSE "running") /\ UNCHANGED unit
       ELSE /\ job' = [job EXCEPT !.pc = "capture",
                                  !.unclean = ~SuccessfulExit(unit, exit)]
            /\ unit' = IF unit = "exited" THEN "gone" ELSE unit
            /\ UNCHANGED worker
    /\ NoFault
    /\ UNCHANGED <<exit, work, helper, reader, srv>>

\* drain_unadmitted_skill_session: the reconciliation's caller has no broker
\* grant for a session with the browser, so it has the writers stopped.
DrainUnadmitted ==
    /\ job.op = "reconcile" /\ job.pc = "inspect" /\ ~Captured /\ unit = "running"
    /\ exit' \in {"clean", "unclean"} /\ unit' = "gone"
    /\ job' = [job EXCEPT !.pc = "capture", !.unclean = ~SuccessfulExit(unit, exit')]
    /\ NoFault
    /\ UNCHANGED <<work, helper, worker, reader, srv>>

\* The termination is written once and kept.
Termination(unclean) ==
    IF term # "none" THEN term ELSE IF unclean THEN "unclean" ELSE "clean"

\* With the termination durable, the tree is read into a manifest.
Capture ==
    /\ job.pc = "capture"
    /\ term' = Termination(job.unclean)
    /\ job' = [job EXCEPT !.pc = "copy", !.snap = work]
    /\ NoFault
    /\ UNCHANGED <<world, cap, ack, marks, roots, res, worker, reader, srv>>

\* Every object is copied against the manifest's digest.
CopyRetainedObjects ==
    /\ job.pc = "copy"
    /\ IF work = job.snap THEN Continue("verify") /\ UNCHANGED worker
       ELSE Reply("pending")
    /\ NoFault
    /\ UNCHANGED <<world, helper, reader, srv>>

\* After the objects are copied the tree is read again; a change is a
\* capture failure, reported as pending because the writers are gone.
Verify ==
    /\ job.pc = "verify"
    /\ IF work = job.snap THEN Continue("rename") /\ UNCHANGED worker
       ELSE Reply("pending")
    /\ NoFault
    /\ UNCHANGED <<world, helper, reader, srv>>

\* One rename publishes record, manifest and objects together.
Publish ==
    /\ job.pc = "rename"
    /\ cap' = [state |-> "local_durable", tree |-> job.snap, objs |-> job.snap]
    /\ Reply("finalized")
    /\ NoFault
    /\ UNCHANGED <<world, term, ack, marks, roots, res, reader, srv>>

Unclean == term = "unclean"

-----------------------------------------------------------------------------
(* The Helper's journal: receipts, cleanup, reclamation.                   *)

\* acknowledgement.json is written before any phase moves.
Acknowledge ==
    /\ job.op = "ack" /\ job.pc = "write"
    /\ IF /\ AcknowledgementPath(cap.state, State(job.arg, Unclean), Unclean)
          /\ Follows(job.arg, ack)
       THEN ack' = job.arg /\ Continue("advance") /\ UNCHANGED worker
       ELSE Reply("error") /\ UNCHANGED ack
    /\ NoFault
    /\ UNCHANGED <<world, term, cap, marks, roots, res, reader, srv>>

AdvanceFinalization ==
    /\ job.op = "ack" /\ job.pc = "advance"
    /\ LET target == State(job.arg, Unclean)
       IN  IF cap.state = target
           THEN Reply("ok") /\ UNCHANGED cap
           ELSE /\ cap' = [cap EXCEPT !.state = NextPhase(cap.state, target, Unclean)]
                /\ UNCHANGED <<job, worker>>
    /\ NoFault
    /\ UNCHANGED <<world, term, ack, marks, roots, res, reader, srv>>

RuntimeCleaned == "cleaned" \in marks

\* After a reboot only the session root can be left; a mount or namespace
\* under the session's name is somebody else's.
PreviousBootResourcesGone == res \subseteq {"root"}

\* Cleanup belongs to a final phase with its exact acknowledgement.  A
\* session that was cleaned before is only checked.
CleanupStart ==
    /\ job.pc = "start"
    /\ IF CanDeleteSession /\ State(ack, Unclean) = cap.state
       THEN IF RuntimeCleaned
            THEN Reply(IF res = {} /\ WritersStopped THEN "ok" ELSE "error")
            ELSE IF IF PreviousBoot THEN PreviousBootResourcesGone ELSE WritersStopped
                 THEN Continue("remove") /\ UNCHANGED worker
                 ELSE Reply("error")
       ELSE Reply("error")
    /\ NoFault
    /\ UNCHANGED <<world, helper, reader, srv>>

\* Resources go one at a time: mounts, network namespace, session root.
\* stop_session deletes the namespace without looking at the outcome.
Removing(r, before) ==
    /\ job.pc \in {"remove", "wipe"}
    /\ r \in res /\ res \cap before = {}
    /\ res' = res \ {r}
    /\ NoFault
    /\ UNCHANGED <<world, term, cap, ack, marks, roots, job, worker, reader, srv>>

RemoveMounts == Removing("mounts", {})

RemoveNetwork == Removing("net", IF job.pc = "wipe" THEN {} ELSE {"mounts"})

RemoveRuntimeRoot == Removing("root", IF job.pc = "wipe" THEN {"mounts"} ELSE {"mounts", "net"})

\* Mutant: the receipt is written before the last resource is gone.
CleanupDoneEarly ==
    /\ job.pc \in {"remove", "wipe"} /\ res \subseteq {"root"}
    /\ marks' = IF job.pc = "remove" THEN marks \cup {"cleaned"} ELSE marks
    /\ Reply("ok")
    /\ NoFault
    /\ UNCHANGED <<world, term, cap, ack, roots, res, reader, srv>>

\* Only cleanup leaves a receipt; stop_session's removal does not.
CleanupDone ==
    /\ job.pc \in {"remove", "wipe"}
    /\ \/ res = {} /\ NoFault
       \/ res = {"net"} /\ job.pc = "wipe" /\ Fault
    /\ marks' = IF job.pc = "remove" THEN marks \cup {"cleaned"} ELSE marks
    /\ Reply("ok")
    /\ UNCHANGED <<world, term, cap, ack, roots, res, reader, srv>>

\* Nothing can write, mount or reach the session's content.
Excluded == WritersStopped /\ res = {}

\* The passive proof that nothing of the runtime is left, repeated by every
\* reclamation request, then authorization unless the intent is durable.
ReclamationProof ==
    /\ job.op = "reclaim" /\ job.pc = "proof"
    /\ IF CanDeleteSession /\ RuntimeCleaned /\ Excluded
       THEN /\ Continue(IF Unreclaimed THEN "authorize" ELSE "scan")
            /\ UNCHANGED worker
       ELSE Reply("error")
    /\ NoFault
    /\ UNCHANGED <<world, helper, reader, srv>>

\* The Helper waits, still serving nobody else, for the worker to carry its
\* challenge to the Server and back.
Authorize ==
    /\ job.pc = "authorize" /\ job.by = "loop"
    /\ IF srv.status = "committed" /\ Match(srv.pub, srv.att, ack)
       THEN /\ job' = [job EXCEPT !.pc = "mark", !.auth = srv.pub]
            /\ UNCHANGED worker
       ELSE Reply("error")
    /\ NoFault
    /\ UNCHANGED <<world, helper, reader, srv>>

\* Mutant: only the worker's own hold is honoured.
ContentHeldByWorker == hold

ContentHeld == hold \/ reader \in {"held", "open"}

Intact(tree) == \A f \in Files : tree[f] \in {cap.tree[f], Gone}

\* The intent is written under the exclusive lock, for the unchanged tree,
\* and never for a conflict nobody has resolved.
MarkReclamation ==
    /\ job.op = "reclaim" /\ job.pc = "mark"
    /\ IF ~ContentHeld /\ job.auth # "conflicted" /\ work = cap.tree
       THEN /\ marks' = marks \cup {"intent"}
            /\ job' = [job EXCEPT !.pc = "scan", !.auth = "none"]
            /\ UNCHANGED worker
       ELSE Reply("error") /\ UNCHANGED marks
    /\ NoFault
    /\ UNCHANGED <<world, term, cap, ack, roots, res, reader, srv>>

\* Both remaining trees are inspected before the first unlink.
Scan ==
    /\ job.op = "reclaim" /\ job.pc = "scan"
    /\ IF /\ ~ContentHeld /\ reader # "late"
          /\ Intact(work) /\ Intact(cap.objs)
       THEN Continue(IF Completed THEN "complete" ELSE "work") /\ UNCHANGED worker
       ELSE Reply("error")
    /\ NoFault
    /\ UNCHANGED <<world, helper, reader, srv>>

First(tree) == CHOOSE f \in Files :
                   tree[f] # Gone /\ \A g \in Files : tree[g] # Gone => f <= g

\* Mutant: the entry is unlinked on the strength of the earlier scan.
DeleteWorkUnchecked ==
    /\ job.op = "reclaim" /\ job.pc = "work" /\ work # NoTree
    /\ work' = [work EXCEPT ![First(work)] = Gone] /\ UNCHANGED <<job, worker>>
    /\ NoFault
    /\ UNCHANGED <<unit, exit, helper, reader, srv>>

\* One entry of the work tree: guarded and hashed again, then unlinked.
DeleteWork ==
    /\ job.op = "reclaim" /\ job.pc = "work" /\ work # NoTree
    /\ LET f == First(work)
       IN  IF Excluded /\ work[f] = cap.tree[f]
           THEN work' = [work EXCEPT ![f] = Gone] /\ UNCHANGED <<job, worker>>
           ELSE Reply("error") /\ UNCHANGED work
    /\ NoFault
    /\ UNCHANGED <<unit, exit, helper, reader, srv>>

\* One retained object: its own exclusive lock, then hashed and unlinked.
DeleteObject ==
    /\ job.op = "reclaim" /\ job.pc = "objects" /\ cap.objs # NoTree
    /\ LET f == First(cap.objs)
       IN  IF Excluded /\ ~(reader = "late" /\ f = N)
           THEN cap' = [cap EXCEPT !.objs[f] = Gone] /\ UNCHANGED <<job, worker>>
           ELSE Reply("error") /\ UNCHANGED cap
    /\ NoFault
    /\ UNCHANGED <<world, term, ack, marks, roots, res, reader, srv>>

RemoveRoot ==
    /\ job.op = "reclaim"
    /\ \/ job.pc = "work" /\ work = NoTree /\ Continue("objects")
       \/ job.pc = "objects" /\ cap.objs = NoTree /\ Continue("complete")
    /\ roots' = roots \ {job.pc}
    /\ NoFault
    /\ UNCHANGED <<world, term, cap, ack, marks, res, worker, reader, srv>>

RetainReclaimed ==
    /\ job.op = "reclaim" /\ job.pc = "complete"
    /\ IF roots = {} THEN marks' = marks \cup {"done"} /\ Reply("ok")
       ELSE Reply("error") /\ UNCHANGED marks
    /\ NoFault
    /\ UNCHANGED <<world, term, cap, ack, roots, res, reader, srv>>

\* A reclamation whose worker has hung up is cancelled at its next check.
Abandon ==
    /\ job.op = "reclaim" /\ job.by = "none"
    /\ Reply("error")
    /\ NoFault
    /\ UNCHANGED <<world, helper, reader, srv>>

HelperStep ==
    \/ StopWriters \/ StopCaptured \/ StopPreviousBoot \/ Inspect \/ DrainUnadmitted
    \/ Capture \/ CopyRetainedObjects \/ Verify \/ Publish
    \/ Acknowledge \/ AdvanceFinalization
    \/ CleanupStart \/ RemoveMounts \/ RemoveNetwork \/ RemoveRuntimeRoot \/ CleanupDone
    \/ ReclamationProof \/ Authorize \/ MarkReclamation
    \/ Scan \/ DeleteWork \/ DeleteObject \/ RemoveRoot \/ RetainReclaimed
    \/ Abandon

-----------------------------------------------------------------------------
(* The worker: the transfer, run by whoever owns the gate.                 *)

\* The receipt a response carries, next to what the ledger already has.
Receipt(s) == [led EXCEPT !.up = s.up, !.ckpt = s.status = "committed"]

TransferKeeps == UNCHANGED <<world, helper, job, recorded, reader>>

\* A verified response is saved before the next call.  A lost answer, or a
\* crash before the save, leaves the ledger behind the Server.
Answered(effect, receipt, next) ==
    \/ /\ srv' = effect /\ led' = receipt
       /\ Resume(next)
       /\ NoFault
    \/ /\ srv' \in {srv, effect} /\ UNCHANGED led
       /\ EndTransfer(FALSE)
       /\ Fault

\* Mutant: every receipt is acknowledged, also to a journal already final.
ProgressAlways(r) == "ack"

\* Progress is acknowledged to the Helper, except that a capture already
\* final there is never sent a lower phase.
Progress(r) == IF seen[gate] THEN AfterReceipt(r) ELSE "ack"

ObserveTermination ==
    /\ xfer = "observe"
    /\ Answered([srv EXCEPT !.told = @ \cup {"exited"}], led, "hold")
    /\ TransferKeeps

GetFinalization ==
    /\ xfer = "get"
    /\ Answered(srv, Receipt(srv), Progress(Receipt(srv)))
    /\ TransferKeeps

\* The shared lock on the manifest, refused once an intent is durable.
HoldContent ==
    /\ xfer = "hold" /\ job = Idle
    /\ IF ~Unreclaimed THEN EndTransfer(FALSE)
       ELSE xfer' = "manifest" /\ hold' = TRUE /\ UNCHANGED <<loop, stop, gate, seen>>
    /\ NoFault
    /\ UNCHANGED <<led, srv>> /\ TransferKeeps

\* The manifest is read under the hold, so it cannot be refused.
ReadManifest ==
    /\ xfer = "manifest" /\ job = Idle
    /\ Resume("begin")
    /\ NoFault
    /\ UNCHANGED <<led, srv>> /\ TransferKeeps

\* The Server opens an upload, renews an expired one, or returns what it has.
Begun ==
    IF srv.status = "none" \/ srv.status = "expired"
    THEN [srv EXCEPT !.up = @ + 1, !.status = "staged", !.files = NoTree]
    ELSE srv

Begin ==
    /\ xfer = "begin"
    /\ Answered(Begun, Receipt(Begun), Progress(Receipt(Begun)))
    /\ TransferKeeps

\* The object reader is one more Helper request, under the hold.
OpenObjectSource ==
    /\ xfer = "open" /\ job = Idle
    /\ Resume("upload")
    /\ NoFault
    /\ UNCHANGED <<led, srv>> /\ TransferKeeps

\* The Server takes files only for the upload it still stages.
Staged == srv.status = "staged" /\ srv.up = led.up

\* The next object the Server lacks, read under the hold; one it has is put
\* again without effect.
Upload ==
    /\ xfer = "upload"
    /\ IF Staged
       THEN IF \A f \in Files : srv.files[f] # Gone
            THEN Resume("complete") /\ NoFault /\ UNCHANGED <<led, srv>>
            ELSE LET f == CHOOSE g \in Files :
                            srv.files[g] = Gone /\ \A h \in 1..(g-1) : srv.files[h] # Gone
                 IN  Answered([srv EXCEPT !.files[f] = cap.objs[f]], led, "upload")
       ELSE EndTransfer(FALSE) /\ NoFault /\ UNCHANGED <<led, srv>>
    /\ TransferKeeps

\* The Server retains the input when every file of this upload is there.
Complete ==
    /\ xfer = "complete"
    /\ IF Staged
       THEN LET r == [led EXCEPT !.ckpt = TRUE]
            IN  Answered([srv EXCEPT !.status = "committed"], r, Progress(r))
       ELSE EndTransfer(FALSE) /\ NoFault /\ UNCHANGED <<led, srv>>
    /\ TransferKeeps

\* The publication decision; asking again returns the decision already made.
PublishFinalization ==
    /\ xfer = "publish"
    /\ \E status \in Terminal \cup {"superseded"} :
          /\ IF srv.pub = "none" THEN ValidPublication(status, Unclean)
             ELSE status = srv.pub
          /\ LET att == IF srv.pub = "none" THEN 1 ELSE srv.att
             IN  Answered([srv EXCEPT !.pub = status, !.att = att],
                          [led EXCEPT !.pub = status, !.att = att], "ack")
    /\ TransferKeeps

\* The transfer's two calls to the Helper.
CallHelper(op, pc, waiting) ==
    /\ xfer = op /\ Request(op, gate, pc, led) /\ xfer' = waiting
    /\ NoFault
    /\ UNCHANGED <<world, helper, loop, stop, recorded, gate, seen, led, hold, reader, srv>>

CallAcknowledge == CallHelper("ack", "write", "acking")

CallCleanup == CallHelper("cleanup", "start", "cleaning")

TransferStep ==
    \/ ObserveTermination \/ GetFinalization \/ HoldContent \/ ReadManifest
    \/ Begin \/ OpenObjectSource \/ Upload \/ Complete \/ PublishFinalization
    \/ CallAcknowledge \/ CallCleanup

-----------------------------------------------------------------------------
(* The recovery loop: one pass over the Helper's inventory.                *)

LoopKeeps == UNCHANGED <<world, helper, stop, recorded, led, hold, reader>>

\* What the Helper's inventory says of the session.
InventoryItem ==
    CASE ~Captured -> "not_finalized"
      [] Captured /\ Completed -> "content_reclaimed"
      [] Captured /\ ~Unreclaimed /\ ~Completed -> "reclamation_pending"
      [] OTHER -> "record"

\* The inventory decides what the pass does with the session; reclaimed
\* content is skipped.
ListFinalizations ==
    /\ loop = "idle" /\ gate = "free" /\ InventoryItem # "content_reclaimed"
    /\ CASE InventoryItem = "reclamation_pending" ->
                /\ Request("reclaim", "loop", "proof", NoReceipt)
                /\ loop' = "reclaiming" /\ gate' = "loop" /\ UNCHANGED <<xfer, seen>>
         [] InventoryItem = "record" ->
                /\ job = Idle /\ UNCHANGED job
                /\ loop' = "transfer" /\ gate' = "loop" /\ xfer' = TransferStart
                /\ seen' = [seen EXCEPT !.loop = CanDeleteSession]
         [] OTHER ->
                /\ Request("reconcile", "loop", "inspect", NoReceipt)
                /\ loop' = "reconciling" /\ gate' = "loop" /\ UNCHANGED <<xfer, seen>>
    /\ NoFault
    /\ LoopKeeps /\ UNCHANGED srv

\* A capture that cannot be made is reported and retried on the next pass.
LoopReportsPending ==
    /\ loop = "pend"
    /\ \/ srv' = [srv EXCEPT !.told = @ \cup {"pending"}] /\ NoFault
       \/ UNCHANGED srv /\ Fault
    /\ loop' = "idle" /\ gate' = "free"
    /\ LoopKeeps /\ UNCHANGED <<job, xfer, seen>>

\* Content is reclaimed only through the saved final publication.
ReclaimTransferred ==
    /\ loop = "reclaim"
    /\ IF led.pub \in Terminal
       THEN /\ Request("reclaim", "loop", "proof", NoReceipt)
            /\ loop' = "reclaiming" /\ UNCHANGED gate
       ELSE loop' = "idle" /\ gate' = "free" /\ UNCHANGED job
    /\ NoFault
    /\ LoopKeeps /\ UNCHANGED <<xfer, seen, srv>>

LoopStep ==
    \/ ListFinalizations \/ LoopReportsPending \/ ReclaimTransferred
    \/ gate = "loop" /\ TransferStep

-----------------------------------------------------------------------------
(* The stop task.                                                          *)

StopKeeps == UNCHANGED <<world, helper, loop, led, reader>>

\* Stop the writers, then ask for an independent observation.
StopCalls ==
    /\ \/ stop = "idle" /\ Request("stop", "stop", "inspect", NoReceipt) /\ stop' = "stopping"
       \/ stop = "observe" /\ Request("reconcile", "stop", "inspect", NoReceipt) /\ stop' = "observing"
    /\ NoFault
    /\ StopKeeps /\ UNCHANGED <<recorded, gate, xfer, seen, hold, srv>>

\* A capture failure must reach the Server before the task may succeed.
StopReportsPending ==
    /\ stop = "pend"
    /\ \/ srv' = [srv EXCEPT !.told = @ \cup {"pending"}] /\ stop' = "save" /\ NoFault
       \/ srv' \in {srv, [srv EXCEPT !.told = @ \cup {"pending"}]} /\ stop' = "idle" /\ Fault
    /\ StopKeeps /\ UNCHANGED <<job, recorded, gate, xfer, seen, hold>>

AcquireGate ==
    /\ stop = "transfer" /\ gate = "free"
    /\ stop' = "transferring" /\ gate' = "stop" /\ xfer' = TransferStart
    /\ NoFault
    /\ StopKeeps /\ UNCHANGED <<job, recorded, seen, hold, srv>>

\* The attempt is bounded: waiting for the gate or deep in the transfer, it
\* gives up and leaves the rest to the loop.  A request already sent goes on.
AttemptTimeout ==
    /\ \/ /\ stop = "transfer"
          /\ stop' = "save" /\ seen' = [seen EXCEPT !.stop = FALSE]
          /\ UNCHANGED <<loop, gate, xfer, hold, job>>
       \/ /\ stop = "transferring"
          /\ EndTransfer(FALSE)
          /\ job' = IF job.by = "stop" THEN [job EXCEPT !.by = "none"] ELSE job
    /\ NoFault
    /\ UNCHANGED <<world, helper, recorded, led, reader, srv>>

SaveStop ==
    /\ stop = "save"
    /\ recorded' = TRUE /\ stop' = "complete"
    /\ NoFault
    /\ StopKeeps /\ UNCHANGED <<job, gate, xfer, seen, hold, srv>>

CompleteStop ==
    /\ stop = "complete"
    /\ \/ /\ srv' = [srv EXCEPT !.told = @ \cup {"stopped"}]
          /\ stop' = "done" /\ NoFault
       \/ UNCHANGED srv /\ stop' = "idle" /\ Fault
    /\ StopKeeps /\ UNCHANGED <<job, recorded, gate, xfer, seen, hold>>

StopStep ==
    \/ StopCalls \/ StopReportsPending \/ AcquireGate \/ SaveStop \/ CompleteStop
    \/ gate = "stop" /\ TransferStep

-----------------------------------------------------------------------------
(* The export reader: a manifest hold, one object's own descriptor, and the *)
(* descriptor alone after the reader has closed.                            *)

Others == UNCHANGED <<world, helper, job, worker, srv>>

\* A hold matters only to reclamation, which reads it; the bound ReaderArrives
\* lets the reader come when the phase is final, as late as it can.
ReaderArrives == CanDeleteSession

OpenReader ==
    /\ reader = "idle" /\ job = Idle
    /\ Captured /\ Unreclaimed /\ ReaderArrives
    /\ reader' = "held"
    /\ NoFault /\ Others

OpenObject ==
    /\ reader = "held" /\ cap.objs[N] # Gone
    /\ reader' = "open"
    /\ NoFault /\ Others

CloseReader ==
    /\ reader' = CASE reader = "open" -> "late"
                   [] reader \in {"held", "late"} -> "closed"
                   [] OTHER -> reader
    /\ reader \in {"held", "open", "late"}
    /\ NoFault /\ Others

-----------------------------------------------------------------------------
(* The Server's own steps, and failures.                                   *)

Expire ==
    /\ srv.status = "staged" /\ srv.up < MaxUploads
    /\ srv' = [srv EXCEPT !.status = "expired"]
    /\ NoFault
    /\ UNCHANGED <<world, helper, job, worker, reader>>

\* A user resolves a conflict in place, or publishes by a later attempt.
Resolve ==
    /\ \/ /\ srv.pub = "conflicted"
          /\ srv' = [srv EXCEPT !.pub = "published"]
       \/ /\ srv.pub \in {"conflicted", "superseded"}
          /\ srv' = [srv EXCEPT !.pub = "published", !.att = 2]
    /\ NoFault
    /\ UNCHANGED <<world, helper, job, worker, reader>>

\* Any request fails, by an error or a full disk.  Capture failures are
\* reported as pending once the termination is durable.
RequestFails ==
    /\ job # Idle /\ Fault
    /\ Reply(IF job.pc \in {"copy", "verify", "rename"} THEN "pending" ELSE "error")
    /\ UNCHANGED <<world, helper, reader, srv>>

CrashHelper ==
    /\ job # Idle /\ Fault
    /\ Reply("error")
    /\ UNCHANGED <<world, helper, reader, srv>>

\* The worker restarts: its locks and descriptors are gone, a request in
\* flight has lost its caller, the stop task is delivered again, and the
\* transfer ledger is perhaps an older copy.
WorkerRestarts ==
    /\ loop' = "idle" /\ gate' = "free" /\ xfer' = "none" /\ hold' = FALSE
    /\ stop' = IF stop = "done" THEN "done" ELSE "idle"
    /\ seen' = [loop |-> FALSE, stop |-> FALSE]
    /\ UNCHANGED recorded

CrashWorker ==
    /\ Fault
    /\ WorkerRestarts
    /\ led' \in {led, NoReceipt}
    /\ job' = IF job = Idle THEN Idle ELSE [job EXCEPT !.by = "none"]
    /\ UNCHANGED <<world, helper, reader, srv>>

\* A reboot ends the tool, every process and every descriptor, and takes the
\* mounts and the network namespace with it.
Reboot ==
    /\ Fault
    /\ unit' = "lost" /\ exit' = IF exit = "none" THEN "unclean" ELSE exit
    /\ res' = res \cap {"root"}
    /\ WorkerRestarts /\ UNCHANGED led
    /\ job' = Idle
    /\ reader' = IF reader = "idle" THEN "idle" ELSE "closed"
    /\ UNCHANGED <<work, term, cap, ack, marks, roots, srv>>

Next ==
    \/ \E f \in Files : Write(f)
    \/ Exit
    \/ HelperStep
    \/ LoopStep
    \/ StopStep \/ AttemptTimeout
    \/ OpenReader \/ OpenObject \/ CloseReader
    \/ Expire \/ Resolve
    \/ RequestFails \/ CrashHelper \/ CrashWorker \/ Reboot

\* The loop's ticker and the Helper keep running, the stop task's attempt ends
\* at its deadline, and a reader gets to its deferred closes.
Fairness ==
    /\ WF_vars(HelperStep)
    /\ WF_vars(LoopStep)
    /\ WF_vars(AttemptTimeout)
    /\ WF_vars(CloseReader)

Spec == Init /\ [][Next]_vars /\ Fairness

-----------------------------------------------------------------------------
(* Properties.                                                             *)

Receipts == [up : 0..MaxUploads, ckpt : BOOLEAN,
             pub : Terminal \cup {"none", "superseded"}, att : 0..2]

TypeOK ==
    /\ unit \in {"running", "exited", "gone", "lost"}
    /\ exit \in {"none", "clean", "unclean"}
    /\ work \in [Files -> Versions \cup {Gone}]
    /\ term \in {"none", "clean", "unclean"}
    /\ cap.objs \in [Files -> Versions \cup {Gone}]
    /\ ack \in Receipts /\ led \in Receipts
    /\ marks \subseteq {"cleaned", "intent", "done"}
    /\ roots \subseteq {"work", "objects"} /\ res \subseteq Resources
    /\ gate \in {"free", "loop", "stop"}
    /\ hold \in BOOLEAN /\ recorded \in BOOLEAN

\* What disappears from the node is held by the Server.  A file leaves the
\* work tree or the retained objects only by the Helper's reclamation
\* (ReclaimFinalizationContentWithChecks), and then the bytes that go are the
\* ones the Server retains in a committed checkpoint whose publication is
\* final and not an open conflict.
DeletedIsRetained ==
    [][\A f \in Files :
         LET lost == {t \in {<<work[f], work'[f]>>, <<cap.objs[f], cap'.objs[f]>>} :
                          t[1] # Gone /\ t[2] = Gone}
         IN  \A t \in lost :
               /\ srv.status = "committed" /\ srv.files[f] = t[1]
               /\ srv.pub \in {"published", "detached"}]_vars

\* A reader's lock keeps its content: while a transfer or a reader holds the
\* manifest every retained object is there, and an object's own descriptor
\* keeps that object after the reader closed.
ReadersKeepContent ==
    /\ hold \/ reader \in {"held", "open"} => cap.objs = cap.tree
    /\ reader = "late" => cap.objs[N] # Gone

\* A tree is merged into the user's library only when the tool ended by
\* itself: whatever was forced, lost in a crash or cut off by a reboot
\* arrives at the Server as unclean and stays detached.
OnlyCleanPublished ==
    /\ srv.pub \in {"published", "conflicted", "superseded"} => exit = "clean"
    /\ term = "clean" => exit = "clean"

\* What is recorded and reported is true, and no journal runs ahead.  A stop
\* that is recorded or reported, and an exit that is reported, mean that no
\* writer runs and that the exit is durable; a reported stop also has its tree
\* frozen or the failure to freeze it reported.  The Helper's phase is covered
\* by its receipt, its receipt and the worker's ledger by the Server, a cleanup
\* mark by absent resources, an intent by a cleanup, a completion by absent
\* roots.
JournalsFollow ==
    /\ (recorded \/ srv.told # {}) => (unit # "running" /\ term # "none")
    /\ "stopped" \in srv.told => Captured \/ "pending" \in srv.told
    /\ cap.state \in Terminal => ack.pub = cap.state
    /\ cap.state \in {"persisted", "persisted_unclean"} => ack.ckpt
    /\ \A r \in {ack, led} :
          /\ r.up <= srv.up
          /\ r.ckpt => srv.status = "committed" /\ r.up = srv.up
          /\ r.pub # "none" => srv.pub # "none" /\ r.att <= srv.att
    /\ "cleaned" \in marks => res = {} /\ CanDeleteSession
    /\ "intent" \in marks => "cleaned" \in marks /\ ack.pub \in Terminal
    /\ "done" \in marks => roots = {} /\ "intent" \in marks

\* Retention ends: once the Helper's journal says published or detached the
\* content is eventually reclaimed, whatever crashed on the way, unless
\* somebody edited the tree after it was frozen.
FinalIsReclaimed ==
    cap.state \in {"published", "detached"}
        ~> ("done" \in marks \/ \E f \in Files : work[f] \notin {cap.tree[f], Gone})

=============================================================================
