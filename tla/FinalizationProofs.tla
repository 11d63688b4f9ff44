-------------------------- MODULE FinalizationProofs --------------------------
(***************************************************************************)
(* What the node deletes is retained by the Server, readers keep their     *)
(* content, only a clean exit is published and no journal runs ahead, for  *)
(* every number of files, uploads and faults.                              *)
(***************************************************************************)
EXTENDS Finalization, TLAPS

Trees == [Files -> Versions \cup {Gone}]
Slips == [up : Nat, ckpt : BOOLEAN, pub : Terminal \cup {"none", "superseded"}, att : 0 .. 2]
Phases == {"none", "local_durable", "upload_pending", "persisted", "persisted_unclean"} \cup Terminal
Captures == [state : Phases, tree : Trees, objs : Trees]
Ops == {"idle", "stop", "reconcile", "ack", "cleanup", "reclaim"}
Steps == {"idle", "inspect", "capture", "copy", "verify", "rename", "wipe", "start", "remove",
          "write", "advance", "proof", "authorize", "mark", "scan", "work", "objects", "complete"}
Jobs == [op : Ops, by : {"none", "loop", "stop"}, pc : Steps, unclean : BOOLEAN, snap : Trees,
         arg : Slips, auth : Terminal \cup {"none"}]
Servers == [told : SUBSET {"exited", "pending", "stopped"}, up : Nat,
            status : {"none", "staged", "expired", "committed"}, files : Trees,
            pub : Terminal \cup {"none", "superseded"}, att : 0 .. 2]

FinalizationTypes ==
    /\ unit \in {"running", "exited", "gone", "lost"} /\ exit \in {"none", "clean", "unclean"}
    /\ work \in Trees /\ term \in {"none", "clean", "unclean"}
    /\ cap \in Captures /\ ack \in Slips /\ led \in Slips /\ job \in Jobs /\ srv \in Servers
    /\ res \subseteq Resources /\ roots \subseteq {"work", "objects"} /\ gate \in {"free", "loop", "stop"}

Full(tree) == \A f \in Files : tree[f] # Gone

\* How the writers ended is known when nothing runs, and what the termination
\* says of it is true.
EvidenceInv ==
    /\ unit = "running" <=> exit = "none"
    /\ term # "none" => unit # "running"
    /\ term = "clean" => exit = "clean"
    /\ Captured => term # "none"

Freezing == {"copy", "verify", "rename"}
Reclaiming == {"scan", "work", "objects", "complete"}

\* What the Helper relies on at each step of a request.
JobInv ==
    /\ job.op = "ack" => job.pc \in {"write", "advance"}
    /\ job.op = "cleanup" => job.pc \in {"start", "remove"}
    /\ job.op \in {"ack", "cleanup"} => Captured
    /\ job.pc = "capture" => /\ ~Captured /\ unit # "running"
                             /\ ~job.unclean => exit = "clean"
    /\ job.pc \in Freezing => ~Captured /\ term # "none" /\ Full(job.snap)
    /\ job.pc = "advance" => /\ ack = job.arg
                             /\ AcknowledgementPath(cap.state, State(job.arg, Unclean), Unclean)
    /\ job.pc \in {"wipe", "remove"} => CanDeleteSession
    /\ job.pc \in {"authorize", "mark"} => "cleaned" \in marks
    /\ job.pc = "mark" => /\ srv.status = "committed"
                          /\ job.auth # "conflicted" => srv.pub \in {"published", "detached"}
    /\ job.pc \in Reclaiming => "intent" \in marks

\* A receipt in the worker's ledger, in the Helper's journal or in a request says
\* no more than the Server.
Covered(r) ==
    /\ r.up <= srv.up
    /\ r.ckpt => srv.status = "committed" /\ r.up = srv.up
    /\ r.pub # "none" => r.ckpt /\ srv.pub # "none" /\ r.att <= srv.att

ReceiptInv == Covered(ack) /\ Covered(led) /\ Covered(job.arg)

\* A phase is covered by the acknowledgement.
PhaseInv ==
    /\ cap.state \in Terminal => ack.pub = cap.state
    /\ cap.state \in {"persisted", "persisted_unclean"} => ack.ckpt

Uploading == {"manifest", "begin", "open", "upload", "complete"}

\* What the worker's goroutines rely on.
WorkerInv ==
    /\ xfer # "none" \/ stop \in {"transfer", "transferring"} => Captured
    /\ stop = "pend" \/ loop = "pend" => term # "none"
    /\ stop = "save" \/ recorded => term # "none" /\ (Captured \/ "pending" \in srv.told)
    /\ stop = "complete" => recorded
    /\ xfer \in Uploading => hold
    /\ xfer = "publish" => led.ckpt
    /\ xfer = "complete" /\ srv.status = "staged" => Full(srv.files)
    /\ hold => Captured /\ Unreclaimed

\* What the Server was told and holds.
ServerInv ==
    /\ srv.told # {} => term # "none"
    /\ "stopped" \in srv.told => Captured \/ "pending" \in srv.told
    /\ srv.pub \in {"published", "conflicted", "superseded"} => exit = "clean"
    /\ srv.pub # "none" => srv.status = "committed"
    /\ \A f \in Files : srv.files[f] # Gone => Captured /\ srv.files[f] = cap.tree[f]
    /\ srv.status = "committed" => Full(srv.files)

\* The content is whole until an intent is durable, and what is left of the
\* retained objects is unchanged.
ContentInv ==
    /\ Captured => Full(cap.tree) /\ \A f \in Files : cap.objs[f] \in {cap.tree[f], Gone}
    /\ ~Captured => cap.objs = NoTree
    /\ Unreclaimed => cap.objs = cap.tree /\ Full(work)
    /\ reader \in {"held", "open"} => Captured /\ Unreclaimed
    /\ reader = "late" => cap.objs[N] # Gone

\* The journal's marks.
MarkInv ==
    /\ "cleaned" \in marks => res = {} /\ CanDeleteSession
    /\ "intent" \in marks => /\ "cleaned" \in marks
                             /\ srv.status = "committed" /\ srv.pub \in {"published", "detached"}
    /\ "done" \in marks => roots = {} /\ "intent" \in marks

FinalizationInv ==
    /\ FinalizationTypes /\ EvidenceInv /\ JobInv /\ ReceiptInv /\ PhaseInv /\ WorkerInv
    /\ ServerInv /\ ContentInv /\ MarkInv

-----------------------------------------------------------------------------
(* Records. *)

LEMMA NoReceiptType == NoReceipt \in Slips /\ NoReceipt.up = 0 /\ ~NoReceipt.ckpt /\ NoReceipt.pub = "none"
  BY DEF NoReceipt, Slips

LEMMA NoTreeType == NoTree \in Trees /\ \A f \in Files : NoTree[f] = Gone
  BY DEF NoTree, Trees

LEMMA GoneIsNoVersion == Gone \notin Versions /\ Gone # 0 /\ Gone # 1
  BY DEF Gone, Versions

LEMMA IdleType ==
  /\ Idle \in Jobs /\ Idle.op = "idle" /\ Idle.pc = "idle" /\ Idle.by = "none" /\ Idle.arg = NoReceipt
  BY NoReceiptType, NoTreeType DEF Idle, Jobs, Ops, Steps

LEMMA RequestType ==
  ASSUME NEW op \in Ops, NEW by \in {"none", "loop", "stop"}, NEW p \in Steps, NEW a \in Slips,
         Request(op, by, p, a)
  PROVE  /\ job = Idle /\ job' \in Jobs /\ job'.op = op /\ job'.by = by /\ job'.pc = p /\ job'.arg = a
  BY IdleType, Zenon DEF Request, Jobs

LEMMA ContinueType ==
  ASSUME job \in Jobs, NEW p \in Steps, Continue(p)
  PROVE  /\ job' \in Jobs /\ job'.pc = p /\ job'.op = job.op /\ job'.by = job.by
         /\ job'.unclean = job.unclean /\ job'.snap = job.snap /\ job'.arg = job.arg /\ job'.auth = job.auth
  BY DEF Continue, Jobs

LEMMA OrphanType ==
  ASSUME job \in Jobs, job' = [job EXCEPT !.by = "none"]
  PROVE  /\ job' \in Jobs /\ job'.pc = job.pc /\ job'.op = job.op
         /\ job'.unclean = job.unclean /\ job'.snap = job.snap /\ job'.arg = job.arg /\ job'.auth = job.auth
  BY DEF Jobs

-----------------------------------------------------------------------------
(* What leaves a part of the invariant alone. *)

LEMMA EvidenceKeeps ==
  ASSUME EvidenceInv, UNCHANGED <<unit, exit, term>>, Captured' => term # "none"
  PROVE  EvidenceInv'
  BY DEF EvidenceInv

LEMMA IdleKeeps ==
  ASSUME job' = Idle
  PROVE  JobInv'
  BY IdleType DEF JobInv, Freezing, Reclaiming

LEMMA PhaseKeeps ==
  ASSUME PhaseInv, ack' = ack, cap'.state = cap.state
  PROVE  PhaseInv'
  BY DEF PhaseInv

LEMMA ContentKeeps ==
  ASSUME ContentInv, UNCHANGED <<cap, work, reader>>, Unreclaimed' => Unreclaimed, Unreclaimed => Unreclaimed'
  PROVE  ContentInv'
  BY DEF ContentInv, Full, Captured, Intact

LEMMA MarkKeeps ==
  ASSUME MarkInv, UNCHANGED <<marks, srv>>, res' \subseteq res, roots' \subseteq roots, cap'.state = cap.state
  PROVE  MarkInv'
  BY DEF MarkInv, CanDeleteSession

LEMMA ServerKeeps ==
  ASSUME ServerInv, UNCHANGED <<srv, exit>>, term # "none" => term' # "none",
         Captured => cap'.state # "none" /\ cap'.tree = cap.tree
  PROVE  ServerInv'
  BY DEF ServerInv, Full, Captured

LEMMA ReceiptKeeps ==
  ASSUME ReceiptInv, srv \in Servers, UNCHANGED <<ack, led, srv>>, job' = Idle \/ job'.arg = job.arg
  PROVE  ReceiptInv'
  <1>1. srv.up \in Nat
    BY DEF Servers
  <1>2. CASE job' = Idle
    BY <1>1, <1>2, IdleType, NoReceiptType DEF ReceiptInv, Covered
  <1>3. CASE job'.arg = job.arg
    BY <1>3 DEF ReceiptInv, Covered
  <1> QED BY <1>2, <1>3

LEMMA JobKeeps ==
  ASSUME JobInv, UNCHANGED <<unit, exit, term, ack, marks, job, srv>>, cap'.state = cap.state
  PROVE  JobInv'
  <1>1. UNCHANGED <<Captured, CanDeleteSession, Unclean>> /\ Full(job'.snap) = Full(job.snap)
    BY DEF Captured, CanDeleteSession, Unclean, Full
  <1> QED BY <1>1 DEF JobInv

LEMMA WorkerKeeps ==
  ASSUME WorkerInv, UNCHANGED <<term, marks, loop, stop, recorded, xfer, led, hold, srv>>, cap'.state = cap.state
  PROVE  WorkerInv'
  <1>1. UNCHANGED <<Captured, Unreclaimed>> /\ Full(srv'.files) = Full(srv.files)
    BY DEF Captured, Unreclaimed, Full
  <1> QED BY <1>1 DEF WorkerInv

\* The Helper's files and the tool are as they were.
LEMMA StillKeeps ==
  ASSUME FinalizationInv, UNCHANGED <<world, helper, reader, srv>>
  PROVE  EvidenceInv' /\ PhaseInv' /\ ContentInv' /\ MarkInv' /\ ServerInv'
  <1>1. UNCHANGED <<unit, exit, work, term, cap, ack, marks, roots, res, reader, srv>>
    BY DEF world, helper
  <1>2. EvidenceInv'
    BY <1>1 DEF FinalizationInv, EvidenceInv, Captured
  <1>3. PhaseInv' /\ MarkInv' /\ ServerInv'
    BY <1>1, PhaseKeeps, MarkKeeps, ServerKeeps DEF FinalizationInv, Captured
  <1>4. ContentInv'
    BY <1>1, ContentKeeps DEF FinalizationInv, Unreclaimed
  <1> QED BY <1>2, <1>3, <1>4

-----------------------------------------------------------------------------
(* The worker. *)

\* Once the tree is frozen little is left to ask of a step of the worker.
LEMMA FrozenWorker ==
  ASSUME WorkerInv, Captured', term' # "none",
         stop' = "complete" => recorded',
         xfer' \in Uploading => hold', xfer' = "publish" => led'.ckpt,
         xfer' = "complete" /\ srv'.status = "staged" => Full(srv'.files), hold' => Unreclaimed'
  PROVE  WorkerInv'
  BY DEF WorkerInv

LEMMA EndKeeps ==
  ASSUME WorkerInv, NEW ok, EndTransfer(ok), Captured', term' # "none", recorded' = recorded
  PROVE  WorkerInv' /\ gate' \in {"free", "loop"}
  <1>1. /\ xfer' = "none" /\ hold' = FALSE /\ stop' \in {stop, "save"} /\ gate' \in {"free", "loop"}
    BY DEF EndTransfer
  <1>2. stop' = "complete" => recorded'
    BY <1>1 DEF WorkerInv
  <1> QED BY <1>1, <1>2, FrozenWorker DEF Uploading

LEMMA ResumeKeeps ==
  ASSUME WorkerInv, NEW next, Resume(next), Captured', term' # "none", recorded' = recorded,
         next \in Uploading => hold, next = "publish" => led'.ckpt,
         next = "complete" /\ srv'.status = "staged" => Full(srv'.files), Unreclaimed => Unreclaimed'
  PROVE  WorkerInv' /\ gate' = gate
  <1>1. xfer' = next /\ UNCHANGED <<stop, gate, hold>>
    BY DEF Resume
  <1>2. (stop' = "complete" => recorded') /\ (hold' => Unreclaimed')
    BY <1>1 DEF WorkerInv
  <1> QED BY <1>1, <1>2, FrozenWorker

LEMMA AfterReceiptFacts ==
  ASSUME NEW r
  PROVE  /\ AfterReceipt(r) \in {"publish", "open", "hold"}
         /\ AfterReceipt(r) = "publish" => r.ckpt
         /\ AfterReceipt(r) \in Uploading => hold
  BY DEF AfterReceipt, Uploading

LEMMA TransferReplyKeeps ==
  ASSUME WorkerInv, NEW out, TransferReply(out), Captured', term' # "none",
         UNCHANGED <<recorded, led, srv>>, Unreclaimed => Unreclaimed'
  PROVE  WorkerInv' /\ gate' \in {gate, "free", "loop"}
  <1>1. CASE \E ok \in BOOLEAN : EndTransfer(ok)
    BY <1>1, EndKeeps
  <1>2. CASE Resume(AfterReceipt(led))
    <2>1. AfterReceipt(led) # "complete"
      BY AfterReceiptFacts
    <2> QED BY <1>2, <2>1, AfterReceiptFacts, ResumeKeeps
  <1>3. CASE Resume("cleanup")
    BY <1>3, ResumeKeeps DEF Uploading
  <1> QED BY <1>1, <1>2, <1>3, Zenon DEF TransferReply

TransferStarts == {"ack", "observe", "get"}

LEMMA StartType == TransferStart \in TransferStarts
  BY DEF TransferStart, TransferStarts

\* A reply, whatever the worker does with it.
LEMMA ReplyWorker ==
  ASSUME FinalizationInv, NEW out, Reply(out), srv' = srv, Captured => Captured',
         term # "none" => term' # "none", Captured' => term' # "none", Unreclaimed => Unreclaimed',
         out = "finalized" => Captured', out = "pending" => term' # "none"
  PROVE  WorkerInv' /\ job' = Idle /\ led' = led /\ gate' \in {"free", "loop", "stop"}
  <1>0. WorkerInv /\ JobInv /\ gate \in {"free", "loop", "stop"} /\ job \in Jobs
    BY DEF FinalizationInv, FinalizationTypes
  <1>1. job' = Idle /\ UNCHANGED <<recorded, led>>
    BY DEF Reply
  <1>2. CASE job.op \in {"ack", "cleanup"} /\ TransferReply(out)
    BY <1>0, <1>1, <1>2, TransferReplyKeeps DEF JobInv
  <1>3. CASE UNCHANGED <<loop, stop, gate, xfer, seen, hold>>
    BY <1>0, <1>1, <1>3 DEF WorkerInv, Full
  <1>4. CASE job.by = "loop" /\ job.op \notin {"ack", "cleanup"}
    <2>1. UNCHANGED <<stop, hold>>
      BY <1>4 DEF Reply, LoopReply
    <2>2. CASE loop' = "transfer" /\ xfer' = TransferStart /\ gate' = gate /\ out = "finalized"
      BY <1>0, <1>1, <2>1, <2>2, StartType DEF WorkerInv, Uploading, TransferStarts
    <2>3. CASE loop' = "pend" /\ UNCHANGED <<gate, xfer, seen>> /\ out = "pending"
      BY <1>0, <1>1, <2>1, <2>3 DEF WorkerInv, Full
    <2>4. CASE loop' = "idle" /\ gate' = "free" /\ UNCHANGED <<xfer, seen>>
      BY <1>0, <1>1, <2>1, <2>4 DEF WorkerInv, Full
    <2> QED BY <1>4, <2>2, <2>3, <2>4 DEF Reply, LoopReply
  <1>5. CASE job.by = "stop" /\ job.op \notin {"ack", "cleanup"}
    <2>1. UNCHANGED <<loop, gate, xfer, hold>>
      BY <1>5 DEF Reply, StopReply
    <2>2. \/ stop' \in {"observe", "idle"}
          \/ stop' = "complete" /\ recorded
          \/ stop' = "transfer" /\ out = "finalized"
          \/ stop' = "pend" /\ out = "pending"
      BY <1>5 DEF Reply, StopReply
    <2> QED BY <1>0, <1>1, <2>1, <2>2 DEF WorkerInv, Full
  <1>6. CASE job.by \notin {"loop", "stop"}
    BY <1>3, <1>6 DEF Reply
  <1> QED BY <1>2, <1>4, <1>5, <1>6 DEF Reply, LoopReply, StopReply

\* A request that ends without an effect of its own.
LEMMA ReplyKeeps ==
  ASSUME FinalizationInv, NEW out, Reply(out), UNCHANGED <<world, helper, reader, srv>>,
         out = "finalized" => Captured, out = "pending" => term # "none"
  PROVE  FinalizationInv'
  <1>1. UNCHANGED <<unit, exit, work, term, cap, ack, marks, roots, res>>
    BY DEF world, helper
  <1>2. WorkerInv' /\ job' = Idle /\ led' = led /\ gate' \in {"free", "loop", "stop"}
    BY <1>1, ReplyWorker DEF FinalizationInv, EvidenceInv, Captured, Unreclaimed
  <1>3. EvidenceInv' /\ PhaseInv' /\ ContentInv' /\ MarkInv' /\ ServerInv'
    BY StillKeeps
  <1>4. JobInv' /\ ReceiptInv'
    BY <1>1, <1>2, IdleKeeps, ReceiptKeeps DEF FinalizationInv, FinalizationTypes
  <1>5. FinalizationTypes'
    BY <1>1, <1>2, IdleType DEF FinalizationInv, FinalizationTypes
  <1> QED BY <1>2, <1>3, <1>4, <1>5 DEF FinalizationInv

\* A request that goes on.
LEMMA ContinueKeeps ==
  ASSUME FinalizationInv, NEW p \in Steps, Continue(p), UNCHANGED <<world, helper, worker, reader, srv>>,
         job.op # "ack", job.op = "cleanup" => p = "remove",
         p \notin {"capture", "advance", "mark"}, p \in Freezing => job.pc \in Freezing,
         p \in {"wipe", "remove"} => CanDeleteSession,
         p = "authorize" => "cleaned" \in marks,
         p \in Reclaiming => "intent" \in marks
  PROVE  FinalizationInv'
  <1>1. UNCHANGED <<unit, exit, work, term, cap, ack, marks, roots, res, loop, stop, recorded, gate, xfer, led, hold>>
    BY DEF world, helper, worker
  <1>2. job \in Jobs
    BY DEF FinalizationInv, FinalizationTypes
  <1>3. /\ job' \in Jobs /\ job'.pc = p /\ job'.op = job.op /\ job'.by = job.by
        /\ job'.unclean = job.unclean /\ job'.snap = job.snap /\ job'.arg = job.arg /\ job'.auth = job.auth
    BY <1>2, ContinueType
  <1>4. EvidenceInv' /\ PhaseInv' /\ ContentInv' /\ MarkInv' /\ ServerInv'
    BY StillKeeps
  <1>5. JobInv'
    BY <1>1, <1>3 DEF FinalizationInv, JobInv, Freezing, Reclaiming, Captured, CanDeleteSession, Full
  <1>6. ReceiptInv'
    BY <1>1, <1>3, ReceiptKeeps DEF FinalizationInv, FinalizationTypes
  <1>7. WorkerInv'
    BY <1>1, WorkerKeeps DEF FinalizationInv
  <1>8. FinalizationTypes'
    BY <1>1, <1>3 DEF FinalizationInv, FinalizationTypes
  <1> QED BY <1>4, <1>5, <1>6, <1>7, <1>8 DEF FinalizationInv

-----------------------------------------------------------------------------
(* The Helper freezes the tree. *)

\* Before the capture nothing was handed over or deleted.
LEMMA Unfrozen ==
  ASSUME FinalizationInv, ~Captured
  PROVE  /\ Unreclaimed /\ Full(work) /\ marks \cap {"cleaned", "intent", "done"} = {}
         /\ xfer = "none" /\ ~hold /\ reader \notin {"held", "open", "late"}
         /\ \A f \in Files : srv.files[f] = Gone
  <1>1. marks \cap {"cleaned", "intent", "done"} = {}
    BY DEF FinalizationInv, MarkInv, CanDeleteSession, Captured, Terminal
  <1>2. N \in Files
    BY FinalizationAssumption DEF Files
  <1> QED BY <1>1, <1>2, NoTreeType DEF FinalizationInv, WorkerInv, ContentInv, ServerInv, Unreclaimed, Captured

\* stop_session and reconcile_session find the writers gone.
LEMMA InspectedKeeps ==
  ASSUME FinalizationInv, ~Captured, unit' \in {"exited", "gone", "lost"},
         exit' \in {"clean", "unclean"}, exit # "none" => exit' = exit,
         NEW u, u => exit' = "clean",
         job.op \in {"stop", "reconcile"}, job' = [job EXCEPT !.pc = "capture", !.unclean = ~u],
         UNCHANGED <<work, helper, worker, reader, srv>>
  PROVE  FinalizationInv'
  <1> DEFINE b == ~u
  <1>1. UNCHANGED <<work, term, cap, ack, marks, roots, res, loop, stop, recorded, gate, xfer, led, hold>>
    BY DEF helper, worker
  <1>2. job \in Jobs /\ b \in BOOLEAN
    BY DEF FinalizationInv, FinalizationTypes
  <1>3. job' \in Jobs /\ job'.pc = "capture" /\ job'.op = job.op /\ job'.unclean = b /\ job'.arg = job.arg
    <2> HIDE DEF b
    <2>1. job' = [job EXCEPT !.pc = "capture", !.unclean = b]
      BY DEF b
    <2> QED BY <1>2, <2>1, Zenon DEF Jobs, Steps
  <1>4. exit = "clean" => exit' = "clean"
    OBVIOUS
  <1>5. EvidenceInv'
    BY <1>1 DEF FinalizationInv, EvidenceInv, Captured
  <1>6. JobInv'
    BY <1>1, <1>3, Zenon DEF JobInv, Freezing, Reclaiming, Captured
  <1>7. ReceiptInv' /\ PhaseInv' /\ MarkInv'
    BY <1>1, <1>3, ReceiptKeeps, PhaseKeeps, MarkKeeps DEF FinalizationInv, FinalizationTypes
  <1>8. WorkerInv' /\ ContentInv'
    BY <1>1, ContentKeeps DEF FinalizationInv, WorkerInv, Captured, Unreclaimed, Full
  <1>9. ServerInv'
    BY <1>1, <1>4 DEF FinalizationInv, ServerInv, Captured, Full
  <1>10. FinalizationTypes'
    BY <1>1, <1>3 DEF FinalizationInv, FinalizationTypes
  <1> QED BY <1>5, <1>6, <1>7, <1>8, <1>9, <1>10 DEF FinalizationInv

LEMMA StopWritersKeeps == FinalizationInv /\ StopWriters => FinalizationInv'
  <1> SUFFICES ASSUME FinalizationInv, StopWriters PROVE FinalizationInv'
    OBVIOUS
  <1>1. unit \in {"running", "exited", "gone", "lost"} /\ exit \in {"none", "clean", "unclean"}
        /\ (unit = "running" <=> exit = "none")
    BY DEF FinalizationInv, FinalizationTypes, EvidenceInv
  <1>2. /\ unit' \in {"exited", "gone", "lost"} /\ exit' \in {"clean", "unclean"} /\ (exit # "none" => exit' = exit)
        /\ SuccessfulExit(unit, exit') => exit' = "clean"
    BY <1>1 DEF StopWriters, SuccessfulExit
  <1> QED BY <1>2, InspectedKeeps, Zenon DEF StopWriters

LEMMA InspectKeeps == FinalizationInv /\ Inspect => FinalizationInv'
  <1> SUFFICES ASSUME FinalizationInv, Inspect PROVE FinalizationInv'
    OBVIOUS
  <1>1. CASE Captured \/ ~WritersStopped
    <2>1. UNCHANGED <<world, helper, reader, srv>>
      BY <1>1 DEF Inspect, world
    <2> QED BY <1>1, <2>1, ReplyKeeps DEF Inspect
  <1>2. CASE ~Captured /\ WritersStopped
    <2>1. unit \in {"running", "exited", "gone", "lost"} /\ exit \in {"none", "clean", "unclean"}
          /\ (unit = "running" <=> exit = "none")
      BY DEF FinalizationInv, FinalizationTypes, EvidenceInv
    <2>2. /\ unit' \in {"exited", "gone", "lost"} /\ exit' = exit /\ exit \in {"clean", "unclean"}
          /\ SuccessfulExit(unit, exit) => exit' = "clean"
      BY <1>2, <2>1 DEF Inspect, SuccessfulExit, WritersStopped
    <2> QED BY <1>2, <2>2, InspectedKeeps, Zenon DEF Inspect
  <1> QED BY <1>1, <1>2

LEMMA DrainUnadmittedKeeps == FinalizationInv /\ DrainUnadmitted => FinalizationInv'
  <1> SUFFICES ASSUME FinalizationInv, DrainUnadmitted PROVE FinalizationInv'
    OBVIOUS
  <1>1. exit = "none"
    BY DEF DrainUnadmitted, FinalizationInv, EvidenceInv
  <1>2. /\ unit' \in {"exited", "gone", "lost"} /\ exit' \in {"clean", "unclean"} /\ (exit # "none" => exit' = exit)
        /\ SuccessfulExit(unit, exit') => exit' = "clean"
    BY <1>1 DEF DrainUnadmitted, SuccessfulExit
  <1> QED BY <1>2, InspectedKeeps, Zenon DEF DrainUnadmitted

LEMMA CaptureKeeps == FinalizationInv /\ Capture => FinalizationInv'
  <1> SUFFICES ASSUME FinalizationInv, Capture PROVE FinalizationInv'
    OBVIOUS
  <1>1. UNCHANGED <<unit, exit, work, cap, ack, marks, roots, res, loop, stop, recorded, gate, xfer, led, hold,
                    reader, srv>>
    BY DEF Capture, world, worker
  <1>2. job.pc = "capture" /\ ~Captured /\ unit # "running" /\ (~job.unclean => exit = "clean")
    BY DEF Capture, FinalizationInv, JobInv
  <1>3. job \in Jobs /\ work \in Trees /\ Full(work)
    BY <1>2, Unfrozen DEF FinalizationInv, FinalizationTypes
  <1>4. job' \in Jobs /\ job'.pc = "copy" /\ job'.op = job.op /\ job'.snap = work /\ job'.arg = job.arg
    BY <1>3, Zenon DEF Capture, Jobs, Steps
  <1>5. /\ term' \in {"clean", "unclean"} /\ (term # "none" => term' = term)
        /\ term' = "clean" => exit = "clean"
    BY <1>2 DEF Capture, Termination, FinalizationInv, FinalizationTypes, EvidenceInv
  <1>6. EvidenceInv'
    BY <1>1, <1>2, <1>5 DEF FinalizationInv, EvidenceInv, Captured
  <1>7. JobInv'
    BY <1>1, <1>2, <1>3, <1>4, <1>5 DEF FinalizationInv, JobInv, Freezing, Reclaiming, Captured
  <1>8. ReceiptInv' /\ PhaseInv' /\ MarkInv'
    BY <1>1, <1>4, ReceiptKeeps, PhaseKeeps, MarkKeeps DEF FinalizationInv, FinalizationTypes
  <1>9. WorkerInv' /\ ContentInv' /\ ServerInv'
    BY <1>1, <1>5, ContentKeeps, ServerKeeps DEF FinalizationInv, WorkerInv, Captured, Unreclaimed, Full
  <1>10. FinalizationTypes'
    BY <1>1, <1>4, <1>5 DEF FinalizationInv, FinalizationTypes
  <1> QED BY <1>6, <1>7, <1>8, <1>9, <1>10 DEF FinalizationInv

LEMMA FreezingKeeps == FinalizationInv /\ (CopyRetainedObjects \/ Verify) => FinalizationInv'
  <1> SUFFICES ASSUME FinalizationInv, CopyRetainedObjects \/ Verify PROVE FinalizationInv'
    OBVIOUS
  <1>1. job.pc \in Freezing /\ UNCHANGED <<world, helper, reader, srv>>
    BY DEF CopyRetainedObjects, Verify, Freezing
  <1>2. term # "none" /\ job.op \notin {"ack", "cleanup"}
    BY <1>1 DEF FinalizationInv, JobInv, Freezing
  <1>3. CASE Reply("pending")
    BY <1>1, <1>2, <1>3, ReplyKeeps
  <1>4. ASSUME NEW p \in {"verify", "rename"}, Continue(p), UNCHANGED worker PROVE FinalizationInv'
    BY <1>1, <1>2, <1>4, ContinueKeeps DEF Freezing, Reclaiming, Steps
  <1> QED BY <1>3, <1>4 DEF CopyRetainedObjects, Verify

LEMMA PublishKeeps == FinalizationInv /\ Publish => FinalizationInv'
  <1> SUFFICES ASSUME FinalizationInv, Publish PROVE FinalizationInv'
    OBVIOUS
  <1>1. UNCHANGED <<unit, exit, work, term, ack, marks, roots, res, reader, srv>>
    BY DEF Publish, world
  <1>2. job.pc = "rename" /\ ~Captured /\ term # "none" /\ Full(job.snap) /\ job.snap \in Trees
    BY DEF Publish, FinalizationInv, JobInv, Freezing, FinalizationTypes, Jobs
  <1>3. cap' \in Captures /\ cap'.state = "local_durable" /\ cap'.tree = job.snap /\ cap'.objs = job.snap
    BY <1>2 DEF Publish, Captures, Phases
  <1>a. Captured' /\ ~CanDeleteSession'
    BY <1>3 DEF Captured, CanDeleteSession, Terminal
  <1>4. WorkerInv' /\ job' = Idle /\ led' = led /\ gate' \in {"free", "loop", "stop"}
    BY <1>1, <1>2, <1>a, ReplyWorker DEF Publish, Unreclaimed
  <1>5. EvidenceInv'
    BY <1>1, <1>2, <1>a, EvidenceKeeps DEF FinalizationInv
  <1>6. JobInv' /\ ReceiptInv'
    BY <1>1, <1>4, IdleKeeps, ReceiptKeeps DEF FinalizationInv, FinalizationTypes
  <1>7. PhaseInv' /\ MarkInv'
    BY <1>1, <1>2, <1>3, Unfrozen DEF PhaseInv, MarkInv, Terminal
  <1>8. ContentInv'
    BY <1>1, <1>2, <1>3, <1>a, Unfrozen DEF ContentInv, Full
  <1>9. ServerInv'
    BY <1>1, <1>2, <1>a, Unfrozen DEF FinalizationInv, ServerInv, Full
  <1>10. FinalizationTypes'
    BY <1>1, <1>3, <1>4, IdleType DEF FinalizationInv, FinalizationTypes
  <1> QED BY <1>4, <1>5, <1>6, <1>7, <1>8, <1>9, <1>10 DEF FinalizationInv

LEMMA StopFrozenKeeps == FinalizationInv /\ (StopCaptured \/ StopPreviousBoot) => FinalizationInv'
  <1> SUFFICES ASSUME FinalizationInv, StopCaptured \/ StopPreviousBoot PROVE FinalizationInv'
    OBVIOUS
  <1>1. job.op = "stop" /\ UNCHANGED <<world, helper, reader, srv>>
    BY DEF StopCaptured, StopPreviousBoot
  <1>2. CASE Reply("ok")
    BY <1>1, <1>2, ReplyKeeps
  <1>3. ASSUME NEW p \in {"wipe", "start"}, Continue(p), CanDeleteSession, UNCHANGED worker PROVE FinalizationInv'
    BY <1>1, <1>3, ContinueKeeps DEF Freezing, Reclaiming, Steps
  <1> QED BY <1>2, <1>3 DEF StopCaptured, StopPreviousBoot

-----------------------------------------------------------------------------
(* The Helper's journal of receipts. *)

\* One phase on the path to a receipt's state is on that path again, and is
\* covered by the receipt.
LEMMA PathStep ==
  ASSUME NEW c \in Phases \ {"none"}, NEW r \in Slips, NEW u \in BOOLEAN, r.pub # "none" => r.ckpt,
         AcknowledgementPath(c, State(r, u), u), c # State(r, u),
         NEW n, n = NextPhase(c, State(r, u), u)
  PROVE  /\ c \notin Terminal /\ n \in Phases \ {"none"} /\ AcknowledgementPath(n, State(r, u), u)
         /\ n \in Terminal => r.pub = n
         /\ n \in {"persisted", "persisted_unclean"} => r.ckpt
  <1> DEFINE t == State(r, u)
  <1>1. /\ t \in {"upload_pending", "persisted", "persisted_unclean"} \cup Terminal
        /\ t \in Terminal => r.pub = t /\ r.ckpt
        /\ t \in {"persisted", "persisted_unclean"} => r.ckpt
    BY DEF State, Terminal, Slips
  <1>2. AcknowledgementPath(c, t, u) /\ c # t /\ n = NextPhase(c, t, u)
    OBVIOUS
  <1> HIDE DEF t
  <1>3. c \in {"local_durable", "upload_pending", "persisted", "persisted_unclean"} \cup Terminal
    BY DEF Phases
  <1>4. NextPhase("none", t, u) = "none"
    BY DEF NextPhase, AllowedTransition
  <1>5. \A p \in Terminal : NextPhase(p, t, u) = "none"
    BY DEF NextPhase, AllowedTransition, Terminal
  <1>6. c \notin Terminal
    <2> SUFFICES ASSUME c \in Terminal PROVE FALSE
      OBVIOUS
    <2>1. NextPhase(c, t, u) = "none" /\ t # "none"
      BY <1>1, <1>5 DEF Terminal
    <2>2. t \in {c, "none"}
      BY <1>2, <1>4, <2>1 DEF AcknowledgementPath
    <2> QED BY <1>2, <2>1, <2>2
  <1>7. CASE c = "local_durable"
    <2>1. n = "upload_pending"
      BY <1>2, <1>7 DEF NextPhase, AllowedTransition
    <2>2. AcknowledgementPath(n, t, u)
      BY <1>2, <1>7, <2>1 DEF AcknowledgementPath
    <2> QED BY <1>6, <2>1, <2>2 DEF Phases, Terminal, t
  <1>8. CASE c = "upload_pending"
    <2>1. n = IF u THEN "persisted_unclean" ELSE "persisted"
      BY <1>2, <1>8 DEF NextPhase, AllowedTransition
    <2>2. AcknowledgementPath(n, t, u)
      BY <1>2, <1>8, <2>1 DEF AcknowledgementPath
    <2>3. r.ckpt
      BY <1>1, <1>2, <1>8 DEF Terminal
    <2> QED BY <1>6, <2>1, <2>2, <2>3 DEF Phases, Terminal, t
  <1>9. CASE c \in {"persisted", "persisted_unclean"}
    <2>1. n \in {t, "none"}
      BY <1>2, <1>9 DEF NextPhase
    <2>2. n = t
      BY <1>1, <1>2, <1>4, <2>1 DEF AcknowledgementPath
    <2>3. AcknowledgementPath(n, t, u)
      BY <2>2 DEF AcknowledgementPath
    <2>4. n \in Terminal
      BY <1>2, <1>9, <2>2, <1>1 DEF NextPhase, AllowedTransition, Terminal
    <2> QED BY <1>1, <1>6, <2>2, <2>3, <2>4 DEF Phases, Terminal, t
  <1> QED BY <1>3, <1>6, <1>7, <1>8, <1>9

LEMMA AcknowledgeKeeps == FinalizationInv /\ Acknowledge => FinalizationInv'
  <1> SUFFICES ASSUME FinalizationInv, Acknowledge PROVE FinalizationInv'
    OBVIOUS
  <1>1. CASE Reply("error") /\ UNCHANGED ack
    <2>1. UNCHANGED <<world, helper, reader, srv>>
      BY <1>1 DEF Acknowledge, helper
    <2> QED BY <1>1, <2>1, ReplyKeeps
  <1>2. CASE /\ AcknowledgementPath(cap.state, State(job.arg, Unclean), Unclean) /\ Follows(job.arg, ack)
             /\ ack' = job.arg /\ Continue("advance") /\ UNCHANGED worker
    <2>1. UNCHANGED <<unit, exit, work, term, cap, marks, roots, res, loop, stop, recorded, gate, xfer, led, hold,
                      reader, srv>>
      BY <1>2 DEF Acknowledge, world, worker
    <2>2. job \in Jobs /\ job.op = "ack"
      BY DEF FinalizationInv, FinalizationTypes, Acknowledge
    <2>3. job' \in Jobs /\ job'.pc = "advance" /\ job'.op = "ack" /\ job'.arg = job.arg
      BY <1>2, <2>2, ContinueType DEF Steps
    <2>4. job.arg \in Slips
      BY <2>2 DEF Jobs
    <2>5. EvidenceInv' /\ ContentInv' /\ MarkInv' /\ ServerInv'
      BY <2>1, EvidenceKeeps, ContentKeeps, MarkKeeps, ServerKeeps
         DEF FinalizationInv, EvidenceInv, Captured, Unreclaimed
    <2>6. WorkerInv'
      BY <2>1, WorkerKeeps DEF FinalizationInv
    <2>7. JobInv'
      BY <1>2, <2>1, <2>2, <2>3, Zenon DEF FinalizationInv, JobInv, Freezing, Reclaiming, Captured, Unclean
    <2>8. ReceiptInv'
      BY <1>2, <2>1, <2>3 DEF FinalizationInv, ReceiptInv, Covered
    <2>9. PhaseInv'
      BY <1>2, <2>1 DEF FinalizationInv, PhaseInv, Follows, ReceiptFollows, Terminal
    <2>10. FinalizationTypes'
      BY <1>2, <2>1, <2>3, <2>4 DEF FinalizationInv, FinalizationTypes
    <2> QED BY <2>5, <2>6, <2>7, <2>8, <2>9, <2>10 DEF FinalizationInv
  <1> QED BY <1>1, <1>2 DEF Acknowledge

LEMMA AdvanceKeeps == FinalizationInv /\ AdvanceFinalization => FinalizationInv'
  <1> SUFFICES ASSUME FinalizationInv, AdvanceFinalization PROVE FinalizationInv'
    OBVIOUS
  <1> DEFINE t == State(job.arg, Unclean)
             n == NextPhase(cap.state, t, Unclean)
  <1>1. CASE Reply("ok") /\ UNCHANGED cap
    <2>1. UNCHANGED <<world, helper, reader, srv>>
      BY <1>1 DEF AdvanceFinalization, helper
    <2> QED BY <1>1, <2>1, ReplyKeeps
  <1>2. CASE cap.state # t /\ cap' = [cap EXCEPT !.state = n] /\ UNCHANGED <<job, worker>>
    <2>1. UNCHANGED <<unit, exit, work, term, ack, marks, roots, res, job, loop, stop, recorded, gate, xfer, led, hold,
                      reader, srv>>
      BY <1>2 DEF AdvanceFinalization, world, worker
    <2>2. /\ job.op = "ack" /\ job.pc = "advance" /\ Captured /\ ack = job.arg
          /\ AcknowledgementPath(cap.state, t, Unclean) /\ job.arg \in Slips /\ cap \in Captures
      BY DEF FinalizationInv, FinalizationTypes, JobInv, AdvanceFinalization, Jobs
    <2>3. /\ cap.state \in Phases \ {"none"} /\ Unclean \in BOOLEAN
          /\ job.arg.pub # "none" => job.arg.ckpt
      BY <2>2 DEF FinalizationInv, ReceiptInv, Covered, Captures, Captured, Unclean
    <2>4. /\ cap.state \notin Terminal /\ n \in Phases \ {"none"} /\ AcknowledgementPath(n, t, Unclean)
          /\ n \in Terminal => ack.pub = n
          /\ n \in {"persisted", "persisted_unclean"} => ack.ckpt
      BY <1>2, <2>2, <2>3, PathStep
    <2> HIDE DEF n
    <2>5. cap' \in Captures /\ cap'.state = n /\ cap'.tree = cap.tree /\ cap'.objs = cap.objs
      BY <1>2, <2>2, <2>4 DEF Captures
    <2>6. Captured' /\ term # "none" /\ ~CanDeleteSession
      BY <2>2, <2>4, <2>5 DEF Captured, FinalizationInv, EvidenceInv, CanDeleteSession
    <2>7. EvidenceInv' /\ ServerInv'
      BY <2>1, <2>5, <2>6, EvidenceKeeps, ServerKeeps, Zenon DEF FinalizationInv, Captured
    <2>8. JobInv'
      BY <2>1, <2>2, <2>4, <2>5, <2>6 DEF JobInv, Freezing, Reclaiming, Unclean
    <2>9. ReceiptInv' /\ PhaseInv'
      BY <2>1, <2>4, <2>5, ReceiptKeeps DEF FinalizationInv, FinalizationTypes, PhaseInv
    <2>10. WorkerInv'
      BY <2>1, <2>6, Zenon DEF FinalizationInv, WorkerInv, Unreclaimed, Full
    <2>11. ContentInv'
      BY <2>1, <2>2, <2>5, <2>6 DEF FinalizationInv, ContentInv, Unreclaimed, Full
    <2>12. MarkInv'
      BY <2>1, <2>6 DEF FinalizationInv, MarkInv
    <2>13. FinalizationTypes'
      BY <2>1, <2>5 DEF FinalizationInv, FinalizationTypes
    <2> QED BY <2>7, <2>8, <2>9, <2>10, <2>11, <2>12, <2>13 DEF FinalizationInv
  <1> QED BY <1>1, <1>2 DEF AdvanceFinalization

-----------------------------------------------------------------------------
(* The Helper cleans up and reclaims. *)

LEMMA CleanupStartKeeps == FinalizationInv /\ CleanupStart => FinalizationInv'
  <1> SUFFICES ASSUME FinalizationInv, CleanupStart PROVE FinalizationInv'
    OBVIOUS
  <1>1. job.pc = "start" /\ UNCHANGED <<world, helper, reader, srv>>
    BY DEF CleanupStart
  <1>2. ASSUME NEW out \in {"ok", "error"}, Reply(out) PROVE FinalizationInv'
    BY <1>1, <1>2, ReplyKeeps
  <1>3. CASE CanDeleteSession /\ Continue("remove") /\ UNCHANGED worker
    <2>1. job.op # "ack"
      BY <1>1 DEF FinalizationInv, JobInv
    <2> QED BY <1>1, <1>3, <2>1, ContinueKeeps DEF Freezing, Reclaiming, Steps
  <1> QED BY <1>2, <1>3 DEF CleanupStart

LEMMA RemovingKeeps ==
  ASSUME FinalizationInv, NEW r, NEW before, Removing(r, before)
  PROVE  FinalizationInv'
  <1>1. /\ UNCHANGED <<unit, exit, work, term, cap, ack, marks, roots, job, loop, stop, recorded, gate, xfer, led, hold,
                       reader, srv>>
        /\ res' \subseteq res
    BY DEF Removing, world, worker
  <1>2. EvidenceInv' /\ PhaseInv' /\ ContentInv' /\ MarkInv' /\ ServerInv' /\ ReceiptInv'
    BY <1>1, EvidenceKeeps, PhaseKeeps, ContentKeeps, MarkKeeps, ServerKeeps, ReceiptKeeps
       DEF FinalizationInv, FinalizationTypes, EvidenceInv, Captured, Unreclaimed
  <1>3. JobInv' /\ WorkerInv'
    BY <1>1, JobKeeps, WorkerKeeps DEF FinalizationInv
  <1>4. FinalizationTypes'
    BY <1>1 DEF FinalizationInv, FinalizationTypes
  <1> QED BY <1>2, <1>3, <1>4 DEF FinalizationInv

\* A mark is written with the reply.
LEMMA MarkedReplyKeeps ==
  ASSUME FinalizationInv, NEW out \in {"ok", "error"}, Reply(out), MarkInv', Unreclaimed' <=> Unreclaimed,
         UNCHANGED <<world, term, cap, ack, roots, res, reader, srv>>
  PROVE  FinalizationInv'
  <1>1. UNCHANGED <<unit, exit, work, term, cap, ack, roots, res, reader, srv>>
    BY DEF world
  <1>2. WorkerInv' /\ job' = Idle /\ led' = led /\ gate' \in {"free", "loop", "stop"}
    BY <1>1, ReplyWorker DEF FinalizationInv, EvidenceInv, Captured
  <1>3. EvidenceInv' /\ PhaseInv' /\ ContentInv' /\ ServerInv'
    BY <1>1, EvidenceKeeps, PhaseKeeps, ContentKeeps, ServerKeeps, Zenon DEF FinalizationInv, EvidenceInv, Captured
  <1>4. JobInv' /\ ReceiptInv'
    BY <1>1, <1>2, IdleKeeps, ReceiptKeeps DEF FinalizationInv, FinalizationTypes
  <1>5. FinalizationTypes'
    BY <1>1, <1>2, IdleType DEF FinalizationInv, FinalizationTypes
  <1> QED BY <1>2, <1>3, <1>4, <1>5 DEF FinalizationInv

LEMMA CleanupDoneKeeps == FinalizationInv /\ CleanupDone => FinalizationInv'
  <1> SUFFICES ASSUME FinalizationInv, CleanupDone PROVE FinalizationInv'
    OBVIOUS
  <1>1. /\ UNCHANGED <<cap, roots, res, srv>> /\ CanDeleteSession
        /\ marks' = marks \/ (res = {} /\ marks' = marks \cup {"cleaned"})
    BY DEF CleanupDone, FinalizationInv, JobInv
  <1>2. MarkInv' /\ (Unreclaimed' <=> Unreclaimed)
    BY <1>1 DEF FinalizationInv, MarkInv, CanDeleteSession, Unreclaimed
  <1> QED BY <1>2, MarkedReplyKeeps DEF CleanupDone

LEMMA RetainReclaimedKeeps == FinalizationInv /\ RetainReclaimed => FinalizationInv'
  <1> SUFFICES ASSUME FinalizationInv, RetainReclaimed PROVE FinalizationInv'
    OBVIOUS
  <1>1. /\ UNCHANGED <<cap, roots, res, srv>> /\ "intent" \in marks
        /\ marks' = marks \/ (roots = {} /\ marks' = marks \cup {"done"})
    BY DEF RetainReclaimed, FinalizationInv, JobInv, Reclaiming
  <1>2. MarkInv' /\ (Unreclaimed' <=> Unreclaimed)
    BY <1>1 DEF FinalizationInv, MarkInv, CanDeleteSession, Unreclaimed
  <1> QED BY <1>2, MarkedReplyKeeps DEF RetainReclaimed

LEMMA ReclamationProofKeeps == FinalizationInv /\ ReclamationProof => FinalizationInv'
  <1> SUFFICES ASSUME FinalizationInv, ReclamationProof PROVE FinalizationInv'
    OBVIOUS
  <1>1. job.op = "reclaim" /\ UNCHANGED <<world, helper, reader, srv>>
    BY DEF ReclamationProof
  <1>2. CASE Reply("error")
    BY <1>1, <1>2, ReplyKeeps
  <1>3. CASE RuntimeCleaned /\ Unreclaimed /\ Continue("authorize") /\ UNCHANGED worker
    BY <1>1, <1>3, ContinueKeeps DEF RuntimeCleaned, Freezing, Reclaiming, Steps
  <1>4. CASE ~Unreclaimed /\ Continue("scan") /\ UNCHANGED worker
    BY <1>1, <1>4, ContinueKeeps DEF Unreclaimed, Freezing, Reclaiming, Steps
  <1> QED BY <1>2, <1>3, <1>4 DEF ReclamationProof

LEMMA AuthorizeKeeps == FinalizationInv /\ Authorize => FinalizationInv'
  <1> SUFFICES ASSUME FinalizationInv, Authorize PROVE FinalizationInv'
    OBVIOUS
  <1>1. job.pc = "authorize" /\ UNCHANGED <<world, helper, reader, srv>>
    BY DEF Authorize
  <1>2. CASE Reply("error")
    BY <1>1, <1>2, ReplyKeeps
  <1>3. CASE /\ srv.status = "committed" /\ Match(srv.pub, srv.att, ack)
             /\ job' = [job EXCEPT !.pc = "mark", !.auth = srv.pub] /\ UNCHANGED worker
    <2>1. UNCHANGED <<unit, exit, work, term, cap, ack, marks, roots, res, loop, stop, recorded, gate, xfer, led, hold>>
      BY <1>1, <1>3 DEF world, helper, worker
    <2>2. srv.pub \in Terminal /\ job \in Jobs
      BY <1>3 DEF Match, FinalizationInv, FinalizationTypes
    <2>3. /\ job' \in Jobs /\ job'.pc = "mark" /\ job'.op = job.op /\ job'.arg = job.arg /\ job'.auth = srv.pub
      BY <1>3, <2>2, Zenon DEF Jobs, Steps
    <2>4. job.op \notin {"ack", "cleanup"} /\ "cleaned" \in marks
      BY <1>1 DEF FinalizationInv, JobInv
    <2>5. EvidenceInv' /\ PhaseInv' /\ ContentInv' /\ MarkInv' /\ ServerInv'
      BY <1>1, StillKeeps
    <2>6. JobInv'
      BY <1>1, <1>3, <2>1, <2>2, <2>3, <2>4 DEF JobInv, Freezing, Reclaiming, Terminal
    <2>7. ReceiptInv'
      BY <1>1, <2>1, <2>3, ReceiptKeeps DEF FinalizationInv, FinalizationTypes
    <2>8. WorkerInv'
      BY <1>1, <2>1, WorkerKeeps DEF FinalizationInv
    <2>9. FinalizationTypes'
      BY <1>1, <2>1, <2>3 DEF FinalizationInv, FinalizationTypes
    <2> QED BY <2>5, <2>6, <2>7, <2>8, <2>9 DEF FinalizationInv
  <1> QED BY <1>2, <1>3 DEF Authorize

LEMMA MarkReclamationKeeps == FinalizationInv /\ MarkReclamation => FinalizationInv'
  <1> SUFFICES ASSUME FinalizationInv, MarkReclamation PROVE FinalizationInv'
    OBVIOUS
  <1>1. job.op = "reclaim" /\ job.pc = "mark"
    BY DEF MarkReclamation
  <1>2. CASE Reply("error") /\ UNCHANGED marks
    <2>1. UNCHANGED <<world, helper, reader, srv>>
      BY <1>2 DEF MarkReclamation, helper
    <2> QED BY <1>2, <2>1, ReplyKeeps
  <1>3. CASE /\ ~ContentHeld /\ job.auth # "conflicted" /\ marks' = marks \cup {"intent"}
             /\ job' = [job EXCEPT !.pc = "scan", !.auth = "none"] /\ UNCHANGED worker
    <2>1. UNCHANGED <<unit, exit, work, term, cap, ack, roots, res, loop, stop, recorded, gate, xfer, led, hold,
                      reader, srv>>
      BY <1>3 DEF MarkReclamation, world, worker
    <2>2. /\ "cleaned" \in marks /\ srv.status = "committed" /\ srv.pub \in {"published", "detached"}
          /\ job \in Jobs /\ ~hold /\ reader \notin {"held", "open"}
      BY <1>1, <1>3 DEF FinalizationInv, FinalizationTypes, JobInv, ContentHeld
    <2>3. job' \in Jobs /\ job'.pc = "scan" /\ job'.op = "reclaim" /\ job'.arg = job.arg
      BY <1>1, <1>3, <2>2, Zenon DEF Jobs, Steps
    <2>4. ~Unreclaimed' /\ "intent" \in marks'
      BY <1>3 DEF Unreclaimed
    <2>5. EvidenceInv' /\ PhaseInv' /\ ServerInv' /\ ReceiptInv'
      BY <2>1, <2>3, EvidenceKeeps, PhaseKeeps, ServerKeeps, ReceiptKeeps, Zenon
         DEF FinalizationInv, FinalizationTypes, EvidenceInv, Captured
    <2>6. JobInv'
      BY <2>3, <2>4 DEF JobInv, Freezing, Reclaiming
    <2>7. WorkerInv'
      BY <2>1, <2>2 DEF FinalizationInv, WorkerInv, Captured, Full
    <2>8. ContentInv'
      BY <2>1, <2>2, <2>4 DEF FinalizationInv, ContentInv, Captured, Full
    <2>9. MarkInv'
      BY <1>3, <2>1, <2>2 DEF FinalizationInv, MarkInv, CanDeleteSession
    <2>10. FinalizationTypes'
      BY <2>1, <2>3 DEF FinalizationInv, FinalizationTypes
    <2> QED BY <2>5, <2>6, <2>7, <2>8, <2>9, <2>10 DEF FinalizationInv
  <1> QED BY <1>2, <1>3 DEF MarkReclamation

LEMMA ScanKeeps == FinalizationInv /\ Scan => FinalizationInv'
  <1> SUFFICES ASSUME FinalizationInv, Scan PROVE FinalizationInv'
    OBVIOUS
  <1>1. job.op = "reclaim" /\ job.pc = "scan" /\ UNCHANGED <<world, helper, reader, srv>>
    BY DEF Scan
  <1>2. "intent" \in marks
    BY <1>1 DEF FinalizationInv, JobInv, Reclaiming
  <1>3. CASE Reply("error")
    BY <1>1, <1>3, ReplyKeeps
  <1>4. ASSUME NEW p \in {"complete", "work"}, Continue(p), UNCHANGED worker PROVE FinalizationInv'
    BY <1>1, <1>2, <1>4, ContinueKeeps DEF Freezing, Reclaiming, Steps
  <1> QED BY <1>3, <1>4 DEF Scan

\* Only the two trees change.
LEMMA TreesKeep ==
  ASSUME FinalizationInv, UNCHANGED <<unit, exit, term, ack, marks, roots, res, job, worker, reader, srv>>,
         work' \in Trees, cap' \in Captures, cap'.state = cap.state, cap'.tree = cap.tree,
         Unreclaimed => cap' = cap /\ Full(work'),
         \A f \in Files : cap'.objs[f] \in {cap.objs[f], Gone},
         ~Captured => cap' = cap, reader = "late" => cap'.objs[N] = cap.objs[N]
  PROVE  FinalizationInv'
  <1>1. UNCHANGED <<loop, stop, recorded, gate, xfer, led, hold>>
    BY Zenon DEF worker
  <1>2. EvidenceInv' /\ PhaseInv' /\ MarkInv' /\ ServerInv' /\ ReceiptInv'
    BY <1>1, EvidenceKeeps, PhaseKeeps, MarkKeeps, ServerKeeps, ReceiptKeeps
       DEF FinalizationInv, FinalizationTypes, EvidenceInv, Captured
  <1>3. JobInv' /\ WorkerInv'
    BY <1>1, JobKeeps, WorkerKeeps DEF FinalizationInv
  <1>4. ContentInv'
    BY DEF FinalizationInv, ContentInv, Captured, Unreclaimed, Full
  <1>5. FinalizationTypes'
    BY <1>1 DEF FinalizationInv, FinalizationTypes
  <1> QED BY <1>2, <1>3, <1>4, <1>5 DEF FinalizationInv

LEMMA DeleteWorkKeeps == FinalizationInv /\ DeleteWork => FinalizationInv'
  <1> SUFFICES ASSUME FinalizationInv, DeleteWork PROVE FinalizationInv'
    OBVIOUS
  <1>1. job.op = "reclaim" /\ job.pc = "work" /\ UNCHANGED <<unit, exit, helper, reader, srv>>
    BY DEF DeleteWork
  <1>2. "intent" \in marks /\ work \in Trees /\ cap \in Captures
    BY <1>1 DEF FinalizationInv, FinalizationTypes, JobInv, Reclaiming
  <1>3. CASE Reply("error") /\ UNCHANGED work
    BY <1>1, <1>3, ReplyKeeps DEF world
  <1>4. CASE work' = [work EXCEPT ![First(work)] = Gone] /\ UNCHANGED <<job, worker>>
    <2>1. work' \in Trees
      BY <1>2, <1>4, Zenon DEF Trees
    <2> QED BY <1>1, <1>2, <1>4, <2>1, TreesKeep DEF helper, Unreclaimed
  <1> QED BY <1>3, <1>4 DEF DeleteWork

LEMMA DeleteObjectKeeps == FinalizationInv /\ DeleteObject => FinalizationInv'
  <1> SUFFICES ASSUME FinalizationInv, DeleteObject PROVE FinalizationInv'
    OBVIOUS
  <1>1. job.op = "reclaim" /\ job.pc = "objects" /\ UNCHANGED <<world, term, ack, marks, roots, res, reader, srv>>
    BY DEF DeleteObject
  <1>2. "intent" \in marks /\ work \in Trees /\ cap \in Captures /\ cap.objs # NoTree
    BY <1>1 DEF FinalizationInv, FinalizationTypes, JobInv, Reclaiming, DeleteObject
  <1>3. CASE Reply("error") /\ UNCHANGED cap
    BY <1>1, <1>3, ReplyKeeps, Zenon DEF helper
  <1>4. CASE /\ ~(reader = "late" /\ First(cap.objs) = N)
             /\ cap' = [cap EXCEPT !.objs[First(cap.objs)] = Gone] /\ UNCHANGED <<job, worker>>
    <2>1. cap.objs \in Trees
      BY <1>2 DEF Captures
    <2>2. cap'.state = cap.state /\ cap'.tree = cap.tree /\ cap'.objs = [cap.objs EXCEPT ![First(cap.objs)] = Gone]
      BY <1>2, <1>4 DEF Captures
    <2>3. [cap.objs EXCEPT ![First(cap.objs)] = Gone] \in Trees
      BY <2>1, Zenon DEF Trees
    <2>4. cap' \in Captures
      BY <1>2, <1>4, <2>2, <2>3 DEF Captures
    <2>5. /\ \A f \in Files : cap'.objs[f] \in {cap.objs[f], Gone}
          /\ reader = "late" => cap'.objs[N] = cap.objs[N]
      <3>1. N \in Files
        BY FinalizationAssumption DEF Files
      <3> QED BY <1>4, <2>1, <2>2, <3>1 DEF Trees
    <2>6. Captured
      BY <1>2 DEF FinalizationInv, ContentInv
    <2>7. ~Unreclaimed
      BY <1>2 DEF Unreclaimed
    <2>8. UNCHANGED <<unit, exit, work, term, ack, marks, roots, res, job, worker, reader, srv>>
      BY <1>1, <1>4 DEF world
    <2> QED BY <1>2, <2>2, <2>4, <2>5, <2>6, <2>7, <2>8, TreesKeep
  <1> QED BY <1>3, <1>4 DEF DeleteObject

LEMMA RemoveRootKeeps == FinalizationInv /\ RemoveRoot => FinalizationInv'
  <1> SUFFICES ASSUME FinalizationInv, RemoveRoot PROVE FinalizationInv'
    OBVIOUS
  <1>1. /\ UNCHANGED <<unit, exit, work, term, cap, ack, marks, res, loop, stop, recorded, gate, xfer, led, hold,
                       reader, srv>>
        /\ roots' \subseteq roots
    BY DEF RemoveRoot, world, worker
  <1>2. job.op = "reclaim" /\ job.pc \in Reclaiming /\ job \in Jobs
    BY DEF RemoveRoot, Reclaiming, FinalizationInv, FinalizationTypes
  <1>3. PICK p \in {"objects", "complete"} : Continue(p)
    BY DEF RemoveRoot
  <1>4. job' \in Jobs /\ job'.pc \in Reclaiming /\ job'.op = "reclaim" /\ job'.arg = job.arg
    BY <1>2, <1>3, ContinueType, Zenon DEF Steps, Reclaiming
  <1>5. EvidenceInv' /\ PhaseInv' /\ ContentInv' /\ MarkInv' /\ ServerInv' /\ ReceiptInv'
    BY <1>1, <1>4, EvidenceKeeps, PhaseKeeps, ContentKeeps, MarkKeeps, ServerKeeps, ReceiptKeeps
       DEF FinalizationInv, FinalizationTypes, EvidenceInv, Captured, Unreclaimed
  <1>6. "intent" \in marks
    BY <1>2 DEF FinalizationInv, JobInv
  <1>7. JobInv'
    BY <1>1, <1>4, <1>6, Zenon DEF JobInv, Freezing, Reclaiming
  <1>8. WorkerInv'
    BY <1>1, WorkerKeeps DEF FinalizationInv
  <1>9. FinalizationTypes'
    BY <1>1, <1>4 DEF FinalizationInv, FinalizationTypes
  <1> QED BY <1>5, <1>7, <1>8, <1>9 DEF FinalizationInv

\* A request that is cancelled, fails, or dies with the Helper.
LEMMA FailureKeeps == FinalizationInv /\ (Abandon \/ RequestFails \/ CrashHelper) => FinalizationInv'
  <1> SUFFICES ASSUME FinalizationInv, Abandon \/ RequestFails \/ CrashHelper PROVE FinalizationInv'
    OBVIOUS
  <1>1. UNCHANGED <<world, helper, reader, srv>>
    BY DEF Abandon, RequestFails, CrashHelper
  <1>2. CASE Reply("error")
    BY <1>1, <1>2, ReplyKeeps
  <1>3. CASE job.pc \in {"copy", "verify", "rename"} /\ Reply("pending")
    BY <1>1, <1>3, ReplyKeeps, Zenon DEF FinalizationInv, JobInv, Freezing
  <1> QED BY <1>2, <1>3 DEF Abandon, RequestFails, CrashHelper

LEMMA HelperKeeps == FinalizationInv /\ HelperStep => FinalizationInv'
  <1> SUFFICES ASSUME FinalizationInv, HelperStep PROVE FinalizationInv'
    OBVIOUS
  <1>1. CASE StopWriters \/ StopCaptured \/ StopPreviousBoot \/ Inspect \/ DrainUnadmitted
               \/ Capture \/ CopyRetainedObjects \/ Verify \/ Publish
    BY <1>1, StopWritersKeeps, StopFrozenKeeps, InspectKeeps, DrainUnadmittedKeeps, CaptureKeeps, FreezingKeeps, PublishKeeps
  <1>2. CASE Acknowledge \/ AdvanceFinalization \/ CleanupStart \/ CleanupDone \/ ReclamationProof \/ Authorize
    BY <1>2, AcknowledgeKeeps, AdvanceKeeps, CleanupStartKeeps, CleanupDoneKeeps, ReclamationProofKeeps, AuthorizeKeeps
  <1>3. CASE RemoveMounts \/ RemoveNetwork \/ RemoveRuntimeRoot
    BY <1>3, RemovingKeeps DEF RemoveMounts, RemoveNetwork, RemoveRuntimeRoot
  <1>4. CASE MarkReclamation \/ Scan \/ DeleteWork \/ DeleteObject \/ RemoveRoot \/ RetainReclaimed \/ Abandon
    BY <1>4, MarkReclamationKeeps, ScanKeeps, DeleteWorkKeeps, DeleteObjectKeeps, RemoveRootKeeps,
       RetainReclaimedKeeps, FailureKeeps
  <1> QED BY <1>1, <1>2, <1>3, <1>4 DEF HelperStep

-----------------------------------------------------------------------------
(* The transfer. *)

\* What the Server never takes back.
Grows(s) ==
    /\ srv.up <= s.up
    /\ srv.status = "committed" => s.status = "committed" /\ s.up = srv.up
    /\ srv.pub # "none" => s.pub # "none" /\ srv.att <= s.att
    /\ srv.pub \in {"published", "detached"} => s.pub \in {"published", "detached"}

LEMMA ServerMoves ==
  ASSUME FinalizationInv, UNCHANGED <<world, helper, reader>>, job' = job,
         srv' \in Servers, Grows(srv'), led' \in Slips, Covered(led)', gate' \in {"free", "loop", "stop"},
         WorkerInv', ServerInv'
  PROVE  FinalizationInv'
  <1>1. UNCHANGED <<unit, exit, work, term, cap, ack, marks, roots, res>>
    BY DEF world, helper
  <1>2. EvidenceInv' /\ PhaseInv' /\ ContentInv'
    BY <1>1, EvidenceKeeps, PhaseKeeps, ContentKeeps, Zenon DEF FinalizationInv, EvidenceInv, Captured, Unreclaimed
  <1>3. MarkInv' /\ JobInv'
    BY <1>1 DEF FinalizationInv, MarkInv, JobInv, Grows, CanDeleteSession, Captured, Unclean, Full
  <1>4. ASSUME NEW r \in Slips, Covered(r) PROVE r.up <= srv'.up /\ (r.ckpt => srv'.status = "committed" /\ r.up = srv'.up)
                                                /\ (r.pub # "none" => r.ckpt /\ srv'.pub # "none" /\ r.att <= srv'.att)
    <2>1. /\ r.up \in Nat /\ r.att \in Int /\ srv.up \in Nat /\ srv.att \in Int /\ srv'.up \in Nat /\ srv'.att \in Int
      BY <1>4 DEF FinalizationInv, FinalizationTypes, Slips, Servers
    <2> QED BY <1>4, <2>1 DEF Covered, Grows
  <1>5. ack \in Slips /\ job.arg \in Slips
    BY DEF FinalizationInv, FinalizationTypes, Jobs
  <1>6. Covered(ack)' /\ Covered(job.arg)'
    BY <1>1, <1>4, <1>5, Zenon DEF FinalizationInv, ReceiptInv, Covered
  <1>7. FinalizationTypes'
    BY <1>1 DEF FinalizationInv, FinalizationTypes
  <1> QED BY <1>2, <1>3, <1>6, <1>7 DEF FinalizationInv, ReceiptInv

LEMMA GrowsSame == srv \in Servers => Grows(srv)
  BY DEF Grows, Servers

\* A step of the worker that leaves the Server and the Helper alone.
LEMMA WorkerMoves ==
  ASSUME FinalizationInv, UNCHANGED <<world, helper, reader, srv>>, job' = job, led' \in {led, NoReceipt},
         gate' \in {"free", "loop", "stop"}, WorkerInv'
  PROVE  FinalizationInv'
  <1>1. srv' \in Servers /\ Grows(srv') /\ led' \in Slips
    BY GrowsSame, NoReceiptType DEF FinalizationInv, FinalizationTypes
  <1>2. ServerInv'
    BY StillKeeps, Zenon
  <1>3. Covered(led)'
    BY <1>1, NoReceiptType DEF FinalizationInv, ReceiptInv, Covered, Servers
  <1> QED BY <1>1, <1>2, <1>3, ServerMoves

LEMMA InTransfer ==
  ASSUME FinalizationInv, xfer # "none"
  PROVE  Captured /\ term # "none"
  BY DEF FinalizationInv, WorkerInv, EvidenceInv

LEMMA EndMoves ==
  ASSUME FinalizationInv, xfer # "none", EndTransfer(FALSE), TransferKeeps, UNCHANGED <<led, srv>>
  PROVE  FinalizationInv'
  <1>1. Captured' /\ term' # "none"
    BY InTransfer DEF TransferKeeps, helper, Captured
  <1>2. WorkerInv' /\ gate' \in {"free", "loop"}
    BY <1>1, EndKeeps, Zenon DEF FinalizationInv, TransferKeeps
  <1> QED BY <1>2, WorkerMoves DEF TransferKeeps

LEMMA ResumeMoves ==
  ASSUME FinalizationInv, xfer # "none", NEW next, Resume(next), TransferKeeps, UNCHANGED <<led, srv>>,
         next \in Uploading => hold, next = "publish" => led.ckpt,
         next = "complete" => Full(srv.files)
  PROVE  FinalizationInv'
  <1>1. Captured' /\ term' # "none" /\ (Unreclaimed => Unreclaimed')
    BY InTransfer DEF TransferKeeps, helper, Captured, Unreclaimed
  <1>2. WorkerInv' /\ gate' = gate
    <2>1. next = "complete" => Full(srv'.files)
      BY DEF Full
    <2> QED BY <1>1, <2>1, ResumeKeeps DEF FinalizationInv, TransferKeeps
  <1> QED BY <1>2, WorkerMoves DEF TransferKeeps, FinalizationInv, FinalizationTypes

\* A call to the Server, answered or not.
LEMMA AnsweredKeeps ==
  ASSUME FinalizationInv, xfer # "none", NEW effect, NEW receipt, NEW next,
         Answered(effect, receipt, next), TransferKeeps,
         effect \in Servers, Grows(effect), srv' = effect => ServerInv',
         receipt \in Slips, srv' = effect /\ led' = receipt => Covered(led)',
         next \in Uploading => hold, next = "publish" => receipt.ckpt, next # "complete"
  PROVE  FinalizationInv'
  <1>1. Captured' /\ term' # "none" /\ (Unreclaimed => Unreclaimed') /\ recorded' = recorded
    BY InTransfer DEF TransferKeeps, helper, Captured, Unreclaimed
  <1>2. UNCHANGED <<world, helper, reader>> /\ job' = job
    BY Zenon DEF TransferKeeps
  <1>3. CASE srv' = effect /\ led' = receipt /\ Resume(next)
    <2>1. WorkerInv' /\ gate' = gate
      BY <1>1, <1>3, ResumeKeeps DEF FinalizationInv
    <2> QED BY <1>2, <1>3, <2>1, ServerMoves DEF FinalizationInv, FinalizationTypes
  <1>4. CASE srv' = effect /\ UNCHANGED led /\ EndTransfer(FALSE)
    <2>1. WorkerInv' /\ gate' \in {"free", "loop"}
      BY <1>1, <1>4, EndKeeps, Zenon DEF FinalizationInv
    <2>2. led \in Slips /\ Covered(led) /\ srv \in Servers
      BY DEF FinalizationInv, FinalizationTypes, ReceiptInv
    <2>3. Covered(led)'
      <3>1. led.up \in Nat /\ led.att \in Int /\ srv.up \in Nat /\ srv.att \in Int /\ effect.up \in Nat /\ effect.att \in Int
        BY <2>2 DEF Slips, Servers
      <3> QED BY <1>4, <2>2, <3>1 DEF Covered, Grows
    <2> QED BY <1>2, <1>4, <2>1, <2>2, <2>3, ServerMoves
  <1>5. CASE UNCHANGED <<led, srv>> /\ EndTransfer(FALSE)
    BY <1>5, EndMoves
  <1> QED BY <1>3, <1>4, <1>5, Zenon DEF Answered

LEMMA ProgressFacts ==
  ASSUME NEW r
  PROVE  /\ Progress(r) \in {"ack", "publish", "open", "hold"}
         /\ Progress(r) = "publish" => r.ckpt
         /\ Progress(r) \in Uploading => hold
  BY AfterReceiptFacts DEF Progress, Uploading

LEMMA ReceiptType ==
  ASSUME led \in Slips, NEW s \in Servers
  PROVE  /\ Receipt(s) \in Slips /\ Receipt(s).up = s.up /\ (Receipt(s).ckpt <=> s.status = "committed")
         /\ Receipt(s).pub = led.pub /\ Receipt(s).att = led.att
  BY Zenon DEF Receipt, Slips, Servers

LEMMA ObserveKeeps == FinalizationInv /\ ObserveTermination => FinalizationInv'
  <1> SUFFICES ASSUME FinalizationInv, ObserveTermination PROVE FinalizationInv'
    OBVIOUS
  <1> DEFINE e == [srv EXCEPT !.told = @ \cup {"exited"}]
  <1>1. xfer = "observe" /\ Answered(e, led, "hold") /\ TransferKeeps
    BY DEF ObserveTermination
  <1>2. srv \in Servers /\ led \in Slips /\ Covered(led) /\ ServerInv
    BY DEF FinalizationInv, FinalizationTypes, ReceiptInv
  <1>3. /\ e \in Servers /\ e.told = srv.told \cup {"exited"} /\ e.up = srv.up /\ e.status = srv.status
        /\ e.files = srv.files /\ e.pub = srv.pub /\ e.att = srv.att
    BY <1>2 DEF Servers
  <1> HIDE DEF e
  <1>4. Grows(e)
    BY <1>2, <1>3 DEF Grows, Servers
  <1>5. srv' = e => ServerInv'
    BY <1>1, <1>2, <1>3, InTransfer, Zenon DEF ServerInv, TransferKeeps, world, helper, Captured, Full
  <1>6. srv' = e /\ led' = led => Covered(led)'
    BY <1>2, <1>3 DEF Covered
  <1> QED BY <1>1, <1>2, <1>3, <1>4, <1>5, <1>6, AnsweredKeeps DEF Uploading

LEMMA GetKeeps == FinalizationInv /\ GetFinalization => FinalizationInv'
  <1> SUFFICES ASSUME FinalizationInv, GetFinalization PROVE FinalizationInv'
    OBVIOUS
  <1> DEFINE r == Receipt(srv)
  <1>1. xfer = "get" /\ Answered(srv, r, Progress(r)) /\ TransferKeeps
    BY DEF GetFinalization
  <1>2. srv \in Servers /\ led \in Slips /\ Covered(led) /\ ServerInv
    BY DEF FinalizationInv, FinalizationTypes, ReceiptInv
  <1>3. /\ r \in Slips /\ r.up = srv.up /\ (r.ckpt <=> srv.status = "committed") /\ r.pub = led.pub /\ r.att = led.att
    BY <1>2, ReceiptType
  <1> HIDE DEF r
  <1>4. srv' = srv => ServerInv'
    BY <1>1, <1>2, ServerKeeps DEF TransferKeeps, world, helper, Captured
  <1>5. srv' = srv /\ led' = r => Covered(led)'
    <2>1. srv.up \in Nat
      BY <1>2 DEF Servers
    <2>2. srv.up <= srv.up
      BY <2>1
    <2> QED BY <1>2, <1>3, <2>2 DEF Covered
  <1> QED BY <1>1, <1>2, <1>3, <1>4, <1>5, GrowsSame, ProgressFacts, AnsweredKeeps

LEMMA BeginKeeps == FinalizationInv /\ Begin => FinalizationInv'
  <1> SUFFICES ASSUME FinalizationInv, Begin PROVE FinalizationInv'
    OBVIOUS
  <1> DEFINE e == Begun
             r == Receipt(e)
  <1>1. xfer = "begin" /\ Answered(e, r, Progress(r)) /\ TransferKeeps
    BY Zenon DEF Begin
  <1>2. srv \in Servers /\ led \in Slips /\ Covered(led) /\ ServerInv
    BY DEF FinalizationInv, FinalizationTypes, ReceiptInv
  <1>3. /\ e \in Servers /\ e.told = srv.told /\ e.pub = srv.pub /\ e.att = srv.att
        /\ \/ /\ srv.status \in {"none", "expired"} /\ e.up = srv.up + 1 /\ e.status = "staged" /\ e.files = NoTree
           \/ e.up = srv.up /\ e.status = srv.status /\ e.files = srv.files
    <2>1. CASE srv.status \in {"none", "expired"}
      <3>1. e = [srv EXCEPT !.up = @ + 1, !.status = "staged", !.files = NoTree]
        BY <2>1 DEF Begun
      <3>2. srv.up + 1 \in Nat /\ NoTree \in Trees
        BY <1>2, NoTreeType DEF Servers
      <3> HIDE DEF e
      <3>3. /\ e.told = srv.told /\ e.pub = srv.pub /\ e.att = srv.att
            /\ e.up = srv.up + 1 /\ e.status = "staged" /\ e.files = NoTree
        BY <1>2, <3>1 DEF Servers
      <3>4. e \in Servers
        BY <1>2, <3>1, <3>2, Zenon DEF Servers
      <3> QED BY <2>1, <3>3, <3>4
    <2>2. CASE srv.status \notin {"none", "expired"}
      BY <1>2, <2>2 DEF Begun
    <2> QED BY <2>1, <2>2, Zenon
  <1>4. /\ r \in Slips /\ r.up = e.up /\ (r.ckpt <=> e.status = "committed") /\ r.pub = led.pub /\ r.att = led.att
    BY <1>2, <1>3, ReceiptType
  <1> HIDE DEF r, e
  <1>5. srv.up \in Nat /\ srv.att \in Int
    BY <1>2 DEF Servers
  <1>6. Grows(e)
    BY <1>3, <1>5 DEF Grows
  <1>7. srv' = e => ServerInv'
    <2> SUFFICES ASSUME srv' = e PROVE ServerInv'
      OBVIOUS
    <2>1. UNCHANGED <<exit, term, cap>>
      BY <1>1, Zenon DEF TransferKeeps, world, helper
    <2>2. CASE srv.status \in {"none", "expired"} /\ e.status = "staged" /\ e.files = NoTree
      BY <1>2, <1>3, <2>1, <2>2, NoTreeType, Zenon DEF ServerInv, Captured
    <2>3. CASE e.status = srv.status /\ e.files = srv.files
      BY <1>2, <1>3, <2>1, <2>3 DEF ServerInv, Captured, Full
    <2> QED BY <1>3, <2>2, <2>3
  <1>8. srv' = e /\ led' = r => Covered(led)'
    <2>1. e.up \in Nat /\ e.up <= e.up
      BY <1>3, <1>5
    <2>2. led.pub # "none" => srv.status = "committed" /\ e.status = "committed" /\ srv.pub # "none" /\ led.att <= srv.att
      BY <1>2, <1>3 DEF Covered
    <2> QED BY <1>3, <1>4, <2>1, <2>2 DEF Covered
  <1> QED BY <1>1, <1>3, <1>4, <1>6, <1>7, <1>8, ProgressFacts, AnsweredKeeps

LEMMA UploadKeeps == FinalizationInv /\ Upload => FinalizationInv'
  <1> SUFFICES ASSUME FinalizationInv, Upload PROVE FinalizationInv'
    OBVIOUS
  <1>1. xfer = "upload" /\ TransferKeeps /\ hold
    BY DEF Upload, FinalizationInv, WorkerInv, Uploading
  <1>2. CASE EndTransfer(FALSE) /\ UNCHANGED <<led, srv>>
    BY <1>1, <1>2, EndMoves
  <1>3. CASE (\A f \in Files : srv.files[f] # Gone) /\ Resume("complete") /\ UNCHANGED <<led, srv>>
    BY <1>1, <1>3, ResumeMoves DEF Full
  <1>4. ASSUME Staged, NEW f, Answered([srv EXCEPT !.files[f] = cap.objs[f]], led, "upload") PROVE FinalizationInv'
    <2> DEFINE e == [srv EXCEPT !.files[f] = cap.objs[f]]
    <2>1. srv \in Servers /\ led \in Slips /\ Covered(led) /\ ServerInv /\ cap \in Captures
      BY DEF FinalizationInv, FinalizationTypes, ReceiptInv
    <2>2. cap.objs = cap.tree /\ cap.tree \in Trees /\ srv.files \in Trees
      BY <1>1, <2>1 DEF FinalizationInv, WorkerInv, ContentInv, Captures, Servers
    <2>3. [srv.files EXCEPT ![f] = cap.objs[f]] \in Trees
      BY <2>2, Zenon DEF Trees
    <2>4. /\ e.files = [srv.files EXCEPT ![f] = cap.objs[f]]
          /\ e.told = srv.told /\ e.up = srv.up /\ e.status = srv.status /\ e.pub = srv.pub /\ e.att = srv.att
      BY <2>1 DEF Servers
    <2>5. e \in Servers
      BY <2>1, <2>3, <2>4 DEF Servers
    <2>6. \A g \in Files : e.files[g] \in {srv.files[g], cap.tree[g]}
      BY <2>2, <2>4, Zenon DEF Trees
    <2> HIDE DEF e
    <2>7. Grows(e)
      BY <2>1, <2>4 DEF Grows, Servers
    <2>8. srv' = e => ServerInv'
      <3>1. UNCHANGED <<exit, term, cap>> /\ srv.status = "staged" /\ Captured
        BY <1>1, <1>4, InTransfer DEF TransferKeeps, world, helper, Staged
      <3> QED BY <2>1, <2>4, <2>6, <3>1, Zenon DEF ServerInv, Captured
    <2>9. srv' = e /\ led' = led => Covered(led)'
      BY <2>1, <2>4 DEF Covered
    <2>10. Answered(e, led, "upload")
      BY <1>4 DEF e
    <2> QED BY <1>1, <2>1, <2>5, <2>7, <2>8, <2>9, <2>10, AnsweredKeeps
  <1> QED BY <1>2, <1>3, <1>4, Zenon DEF Upload

LEMMA CompleteKeeps == FinalizationInv /\ Complete => FinalizationInv'
  <1> SUFFICES ASSUME FinalizationInv, Complete PROVE FinalizationInv'
    OBVIOUS
  <1>1. xfer = "complete" /\ TransferKeeps
    BY DEF Complete
  <1>2. CASE EndTransfer(FALSE) /\ UNCHANGED <<led, srv>>
    BY <1>1, <1>2, EndMoves, Zenon
  <1> DEFINE e == [srv EXCEPT !.status = "committed"]
             r == [led EXCEPT !.ckpt = TRUE]
  <1>3. CASE Staged /\ Answered(e, r, Progress(r))
    <2>1. srv \in Servers /\ led \in Slips /\ Covered(led) /\ ServerInv /\ Full(srv.files)
      BY <1>1, <1>3 DEF FinalizationInv, FinalizationTypes, ReceiptInv, WorkerInv, Staged
    <2>2. /\ e \in Servers /\ e.told = srv.told /\ e.up = srv.up /\ e.status = "committed"
          /\ e.files = srv.files /\ e.pub = srv.pub /\ e.att = srv.att
      BY <2>1 DEF Servers
    <2>3. r \in Slips /\ r.up = led.up /\ r.ckpt /\ r.pub = led.pub /\ r.att = led.att
      BY <2>1, Zenon DEF Slips
    <2>4. Answered(e, r, Progress(r))
      BY <1>3
    <2> HIDE DEF e, r
    <2>5. Grows(e) /\ led.up = srv.up /\ srv.up \in Nat
      BY <1>3, <2>1, <2>2 DEF Grows, Servers, Staged
    <2>6. srv' = e => ServerInv'
      BY <1>1, <2>1, <2>2, Zenon DEF ServerInv, TransferKeeps, world, helper, Captured, Full
    <2>7. srv' = e /\ led' = r => Covered(led)'
      BY <2>1, <2>2, <2>3, <2>5, Zenon DEF Covered
    <2> QED BY <1>1, <2>2, <2>3, <2>4, <2>5, <2>6, <2>7, ProgressFacts, AnsweredKeeps, Zenon
  <1> QED BY <1>2, <1>3, Zenon DEF Complete

LEMMA PublishFinalizationKeeps == FinalizationInv /\ PublishFinalization => FinalizationInv'
  <1> SUFFICES ASSUME FinalizationInv, PublishFinalization PROVE FinalizationInv'
    OBVIOUS
  <1>1. xfer = "publish" /\ TransferKeeps /\ led.ckpt
    BY DEF PublishFinalization, FinalizationInv, WorkerInv
  <1> DEFINE att == IF srv.pub = "none" THEN 1 ELSE srv.att
  <1>2. PICK status \in Terminal \cup {"superseded"} :
          /\ IF srv.pub = "none" THEN ValidPublication(status, Unclean) ELSE status = srv.pub
          /\ Answered([srv EXCEPT !.pub = status, !.att = att], [led EXCEPT !.pub = status, !.att = att], "ack")
    BY Zenon DEF PublishFinalization
  <1> DEFINE e == [srv EXCEPT !.pub = status, !.att = att]
             r == [led EXCEPT !.pub = status, !.att = att]
  <1>3. srv \in Servers /\ led \in Slips /\ Covered(led) /\ ServerInv /\ Captured /\ term \in {"clean", "unclean"}
    BY <1>1, InTransfer DEF FinalizationInv, FinalizationTypes, ReceiptInv
  <1>4. att \in 0 .. 2 /\ (srv.pub # "none" => att = srv.att)
    BY <1>3 DEF Servers
  <1>5. Answered(e, r, "ack")
    BY <1>2
  <1> HIDE DEF att
  <1>6. /\ e \in Servers /\ e.told = srv.told /\ e.up = srv.up /\ e.status = srv.status
        /\ e.files = srv.files /\ e.pub = status /\ e.att = att
    BY <1>2, <1>3, <1>4, Zenon DEF Servers
  <1>7. r \in Slips /\ r.up = led.up /\ r.ckpt = led.ckpt /\ r.pub = status /\ r.att = att
    BY <1>2, <1>3, <1>4, Zenon DEF Slips
  <1> HIDE DEF e, r
  <1>8. status # "none" /\ (srv.pub # "none" => status = srv.pub)
    BY <1>2 DEF Terminal
  <1>9. Grows(e)
    BY <1>3, <1>4, <1>6, <1>8 DEF Grows, Servers
  <1>10. status \in {"published", "conflicted", "superseded"} => exit = "clean"
    <2>1. term = "clean" => exit = "clean"
      BY Zenon DEF FinalizationInv, EvidenceInv
    <2> QED BY <1>2, <1>3, <1>8, <2>1 DEF ServerInv, ValidPublication, Unclean
  <1>11. srv' = e => ServerInv'
    BY <1>1, <1>3, <1>6, <1>10, Zenon DEF ServerInv, TransferKeeps, world, helper, Captured, Full, Covered
  <1>12. srv' = e /\ led' = r => Covered(led)'
    <2>1. att <= att
      BY <1>4
    <2>2. led.up <= srv.up /\ srv.status = "committed" /\ led.up = srv.up
      BY <1>1, <1>3 DEF Covered
    <2> QED BY <1>1, <1>6, <1>7, <1>8, <2>1, <2>2, Zenon DEF Covered
  <1> QED BY <1>1, <1>5, <1>6, <1>7, <1>9, <1>11, <1>12, AnsweredKeeps DEF Uploading

LEMMA HeldKeeps == FinalizationInv /\ (HoldContent \/ ReadManifest \/ OpenObjectSource) => FinalizationInv'
  <1> SUFFICES ASSUME FinalizationInv, HoldContent \/ ReadManifest \/ OpenObjectSource PROVE FinalizationInv'
    OBVIOUS
  <1>1. xfer \in {"hold", "manifest", "open"} /\ UNCHANGED <<led, srv>> /\ TransferKeeps
    BY Zenon DEF HoldContent, ReadManifest, OpenObjectSource
  <1>2. CASE EndTransfer(FALSE)
    BY <1>1, <1>2, EndMoves, Zenon
  <1>3. CASE Unreclaimed /\ xfer' = "manifest" /\ hold' = TRUE /\ UNCHANGED <<loop, stop, gate, seen>>
    <2>1. Captured' /\ term' # "none" /\ Unreclaimed' /\ recorded' = recorded
      BY <1>1, <1>3, InTransfer, Zenon DEF TransferKeeps, helper, Captured, Unreclaimed
    <2>2. stop' = "complete" => recorded'
      BY <1>3, <2>1 DEF FinalizationInv, WorkerInv
    <2>3. WorkerInv'
      BY <1>3, <2>1, <2>2, FrozenWorker DEF FinalizationInv
    <2> QED BY <1>1, <1>3, <2>3, WorkerMoves, Zenon DEF TransferKeeps, FinalizationInv, FinalizationTypes
  <1>4. ASSUME xfer \in {"manifest", "open"}, NEW next \in {"begin", "upload"}, Resume(next) PROVE FinalizationInv'
    <2>1. hold
      BY <1>4 DEF FinalizationInv, WorkerInv, Uploading
    <2> QED BY <1>1, <1>4, <2>1, ResumeMoves, Zenon
  <1> QED BY <1>2, <1>3, <1>4, Zenon DEF HoldContent, ReadManifest, OpenObjectSource

\* The worker sends the Helper a request.
LEMMA RequestMoves ==
  ASSUME FinalizationInv, NEW op \in Ops, NEW p \in {"inspect", "write", "start", "proof"},
         NEW by \in {"loop", "stop"}, NEW arg \in {led, NoReceipt}, Request(op, by, p, arg),
         op = "ack" => Captured /\ p = "write", op = "cleanup" => Captured /\ p = "start",
         UNCHANGED <<world, helper, reader, srv, led>>, gate' \in {"free", "loop", "stop"}, WorkerInv'
  PROVE  FinalizationInv'
  <1>1. UNCHANGED <<unit, exit, work, term, cap, ack, marks, roots, res>>
    BY DEF world, helper
  <1>2. arg \in Slips /\ p \in Steps
    BY NoReceiptType DEF FinalizationInv, FinalizationTypes, Steps
  <1>3. job' \in Jobs /\ job'.op = op /\ job'.pc = p /\ job'.arg = arg
    BY <1>2, RequestType
  <1>4. EvidenceInv' /\ PhaseInv' /\ ContentInv' /\ MarkInv' /\ ServerInv'
    BY StillKeeps, Zenon
  <1>5. JobInv'
    BY <1>1, <1>3 DEF JobInv, Freezing, Reclaiming, Captured
  <1>6. ReceiptInv'
    <2>1. srv.up \in Nat
      BY DEF FinalizationInv, FinalizationTypes, Servers
    <2>2. Covered(arg)
      <3>1. Covered(led)
        BY Zenon DEF FinalizationInv, ReceiptInv
      <3>2. Covered(NoReceipt)
        <4>1. 0 <= srv.up
          BY <2>1
        <4> QED BY <4>1, NoReceiptType, Zenon DEF Covered
      <3> QED BY <3>1, <3>2, Zenon
    <2> QED BY <1>1, <1>3, <2>2, Zenon DEF FinalizationInv, ReceiptInv, Covered
  <1>7. FinalizationTypes'
    BY <1>1, <1>3, Zenon DEF FinalizationInv, FinalizationTypes
  <1> QED BY <1>4, <1>5, <1>6, <1>7 DEF FinalizationInv

LEMMA CallKeeps ==
  ASSUME FinalizationInv, gate \in {"loop", "stop"}, CallAcknowledge \/ CallCleanup
  PROVE  FinalizationInv'
  <1>1. PICK c \in {<<"ack", "write", "acking">>, <<"cleanup", "start", "cleaning">>} : CallHelper(c[1], c[2], c[3])
    BY DEF CallAcknowledge, CallCleanup
  <1>2. /\ Request(c[1], gate, c[2], led) /\ xfer # "none" /\ xfer' \in {"acking", "cleaning"}
        /\ UNCHANGED <<world, helper, loop, stop, recorded, gate, led, hold, reader, srv>>
    BY <1>1 DEF CallHelper
  <1>3. Captured
    BY <1>2, InTransfer, Zenon
  <1>4. WorkerInv'
    BY <1>2, <1>3 DEF FinalizationInv, WorkerInv, Uploading, helper, Captured, Unreclaimed
  <1> QED BY <1>1, <1>2, <1>3, <1>4, RequestMoves DEF Ops

LEMMA TransferStepKeeps ==
  ASSUME FinalizationInv, gate \in {"loop", "stop"}, TransferStep
  PROVE  FinalizationInv'
  BY ObserveKeeps, GetKeeps, HeldKeeps, BeginKeeps, UploadKeeps, CompleteKeeps, PublishFinalizationKeeps, CallKeeps
     DEF TransferStep

-----------------------------------------------------------------------------
(* The recovery loop and the stop task. *)

\* The worker tells the Server something true.
LEMMA ToldMoves ==
  ASSUME FinalizationInv, NEW word \in {"exited", "pending", "stopped"},
         srv' = [srv EXCEPT !.told = @ \cup {word}], term # "none",
         word = "stopped" => Captured \/ "pending" \in srv.told,
         UNCHANGED <<world, helper, reader, led>>, job' = job, gate' \in {"free", "loop", "stop"},
         srv'.told = srv.told \cup {word} /\ srv'.files = srv.files /\ srv'.status = srv.status => WorkerInv'
  PROVE  FinalizationInv'
  <1>1. UNCHANGED <<unit, exit, work, term, cap, ack, marks, roots, res>>
    BY DEF world, helper
  <1>2. srv \in Servers /\ led \in Slips /\ Covered(led) /\ ServerInv
    BY DEF FinalizationInv, FinalizationTypes, ReceiptInv
  <1>3. /\ srv' \in Servers /\ srv'.told = srv.told \cup {word} /\ srv'.up = srv.up /\ srv'.status = srv.status
        /\ srv'.files = srv.files /\ srv'.pub = srv.pub /\ srv'.att = srv.att
    BY <1>2 DEF Servers
  <1>4. Grows(srv')
    BY <1>2, <1>3 DEF Grows, Servers
  <1>5. ServerInv'
    BY <1>1, <1>2, <1>3 DEF ServerInv, Captured, Full
  <1>6. Covered(led)'
    BY <1>2, <1>3 DEF Covered
  <1> QED BY <1>2, <1>3, <1>4, <1>5, <1>6, ServerMoves

LEMMA ListKeeps == FinalizationInv /\ ListFinalizations => FinalizationInv'
  <1> SUFFICES ASSUME FinalizationInv, ListFinalizations PROVE FinalizationInv'
    OBVIOUS
  <1>1. UNCHANGED <<world, helper, stop, recorded, led, hold, reader, srv>> /\ loop' # "pend" /\ gate' = "loop"
    BY DEF ListFinalizations, LoopKeeps
  <1>2. UNCHANGED <<term, cap, marks>>
    BY <1>1 DEF helper
  <1>3. InventoryItem = "record" => Captured
    BY DEF InventoryItem
  <1>4. CASE InventoryItem = "record" /\ UNCHANGED job /\ xfer' = TransferStart
    <2>1. WorkerInv'
      BY Zenon, <1>1, <1>2, <1>3, <1>4, StartType
         DEF FinalizationInv, WorkerInv, Uploading, TransferStarts, Captured, Unreclaimed
    <2> QED BY <1>1, <1>4, <2>1, WorkerMoves
  <1>5. ASSUME NEW c \in {<<"reclaim", "proof">>, <<"reconcile", "inspect">>},
               Request(c[1], "loop", c[2], NoReceipt), UNCHANGED xfer
        PROVE  FinalizationInv'
    <2>1. WorkerInv'
      BY <1>1, <1>2, <1>5, Zenon DEF FinalizationInv, WorkerInv, Captured, Unreclaimed, Full
    <2> QED BY <1>1, <1>5, <2>1, RequestMoves DEF Ops
  <1> QED BY <1>4, <1>5 DEF ListFinalizations

LEMMA LoopKeepsInv == FinalizationInv /\ LoopStep => FinalizationInv'
  <1> SUFFICES ASSUME FinalizationInv, LoopStep PROVE FinalizationInv'
    OBVIOUS
  <1>1. CASE LoopReportsPending
    <2>1. /\ UNCHANGED <<world, helper, stop, recorded, led, hold, reader, xfer>> /\ job' = job
          /\ loop' = "idle" /\ gate' = "free" /\ term # "none"
      BY <1>1 DEF LoopReportsPending, LoopKeeps, FinalizationInv, WorkerInv
    <2>2. UNCHANGED <<term, cap, marks>>
      BY <2>1 DEF helper
    <2>3. srv.told \subseteq srv'.told /\ srv'.files = srv.files /\ srv'.status = srv.status => WorkerInv'
      BY <2>1, <2>2, Zenon DEF FinalizationInv, WorkerInv, Captured, Unreclaimed, Full
    <2>4. CASE srv' = [srv EXCEPT !.told = @ \cup {"pending"}]
      BY <2>1, <2>3, <2>4, ToldMoves
    <2>5. CASE UNCHANGED srv
      BY <2>1, <2>3, <2>5, WorkerMoves, Zenon
    <2> QED BY <1>1, <2>4, <2>5 DEF LoopReportsPending
  <1>2. CASE ReclaimTransferred
    <2>1. UNCHANGED <<world, helper, stop, recorded, led, hold, reader, xfer, srv>> /\ loop' # "pend"
      BY <1>2, Zenon DEF ReclaimTransferred, LoopKeeps
    <2>2. WorkerInv'
      BY <2>1, Zenon DEF FinalizationInv, WorkerInv, helper, Captured, Unreclaimed, Full
    <2>3. CASE Request("reclaim", "loop", "proof", NoReceipt) /\ UNCHANGED gate
      BY <2>1, <2>2, <2>3, RequestMoves, Zenon DEF Ops, FinalizationInv, FinalizationTypes
    <2>4. CASE gate' = "free" /\ UNCHANGED job
      BY <2>1, <2>2, <2>4, WorkerMoves
    <2> QED BY <1>2, <2>3, <2>4 DEF ReclaimTransferred
  <1> QED BY <1>1, <1>2, ListKeeps, TransferStepKeeps DEF LoopStep

LEMMA StopStepKeeps == FinalizationInv /\ StopStep => FinalizationInv'
  <1> SUFFICES ASSUME FinalizationInv, StopStep PROVE FinalizationInv'
    OBVIOUS
  <1>0. gate \in {"free", "loop", "stop"}
    BY DEF FinalizationInv, FinalizationTypes
  <1>1. CASE StopCalls
    <2>1. UNCHANGED <<world, helper, loop, recorded, gate, xfer, led, hold, reader, srv>> /\ stop' \in {"stopping", "observing"}
      BY <1>1, Zenon DEF StopCalls, StopKeeps
    <2>2. WorkerInv'
      BY <2>1, Zenon DEF FinalizationInv, WorkerInv, helper, Captured, Unreclaimed, Full
    <2>3. PICK op \in {"stop", "reconcile"} : Request(op, "stop", "inspect", NoReceipt)
      BY <1>1 DEF StopCalls
    <2> QED BY <1>0, <2>1, <2>2, <2>3, RequestMoves DEF Ops
  <1>2. CASE StopReportsPending
    <2>1. /\ UNCHANGED <<world, helper, loop, recorded, gate, xfer, led, hold, reader>> /\ job' = job
          /\ stop' \in {"save", "idle"} /\ term # "none"
      BY <1>2 DEF StopReportsPending, StopKeeps, FinalizationInv, WorkerInv
    <2>2. UNCHANGED <<term, cap, marks>>
      BY <2>1, Zenon DEF helper
    <2>3. (/\ srv.told \subseteq srv'.told /\ srv'.files = srv.files /\ srv'.status = srv.status
           /\ stop' = "save" => "pending" \in srv'.told) => WorkerInv'
      BY <2>1, <2>2 DEF FinalizationInv, WorkerInv, Captured, Unreclaimed, Full
    <2>4. CASE srv' = [srv EXCEPT !.told = @ \cup {"pending"}]
      BY <1>0, <2>1, <2>3, <2>4, ToldMoves
    <2>5. CASE UNCHANGED srv /\ stop' = "idle"
      BY <1>0, <2>1, <2>3, <2>5, WorkerMoves
    <2> QED BY <1>2, <2>4, <2>5 DEF StopReportsPending
  <1>3. CASE AcquireGate
    <2>1. /\ UNCHANGED <<world, helper, loop, recorded, led, hold, reader, srv>> /\ job' = job /\ gate' = "stop"
          /\ stop = "transfer" /\ stop' = "transferring" /\ xfer' = TransferStart
      BY <1>3 DEF AcquireGate, StopKeeps
    <2>2. WorkerInv'
      BY <2>1, StartType DEF FinalizationInv, WorkerInv, Uploading, TransferStarts, helper, Captured, Unreclaimed
    <2> QED BY <2>1, <2>2, WorkerMoves
  <1>4. CASE SaveStop
    <2>1. /\ UNCHANGED <<world, helper, loop, gate, xfer, led, hold, reader, srv>> /\ job' = job
          /\ stop = "save" /\ recorded' = TRUE /\ stop' = "complete"
      BY <1>4, Zenon DEF SaveStop, StopKeeps
    <2>2. WorkerInv'
      BY <2>1 DEF FinalizationInv, WorkerInv, helper, Captured, Unreclaimed, Full
    <2> QED BY <1>0, <2>1, <2>2, WorkerMoves
  <1>5. CASE CompleteStop
    <2>1. /\ UNCHANGED <<world, helper, loop, recorded, gate, xfer, led, hold, reader>> /\ job' = job
          /\ stop = "complete" /\ stop' \in {"done", "idle"}
      BY <1>5 DEF CompleteStop, StopKeeps
    <2>2. recorded /\ term # "none" /\ (Captured \/ "pending" \in srv.told)
      BY <2>1 DEF FinalizationInv, WorkerInv
    <2>3. UNCHANGED <<term, cap, marks>>
      BY <2>1 DEF helper
    <2>4. srv.told \subseteq srv'.told /\ srv'.files = srv.files /\ srv'.status = srv.status => WorkerInv'
      BY <2>1, <2>3 DEF FinalizationInv, WorkerInv, Captured, Unreclaimed, Full
    <2>5. CASE srv' = [srv EXCEPT !.told = @ \cup {"stopped"}]
      BY <1>0, <2>1, <2>2, <2>4, <2>5, ToldMoves, Zenon
    <2>6. CASE UNCHANGED srv
      BY <1>0, <2>1, <2>4, <2>6, WorkerMoves
    <2> QED BY <1>5, <2>5, <2>6 DEF CompleteStop
  <1> QED BY <1>1, <1>2, <1>3, <1>4, <1>5, TransferStepKeeps DEF StopStep

\* A request in flight loses its caller.
LEMMA OrphanMoves ==
  ASSUME FinalizationInv, UNCHANGED <<world, helper, reader, srv>>, job' = [job EXCEPT !.by = "none"],
         led' \in {led, NoReceipt}, gate' \in {"free", "loop", "stop"}, WorkerInv'
  PROVE  FinalizationInv'
  <1>1. UNCHANGED <<unit, exit, work, term, cap, ack, marks, roots, res>>
    BY DEF world, helper
  <1>2. job \in Jobs /\ srv.up \in Nat /\ led' \in Slips
    BY NoReceiptType DEF FinalizationInv, FinalizationTypes, Servers
  <1>3. /\ job' \in Jobs /\ job'.pc = job.pc /\ job'.op = job.op
        /\ job'.unclean = job.unclean /\ job'.snap = job.snap /\ job'.arg = job.arg /\ job'.auth = job.auth
    BY <1>2, OrphanType
  <1>4. EvidenceInv' /\ PhaseInv' /\ ContentInv' /\ MarkInv' /\ ServerInv'
    BY StillKeeps
  <1>5. JobInv'
    BY <1>1, <1>3 DEF FinalizationInv, JobInv, Captured, CanDeleteSession, Unclean, Full
  <1>6. ReceiptInv'
    BY <1>1, <1>2, <1>3, NoReceiptType DEF FinalizationInv, ReceiptInv, Covered
  <1>7. FinalizationTypes'
    BY <1>1, <1>2, <1>3 DEF FinalizationInv, FinalizationTypes
  <1> QED BY <1>4, <1>5, <1>6, <1>7 DEF FinalizationInv

LEMMA TimeoutKeeps == FinalizationInv /\ AttemptTimeout => FinalizationInv'
  <1> SUFFICES ASSUME FinalizationInv, AttemptTimeout PROVE FinalizationInv'
    OBVIOUS
  <1>1. UNCHANGED <<world, helper, recorded, led, reader, srv>> /\ stop \in {"transfer", "transferring"}
    BY Zenon DEF AttemptTimeout
  <1>2. Captured' /\ term' # "none"
    BY <1>1, Zenon DEF FinalizationInv, WorkerInv, EvidenceInv, helper, Captured
  <1>3. CASE stop' = "save" /\ UNCHANGED <<loop, gate, xfer, hold, job>>
    <2>1. WorkerInv'
      BY <1>1, <1>2, <1>3, Zenon DEF FinalizationInv, WorkerInv, helper, Captured, Unreclaimed, Full
    <2> QED BY <1>1, <1>3, <2>1, WorkerMoves DEF FinalizationInv, FinalizationTypes
  <1>4. CASE /\ EndTransfer(FALSE) /\ job' = IF job.by = "stop" THEN [job EXCEPT !.by = "none"] ELSE job
    <2>1. WorkerInv' /\ gate' \in {"free", "loop"}
      BY <1>1, <1>2, <1>4, EndKeeps, Zenon DEF FinalizationInv
    <2>2. CASE job' = [job EXCEPT !.by = "none"]
      BY <1>1, <2>1, <2>2, OrphanMoves
    <2>3. CASE job' = job
      BY <1>1, <2>1, <2>3, WorkerMoves
    <2> QED BY <1>4, <2>2, <2>3
  <1> QED BY <1>3, <1>4, Zenon DEF AttemptTimeout

-----------------------------------------------------------------------------
(* The tool, the readers, the Server and failures. *)

LEMMA ToolKeeps == FinalizationInv /\ ((\E f \in Files : Write(f)) \/ Exit) => FinalizationInv'
  <1>1. ASSUME FinalizationInv, NEW f \in Files, Write(f) PROVE FinalizationInv'
    <2>1. /\ work \in Trees /\ work' = [work EXCEPT ![f] = 1] /\ cap \in Captures
          /\ UNCHANGED <<unit, exit, helper, job, worker, reader, srv>>
      BY <1>1 DEF Write, FinalizationInv, FinalizationTypes
    <2>2. work' \in Trees /\ (Full(work) => Full(work'))
      BY <2>1, GoneIsNoVersion DEF Trees, Versions, Full
    <2>3. Unreclaimed => Full(work')
      BY <1>1, <2>2 DEF FinalizationInv, ContentInv
    <2> QED BY <1>1, <2>1, <2>2, <2>3, TreesKeep DEF helper
  <1>2. ASSUME FinalizationInv, Exit PROVE FinalizationInv'
    <2>1. /\ UNCHANGED <<work, term, cap, ack, marks, roots, res, job, loop, stop, recorded, gate, xfer, led, hold, reader, srv>>
          /\ unit = "running" /\ unit' = "exited" /\ exit' \in {"clean", "unclean"}
      BY <1>2 DEF Exit, helper, worker
    <2>2. exit = "none" /\ term = "none" /\ ~Captured
      BY <1>2, <2>1 DEF FinalizationInv, EvidenceInv
    <2>3. EvidenceInv'
      BY <2>1, <2>2 DEF EvidenceInv, Captured
    <2>4. PhaseInv' /\ ContentInv' /\ MarkInv' /\ ReceiptInv'
      BY <1>2, <2>1, PhaseKeeps, ContentKeeps, MarkKeeps, ReceiptKeeps DEF FinalizationInv, FinalizationTypes, Unreclaimed
    <2>5. JobInv'
      BY <1>2, <2>1, <2>2, Zenon DEF FinalizationInv, JobInv, Captured, CanDeleteSession, Unclean, Full
    <2>6. WorkerInv'
      BY <1>2, <2>1, WorkerKeeps DEF FinalizationInv
    <2>7. ServerInv'
      BY <1>2, <2>1, <2>2, Zenon DEF FinalizationInv, ServerInv, Captured, Full
    <2>8. FinalizationTypes'
      BY <1>2, <2>1 DEF FinalizationInv, FinalizationTypes
    <2> QED BY <2>3, <2>4, <2>5, <2>6, <2>7, <2>8 DEF FinalizationInv
  <1> QED BY <1>1, <1>2

LEMMA ReaderKeeps == FinalizationInv /\ (OpenReader \/ OpenObject \/ CloseReader) => FinalizationInv'
  <1> SUFFICES ASSUME FinalizationInv, OpenReader \/ OpenObject \/ CloseReader PROVE FinalizationInv'
    OBVIOUS
  <1>1. UNCHANGED <<unit, exit, work, term, cap, ack, marks, roots, res, job, loop, stop, recorded, gate, xfer, led, hold, srv>>
    BY DEF OpenReader, OpenObject, CloseReader, Others, world, helper, worker
  <1>2. EvidenceInv' /\ PhaseInv' /\ MarkInv' /\ ServerInv' /\ ReceiptInv'
    BY Zenon, <1>1, EvidenceKeeps, PhaseKeeps, MarkKeeps, ServerKeeps, ReceiptKeeps
       DEF FinalizationInv, FinalizationTypes, EvidenceInv, Captured
  <1>3. JobInv' /\ WorkerInv'
    BY <1>1, JobKeeps, WorkerKeeps DEF FinalizationInv
  <1>4. /\ reader' \in {"held", "open"} => Captured /\ Unreclaimed
        /\ reader' = "late" => Captured /\ Unreclaimed
    BY DEF OpenReader, OpenObject, CloseReader, FinalizationInv, ContentInv
  <1>5. ContentInv'
    <2>1. N \in Files
      BY FinalizationAssumption DEF Files
    <2> QED BY <1>1, <1>4, <2>1, Zenon DEF FinalizationInv, ContentInv, Captured, Unreclaimed, Full
  <1>6. FinalizationTypes'
    BY <1>1 DEF FinalizationInv, FinalizationTypes
  <1> QED BY <1>2, <1>3, <1>5, <1>6 DEF FinalizationInv

LEMMA ServerKeepsInv == FinalizationInv /\ (Expire \/ Resolve) => FinalizationInv'
  <1> SUFFICES ASSUME FinalizationInv, Expire \/ Resolve PROVE FinalizationInv'
    OBVIOUS
  <1>1. UNCHANGED <<world, helper, reader>> /\ job' = job /\ UNCHANGED worker
    BY DEF Expire, Resolve
  <1>2. srv \in Servers /\ led \in Slips /\ Covered(led) /\ ServerInv /\ gate \in {"free", "loop", "stop"}
    BY DEF FinalizationInv, FinalizationTypes, ReceiptInv
  <1>3. UNCHANGED <<unit, exit, work, term, cap, marks, loop, stop, recorded, gate, xfer, led, hold>>
    BY <1>1 DEF world, helper, worker
  <1>4. /\ srv' \in Servers /\ srv'.told = srv.told /\ srv'.up = srv.up /\ srv'.files = srv.files
        /\ \/ srv.status = "staged" /\ srv'.status = "expired" /\ srv'.pub = srv.pub /\ srv'.att = srv.att
           \/ /\ srv'.status = srv.status /\ srv.pub \in {"conflicted", "superseded"} /\ srv'.pub = "published"
              /\ srv'.att \in {srv.att, 2}
    <2>1. CASE srv.status = "staged" /\ srv' = [srv EXCEPT !.status = "expired"]
      BY <1>2, <2>1 DEF Servers
    <2>2. CASE srv.pub = "conflicted" /\ srv' = [srv EXCEPT !.pub = "published"]
      BY <1>2, <2>2 DEF Servers, Terminal
    <2>3. CASE srv.pub \in {"conflicted", "superseded"} /\ srv' = [srv EXCEPT !.pub = "published", !.att = 2]
      <3>1. /\ srv'.told = srv.told /\ srv'.up = srv.up /\ srv'.status = srv.status /\ srv'.files = srv.files
            /\ srv'.pub = "published" /\ srv'.att = 2
        BY <1>2, <2>3 DEF Servers
      <3>2. srv' \in Servers
        <4>1. 2 \in 0 .. 2 /\ "published" \in Terminal \cup {"none", "superseded"}
          BY DEF Terminal
        <4> QED BY <1>2, <2>3, <4>1, Zenon DEF Servers
      <3> QED BY <2>3, <3>1, <3>2
    <2> QED BY <2>1, <2>2, <2>3 DEF Expire, Resolve
  <1>5. srv.up \in Nat /\ srv.att \in 0 .. 2 /\ led.att \in 0 .. 2
    BY <1>2 DEF Servers, Slips
  <1>6. Grows(srv')
    <2>1. srv.up <= srv'.up /\ srv.att <= srv'.att
      BY <1>4, <1>5
    <2> QED BY <1>4, <2>1, Zenon DEF Grows
  <1>7. ServerInv'
    BY <1>2, <1>3, <1>4, Zenon DEF ServerInv, Captured, Full
  <1>8. Covered(led)'
    BY <1>2, <1>3, <1>4, <1>5 DEF Covered
  <1>9. WorkerInv'
    BY <1>3, <1>4 DEF FinalizationInv, WorkerInv, Captured, Unreclaimed, Full
  <1> QED BY <1>1, <1>2, <1>3, <1>4, <1>6, <1>7, <1>8, <1>9, ServerMoves

LEMMA CrashKeeps == FinalizationInv /\ (CrashWorker \/ Reboot) => FinalizationInv'
  <1> SUFFICES ASSUME FinalizationInv, CrashWorker \/ Reboot PROVE FinalizationInv'
    OBVIOUS
  <1>1. /\ UNCHANGED <<work, term, cap, ack, marks, roots, srv, recorded>> /\ gate' = "free" /\ loop' = "idle"
        /\ xfer' = "none" /\ hold' = FALSE /\ stop' \in {"done", "idle"}
    BY DEF CrashWorker, Reboot, WorkerRestarts, world, helper
  <1>2. WorkerInv'
    BY <1>1, Zenon DEF FinalizationInv, WorkerInv, Uploading, Captured
  <1>3. CASE CrashWorker
    <2>1. UNCHANGED <<world, helper, reader, srv>> /\ led' \in {led, NoReceipt}
      BY <1>3 DEF CrashWorker
    <2>2. CASE job' = [job EXCEPT !.by = "none"]
      BY <1>1, <1>2, <2>1, <2>2, OrphanMoves
    <2>3. CASE job' = job
      BY <1>1, <1>2, <2>1, <2>3, WorkerMoves
    <2> QED BY <1>3, <2>2, <2>3 DEF CrashWorker
  <1>4. CASE Reboot
    <2>1. /\ unit' = "lost" /\ exit' = (IF exit = "none" THEN "unclean" ELSE exit) /\ res' \subseteq res
          /\ job' = Idle /\ led' = led /\ reader' \in {"idle", "closed"}
      BY <1>4 DEF Reboot
    <2>2. exit \in {"none", "clean", "unclean"}
      BY DEF FinalizationInv, FinalizationTypes
    <2>3. EvidenceInv'
      BY <1>1, <2>1, <2>2, Zenon DEF FinalizationInv, EvidenceInv, Captured
    <2>4. JobInv' /\ PhaseInv' /\ MarkInv' /\ ReceiptInv'
      BY <1>1, <2>1, IdleKeeps, PhaseKeeps, MarkKeeps, ReceiptKeeps DEF FinalizationInv, FinalizationTypes
    <2>5. ContentInv'
      BY <1>1, <2>1, Zenon DEF FinalizationInv, ContentInv, Captured, Unreclaimed, Full
    <2>6. ServerInv'
      BY <1>1, <2>1, Zenon DEF FinalizationInv, ServerInv, Captured, Full
    <2>7. FinalizationTypes'
      BY <1>1, <2>1, <2>2, IdleType DEF FinalizationInv, FinalizationTypes
    <2> QED BY <1>2, <2>3, <2>4, <2>5, <2>6, <2>7 DEF FinalizationInv
  <1> QED BY <1>3, <1>4

-----------------------------------------------------------------------------
(* The theorems. *)

LEMMA FinalizationStarts == Init => FinalizationInv
  <1> SUFFICES ASSUME Init PROVE FinalizationInv
    OBVIOUS
  <1>1. work \in Trees /\ Full(work)
    BY GoneIsNoVersion, Zenon DEF Init, Trees, Versions, Full
  <1>2. /\ cap \in Captures /\ cap.state = "none" /\ cap.objs = NoTree /\ cap.tree = NoTree
    BY NoTreeType, Zenon DEF Init, Captures, Phases
  <1>3. srv \in Servers /\ srv.told = {} /\ srv.up = 0 /\ srv.status = "none" /\ srv.files = NoTree /\ srv.pub = "none"
    <2>1. srv = [told |-> {}, up |-> 0, status |-> "none", files |-> NoTree, pub |-> "none", att |-> 0]
      BY Zenon DEF Init
    <2>2. 0 \in Nat /\ 0 \in 0 .. 2
      OBVIOUS
    <2> QED BY <2>1, <2>2, NoTreeType, Zenon DEF Servers
  <1>4. FinalizationTypes /\ ~Captured /\ Unreclaimed
    BY <1>1, <1>2, <1>3, NoReceiptType, IdleType, Zenon DEF Init, FinalizationTypes, Captured, Unreclaimed
  <1>5. EvidenceInv /\ PhaseInv /\ MarkInv
    BY <1>2, <1>4, Zenon DEF Init, EvidenceInv, PhaseInv, MarkInv, Terminal
  <1>6. JobInv
    BY IdleType, Zenon DEF Init, JobInv, Freezing, Reclaiming
  <1>7. Covered(NoReceipt)
    <2>1. 0 <= 0
      OBVIOUS
    <2> QED BY <1>3, <2>1, NoReceiptType, Zenon DEF Covered
  <1>8. ReceiptInv
    BY <1>7, IdleType, Zenon DEF Init, ReceiptInv
  <1>9. WorkerInv
    BY Zenon DEF Init, WorkerInv, Uploading
  <1>10. ServerInv
    BY <1>3, NoTreeType DEF ServerInv
  <1>11. ContentInv
    BY <1>1, <1>2, <1>4, Zenon DEF Init, ContentInv
  <1> QED BY <1>4, <1>5, <1>6, <1>8, <1>9, <1>10, <1>11, Zenon DEF FinalizationInv

LEMMA FinalizationSteps == FinalizationInv /\ [Next]_vars => FinalizationInv'
  <1> SUFFICES ASSUME FinalizationInv, [Next]_vars PROVE FinalizationInv'
    OBVIOUS
  <1>1. CASE UNCHANGED vars
    <2>1. /\ UNCHANGED <<world, helper, reader, srv, led, gate>> /\ job' = job
          /\ UNCHANGED <<term, marks, loop, stop, recorded, xfer, led, hold, srv>> /\ cap' = cap
      BY <1>1, Zenon DEF vars, world, helper
    <2>2. WorkerInv'
      BY <2>1, WorkerKeeps DEF FinalizationInv
    <2> QED BY <2>1, <2>2, WorkerMoves, Zenon DEF FinalizationInv, FinalizationTypes
  <1>2. CASE Next
    BY <1>2, ToolKeeps, HelperKeeps, LoopKeepsInv, StopStepKeeps, TimeoutKeeps, ReaderKeeps, ServerKeepsInv,
       FailureKeeps, CrashKeeps DEF Next
  <1> QED BY <1>1, <1>2

LEMMA FinalizationInvariant == Spec => []FinalizationInv
  BY FinalizationStarts, FinalizationSteps, PTL DEF Spec

\* OnlyCleanPublished for every tree, bound and schedule: what the Helper writes
\* to termination.json as clean was a successful exit of the unit it inspected,
\* and only such a tree gets a publication other than detached.
THEOREM CleanIsPublished == Spec => []OnlyCleanPublished
  <1>1. FinalizationInv => OnlyCleanPublished
    BY Zenon DEF FinalizationInv, EvidenceInv, ServerInv, OnlyCleanPublished
  <1> QED BY <1>1, FinalizationInvariant, PTL

\* ReadersKeepContent for every number of files: MarkReclamation writes its
\* intent only under the exclusive lock, HoldContent and OpenReader are refused
\* after it, and DeleteObject asks for the object's own lock.
THEOREM HoldsKeepContent == Spec => []ReadersKeepContent
  <1>1. FinalizationInv => ReadersKeepContent
    BY Zenon DEF FinalizationInv, WorkerInv, ContentInv, ReadersKeepContent
  <1> QED BY <1>1, FinalizationInvariant, PTL

\* JournalsFollow for every number of uploads and faults: each journal is
\* written only after what it records, and no crash, lost answer or older copy
\* of the worker's ledger puts one ahead.
THEOREM JournalsFollowTruth == Spec => []JournalsFollow
  <1>1. FinalizationInv => JournalsFollow
    <2> SUFFICES ASSUME FinalizationInv PROVE JournalsFollow
      OBVIOUS
    <2>1. (recorded \/ srv.told # {}) => (unit # "running" /\ term # "none")
      BY Zenon DEF FinalizationInv, EvidenceInv, WorkerInv, ServerInv
    <2>2. "intent" \in marks => "cleaned" \in marks /\ ack.pub \in Terminal
      BY DEF FinalizationInv, MarkInv, PhaseInv, CanDeleteSession
    <2> QED BY <2>1, <2>2, Zenon DEF FinalizationInv, ServerInv, PhaseInv, ReceiptInv, Covered, MarkInv, JournalsFollow
  <1> QED BY <1>1, FinalizationInvariant, PTL

\* A work tree loses an entry only in DeleteWork and an object only in
\* DeleteObject, each with the intent durable and the bytes checked.
LEMMA LossIsReclamation ==
  ASSUME FinalizationInv, [Next]_vars, NEW f \in Files
  PROVE  /\ work[f] # Gone /\ work'[f] = Gone => "intent" \in marks /\ work[f] = cap.tree[f]
         /\ cap.objs[f] # Gone /\ cap'.objs[f] = Gone => "intent" \in marks /\ cap.objs[f] = cap.tree[f]
  <1>0. /\ work \in Trees /\ cap \in Captures /\ cap.objs \in Trees
        /\ job.pc \in Reclaiming => "intent" \in marks
        /\ Captured => cap.objs[f] \in {cap.tree[f], Gone}
        /\ ~Captured => cap.objs[f] = Gone
    BY NoTreeType, Zenon DEF FinalizationInv, FinalizationTypes, JobInv, ContentInv, Captures
  <1>1. CASE UNCHANGED <<work, cap>>
    BY <1>1, Zenon
  <1>2. ASSUME NEW g \in Files, Write(g)
        PROVE  work'[f] \in {work[f], 1} /\ cap' = cap
    BY <1>0, <1>2, Zenon DEF Write, Trees, helper
  <1>3. CASE DeleteWork
    <2>1. job.pc = "work" /\ cap' = cap
      BY <1>3, Zenon DEF DeleteWork, helper
    <2>2. CASE work[First(work)] = cap.tree[First(work)] /\ work' = [work EXCEPT ![First(work)] = Gone]
      BY <1>0, <2>1, <2>2, Zenon DEF Trees, Reclaiming
    <2> QED BY <1>1, <1>3, <2>1, <2>2, Zenon DEF DeleteWork
  <1>4. CASE DeleteObject
    <2>1. job.pc = "objects" /\ work' = work
      BY <1>4 DEF DeleteObject, world
    <2> QED BY <1>0, <2>1, Zenon DEF Reclaiming
  <1>5. CASE AdvanceFinalization
    <2>1. work' = work /\ cap'.objs = cap.objs
      BY <1>0, <1>5, Zenon DEF AdvanceFinalization, world, Captures
    <2> QED BY <2>1, Zenon
  <1>6. CASE Publish
    <2>1. work' = work /\ ~Captured
      BY <1>6, Zenon DEF Publish, world, FinalizationInv, JobInv, Freezing
    <2> QED BY <1>0, <2>1
  <1>7. CASE HelperStep
    <2>1. CASE StopWriters \/ StopCaptured \/ StopPreviousBoot \/ Inspect \/ DrainUnadmitted \/ Capture \/ CopyRetainedObjects \/ Verify
               \/ Acknowledge \/ CleanupStart \/ CleanupDone
      BY <1>1, <2>1 DEF StopWriters, StopCaptured, StopPreviousBoot, Inspect, DrainUnadmitted, Capture, CopyRetainedObjects, Verify,
                        Acknowledge, CleanupStart, CleanupDone, world, helper
    <2>2. CASE RemoveMounts \/ RemoveNetwork \/ RemoveRuntimeRoot
      BY <1>1, <2>2, Zenon DEF RemoveMounts, RemoveNetwork, RemoveRuntimeRoot, Removing, world
    <2>3. CASE ReclamationProof \/ Authorize \/ MarkReclamation \/ Scan \/ RemoveRoot \/ RetainReclaimed \/ Abandon
      BY <1>1, <2>3 DEF ReclamationProof, Authorize, MarkReclamation, Scan, RemoveRoot, RetainReclaimed, Abandon, world, helper
    <2> QED BY <1>3, <1>4, <1>5, <1>6, <1>7, <2>1, <2>2, <2>3, Zenon DEF HelperStep
  <1>8. CASE TransferStep
    <2>1. TransferKeeps \/ CallAcknowledge \/ CallCleanup
      BY <1>8, Zenon DEF TransferStep, ObserveTermination, GetFinalization, HoldContent, ReadManifest, Begin, OpenObjectSource,
                  Upload, Complete, PublishFinalization
    <2> QED BY <1>1, <2>1, Zenon DEF TransferKeeps, CallAcknowledge, CallCleanup, CallHelper, world, helper
  <1>9. CASE LoopStep \/ StopStep
    <2>1. TransferStep \/ UNCHANGED <<world, helper>>
      BY <1>9 DEF LoopStep, StopStep, ListFinalizations, LoopReportsPending, ReclaimTransferred, LoopKeeps,
                  StopCalls, StopReportsPending, AcquireGate, SaveStop, CompleteStop, StopKeeps
    <2> QED BY <1>1, <1>8, <2>1, Zenon DEF world, helper
  <1>10. CASE \/ Exit \/ AttemptTimeout \/ OpenReader \/ OpenObject \/ CloseReader \/ Expire \/ Resolve
              \/ RequestFails \/ CrashHelper \/ CrashWorker \/ Reboot
    BY <1>1, <1>10, Zenon DEF Exit, AttemptTimeout, OpenReader, OpenObject, CloseReader, Others, Expire, Resolve,
                       RequestFails, CrashHelper, CrashWorker, Reboot, world, helper
  <1>11. CASE \E g \in Files : Write(g)
    BY <1>2, <1>11, GoneIsNoVersion
  <1>12. CASE UNCHANGED vars
    BY <1>1, <1>12, Zenon DEF vars
  <1> QED BY <1>7, <1>9, <1>10, <1>11, <1>12, Zenon DEF Next

\* DeletedIsRetained for every number of files: what DeleteWork and DeleteObject
\* unlink is what the Server holds, committed and published or detached.
THEOREM DeletionIsRetained == Spec => DeletedIsRetained
  <1>1. ASSUME FinalizationInv, [Next]_vars, NEW f \in Files,
               NEW t \in {<<work[f], work'[f]>>, <<cap.objs[f], cap'.objs[f]>>}, t[1] # Gone, t[2] = Gone
        PROVE  srv.status = "committed" /\ srv.files[f] = t[1] /\ srv.pub \in {"published", "detached"}
    <2>1. "intent" \in marks /\ t[1] = cap.tree[f]
      <3>1. CASE t = <<work[f], work'[f]>>
        BY <1>1, <3>1, LossIsReclamation
      <3>2. CASE t = <<cap.objs[f], cap'.objs[f]>>
        BY <1>1, <3>2, LossIsReclamation, Zenon
      <3> QED BY <1>1, <3>1, <3>2, Zenon
    <2>2. srv.status = "committed" /\ srv.pub \in {"published", "detached"}
      BY <1>1, <2>1, Zenon DEF FinalizationInv, MarkInv
    <2>3. srv.files[f] = cap.tree[f]
      BY <1>1, <2>2, Zenon DEF FinalizationInv, ServerInv, Full
    <2> QED BY <2>1, <2>2, <2>3
  <1> DEFINE Retained ==
        \A f \in Files :
          LET lost == {t \in {<<work[f], work'[f]>>, <<cap.objs[f], cap'.objs[f]>>} : t[1] # Gone /\ t[2] = Gone}
          IN  \A t \in lost :
                /\ srv.status = "committed" /\ srv.files[f] = t[1]
                /\ srv.pub \in {"published", "detached"}
  <1>2. FinalizationInv /\ [Next]_vars => [Retained]_vars
    BY <1>1
  <1> QED BY <1>2, FinalizationInvariant, PTL DEF Spec, DeletedIsRetained
=============================================================================
