------------------------ MODULE AccountMigrationProofs ------------------------
(***************************************************************************)
(* The account's directory, for every number of access-list commands (two  *)
(* or more), of boots and of edits, and every set of leases: what the      *)
(* control plane was told is true (OutcomeTruth), an interrupted migration *)
(* can be repaired (Repairable), and captured skills stay as captured      *)
(* (CaptureQuiet).                                                         *)
(*                                                                         *)
(* The three properties speak of what is left once an operation was cut off,*)
(* so the invariant says for every step of every operation what that step  *)
(* may rely on, and for the records, the units and the directory what holds*)
(* whoever is working.  Its parts:                                         *)
(*   UnitInv     a unit runs under an open record of its own boot;         *)
(*   OrderInv    the records follow the order of the phases;               *)
(*   OutcomeInv  an attestation and an outcome say how the writers ended;  *)
(*   RepairInv   a repair's evidence cannot change under it;               *)
(*   EffectInv   what a command did is there until it is given back;       *)
(*   ParentInv   the parents are as recorded commands leave them;          *)
(*   SkillInv    the disk holds no skills the directory lost;              *)
(*   CaptureInv  nothing writes the skills under a capture;                *)
(*   MoveInv     where a migration is;                                     *)
(*   InspectInv  where a restoration, a recovery or an inspection is.      *)
(***************************************************************************)
EXTENDS AccountMigration, FiniteSetTheorems, TLAPS

-----------------------------------------------------------------------------
(* The invariant. *)

Directions == {"target", "rollback"}
Ended == {"none"} \cup Terminal

Directories == [skills : Nat, tree : {"original", "mixed"} \cup Directions,
                parents : {"original", "both", "masked"} \cup Directions, backup : Nat]

Launches == {"none", "starting", "observed"} \cup Terminal

Evidences == ({"none", "started"} \cup Terminal) \X {"none", "started", "copied", "failed"}
                 \X (SUBSET Directions) \X [Phases -> Launches] \X Ended

Records == [fence : Nat, mig : {"none", "started"} \cup Terminal, boot : Nat, base : Nat,
            copy : {"none", "started", "copied", "failed"}, intent : SUBSET Directions,
            writer : [Phases -> Launches], attest : Ended, repair : SUBSET Evidences,
            attempts : SUBSET ((Leases \cup {0}) \X Nat), done : SUBSET ((Leases \cup {0}) \X Nat),
            import : {"none", "started"} \cup Terminal, capture : Nat]

\* The steps of a migration up to its verification, and of a restoration.
Moving == {"baseline", "mkdir", "copy", "launch", "admit", "watch", "reap", "copied", "backup", "own",
           "chown", "verify", "restore"}
Restores == {"tree", "chmod", "acl"}
Inspected == {"attest", "finish", "complete", "reply"}
Inspecting == {"inspect", "sync", "again"} \cup Inspected

Operations == [kind : {"idle", "migrate", "recover", "previous", "source", "repair", "import", "capture"},
               do : Moving \cup Restores \cup Inspecting
                        \cup {"idle", "refresh", "settle", "choose", "attempt", "import", "imported",
                              "drain", "scan", "seal"},
               phase : Phases, out : Ended, seen : SUBSET Directories, lease : Leases \cup {0}]

AccountTypes ==
    /\ boot \in Nat \ {0} /\ store \in Records /\ unit \in [Phases -> {"none", "running", "ok", "bad"}]
    /\ fs \in Directories /\ disk \in Directories /\ op \in Operations
    /\ session \in {"none", "running"} /\ told \subseteq {"target", "source"}

NoUnitRuns == \A p \in Phases : unit[p] # "running"

\* A unit runs under a record of its launch that no outcome has closed.
UnitInv ==
    /\ store.boot <= boot
    /\ \A p \in Phases :
          /\ unit[p] # "none" => boot = store.boot /\ store.writer[p] # "none"
          /\ unit[p] = "running" => store.writer[p] \in {"starting", "observed"}

\* The records follow the order of the phases.
OrderInv ==
    /\ store.mig = "none" => /\ store.copy = "none" /\ store.intent = {}
                             /\ \A p \in Phases : store.writer[p] = "none"
    /\ store.copy # "none" => store.base # NoBaseline
    /\ store.copy = "none" => CopyOutcome("none")
    /\ store.copy = "copied" => CopyOutcome("succeeded")
    /\ store.intent # {} => store.copy = "copied"
    /\ "rollback" \in store.intent => /\ "target" \in store.intent
                                      /\ \A i \in 0 .. Last : store.writer[<<"target", i>>] \in Ended
    /\ \A d \in Directions, i \in 0 .. Last : store.writer[<<d, i>>] # "none" =>
          /\ d \in store.intent
          /\ \A j \in 0 .. Last : j < i => store.writer[<<d, j>>] = "succeeded"

\* An attestation says how the writers ended; an outcome says what it attests.
OutcomeInv ==
    /\ store.attest # "none" => WriterOutcomes(store.attest) /\ store.copy = "copied"
    /\ store.mig \in Terminal => store.attest = store.mig /\ NoRepair

\* The evidence a repair was admitted with is the evidence still.
RepairInv ==
    /\ ~NoRepair => store.repair = Evidence /\ EvidenceValid /\ NoUnitRuns
    /\ store.done # {} => ~NoRepair

Holds(dir, tree) == dir.tree = tree /\ dir.parents = tree

Settled == store.mig = "none" \/ store.mig \in Terminal \/ store.done # {}

Worked(p) == store.writer[p] = "succeeded" \/ unit[p] = "ok"

\* What the target's commands did is there until something gives it back.
EffectInv ==
    /\ boot = store.boot /\ "rollback" \notin store.intent /\ NoRepair =>
          /\ Worked(<<"target", Last - 1>>) => fs.tree = "target"
          /\ Worked(<<"target", Last>>) => fs.parents = "target"
    /\ store.mig = "succeeded" => Holds(fs, "target") /\ Holds(disk, "target")
    /\ store.mig = "failed" \/ store.done # {} => Holds(fs, "original") /\ Holds(disk, "original")
    /\ "target" \in told => store.mig = "succeeded"
    /\ "source" \in told => store.mig = "failed" \/ store.done # {}

\* The parents are as some recorded command or its restoration leaves them.
Explained(access) ==
    \/ access = "original"
    \/ access \in Directions /\ store.writer[<<access, Last>>] # "none"
    \/ access = "both" /\ \A d \in Directions : store.writer[<<d, Last>>] # "none"
    \/ access = "masked" /\ Restoring /\ \E d \in Directions : store.writer[<<d, Last>>] # "none"

ParentInv == Explained(fs.parents) /\ Explained(disk.parents)

SkillInv == disk.skills # 0 /\ disk.skills <= fs.skills

\* Nothing writes the skills under a capture.
Sealed == store.fence # 0 /\ store.import # "started" /\ session = "none" /\ Settled

CaptureInv ==
    /\ store.capture # 0 => Sealed /\ fs.skills <= store.capture
    /\ op.do \in {"scan", "seal"} => Sealed
    /\ op.do \in {"import", "imported"} => store.import = "started"
    /\ op.do = "imported" => op.out \in Terminal

\* Where a migration is.
MoveInv ==
    /\ op.do \in Moving => op.kind = "migrate"
    /\ op.do \in Moving \cup Restores /\ op.kind = "migrate" =>
          boot = store.boot /\ store.mig = "started" /\ NoRepair /\ store.attest = "none"
    /\ op.do \in {"baseline", "mkdir", "copy", "copied", "backup"} => store.intent = {}
    /\ op.do \in {"baseline", "mkdir", "copy"} => store.copy = "none"
    /\ op.do \in {"baseline", "mkdir", "copy"} => op.phase = Copy
    /\ op.do \in {"mkdir", "copy"} => store.base # NoBaseline
    /\ op.do \in {"launch", "admit", "watch", "reap"} =>
          /\ op.phase = Copy => store.intent = {}
          /\ op.phase # Copy => op.phase[1] \in store.intent
          /\ op.phase[1] = "target" => "rollback" \notin store.intent
    /\ op.do = "launch" /\ op.phase # Copy =>
          \A j \in 0 .. Last : j < op.phase[2] => store.writer[<<op.phase[1], j>>] = "succeeded"
    /\ op.do = "admit" => store.writer[op.phase] = "starting"
    /\ op.do = "reap" => store.writer[op.phase] \in Terminal
    /\ op.do = "copied" => store.writer[Copy] \in Terminal
    /\ op.do \in {"own", "chown"} =>
          /\ op.phase \in Directions \X {0}
          /\ op.phase[1] = "rollback" =>
                /\ "target" \in store.intent
                /\ \A i \in 0 .. Last : store.writer[<<"target", i>>] \in Ended
    /\ op.do = "chown" =>
          /\ op.phase[1] \in store.intent
          /\ \A i \in 0 .. Last : store.writer[<<op.phase[1], i>>] = "none"
          /\ op.phase[1] = "target" => "rollback" \notin store.intent
    /\ op.do = "verify" =>
          op.phase[1] = "target" /\ "target" \in store.intent /\ AllSucceeded("target")

\* Where a restoration, a recovery or an inspection is.
InspectInv ==
    /\ op.do \in Restores =>
          /\ op.kind \in {"migrate", "repair"} /\ Restoring /\ store.done = {}
          /\ op.kind = "migrate" => "rollback" \in store.intent
    /\ op.kind = "repair" => ~NoRepair
    /\ op.do = "attempt" => op.kind = "repair"
    /\ op.do \in {"refresh", "settle", "choose"} => op.kind \in {"migrate", "recover"}
    /\ op.do = "refresh" /\ op.kind = "migrate" => op.out \in Terminal
    /\ op.do = "settle" => CopyOutcome("succeeded")
    /\ op.do \in {"settle", "choose"} \cup Inspecting => NoUnitRuns
    /\ op.do \in Inspecting =>
          /\ op.out \in Terminal
          /\ op.kind \in {"migrate", "recover", "previous", "source", "repair"}
          /\ op.kind \in {"previous", "source"} => store.mig = op.out
          /\ op.kind = "repair" => op.out = "failed"
    /\ op.do \in {"again"} \cup Inspected => disk.tree = fs.tree /\ disk.parents = fs.parents
    /\ op.do \in Inspected /\ op.out = "failed" => Holds(fs, "original")
    /\ op.do \in {"attest", "finish"} => op.kind \in {"migrate", "recover"}
    /\ op.do = "complete" => op.kind = "repair"
    /\ op.do = "reply" => IF op.kind = "repair" THEN store.done # {} ELSE store.mig = op.out

AccountInv ==
    /\ AccountTypes /\ UnitInv /\ OrderInv /\ OutcomeInv /\ RepairInv /\ EffectInv /\ ParentInv
    /\ SkillInv /\ CaptureInv /\ MoveInv /\ InspectInv

-----------------------------------------------------------------------------
(* Phases, moves of an operation, and what steps leave alone. *)

\* A migration that is where it was.
LEMMA SameMove ==
    ASSUME MoveInv, UNCHANGED <<boot, store, op>>
    PROVE  MoveInv'
<1>1. Last' = Last
  BY DEF Last
<1>2. (NoRepair' <=> NoRepair) /\ (AllSucceeded("target")' <=> AllSucceeded("target"))
  BY <1>1 DEF NoRepair, AllSucceeded
<1> QED BY <1>1, <1>2 DEF MoveInv

\* The copy and the commands of both directions are the phases.
LEMMA PhaseFacts ==
    /\ Last \in Nat /\ Last - 1 \in 0 .. Last /\ Last \in 0 .. Last /\ Last - 1 # Last
    /\ Copy \in Phases /\ Copy[1] = "copy"
    /\ \A d \in Directions, i \in 0 .. Last :
          <<d, i>> \in Phases /\ <<d, i>> # Copy /\ <<d, i>>[1] = d /\ <<d, i>>[2] = i
    /\ \A p \in Phases : p # Copy => p[1] \in Directions /\ p[2] \in 0 .. Last /\ p = <<p[1], p[2]>>
BY AccountAssumption DEF Last, Copy, Phases, Directions

LEMMA DirectionPhases ==
    \A i \in 0 .. Last : /\ <<"target", i>> \in Phases /\ <<"target", i>>[1] = "target"
                         /\ <<"rollback", i>> \in Phases /\ <<"rollback", i>>[1] = "rollback"
BY DEF Phases

LEMMA IdleType ==
    /\ Idle \in Operations /\ Idle.kind = "idle" /\ Idle.do = "idle" /\ Idle.phase = Copy
    /\ Idle.out = "none" /\ Idle.seen = {} /\ Idle.lease = 0
BY PhaseFacts DEF Idle, Operations, Ended

Steps == Moving \cup Restores \cup Inspecting
             \cup {"idle", "refresh", "settle", "choose", "attempt", "import", "imported", "drain", "scan", "seal"}

\* Where an operation is after a step.
OpIs(kind, do, phase, out) ==
    op' \in Operations /\ op'.kind = kind /\ op'.do = do /\ op'.phase = phase /\ op'.out = out

LEMMA GotoMoves ==
    ASSUME op \in Operations, NEW step \in Steps, Goto(step)
    PROVE  OpIs(op.kind, step, op.phase, op.out)
BY DEF Operations, Steps, Goto, OpIs

LEMMA LeaveMoves ==
    ASSUME Leave
    PROVE  OpIs("idle", "idle", Copy, "none")
BY IdleType DEF Leave, OpIs

\* An operation begins.
LEMMA StartMoves ==
    ASSUME NEW kind \in {"migrate", "recover", "import", "capture"}, NEW step \in Steps,
           op' = [Idle EXCEPT !.kind = kind, !.do = step]
    PROVE  OpIs(kind, step, Copy, "none")
<1> DEFINE Kinds == {"idle", "migrate", "recover", "previous", "source", "repair", "import", "capture"}
<1>1. kind \in Kinds
  OBVIOUS
<1> HIDE DEF Kinds
<1>2. Operations = [kind : Kinds, do : Steps, phase : Phases, out : Ended, seen : SUBSET Directories,
                    lease : Leases \cup {0}]
  BY Zenon DEF Operations, Steps, Kinds
<1>3. op' \in Operations
  BY <1>1, <1>2, IdleType, Zenon
<1>4. op'.kind = kind /\ op'.do = step /\ op'.phase = Copy /\ op'.out = "none"
  BY <1>2, IdleType
<1> QED BY <1>3, <1>4, Zenon DEF OpIs

\* The records a repair is bound to.
SameEvidence == UNCHANGED <<store.mig, store.copy, store.intent, store.writer, store.attest>>

LEMMA OutcomesFrame ==
    ASSUME store'.intent = store.intent, store'.writer = store.writer
    PROVE  \A out : WriterOutcomes(out)' <=> WriterOutcomes(out)
BY DEF WriterOutcomes, OwnershipOutcomes, CopyOutcome, AllSucceeded, Recorded

LEMMA UnitFrame ==
    ASSUME UnitInv, boot' = boot, unit' = unit, UNCHANGED <<store.boot, store.writer>>
    PROVE  UnitInv'
BY DEF UnitInv

LEMMA OrderFrame ==
    ASSUME OrderInv, UNCHANGED <<store.mig, store.copy, store.base, store.intent, store.writer>>
    PROVE  OrderInv'
BY DEF OrderInv, CopyOutcome

LEMMA OutcomeFrame ==
    ASSUME OutcomeInv, SameEvidence, store'.repair = store.repair
    PROVE  OutcomeInv'
BY OutcomesFrame DEF OutcomeInv, SameEvidence, NoRepair

LEMMA EvidenceFrame ==
    ASSUME SameEvidence, store'.base = store.base
    PROVE  Evidence' = Evidence /\ (EvidenceValid' <=> EvidenceValid)
BY OutcomesFrame DEF SameEvidence, Evidence, EvidenceValid, CopyOutcome

LEMMA RepairFrame ==
    ASSUME RepairInv, SameEvidence, UNCHANGED <<store.base, store.repair, store.done>>, NoUnitRuns => NoUnitRuns'
    PROVE  RepairInv'
BY EvidenceFrame DEF RepairInv, NoRepair

\* Before a repair there is nothing for it to rest on.
LEMMA NoRepairFrame ==
    ASSUME RepairInv, NoRepair, UNCHANGED <<store.repair, store.done>>
    PROVE  RepairInv' /\ store.done = {}
BY DEF RepairInv, NoRepair

LEMMA EffectFrame ==
    ASSUME EffectInv, boot' = boot, UNCHANGED <<store.boot, store.intent, store.repair, store.mig, store.done>>,
           \A p \in Phases : Worked(p)' => Worked(p),
           fs'.tree = fs.tree, fs'.parents = fs.parents, disk'.tree = disk.tree, disk'.parents = disk.parents,
           told' = told
    PROVE  EffectInv'
<1>1. <<"target", Last - 1>> \in Phases /\ <<"target", Last>> \in Phases
  BY PhaseFacts DEF Directions
<1>2. Last' = Last
  BY DEF Last
<1> QED BY <1>1, <1>2 DEF EffectInv, NoRepair, Holds

\* What explains an access goes on explaining it.
LEMMA ExplainedFrame ==
    ASSUME NEW access, Explained(access), Restoring => Restoring',
           \A d \in Directions : store.writer[<<d, Last>>] # "none" => store'.writer[<<d, Last>>] # "none"
    PROVE  Explained(access)'
<1>1. Last' = Last
  BY DEF Last
<1> QED BY <1>1, Zenon DEF Explained

LEMMA ParentFrame ==
    ASSUME ParentInv, fs'.parents = fs.parents, disk'.parents = disk.parents,
           UNCHANGED <<store.writer, store.repair>>
    PROVE  ParentInv'
<1>1. Restoring => Restoring'
  BY DEF Restoring, AllSucceeded, Last
<1> QED BY <1>1, ExplainedFrame DEF ParentInv

LEMMA SkillFrame ==
    ASSUME SkillInv, fs'.skills = fs.skills, disk'.skills = disk.skills
    PROVE  SkillInv'
BY DEF SkillInv

Capturing == {"scan", "seal", "import", "imported"}

LEMMA CaptureFrame ==
    ASSUME CaptureInv, UNCHANGED <<store.fence, store.import, store.capture>>, session' \in {session, "none"},
           store.capture # 0 => fs'.skills = fs.skills, Settled => Settled', op'.do \notin Capturing
    PROVE  CaptureInv'
BY DEF CaptureInv, Sealed, Capturing

\* No part of a migration's invariant is about other operations.
LEMMA MoveFrame ==
    ASSUME op'.do \notin Moving, op'.do \in Restores => op'.kind # "migrate"
    PROVE  MoveInv'
BY DEF MoveInv, Moving

\* No part of the other operations' is about a migration under way.
LEMMA InspectFrame ==
    ASSUME op'.do \in Moving \cup Capturing \cup {"idle", "drain"}, op'.kind # "repair"
    PROVE  InspectInv'
BY DEF InspectInv, Moving, Capturing, Restores, Inspecting, Inspected

-----------------------------------------------------------------------------
(* Steps that only read. *)

Reads == UNCHANGED <<boot, store, unit, fs, disk, session, told>>

LEMMA ReadMoves ==
    ASSUME AccountInv, Reads, op' \in Operations, CaptureInv', MoveInv', InspectInv'
    PROVE  AccountInv'
<1>1. UNCHANGED <<store.boot, store.writer, store.base, store.repair, store.done>> /\ SameEvidence
  BY DEF Reads, SameEvidence
<1>2. AccountTypes'
  BY DEF AccountInv, AccountTypes, Reads
<1>3. UnitInv' /\ OrderInv' /\ OutcomeInv'
  BY <1>1, UnitFrame, OrderFrame, OutcomeFrame DEF AccountInv, Reads, SameEvidence
<1>4. RepairInv' /\ ParentInv' /\ SkillInv'
  BY <1>1, RepairFrame, ParentFrame, SkillFrame DEF AccountInv, Reads, NoUnitRuns
<1>5. EffectInv'
  BY EffectFrame DEF AccountInv, Reads, Worked
<1> QED BY <1>2, <1>3, <1>4, <1>5 DEF AccountInv

LEMMA ReadCaptures ==
    ASSUME CaptureInv, Reads, op'.do \notin Capturing
    PROVE  CaptureInv'
BY CaptureFrame DEF Reads, Settled

LEMMA QuietUnits ==
    ASSUME AccountTypes, UnitInv, Quiet
    PROVE  NoUnitRuns
BY DEF AccountTypes, UnitInv, Quiet, Recorded, NoUnitRuns

LEMMA HistorySettles ==
    ASSUME History
    PROVE  Settled
BY DEF History, CheckWriter, CompletionReads, Settled

\* A migration turns to giving the tree back.
LEMMA FailureMoves ==
    ASSUME op \in Operations, op.phase[1] \in Directions, AfterFailure
    PROVE  \/ op.phase[1] = "target" /\ OpIs(op.kind, "own", <<"rollback", 0>>, op.out)
           \/ op.phase[1] = "rollback" /\ OpIs("idle", "idle", Copy, "none")
<1>1. <<"rollback", 0>> \in Phases
  BY PhaseFacts DEF Directions
<1> QED BY <1>1, LeaveMoves, Zenon DEF AfterFailure, Direction, Directions, Operations, Moving, OpIs

LEMMA AbandonKeeps ==
    ASSUME AccountInv, Abandon
    PROVE  AccountInv'
<1>1. OpIs("idle", "idle", Copy, "none") /\ Reads
  BY LeaveMoves DEF Abandon, Reads
<1>2. CaptureInv' /\ MoveInv' /\ InspectInv'
  BY <1>1, ReadCaptures, MoveFrame, InspectFrame DEF AccountInv, OpIs, Capturing, Moving, Restores
<1> QED BY <1>1, <1>2, ReadMoves DEF OpIs

LEMMA VerifyBackupKeeps ==
    ASSUME AccountInv, VerifyBackup
    PROVE  AccountInv'
<1>1. op \in Operations /\ <<"target", 0>> \in Phases /\ <<"target", 0>>[1] = "target" /\ <<"target", 0>> \in Directions \X {0}
  BY PhaseFacts DEF AccountInv, AccountTypes, Directions
<1>2. OpIs(op.kind, "own", <<"target", 0>>, op.out) /\ Reads /\ op.do = "backup"
  BY <1>1, Zenon DEF VerifyBackup, Operations, Moving, OpIs, Reads, At
<1>3. op.kind = "migrate"
  BY <1>2 DEF AccountInv, MoveInv, Moving
<1>4. MoveInv'
  BY <1>1, <1>2, <1>3 DEF AccountInv, MoveInv, OpIs, Reads, Moving, NoRepair
<1>5. CaptureInv' /\ InspectInv'
  BY <1>2, <1>3, ReadCaptures, InspectFrame DEF AccountInv, OpIs, Capturing, Moving
<1> QED BY <1>2, <1>4, <1>5, ReadMoves DEF OpIs

LEMMA VerifyAccountKeeps ==
    ASSUME AccountInv, VerifyAccount
    PROVE  AccountInv'
<1>1. op \in Operations /\ op.do = "verify" /\ Reads /\ op.kind = "migrate"
  BY DEF AccountInv, AccountTypes, VerifyAccount, At, Reads, MoveInv, Moving
<1>2. op.phase[1] = "target" /\ "target" \in store.intent /\ AllSucceeded("target")
  BY <1>1 DEF AccountInv, MoveInv
<1>3. CASE op' = [op EXCEPT !.do = "refresh", !.out = "succeeded"]
  <2>1. OpIs("migrate", "refresh", op.phase, "succeeded")
    BY <1>1, <1>3, Zenon DEF Operations, OpIs, Ended, Terminal
  <2>2. CaptureInv' /\ MoveInv'
    BY <1>1, <2>1, ReadCaptures, MoveFrame DEF AccountInv, OpIs, Capturing, Moving, Restores
  <2>3. InspectInv'
    BY <2>1 DEF InspectInv, OpIs, Restores, Inspecting, Inspected, Terminal
  <2> QED BY <1>1, <2>1, <2>2, <2>3, ReadMoves DEF OpIs
<1>4. CASE AfterFailure
  <2>1. OpIs("migrate", "own", <<"rollback", 0>>, op.out)
    BY <1>1, <1>2, <1>4, FailureMoves DEF Directions
  <2>2. <<"rollback", 0>> \in Directions \X {0} /\ \A i \in 0 .. Last : store.writer[<<"target", i>>] \in Ended
    BY <1>2 DEF Directions, AllSucceeded, Ended, Terminal
  <2>3. MoveInv'
    BY <1>1, <1>2, <2>1, <2>2 DEF AccountInv, MoveInv, OpIs, Reads, Moving, NoRepair, Last
  <2>4. CaptureInv' /\ InspectInv'
    BY <1>1, <2>1, ReadCaptures, InspectFrame DEF AccountInv, OpIs, Capturing, Moving
  <2> QED BY <1>1, <2>1, <2>3, <2>4, ReadMoves DEF OpIs
<1> QED BY <1>3, <1>4 DEF VerifyAccount

\* A reading step whose operation is outside a migration's own steps.
LEMMA ReadAside ==
    ASSUME AccountInv, Reads, op' \in Operations, op'.do \notin Moving \cup Capturing,
           op'.do \in Restores => op'.kind # "migrate", InspectInv'
    PROVE  AccountInv'
<1>1. CaptureInv' /\ MoveInv'
  BY ReadCaptures, MoveFrame DEF AccountInv
<1> QED BY <1>1, ReadMoves

LEMMA CheckRestorationKeeps ==
    ASSUME AccountInv, CheckRestoration
    PROVE  AccountInv'
<1>1. op \in Operations /\ op.do = "restore" /\ Reads /\ op.kind = "migrate" /\ fs \in Directories
  BY DEF AccountInv, AccountTypes, CheckRestoration, At, Reads, MoveInv, Moving
<1>2. boot = store.boot /\ store.mig = "started" /\ NoRepair /\ store.attest = "none" /\ store.done = {}
  BY <1>1, NoRepairFrame DEF AccountInv, MoveInv, Moving, RepairInv, NoRepair
<1>3. OpIs("migrate", "tree", op.phase, op.out)
  BY <1>1, Zenon DEF CheckRestoration, Operations, OpIs, Restores, Observation
<1>4. MoveInv'
  BY <1>1, <1>2, <1>3 DEF MoveInv, OpIs, Reads, Moving, NoRepair
<1>5. Restoring' /\ "rollback" \in store'.intent
  BY <1>1 DEF CheckRestoration, Restoring, Reads, AllSucceeded, Last
<1>6. InspectInv'
  BY <1>1, <1>2, <1>3, <1>5 DEF InspectInv, OpIs, Reads, Restores, Inspecting, Inspected
<1>7. CaptureInv'
  BY <1>1, <1>3, ReadCaptures DEF AccountInv, OpIs, Capturing
<1> QED BY <1>1, <1>3, <1>4, <1>6, <1>7, ReadMoves, Zenon DEF OpIs

LEMMA RefreshDoneKeeps ==
    ASSUME AccountInv, RefreshDone
    PROVE  AccountInv'
<1>1. op \in Operations /\ op.do = "refresh" /\ op.kind \in {"migrate", "recover"} /\ NoUnitRuns
  BY QuietUnits DEF AccountInv, AccountTypes, RefreshDone, At, InspectInv
<1>2. CASE op.kind = "recover"
  <2>1. OpIs("recover", "settle", op.phase, op.out) /\ Reads /\ CopyOutcome("succeeded")
    BY <1>1, <1>2, GotoMoves DEF RefreshDone, Only, Steps, Reads
  <2>2. InspectInv'
    BY <1>1, <2>1 DEF InspectInv, OpIs, Reads, Restores, Inspecting, Inspected, NoUnitRuns, CopyOutcome
  <2> QED BY <2>1, <2>2, ReadAside DEF OpIs, Moving, Capturing, Restores
<1>3. CASE op.kind = "migrate"
  <2>1. OpIs("migrate", "inspect", op.phase, op.out) /\ Reads
    BY <1>1, <1>3, GotoMoves DEF RefreshDone, Only, Steps, Reads, Inspecting
  <2>2. op.out \in Terminal
    BY <1>1, <1>3 DEF AccountInv, InspectInv
  <2>3. InspectInv'
    BY <1>1, <2>1, <2>2 DEF InspectInv, OpIs, Reads, Restores, Inspecting, Inspected, NoUnitRuns
  <2> QED BY <2>1, <2>3, ReadAside DEF OpIs, Moving, Capturing, Restores
<1> QED BY <1>1, <1>2, <1>3

LEMMA ChooseOutcomeKeeps ==
    ASSUME AccountInv, ChooseOutcome
    PROVE  AccountInv'
<1>1. op \in Operations /\ op.do = "choose" /\ op.kind \in {"migrate", "recover"} /\ NoUnitRuns /\ Reads
  BY Zenon DEF AccountInv, AccountTypes, ChooseOutcome, At, InspectInv, Reads
<1>2. PICK out \in Terminal : op' = [op EXCEPT !.do = "inspect", !.out = out]
  BY Zenon DEF ChooseOutcome
<1>3. OpIs(op.kind, "inspect", op.phase, out)
  BY <1>1, <1>2, Zenon DEF Operations, OpIs, Inspecting, Ended
<1>4. InspectInv'
  BY <1>1, <1>3 DEF InspectInv, OpIs, Reads, Restores, Inspecting, Inspected, NoUnitRuns
<1> QED BY <1>1, <1>3, <1>4, ReadAside DEF OpIs, Moving, Capturing, Restores

LEMMA InspectFirstKeeps ==
    ASSUME AccountInv, InspectFirst
    PROVE  AccountInv'
<1>1. op \in Operations /\ op.do = "inspect" /\ Reads /\ fs \in Directories
  BY DEF AccountInv, AccountTypes, InspectFirst, At, Reads
<1>2. OpIs(op.kind, "sync", op.phase, op.out)
  BY <1>1, Zenon DEF InspectFirst, Operations, OpIs, Inspecting, Observation
<1>3. InspectInv'
  BY <1>1, <1>2 DEF AccountInv, InspectInv, OpIs, Reads, Restores, Inspecting, Inspected, NoUnitRuns, NoRepair
<1> QED BY <1>1, <1>2, <1>3, ReadAside DEF OpIs, Moving, Capturing, Restores

LEMMA InspectAgainKeeps ==
    ASSUME AccountInv, InspectAgain
    PROVE  AccountInv'
<1>1. op \in Operations /\ op.do = "again" /\ Reads
  BY DEF AccountInv, AccountTypes, InspectAgain, At, Reads
<1>2. PICK step \in {"attest", "complete", "reply"} :
          /\ OpIs(op.kind, step, op.phase, op.out)
          /\ step = "attest" <=> op.kind \in {"migrate", "recover"}
          /\ step = "complete" <=> op.kind = "repair"
  <2>1. CASE op.kind \in {"migrate", "recover"}
    BY <1>1, <2>1, Zenon DEF InspectAgain, Operations, OpIs, Inspecting, Inspected
  <2>2. CASE op.kind = "repair"
    BY <1>1, <2>2, Zenon DEF InspectAgain, Operations, OpIs, Inspecting, Inspected
  <2>3. CASE op.kind \notin {"migrate", "recover", "repair"}
    BY <1>1, <2>3, Zenon DEF InspectAgain, Operations, OpIs, Inspecting, Inspected
  <2> QED BY <2>1, <2>2, <2>3
<1>3. op.out = "failed" => Holds(fs, "original")
  BY DEF InspectAgain, Inspect, Holds, ParentsOriginal
<1>4. InspectInv'
  BY <1>1, <1>2, <1>3 DEF AccountInv, InspectInv, OpIs, Reads, Restores, Inspecting, Inspected, NoUnitRuns, NoRepair, Holds
<1> QED BY <1>1, <1>2, <1>4, ReadAside DEF OpIs, Moving, Capturing, Restores

LEMMA RecoverKeeps ==
    ASSUME AccountInv, Recover
    PROVE  AccountInv'
<1>1. OpIs("recover", "refresh", Copy, "none") /\ Reads
  BY StartMoves, Zenon DEF Recover, Steps, Reads
<1>2. InspectInv'
  BY <1>1 DEF InspectInv, OpIs, Restores, Inspecting, Inspected
<1> QED BY <1>1, <1>2, ReadAside DEF OpIs, Moving, Capturing, Restores

\* An inspection begins at the comparison of the trees.
LEMMA InspectionStarts ==
    ASSUME AccountInv, Reads, NoUnitRuns, NEW kind \in {"previous", "source", "repair"}, NEW out \in Terminal,
           kind = "repair" => ~NoRepair /\ out = "failed", kind # "repair" => store.mig = out,
           OpIs(kind, "inspect", Copy, out)
    PROVE  AccountInv'
<1>1. InspectInv'
  BY DEF InspectInv, OpIs, Reads, Restores, Inspecting, Inspected, NoUnitRuns, NoRepair
<1> QED BY <1>1, ReadAside DEF OpIs, Moving, Capturing, Restores

LEMMA InspectPreviousBootKeeps ==
    ASSUME AccountInv, InspectPreviousBoot
    PROVE  AccountInv'
<1>1. OpIs("previous", "inspect", Copy, "succeeded") /\ Reads
  BY IdleType, Zenon DEF InspectPreviousBoot, Reads, OpIs, Operations, Inspecting, Ended, Terminal
<1>2. NoUnitRuns /\ store.mig = "succeeded"
  BY DEF InspectPreviousBoot, AccountInv, UnitInv, NoUnitRuns
<1> QED BY <1>1, <1>2, InspectionStarts DEF Terminal

LEMMA VerifySourceKeeps ==
    ASSUME AccountInv, VerifySource
    PROVE  AccountInv'
<1>1. OpIs("source", "inspect", Copy, "failed") /\ Reads
  BY IdleType, Zenon DEF VerifySource, Reads, OpIs, Operations, Inspecting, Ended, Terminal
<1>2. NoUnitRuns /\ store.mig = "failed"
  BY QuietUnits DEF VerifySource, AccountInv
<1> QED BY <1>1, <1>2, InspectionStarts DEF Terminal

LEMMA RepeatRepairKeeps ==
    ASSUME AccountInv, RepeatRepair
    PROVE  AccountInv'
<1>1. PICK l \in Leases : op' = [Idle EXCEPT !.kind = "repair", !.do = "inspect", !.out = "failed", !.lease = l]
  BY Zenon DEF RepeatRepair
<1>2. OpIs("repair", "inspect", Copy, "failed") /\ Reads
  BY <1>1, IdleType, Zenon DEF RepeatRepair, Reads, OpIs, Operations, Inspecting, Ended, Terminal
<1>3. NoUnitRuns /\ ~NoRepair
  BY QuietUnits, Zenon DEF RepeatRepair, AccountInv, CompletionReads, IntentReads, Evidence, NoRepair, NoEvidence
<1> QED BY <1>2, <1>3, InspectionStarts DEF Terminal

LEMMA CheckWritersKeeps ==
    ASSUME AccountInv, CheckWriters
    PROVE  AccountInv'
<1>1. op \in Operations /\ op.do = "drain" /\ Reads
  BY DEF AccountInv, AccountTypes, CheckWriters, At, Only, Reads
<1>2. OpIs(op.kind, "scan", op.phase, op.out)
  BY <1>1, GotoMoves DEF CheckWriters, Only, Steps
<1>3. Sealed
  BY HistorySettles DEF CheckWriters, Sealed, ImportsDrained, NativeWritersExited
<1>4. CaptureInv'
  BY <1>1, <1>2, <1>3 DEF AccountInv, CaptureInv, OpIs, Reads, Sealed, Settled
<1>5. op.kind # "repair" \/ ~NoRepair
  BY DEF AccountInv, InspectInv
<1>6. MoveInv' /\ InspectInv'
  BY <1>1, <1>2, <1>5, MoveFrame DEF InspectInv, OpIs, Reads, Moving, Restores, Inspecting, Inspected, NoRepair
<1> QED BY <1>1, <1>2, <1>4, <1>6, ReadMoves DEF OpIs

LEMMA ScanSourceKeeps ==
    ASSUME AccountInv, ScanSource
    PROVE  AccountInv'
<1>1. op \in Operations /\ op.do = "scan" /\ Reads /\ fs \in Directories
  BY DEF AccountInv, AccountTypes, ScanSource, At, Reads
<1>2. OpIs(op.kind, "seal", op.phase, op.out)
  BY <1>1, Zenon DEF ScanSource, Operations, OpIs, Observation
<1>3. CaptureInv'
  BY <1>1, <1>2 DEF AccountInv, CaptureInv, OpIs, Reads, Sealed, Settled
<1>4. MoveInv' /\ InspectInv'
  BY <1>1, <1>2, MoveFrame
     DEF AccountInv, InspectInv, OpIs, Reads, Moving, Restores, Inspecting, Inspected, NoRepair
<1> QED BY <1>1, <1>2, <1>3, <1>4, ReadMoves DEF OpIs

-----------------------------------------------------------------------------
(* Steps that write a record of the migration. *)

Writes == UNCHANGED <<boot, unit, fs, disk, session, told>>

\* The records other than those of the migration's progress.
SameRest == UNCHANGED <<store.fence, store.import, store.capture, store.repair, store.done, store.boot>>

\* A record of the progress, before any repair and any attestation.
LEMMA ProgressMoves ==
    ASSUME AccountInv, Writes, SameRest, NoRepair, store' \in Records, store'.mig = store.mig, store.mig = "started",
           store'.writer = store.writer, store'.attest = store.attest, store.attest = "none",
           store.intent \subseteq store'.intent, OrderInv',
           op' \in Operations, op'.do \notin Capturing, MoveInv', InspectInv'
    PROVE  AccountInv'
<1>1. AccountTypes'
  BY DEF AccountInv, AccountTypes, Writes
<1>2. UnitInv' /\ ParentInv' /\ SkillInv'
  BY UnitFrame, ParentFrame, SkillFrame DEF AccountInv, Writes, SameRest
<1>3. OutcomeInv' /\ RepairInv'
  BY NoRepairFrame DEF AccountInv, OutcomeInv, SameRest, Terminal
<1>4. EffectInv'
  BY DEF AccountInv, EffectInv, Writes, SameRest, NoRepair, Worked, Holds, Last
<1>5. CaptureInv'
  BY CaptureFrame DEF AccountInv, Writes, SameRest, Settled
<1> QED BY <1>1, <1>2, <1>3, <1>4, <1>5 DEF AccountInv

LEMMA BeginMigrationKeeps ==
    ASSUME AccountInv, BeginMigration
    PROVE  AccountInv'
<1>1. /\ OpIs("migrate", "baseline", Copy, "none") /\ Writes /\ store.mig = "none" /\ store.fence = 0
      /\ store' = [store EXCEPT !.mig = "started", !.boot = boot]
  BY StartMoves, Zenon DEF BeginMigration, Store, LegacyRuntime, Steps, Moving, Writes
<1>2. store \in Records /\ boot \in Nat \ {0} /\ unit \in [Phases -> {"none", "running", "ok", "bad"}]
  BY DEF AccountInv, AccountTypes
<1>3. /\ store' \in Records /\ store'.mig = "started" /\ store'.boot = boot
      /\ UNCHANGED <<store.fence, store.base, store.copy, store.intent, store.writer, store.attest, store.repair,
                     store.done, store.import, store.capture>>
  BY <1>1, <1>2, Zenon DEF Records
<1>4. store.copy = "none" /\ store.intent = {} /\ (\A p \in Phases : store.writer[p] = "none" /\ unit[p] = "none")
  BY <1>1, <1>2 DEF AccountInv, OrderInv, UnitInv
<1>5. store.attest = "none" /\ NoRepair /\ store.done = {}
  BY <1>1, <1>4 DEF AccountInv, OutcomeInv, WriterOutcomes, OwnershipOutcomes, RepairInv, EvidenceValid
<1>6. AccountTypes'
  BY <1>1, <1>3 DEF AccountInv, AccountTypes, Writes, OpIs
<1>7. UnitInv'
  BY <1>1, <1>2, <1>3, <1>4 DEF UnitInv, Writes
<1>8. OrderInv'
  BY <1>3 DEF AccountInv, OrderInv, CopyOutcome
<1>9. OutcomeInv' /\ RepairInv'
  BY <1>3, <1>5, NoRepairFrame DEF AccountInv, OutcomeInv, Terminal
<1>10. <<"target", Last - 1>> \in Phases /\ <<"target", Last>> \in Phases /\ Last' = Last
  BY PhaseFacts DEF Directions, Last
<1>11. EffectInv'
  BY <1>1, <1>3, <1>4, <1>5, <1>10 DEF AccountInv, EffectInv, Writes, Worked, NoRepair
<1>12. ParentInv' /\ SkillInv'
  BY <1>1, <1>3, ParentFrame, SkillFrame DEF AccountInv, Writes
<1>13. CaptureInv'
  BY <1>1, <1>3 DEF AccountInv, CaptureInv, Sealed, OpIs
<1>14. MoveInv'
  BY <1>1, <1>3, <1>4, <1>5 DEF MoveInv, OpIs, Moving, Writes, NoRepair
<1>15. InspectInv'
  BY <1>1, InspectFrame DEF OpIs, Moving
<1> QED BY <1>6, <1>7, <1>8, <1>9, <1>11, <1>12, <1>13, <1>14, <1>15, Zenon DEF AccountInv

\* What is known at a step of a migration.
LEMMA InMove ==
    ASSUME AccountInv, op.do \in Moving
    PROVE  /\ op \in Operations /\ op.kind = "migrate" /\ store \in Records
           /\ boot = store.boot /\ store.mig = "started" /\ NoRepair /\ store.attest = "none" /\ store.done = {}
<1>1. op.kind = "migrate" /\ boot = store.boot /\ store.mig = "started" /\ NoRepair /\ store.attest = "none"
  BY DEF AccountInv, MoveInv
<1> QED BY <1>1 DEF AccountInv, AccountTypes, RepairInv

LEMMA CaptureBaselineKeeps ==
    ASSUME AccountInv, CaptureBaseline
    PROVE  AccountInv'
<1>1. op.do = "baseline" /\ Writes /\ store' = [store EXCEPT !.base = fs.skills] /\ Goto("mkdir")
  BY DEF CaptureBaseline, At, Store, Writes
<1>2. /\ op \in Operations /\ op.kind = "migrate" /\ store \in Records
      /\ boot = store.boot /\ store.mig = "started" /\ NoRepair /\ store.attest = "none"
  BY <1>1, InMove DEF Moving
<1>3. fs.skills \in Nat /\ fs.skills # NoBaseline
  BY DEF AccountInv, AccountTypes, Directories, SkillInv, NoBaseline
<1>4. OpIs("migrate", "mkdir", op.phase, op.out)
  BY <1>1, <1>2, GotoMoves DEF Steps, Moving
<1>5. /\ store' \in Records /\ store'.base = fs.skills /\ SameRest
      /\ UNCHANGED <<store.mig, store.copy, store.intent, store.writer, store.attest>>
  BY <1>1, <1>2, <1>3 DEF Records, SameRest
<1>6. store.copy = "none" /\ store.intent = {} /\ op.phase = Copy
  BY <1>1 DEF AccountInv, MoveInv
<1>7. OrderInv'
  BY <1>5, <1>6 DEF AccountInv, OrderInv, CopyOutcome
<1>8. MoveInv'
  BY <1>1, <1>2, <1>3, <1>4, <1>5, <1>6 DEF MoveInv, OpIs, Moving, Writes, SameRest, NoRepair
<1>9. InspectInv'
  BY <1>4, InspectFrame DEF OpIs, Moving
<1> QED BY <1>1, <1>2, <1>4, <1>5, <1>7, <1>8, <1>9, ProgressMoves DEF OpIs, Capturing

LEMMA BeginCopyKeeps ==
    ASSUME AccountInv, BeginCopy
    PROVE  AccountInv'
<1>1. op.do = "copy" /\ Writes /\ store' = [store EXCEPT !.copy = "started"] /\ Goto("launch")
  BY DEF BeginCopy, At, Store, Writes
<1>2. /\ op \in Operations /\ op.kind = "migrate" /\ store \in Records
      /\ boot = store.boot /\ store.mig = "started" /\ NoRepair /\ store.attest = "none"
  BY <1>1, InMove DEF Moving
<1>3. OpIs("migrate", "launch", op.phase, op.out)
  BY <1>1, <1>2, GotoMoves DEF Steps, Moving
<1>4. /\ store' \in Records /\ store'.copy = "started" /\ SameRest
      /\ UNCHANGED <<store.mig, store.base, store.intent, store.writer, store.attest>>
  BY <1>1, <1>2 DEF Records, SameRest
<1>5. store.copy = "none" /\ store.intent = {} /\ op.phase = Copy /\ store.base # NoBaseline
  BY <1>1 DEF AccountInv, MoveInv
<1>6. OrderInv'
  BY <1>2, <1>4, <1>5 DEF AccountInv, OrderInv, CopyOutcome
<1>7. MoveInv'
  BY <1>1, <1>2, <1>3, <1>4, <1>5, PhaseFacts DEF MoveInv, OpIs, Moving, Writes, SameRest, NoRepair
<1>8. InspectInv'
  BY <1>3, InspectFrame DEF OpIs, Moving
<1> QED BY <1>1, <1>2, <1>3, <1>4, <1>6, <1>7, <1>8, ProgressMoves, Zenon DEF OpIs, Capturing

LEMMA FinishCopyKeeps ==
    ASSUME AccountInv, FinishCopy
    PROVE  AccountInv'
<1>1. op.do = "copied" /\ Writes /\ store' = [store EXCEPT !.copy = CopyState]
  BY DEF FinishCopy, At, Store, Writes
<1>2. /\ op \in Operations /\ op.kind = "migrate" /\ store \in Records
      /\ boot = store.boot /\ store.mig = "started" /\ NoRepair /\ store.attest = "none"
  BY <1>1, InMove DEF Moving
<1>3. /\ store' \in Records /\ store'.copy = CopyState /\ SameRest
      /\ UNCHANGED <<store.mig, store.base, store.intent, store.writer, store.attest>>
      /\ store'.copy = "copied" => CopyOutcome("succeeded")
      /\ store'.copy \in {"copied", "failed"}
  BY <1>1, <1>2 DEF Records, SameRest, CopyState
<1>4. store.intent = {} /\ store.writer[Copy] \in Terminal
  BY <1>1 DEF AccountInv, MoveInv
<1>5. store.base # NoBaseline
  BY <1>4 DEF AccountInv, OrderInv, CopyOutcome, Terminal
<1>6. OrderInv'
  BY <1>2, <1>3, <1>4, <1>5 DEF AccountInv, OrderInv, CopyOutcome
<1>7. CASE OpIs("migrate", "backup", op.phase, op.out)
  <2>1. MoveInv'
    BY <1>1, <1>2, <1>3, <1>4, <1>7 DEF MoveInv, OpIs, Moving, Writes, SameRest, NoRepair
  <2>2. InspectInv'
    BY <1>7, InspectFrame DEF OpIs, Moving
  <2> QED BY <1>1, <1>2, <1>3, <1>6, <1>7, <2>1, <2>2, ProgressMoves DEF OpIs, Capturing
<1>8. CASE OpIs("idle", "idle", Copy, "none")
  <2>1. MoveInv' /\ InspectInv'
    BY <1>8, MoveFrame, InspectFrame DEF OpIs, Moving, Restores
  <2> QED BY <1>1, <1>2, <1>3, <1>6, <1>8, <2>1, ProgressMoves DEF OpIs, Capturing
<1> QED BY <1>2, <1>7, <1>8, GotoMoves, LeaveMoves DEF FinishCopy, Steps, Moving

LEMMA BeginOwnershipKeeps ==
    ASSUME AccountInv, BeginOwnership
    PROVE  AccountInv'
<1> DEFINE d == op.phase[1]
<1>1. /\ op.do = "own" /\ Writes /\ store' = [store EXCEPT !.intent = @ \cup {d}] /\ Goto("chown")
      /\ d \notin store.intent /\ store.copy = "copied"
  BY DEF BeginOwnership, At, Store, Writes, Direction
<1>2. /\ op \in Operations /\ op.kind = "migrate" /\ store \in Records
      /\ boot = store.boot /\ store.mig = "started" /\ NoRepair /\ store.attest = "none"
  BY <1>1, InMove DEF Moving
<1>3. OpIs("migrate", "chown", op.phase, op.out)
  BY <1>1, <1>2, GotoMoves DEF Steps, Moving
<1>4. /\ op.phase \in Directions \X {0} /\ d \in Directions
      /\ d = "rollback" => "target" \in store.intent /\ \A i \in 0 .. Last : store.writer[<<"target", i>>] \in Ended
  BY <1>1 DEF AccountInv, MoveInv
<1>5. /\ store' \in Records /\ store'.intent = store.intent \cup {d} /\ SameRest
      /\ UNCHANGED <<store.mig, store.base, store.copy, store.writer, store.attest>>
  BY <1>1, <1>2, <1>4 DEF Records, SameRest
<1>6. /\ \A i \in 0 .. Last : store.writer[<<d, i>>] = "none"
      /\ d = "target" => "rollback" \notin store.intent
  BY <1>1, <1>4 DEF AccountInv, OrderInv
<1> HIDE DEF d
<1>7. OrderInv'
  <2>1. Last' = Last /\ OrderInv
    BY DEF Last, AccountInv
  <2>2. "rollback" \in store'.intent =>
            "target" \in store'.intent /\ \A i \in 0 .. Last : store.writer[<<"target", i>>] \in Ended
    BY <1>4, <1>5, <2>1 DEF OrderInv
  <2>3. \A e \in Directions, i \in 0 .. Last : store.writer[<<e, i>>] # "none" =>
            e \in store'.intent /\ \A j \in 0 .. Last : j < i => store.writer[<<e, j>>] = "succeeded"
    BY <1>5, <2>1 DEF OrderInv
  <2> QED BY <1>1, <1>2, <1>5, <2>1, <2>2, <2>3 DEF OrderInv, CopyOutcome
<1>8. MoveInv'
  BY <1>1, <1>2, <1>3, <1>4, <1>5, <1>6 DEF d, MoveInv, OpIs, Moving, Writes, SameRest, NoRepair, Last
<1>9. InspectInv'
  BY <1>3, InspectFrame DEF OpIs, Moving
<1> QED BY <1>1, <1>2, <1>3, <1>5, <1>7, <1>8, <1>9, ProgressMoves, Zenon DEF OpIs, Capturing

-----------------------------------------------------------------------------
(* The privileged writers. *)

LEMMA BeginWriterKeeps ==
    ASSUME AccountInv, BeginWriter
    PROVE  AccountInv'
<1> DEFINE p == op.phase
<1>1. /\ op.do = "launch" /\ Writes /\ store' = [store EXCEPT !.writer[p] = "starting"] /\ Goto("admit")
      /\ store.writer[p] = "none"
      /\ p = Copy => store.copy = "started"
      /\ p # Copy => store.copy = "copied" /\ p[1] \in store.intent
  BY DEF BeginWriter, At, Store, Writes, Direction
<1>2. /\ op \in Operations /\ op.kind = "migrate" /\ store \in Records
      /\ boot = store.boot /\ store.mig = "started" /\ NoRepair /\ store.attest = "none"
  BY <1>1, InMove DEF Moving
<1>3. OpIs("migrate", "admit", p, op.out)
  BY <1>1, <1>2, GotoMoves DEF Steps, Moving
<1>4. p \in Phases /\ store.writer \in [Phases -> Launches]
  BY <1>2 DEF Operations, Records
<1>5. /\ store' \in Records /\ SameRest /\ store'.writer = [store.writer EXCEPT ![p] = "starting"]
      /\ UNCHANGED <<store.mig, store.base, store.copy, store.intent, store.attest>>
  BY <1>1, <1>2, <1>4 DEF Records, SameRest, Launches
<1>6. store'.writer[p] = "starting" /\ \A q \in Phases : q # p => store'.writer[q] = store.writer[q]
  BY <1>4, <1>5
<1>7. /\ p = Copy => store.intent = {}
      /\ p[1] = "target" => "rollback" \notin store.intent
      /\ p # Copy => \A j \in 0 .. Last : j < p[2] => store.writer[<<p[1], j>>] = "succeeded"
  BY <1>1 DEF AccountInv, MoveInv
<1> HIDE DEF p
<1>8. AccountTypes'
  BY <1>1, <1>3, <1>5 DEF AccountInv, AccountTypes, Writes, OpIs
<1>9. UnitInv'
  BY <1>1, <1>5, <1>6 DEF AccountInv, UnitInv, Writes, SameRest
<1>10. OrderInv /\ Last' = Last
  BY DEF AccountInv, Last
<1>11. OrderInv'
  <2>1. "rollback" \in store.intent => \A i \in 0 .. Last : store'.writer[<<"target", i>>] \in Ended
    BY <1>6, <1>7, <1>10, DirectionPhases, Zenon DEF OrderInv
  <2>2. ASSUME NEW e \in Directions, NEW i \in 0 .. Last, store'.writer[<<e, i>>] # "none"
        PROVE  e \in store.intent /\ \A j \in 0 .. Last : j < i => store'.writer[<<e, j>>] = "succeeded"
    <3>1. <<e, i>> \in Phases /\ <<e, i>> # Copy /\ <<e, i>>[1] = e /\ <<e, i>>[2] = i
      BY PhaseFacts
    <3>2. CASE <<e, i>> = p
      <4>1. e \in store.intent
        BY <1>1, <3>1, <3>2
      <4>2. ASSUME NEW j \in 0 .. Last, j < i PROVE store'.writer[<<e, j>>] = "succeeded"
        <5>1. <<e, j>> \in Phases /\ <<e, j>> # p
          BY <3>2, <4>2, PhaseFacts
        <5> QED BY <1>6, <1>7, <3>1, <3>2, <4>2, <5>1, Zenon
      <4> QED BY <4>1, <4>2
    <3>3. CASE <<e, i>> # p
      <4>1. store.writer[<<e, i>>] # "none"
        BY <1>6, <2>2, <3>1, <3>3
      <4>2. ASSUME NEW j \in 0 .. Last, j < i PROVE store'.writer[<<e, j>>] = "succeeded"
        <5>1. store.writer[<<e, j>>] = "succeeded" /\ <<e, j>> \in Phases
          BY <1>10, <4>1, <4>2, PhaseFacts DEF OrderInv
        <5> QED BY <1>1, <1>6, <5>1, Zenon
      <4> QED BY <1>10, <4>1, <4>2 DEF OrderInv
    <3> QED BY <3>2, <3>3
  <2>3. store.copy = "copied" => store'.writer[Copy] = "succeeded"
    BY <1>1, <1>6, <1>10, PhaseFacts DEF OrderInv, CopyOutcome
  <2>4. store.copy = "none" => store'.writer[Copy] = "none"
    BY <1>1, <1>6, <1>10, PhaseFacts, Zenon DEF OrderInv, CopyOutcome
  <2> QED BY <1>2, <1>5, <1>10, <2>1, <2>2, <2>3, <2>4 DEF OrderInv, CopyOutcome
<1>12. OutcomeInv' /\ RepairInv'
  BY <1>2, <1>5, NoRepairFrame DEF AccountInv, OutcomeInv, SameRest, Terminal
<1>13. \A q \in Phases : Worked(q)' => Worked(q)
  BY <1>1, <1>6 DEF Worked, Writes
<1>14. EffectInv' /\ SkillInv'
  BY <1>1, <1>5, <1>13, EffectFrame, SkillFrame DEF AccountInv, Writes, SameRest
<1>15. AllSucceeded("rollback") => AllSucceeded("rollback")'
  BY <1>1, <1>6, <1>10, DirectionPhases, Zenon DEF AllSucceeded
<1>16. \A d \in Directions : store.writer[<<d, Last>>] # "none" => store'.writer[<<d, Last>>] # "none"
  BY <1>6, PhaseFacts
<1>17. ParentInv'
  BY <1>1, <1>5, <1>15, <1>16, ExplainedFrame, Zenon DEF AccountInv, ParentInv, Writes, SameRest, Restoring
<1>18. CaptureInv'
  BY <1>1, <1>3, <1>5, CaptureFrame, Zenon DEF AccountInv, Writes, SameRest, Settled, OpIs, Capturing
<1>19. MoveInv'
  BY <1>1, <1>2, <1>3, <1>5, <1>6, <1>7, Zenon DEF MoveInv, OpIs, Moving, Writes, SameRest, NoRepair
<1>20. InspectInv'
  BY <1>3, InspectFrame DEF OpIs, Moving
<1> QED BY <1>8, <1>9, <1>11, <1>12, <1>14, <1>17, <1>18, <1>19, <1>20, Zenon DEF AccountInv

\* An observation closes no record but its own, and only with the unit's exit.
LEMMA ObserveMoves ==
    ASSUME AccountInv, NEW p \in Phases, Observe(p), op' \in Operations, op'.do \notin Capturing, InspectInv', MoveInv'
    PROVE  AccountInv'
<1>1. /\ Writes /\ store' = [store EXCEPT !.writer[p] = Observed(p)] /\ NoRepair /\ Observed(p) # store.writer[p]
      /\ unit[p] # "none"
  BY DEF Observe, Store, Writes, Loaded
<1>2. store \in Records /\ store.writer \in [Phases -> Launches]
  BY DEF AccountInv, AccountTypes, Records
<1>3. /\ store.writer[p] \in {"starting", "observed"} /\ Observed(p) \in {"observed", "succeeded", "failed"}
      /\ Observed(p) \in Terminal => unit[p] # "running"
      /\ Observed(p) = "succeeded" => unit[p] = "ok"
  <2>1. CASE store.writer[p] = "starting"
    BY <2>1 DEF Observed, Terminal
  <2>2. CASE store.writer[p] = "observed" /\ Exited(p)
    BY <2>2 DEF Observed, Exited
  <2>3. CASE ~(store.writer[p] = "starting") /\ ~(store.writer[p] = "observed" /\ Exited(p))
    BY <1>1, <2>3 DEF Observed
  <2> QED BY <2>1, <2>2, <2>3
<1>4. /\ store' \in Records /\ SameRest /\ store'.writer = [store.writer EXCEPT ![p] = Observed(p)]
      /\ UNCHANGED <<store.mig, store.base, store.copy, store.intent, store.attest>>
  BY <1>1, <1>2, <1>3 DEF Records, SameRest, Launches, Terminal
<1>5. /\ store'.writer[p] = Observed(p) /\ \A q \in Phases : q # p => store'.writer[q] = store.writer[q]
      /\ \A q \in Phases : /\ store.writer[q] \in Ended => store'.writer[q] = store.writer[q]
                           /\ store.writer[q] = "none" <=> store'.writer[q] = "none"
  BY <1>2, <1>3, <1>4, Zenon DEF Ended, Terminal
<1>6. store.attest = "none" /\ store.mig \notin Terminal
  <2>1. p \in Recorded /\ store.writer[p] \notin Terminal
    BY <1>3 DEF Recorded, Terminal
  <2> QED BY <2>1 DEF AccountInv, OutcomeInv, WriterOutcomes, Terminal
<1>7. AccountTypes'
  BY <1>1, <1>4 DEF AccountInv, AccountTypes, Writes
<1>8. UnitInv'
  BY <1>1, <1>3, <1>4, <1>5 DEF AccountInv, UnitInv, Writes, SameRest, Terminal
<1>9. OrderInv /\ Last' = Last
  BY DEF AccountInv, Last
<1>10. OrderInv'
  <2>1. \A e \in Directions, i \in 0 .. Last : <<e, i>> \in Phases
    BY PhaseFacts, Zenon
  <2>2. "rollback" \in store.intent => \A i \in 0 .. Last : store'.writer[<<"target", i>>] \in Ended
    BY <1>5, <1>9, <2>1, Zenon DEF OrderInv, Directions
  <2>3. \A e \in Directions, i \in 0 .. Last : store'.writer[<<e, i>>] # "none" =>
            e \in store.intent /\ \A j \in 0 .. Last : j < i => store'.writer[<<e, j>>] = "succeeded"
    BY <1>5, <1>9, <2>1 DEF OrderInv, Ended, Terminal
  <2>4. /\ store.copy = "copied" => store'.writer[Copy] = "succeeded"
        /\ store.copy = "none" => store'.writer[Copy] = "none"
    BY <1>5, <1>9, PhaseFacts DEF OrderInv, CopyOutcome, Ended, Terminal
  <2>5. store.mig = "none" => \A q \in Phases : store'.writer[q] = "none"
    BY <1>5, <1>9 DEF OrderInv
  <2> QED BY <1>4, <1>9, <2>2, <2>3, <2>4, <2>5 DEF OrderInv, CopyOutcome
<1>11. OutcomeInv' /\ RepairInv'
  BY <1>1, <1>4, <1>6, NoRepairFrame DEF AccountInv, OutcomeInv, SameRest
<1>12. \A q \in Phases : Worked(q)' => Worked(q)
  BY <1>1, <1>3, <1>5 DEF Worked, Writes
<1>13. EffectInv' /\ SkillInv'
  BY <1>1, <1>4, <1>12, EffectFrame, SkillFrame DEF AccountInv, Writes, SameRest
<1>14. AllSucceeded("rollback") => AllSucceeded("rollback")'
  BY <1>5, <1>9, DirectionPhases, Zenon DEF AllSucceeded, Ended, Terminal
<1>15. \A d \in Directions : store.writer[<<d, Last>>] # "none" => store'.writer[<<d, Last>>] # "none"
  BY <1>5, PhaseFacts
<1>16. ParentInv'
  BY <1>1, <1>4, <1>14, <1>15, ExplainedFrame, Zenon DEF AccountInv, ParentInv, Writes, SameRest, Restoring
<1>17. CaptureInv'
  BY <1>1, <1>4, CaptureFrame DEF AccountInv, Writes, SameRest, Settled
<1> QED BY <1>7, <1>8, <1>10, <1>11, <1>13, <1>16, <1>17 DEF AccountInv

LEMMA WatchWriterKeeps ==
    ASSUME AccountInv, WatchWriter
    PROVE  AccountInv'
<1> DEFINE step == IF Observed(op.phase) \in Terminal THEN "reap" ELSE "watch"
<1>1. op.do = "watch" /\ Observe(op.phase) /\ Goto(step)
  BY DEF WatchWriter, At
<1>2. /\ op \in Operations /\ op.kind = "migrate" /\ store \in Records /\ op.phase \in Phases
      /\ boot = store.boot /\ store.mig = "started" /\ NoRepair /\ store.attest = "none"
  BY <1>1, InMove DEF Moving, Operations
<1>3. step \in Steps /\ step \in {"reap", "watch"} /\ (step = "reap" => Observed(op.phase) \in Terminal)
  BY DEF Steps, Moving
<1> HIDE DEF step
<1>4. OpIs("migrate", step, op.phase, op.out)
  BY <1>1, <1>2, <1>3, GotoMoves
<1>5. /\ UNCHANGED <<boot, store.boot, store.mig, store.repair, store.attest, store.intent>>
      /\ store'.writer[op.phase] = Observed(op.phase)
  BY <1>1, <1>2, Zenon DEF Observe, Store, Records
<1>6. MoveInv'
  BY <1>1, <1>2, <1>3, <1>4, <1>5, Zenon DEF AccountInv, MoveInv, OpIs, Moving, NoRepair
<1>7. InspectInv'
  BY <1>3, <1>4, InspectFrame DEF OpIs, Moving
<1> QED BY <1>1, <1>2, <1>3, <1>4, <1>6, <1>7, ObserveMoves, Zenon DEF OpIs, Capturing

LEMMA RefreshWriterKeeps ==
    ASSUME AccountInv, RefreshWriter
    PROVE  AccountInv'
<1>1. PICK p \in Phases : Observe(p)
  BY DEF RefreshWriter, Recorded
<1>2. op' = op /\ op.do = "refresh" /\ op \in Operations
  BY DEF RefreshWriter, At, AccountInv, AccountTypes
<1>3. MoveInv'
  BY <1>2, MoveFrame, Zenon DEF Moving, Restores
<1>4. InspectInv'
  BY <1>2 DEF AccountInv, InspectInv, Restores, Inspecting, Inspected
<1> QED BY <1>1, <1>2, <1>3, <1>4, ObserveMoves DEF Capturing

\* A unit of the migration is admitted or released.
LEMMA UnitMoves ==
    ASSUME AccountInv, op.do \in Moving, UNCHANGED <<boot, store, fs, disk, session, told>>,
           NEW u \in {"running", "none"}, unit' = [unit EXCEPT ![op.phase] = u],
           u = "running" => store.writer[op.phase] = "starting",
           op' \in Operations, op'.do \notin Capturing, MoveInv', InspectInv'
    PROVE  AccountInv'
<1>1. /\ op.phase \in Phases /\ unit \in [Phases -> {"none", "running", "ok", "bad"}]
      /\ boot = store.boot /\ NoRepair
  BY InMove DEF Operations, AccountInv, AccountTypes
<1>2. unit'[op.phase] = u /\ \A q \in Phases : q # op.phase => unit'[q] = unit[q]
  BY <1>1
<1>3. AccountTypes'
  BY <1>1, Zenon DEF AccountInv, AccountTypes
<1>4. UnitInv'
  BY <1>1, <1>2 DEF AccountInv, UnitInv
<1>5. OrderInv' /\ OutcomeInv' /\ RepairInv'
  BY <1>1, OrderFrame, OutcomeFrame, NoRepairFrame DEF AccountInv, SameEvidence
<1>6. \A q \in Phases : Worked(q)' => Worked(q)
  BY <1>2, Zenon DEF Worked
<1>7. EffectInv' /\ ParentInv' /\ SkillInv'
  BY <1>6, EffectFrame, ParentFrame, SkillFrame, Zenon DEF AccountInv
<1>8. CaptureInv'
  BY CaptureFrame DEF AccountInv, Settled
<1> QED BY <1>3, <1>4, <1>5, <1>7, <1>8, Zenon DEF AccountInv

LEMMA StartUnitKeeps ==
    ASSUME AccountInv, StartUnit
    PROVE  AccountInv'
<1>1. PICK u \in {"running", "none"} : unit' = [unit EXCEPT ![op.phase] = u]
  BY Zenon DEF StartUnit
<1>2. op.do = "admit" /\ UNCHANGED <<boot, store, fs, disk, session, told>> /\ Goto("watch") /\ op.do \in Moving
  BY DEF StartUnit, At, Moving
<1>3. /\ op \in Operations /\ op.kind = "migrate"
      /\ boot = store.boot /\ store.mig = "started" /\ NoRepair /\ store.attest = "none"
  BY <1>2, InMove
<1>4. OpIs("migrate", "watch", op.phase, op.out)
  BY <1>2, <1>3, GotoMoves DEF Steps, Moving
<1>5. store.writer[op.phase] = "starting"
  BY <1>2, Zenon DEF AccountInv, MoveInv
<1>6. MoveInv'
  BY <1>2, <1>3, <1>4, Zenon DEF AccountInv, MoveInv, OpIs, Moving, NoRepair
<1>7. InspectInv'
  BY <1>4, InspectFrame, Zenon DEF OpIs, Moving
<1> QED BY <1>1, <1>2, <1>4, <1>5, <1>6, <1>7, UnitMoves, Zenon DEF OpIs, Capturing

LEMMA ReleaseUnitKeeps ==
    ASSUME AccountInv, ReleaseUnit
    PROVE  AccountInv'
<1> DEFINE p == op.phase
<1>1. /\ op.do = "reap" /\ UNCHANGED <<boot, store, fs, disk, session, told>> /\ op.do \in Moving
      /\ unit' = [unit EXCEPT ![op.phase] = "none"] /\ AfterWriter
  BY DEF ReleaseUnit, At, Moving
<1>2. /\ op \in Operations /\ op.kind = "migrate" /\ p \in Phases /\ op.out \in Ended
      /\ boot = store.boot /\ store.mig = "started" /\ NoRepair /\ store.attest = "none"
  BY <1>1, InMove, Zenon DEF Operations
<1>3. /\ store.writer[p] \in Terminal
      /\ p = Copy => store.intent = {}
      /\ p # Copy => p[1] \in store.intent
      /\ p[1] = "target" => "rollback" \notin store.intent
  BY <1>1 DEF AccountInv, MoveInv
<1>4. p # Copy => p[1] \in Directions /\ p[2] \in 0 .. Last /\ p = <<p[1], p[2]>>
  BY <1>2, PhaseFacts
<1>5. ASSUME OpIs("idle", "idle", Copy, "none") PROVE AccountInv'
  <2>1. MoveInv' /\ InspectInv'
    BY <1>5, MoveFrame, InspectFrame DEF OpIs, Moving, Restores
  <2> QED BY <1>1, <1>5, <2>1, UnitMoves, Zenon DEF OpIs, Capturing
<1>6. ASSUME NEW step \in Moving, NEW phase, OpIs("migrate", step, phase, op.out), MoveInv' PROVE AccountInv'
  <2>1. InspectInv' /\ op'.do \notin Capturing
    BY <1>6, InspectFrame DEF OpIs, Moving, Capturing
  <2> QED BY <1>1, <1>6, <2>1, UnitMoves, Zenon DEF OpIs
<1>7. CASE p = Copy
  <2>0. p # <<"target", Last>> /\ p # <<"rollback", Last>>
    BY <1>7 DEF Copy
  <2>1. Goto("copied")
    BY <1>1, <1>7, <2>0, Zenon DEF AfterWriter
  <2>2. OpIs("migrate", "copied", p, op.out)
    BY <1>2, <2>1, GotoMoves DEF Steps, Moving
  <2>3. MoveInv'
    BY <1>1, <1>2, <1>3, <1>7, <2>2, Zenon DEF MoveInv, OpIs, Moving, NoRepair
  <2> QED BY <1>6, <2>2, <2>3 DEF Moving
<1>8. CASE p # Copy /\ store.writer[p] = "failed"
  <2>1. AfterFailure
    BY <1>1, <1>8, Zenon DEF AfterWriter
  <2>2. CASE p[1] = "target" /\ OpIs(op.kind, "own", <<"rollback", 0>>, op.out)
    <3>1. \A i \in 0 .. Last : store.writer[<<"target", i>>] \in Ended
      <4>1. SUFFICES ASSUME NEW i \in 0 .. Last PROVE store.writer[<<"target", i>>] \in Ended
        OBVIOUS
      <4>2. CASE i < p[2]
        <5>1. "target" \in Directions /\ store.writer[<<"target", p[2]>>] # "none"
          BY <1>4, <1>8, <2>2 DEF Directions
        <5>2. store.writer[<<"target", i>>] = "succeeded"
          BY <1>4, <1>8, <4>2, <5>1, Zenon DEF AccountInv, OrderInv
        <5> QED BY <5>2 DEF Ended, Terminal
      <4>3. CASE i = p[2]
        BY <1>4, <1>8, <2>2, <4>3 DEF Ended, Terminal
      <4>4. CASE p[2] < i
        <5>1. "target" \in Directions /\ store.writer[<<"target", p[2]>>] = "failed"
          BY <1>4, <1>8, <2>2 DEF Directions
        <5>2. store.writer[<<"target", i>>] = "none"
          BY <1>4, <1>8, <4>4, <5>1, Zenon DEF AccountInv, OrderInv
        <5> QED BY <5>2 DEF Ended
      <4> QED BY <1>4, <1>8, <4>2, <4>3, <4>4
    <3>2. <<"rollback", 0>> \in Directions \X {0} /\ "target" \in store.intent
      BY <1>3, <1>8, <2>2, Zenon DEF Directions
    <3>3. MoveInv'
      BY <1>1, <1>2, <2>2, <3>1, <3>2, Zenon DEF MoveInv, OpIs, Moving, NoRepair, Last
    <3> QED BY <1>2, <1>6, <2>2, <3>3, Zenon DEF Moving
  <2> QED BY <1>2, <1>4, <1>5, <1>8, <2>1, <2>2, FailureMoves, Zenon
<1>9. CASE p # Copy /\ store.writer[p] = "succeeded" /\ p[2] < Last
  <2> DEFINE next == <<p[1], p[2] + 1>>
  <2>0. p # <<"target", Last>> /\ p # <<"rollback", Last>>
    BY <1>9, PhaseFacts
  <2>1. op' = [op EXCEPT !.do = "launch", !.phase = next]
    BY <1>1, <1>9, <2>0, Zenon DEF AfterWriter
  <2>2. next \in Phases /\ next # Copy /\ next[1] = p[1] /\ next[2] = p[2] + 1
    BY <1>4, <1>9, PhaseFacts
  <2> HIDE DEF next
  <2>3. OpIs("migrate", "launch", next, op.out)
    BY <1>2, <2>1, <2>2, Zenon DEF OpIs, Operations, Moving
  <2>4. \A j \in 0 .. Last : j < next[2] => store.writer[<<next[1], j>>] = "succeeded"
    <3>1. SUFFICES ASSUME NEW j \in 0 .. Last, j < next[2] PROVE store.writer[<<p[1], j>>] = "succeeded"
      BY <2>2
    <3>2. p[1] \in Directions /\ p[2] \in 0 .. Last /\ store.writer[<<p[1], p[2]>>] = "succeeded"
      BY <1>4, <1>9
    <3>3. CASE j < p[2]
      BY <3>2, <3>3 DEF AccountInv, OrderInv
    <3>4. j < p[2] \/ j = p[2]
      BY <2>2, <3>1, <3>2
    <3> QED BY <3>2, <3>3, <3>4
  <2>5. MoveInv'
    BY <1>1, <1>2, <1>3, <1>9, <2>2, <2>3, <2>4, Zenon DEF MoveInv, OpIs, Moving, NoRepair, Last
  <2> QED BY <1>6, <2>3, <2>5 DEF Moving
<1>10. CASE p = <<"target", Last>> /\ store.writer[p] = "succeeded"
  <2>1. p # Copy /\ ~(p[2] < Last) /\ p[1] = "target" /\ "target" \in Directions /\ p # <<"rollback", Last>>
    BY <1>10, PhaseFacts DEF Directions
  <2>2. Goto("verify")
    BY <1>1, <1>10, <2>1 DEF AfterWriter
  <2>3. OpIs("migrate", "verify", p, op.out)
    BY <1>2, <2>2, GotoMoves DEF Steps, Moving
  <2>4. \A j \in 0 .. Last : j < Last \/ j = Last
    BY PhaseFacts
  <2>5. AllSucceeded("target")
    <3>1. store.writer[<<"target", Last>>] # "none" /\ Last \in 0 .. Last
      BY <1>10, PhaseFacts
    <3>2. \A j \in 0 .. Last : j < Last => store.writer[<<"target", j>>] = "succeeded"
      BY <2>1, <3>1, Zenon DEF AccountInv, OrderInv
    <3> QED BY <1>10, <2>4, <3>2, Zenon DEF AllSucceeded
  <2>6. MoveInv'
    BY <1>1, <1>2, <1>3, <2>1, <2>3, <2>5, Zenon DEF MoveInv, OpIs, Moving, NoRepair, AllSucceeded, Last
  <2> QED BY <1>6, <2>3, <2>6 DEF Moving
<1>11. CASE p = <<"rollback", Last>> /\ store.writer[p] = "succeeded"
  <2>1. p # Copy /\ ~(p[2] < Last) /\ p # <<"target", Last>>
    BY <1>11, PhaseFacts DEF Directions
  <2>2. Goto("restore")
    BY <1>1, <1>11, <2>1 DEF AfterWriter
  <2>3. OpIs("migrate", "restore", p, op.out)
    BY <1>2, <2>2, GotoMoves, Zenon DEF Steps, Moving
  <2>4. MoveInv'
    BY <1>1, <1>2, <2>3 DEF MoveInv, OpIs, Moving, NoRepair
  <2> QED BY <1>6, <2>3, <2>4, Zenon DEF Moving
<1>12. p # Copy /\ store.writer[p] = "succeeded" => p[2] < Last \/ p = <<"target", Last>> \/ p = <<"rollback", Last>>
  <2>1. p # Copy => p[2] < Last \/ p[2] = Last
    BY <1>4, PhaseFacts
  <2> QED BY <1>4, <2>1 DEF Directions
<1> QED BY <1>3, <1>7, <1>8, <1>9, <1>10, <1>11, <1>12, Zenon DEF Terminal

-----------------------------------------------------------------------------
(* Steps that write the directory. *)

\* The access of the tree and its parents changes, or the backup.
LEMMA AccessMoves ==
    ASSUME AccountInv, UNCHANGED <<boot, store, unit, disk, session, told>>, fs' \in Directories, fs'.skills = fs.skills,
           EffectInv', Explained(fs'.parents), op' \in Operations, op'.do \notin Capturing, MoveInv', InspectInv'
    PROVE  AccountInv'
<1>1. AccountTypes'
  BY Zenon DEF AccountInv, AccountTypes
<1>2. UnitInv' /\ OrderInv' /\ OutcomeInv' /\ RepairInv'
  BY UnitFrame, OrderFrame, OutcomeFrame, RepairFrame, Zenon DEF AccountInv, SameEvidence, NoUnitRuns
<1>3. Explained(disk.parents) /\ (Restoring => Restoring')
  BY Zenon DEF AccountInv, ParentInv, Restoring, AllSucceeded, Last
<1>4. ParentInv'
  BY <1>3, ExplainedFrame DEF ParentInv
<1>5. SkillInv'
  BY SkillFrame, Zenon DEF AccountInv
<1>6. CaptureInv'
  BY CaptureFrame DEF AccountInv, Settled
<1> QED BY <1>1, <1>2, <1>4, <1>5, <1>6, Zenon DEF AccountInv

LEMMA CreateBackupDirectoryKeeps ==
    ASSUME AccountInv, CreateBackupDirectory
    PROVE  AccountInv'
<1>1. /\ op.do = "mkdir" /\ fs' = [fs EXCEPT !.backup = Torn] /\ Goto("copy") /\ op.do \in Moving
      /\ UNCHANGED <<boot, store, unit, disk, session, told>>
  BY DEF CreateBackupDirectory, At, Moving
<1>2. /\ op \in Operations /\ op.kind = "migrate"
      /\ boot = store.boot /\ store.mig = "started" /\ NoRepair /\ store.attest = "none"
  BY <1>1, InMove
<1>3. OpIs("migrate", "copy", op.phase, op.out)
  BY <1>1, <1>2, GotoMoves DEF Steps, Moving
<1>4. fs \in Directories /\ Torn \in Nat
  BY AccountAssumption DEF AccountInv, AccountTypes, Torn
<1>5. fs' \in Directories /\ fs'.skills = fs.skills /\ fs'.tree = fs.tree /\ fs'.parents = fs.parents
  BY <1>1, <1>4 DEF Directories
<1>6. EffectInv' /\ Explained(fs'.parents)
  BY <1>1, <1>5, EffectFrame DEF AccountInv, Worked, ParentInv
<1>7. MoveInv'
  BY <1>1, <1>2, <1>3, Zenon DEF AccountInv, MoveInv, OpIs, Moving, NoRepair
<1>8. InspectInv'
  BY <1>3, InspectFrame DEF OpIs, Moving
<1> QED BY <1>1, <1>3, <1>5, <1>6, <1>7, <1>8, AccessMoves, Zenon DEF OpIs, Capturing

LEMMA ChownTreeKeeps ==
    ASSUME AccountInv, ChownTree
    PROVE  AccountInv'
<1> DEFINE d == op.phase[1]
<1>1. op.do = "chown" /\ UNCHANGED <<boot, store, unit, disk, session, told>> /\ op.do \in Moving
  BY DEF ChownTree, At, Moving
<1>2. /\ op \in Operations /\ op.kind = "migrate" /\ op.phase \in Phases
      /\ boot = store.boot /\ store.mig = "started" /\ NoRepair /\ store.attest = "none" /\ store.done = {}
  BY <1>1, InMove, Zenon DEF Operations
<1>3. /\ op.phase \in Directions \X {0} /\ d \in Directions /\ d \in store.intent
      /\ \A i \in 0 .. Last : store.writer[<<d, i>>] = "none"
      /\ d = "target" => "rollback" \notin store.intent
  BY <1>1 DEF AccountInv, MoveInv
<1>4. PICK t \in {fs.tree, "mixed"} : fs' = [fs EXCEPT !.tree = t]
  BY DEF ChownTree
<1>5. fs \in Directories
  BY DEF AccountInv, AccountTypes
<1>6. fs' \in Directories /\ fs'.skills = fs.skills /\ fs'.parents = fs.parents
  BY <1>4, <1>5 DEF Directories
<1>7. "rollback" \notin store.intent =>
          ~Worked(<<"target", Last - 1>>)' /\ ~Worked(<<"target", Last>>)'
  <2>1. SUFFICES ASSUME "rollback" \notin store.intent, NEW i \in 0 .. Last
                 PROVE  ~Worked(<<"target", i>>)'
    BY PhaseFacts DEF Last
  <2>2. d = "target"
    BY <1>3, <2>1 DEF Directions
  <2>3. store.writer[<<"target", i>>] = "none" /\ <<"target", i>> \in Phases
    BY <1>3, <2>2, DirectionPhases, Zenon
  <2>4. unit[<<"target", i>>] = "none"
    BY <2>3, Zenon DEF AccountInv, UnitInv
  <2> QED BY <1>1, <2>3, <2>4 DEF Worked
<1>8. EffectInv'
  BY <1>1, <1>2, <1>7 DEF AccountInv, EffectInv, Last
<1>9. Explained(fs'.parents)
  BY <1>6 DEF AccountInv, ParentInv
<1>10. CASE Goto("launch")
  <2>1. OpIs("migrate", "launch", op.phase, op.out)
    BY <1>2, <1>10, GotoMoves DEF Steps, Moving
  <2>2. op.phase # Copy /\ op.phase[2] = 0 /\ \A j \in 0 .. Last : ~(j < 0)
    BY <1>3, PhaseFacts
  <2>3. MoveInv'
    BY <1>1, <1>2, <1>3, <2>1, <2>2, Zenon DEF MoveInv, OpIs, Moving, NoRepair, Last
  <2>4. InspectInv'
    BY <2>1, InspectFrame DEF OpIs, Moving
  <2> QED BY <1>1, <1>6, <1>8, <1>9, <2>1, <2>3, <2>4, AccessMoves, Zenon DEF OpIs, Capturing
<1>11. CASE d = "target" /\ OpIs("migrate", "own", <<"rollback", 0>>, op.out)
  <2>1. /\ <<"rollback", 0>> \in Directions \X {0} /\ "target" \in store.intent
        /\ \A i \in 0 .. Last : store.writer[<<"target", i>>] \in Ended
    BY <1>3, <1>11, Zenon DEF Directions, Ended
  <2>2. MoveInv'
    BY <1>1, <1>2, <1>11, <2>1, Zenon DEF MoveInv, OpIs, Moving, NoRepair, Last
  <2>3. InspectInv'
    BY <1>11, InspectFrame DEF OpIs, Moving
  <2> QED BY <1>1, <1>6, <1>8, <1>9, <1>11, <2>2, <2>3, AccessMoves, Zenon DEF OpIs, Capturing
<1>12. CASE OpIs("idle", "idle", Copy, "none")
  <2>1. MoveInv' /\ InspectInv'
    BY <1>12, MoveFrame, InspectFrame, Zenon DEF OpIs, Moving, Restores
  <2> QED BY <1>1, <1>6, <1>8, <1>9, <1>12, <2>1, AccessMoves, Zenon DEF OpIs, Capturing
<1>13. AfterFailure => \/ d = "target" /\ OpIs("migrate", "own", <<"rollback", 0>>, op.out)
                       \/ OpIs("idle", "idle", Copy, "none")
  BY <1>2, <1>3, FailureMoves, Zenon
<1> QED BY <1>10, <1>11, <1>12, <1>13 DEF ChownTree

\* What is known at a step of a restoration.
LEMMA InRestoration ==
    ASSUME AccountInv, op.do \in Restores
    PROVE  /\ op \in Operations /\ op.kind \in {"migrate", "repair"} /\ Restoring /\ store.done = {}
           /\ store.mig = "started" /\ (op.kind = "repair" => ~NoRepair /\ NoUnitRuns)
           /\ op.kind = "migrate" => "rollback" \in store.intent /\ boot = store.boot /\ NoRepair /\ store.attest = "none"
<1>1. /\ op.kind \in {"migrate", "repair"} /\ Restoring /\ store.done = {}
      /\ op.kind = "migrate" => "rollback" \in store.intent
      /\ op.kind = "repair" => ~NoRepair
  BY Zenon DEF AccountInv, InspectInv
<1>2. op.kind = "migrate" => boot = store.boot /\ NoRepair /\ store.attest = "none" /\ store.mig = "started"
  BY DEF AccountInv, MoveInv
<1>3. op.kind = "repair" => NoUnitRuns /\ store.mig = "started"
  BY <1>1, Zenon DEF AccountInv, RepairInv, EvidenceValid
<1> QED BY <1>1, <1>2, <1>3, Zenon DEF AccountInv, AccountTypes

\* Nothing is promised of an access that is being restored.
LEMMA RestorationEffects ==
    ASSUME AccountInv, op.do \in Restores, UNCHANGED <<boot, store, unit, disk, session, told>>
    PROVE  EffectInv'
BY InRestoration DEF AccountInv, EffectInv, NoRepair, Terminal

LEMMA RestoreTreeKeeps ==
    ASSUME AccountInv, RestoreTree
    PROVE  AccountInv'
<1>1. /\ op.do = "tree" /\ op.do \in Restores /\ UNCHANGED <<boot, store, unit, disk, session, told>>
      /\ fs' = [fs EXCEPT !.tree = "original"] /\ op' = [op EXCEPT !.do = "chmod", !.seen = {}]
  BY DEF RestoreTree, At, Restores
<1>2. op \in Operations /\ fs \in Directories
  BY DEF AccountInv, AccountTypes
<1>3. fs' \in Directories /\ fs'.skills = fs.skills /\ fs'.parents = fs.parents
  BY <1>1, <1>2 DEF Directories
<1>4. OpIs(op.kind, "chmod", op.phase, op.out)
  BY <1>1, <1>2, Zenon DEF Operations, OpIs, Restores
<1>5. EffectInv' /\ Explained(fs'.parents)
  BY <1>1, <1>3, RestorationEffects DEF AccountInv, ParentInv
<1>6. MoveInv'
  BY <1>1, <1>4, InRestoration DEF MoveInv, OpIs, Moving, NoRepair
<1>7. Restoring'
  BY <1>1, InRestoration DEF Restoring, AllSucceeded, Last
<1>8. InspectInv'
  BY <1>1, <1>4, <1>7, InRestoration DEF InspectInv, OpIs, Restores, Inspecting, Inspected, NoRepair
<1> QED BY <1>1, <1>3, <1>4, <1>5, <1>6, <1>8, AccessMoves, Zenon DEF OpIs, Capturing

LEMMA RestoreParentModeKeeps ==
    ASSUME AccountInv, RestoreParentMode
    PROVE  AccountInv'
<1>1. /\ op.do = "chmod" /\ op.do \in Restores /\ UNCHANGED <<boot, store, unit, disk, session, told>> /\ Goto("acl")
      /\ fs' = [fs EXCEPT !.parents = IF ParentsOriginal THEN @ ELSE "masked"]
  BY DEF RestoreParentMode, At, Restores
<1>2. op \in Operations /\ fs \in Directories
  BY DEF AccountInv, AccountTypes
<1>3. /\ fs' \in Directories /\ fs'.skills = fs.skills
      /\ fs'.parents = IF fs.parents = "original" THEN fs.parents ELSE "masked"
  BY <1>1, <1>2 DEF Directories, ParentsOriginal
<1>4. OpIs(op.kind, "acl", op.phase, op.out)
  BY <1>1, <1>2, GotoMoves, Zenon DEF Steps, Restores
<1>5. Explained(fs'.parents)
  <2>1. Explained(fs.parents) /\ Restoring
    BY <1>1, InRestoration DEF AccountInv, ParentInv
  <2>2. fs.parents # "original" => \E d \in Directions : store.writer[<<d, Last>>] # "none"
    BY <2>1 DEF Explained, Directions
  <2> QED BY <1>3, <2>1, <2>2 DEF Explained
<1>6. EffectInv'
  BY <1>1, RestorationEffects
<1>7. MoveInv'
  BY <1>1, <1>4, InRestoration DEF MoveInv, OpIs, Moving, NoRepair
<1>8. Restoring'
  BY <1>1, InRestoration DEF Restoring, AllSucceeded, Last
<1>9. InspectInv'
  BY <1>1, <1>4, <1>8, InRestoration DEF InspectInv, OpIs, Restores, Inspecting, Inspected, NoRepair
<1> QED BY <1>1, <1>3, <1>4, <1>5, <1>6, <1>7, <1>9, AccessMoves, Zenon DEF OpIs, Capturing

LEMMA RestoreParentAccessKeeps ==
    ASSUME AccountInv, RestoreParentAccess
    PROVE  AccountInv'
<1> DEFINE step == IF op.kind = "repair" THEN "inspect" ELSE "refresh"
<1>1. /\ op.do = "acl" /\ op.do \in Restores /\ UNCHANGED <<boot, store, unit, disk, session, told>>
      /\ fs' = [fs EXCEPT !.parents = "original"] /\ op' = [op EXCEPT !.do = step, !.out = "failed"]
  BY DEF RestoreParentAccess, At, Restores
<1>2. op \in Operations /\ fs \in Directories
  BY DEF AccountInv, AccountTypes
<1>3. fs' \in Directories /\ fs'.skills = fs.skills /\ fs'.parents = "original"
  BY <1>1, <1>2 DEF Directories
<1>4. OpIs(op.kind, step, op.phase, "failed")
  BY <1>1, <1>2, Zenon DEF Operations, OpIs, Inspecting, Ended, Terminal
<1>5. EffectInv' /\ Explained(fs'.parents)
  BY <1>1, <1>3, RestorationEffects DEF Explained
<1>6. MoveInv'
  BY <1>1, <1>4, MoveFrame DEF OpIs, Moving, Restores
<1>7. CASE op.kind = "repair"
  <2>1. ~NoRepair /\ NoUnitRuns
    BY <1>1, <1>7, InRestoration
  <2>2. InspectInv'
    BY <1>1, <1>4, <1>7, <2>1 DEF InspectInv, OpIs, Restores, Inspecting, Inspected, NoRepair, NoUnitRuns, Terminal
  <2> QED BY <1>1, <1>3, <1>4, <1>5, <1>6, <2>2, AccessMoves DEF OpIs, Capturing
<1>8. CASE op.kind # "repair"
  <2>1. op.kind = "migrate"
    BY <1>1, <1>8, InRestoration
  <2>2. InspectInv'
    BY <1>1, <1>4, <1>8, <2>1 DEF InspectInv, OpIs, Restores, Inspecting, Inspected, Terminal
  <2> QED BY <1>1, <1>3, <1>4, <1>5, <1>6, <2>2, AccessMoves DEF OpIs, Capturing
<1> QED BY <1>7, <1>8

-----------------------------------------------------------------------------
(* Completion. *)

LEMMA SettleCopyKeeps ==
    ASSUME AccountInv, SettleCopy
    PROVE  AccountInv'
<1>1. /\ op.do = "settle" /\ Writes /\ store' = [store EXCEPT !.copy = "copied"] /\ Goto("choose")
      /\ store.copy \in {"started", "copied"} /\ (store.copy = "started" => NoRepair)
  BY DEF SettleCopy, At, Store, Writes
<1>2. op \in Operations /\ store \in Records
  BY DEF AccountInv, AccountTypes
<1>3. op.kind \in {"migrate", "recover"} /\ CopyOutcome("succeeded") /\ NoUnitRuns
  BY <1>1 DEF AccountInv, InspectInv
<1>4. OpIs(op.kind, "choose", op.phase, op.out)
  BY <1>1, <1>2, GotoMoves DEF Steps
<1>5. MoveInv'
  BY <1>4, MoveFrame DEF OpIs, Moving, Restores
<1>6. InspectInv'
  BY <1>1, <1>3, <1>4 DEF InspectInv, OpIs, Restores, Inspecting, Inspected, NoUnitRuns, Writes
<1>7. CASE store.copy = "copied"
  <2>1. store' = store
    BY <1>1, <1>2, <1>7 DEF Records
  <2>2. Reads
    BY <1>1, <2>1 DEF Reads, Writes
  <2>3. CaptureInv'
    BY <1>4, <2>2, ReadCaptures DEF AccountInv, OpIs, Capturing
  <2> QED BY <1>4, <1>5, <1>6, <2>2, <2>3, ReadMoves, Zenon DEF OpIs
<1>8. CASE store.copy = "started"
  <2>1. store.mig = "started" /\ store.attest = "none"
    BY <1>2, <1>8 DEF AccountInv, OrderInv, OutcomeInv, Records, Terminal
  <2>2. /\ store' \in Records /\ store'.copy = "copied" /\ SameRest
        /\ UNCHANGED <<store.mig, store.base, store.intent, store.writer, store.attest>>
    BY <1>1, <1>2 DEF Records, SameRest
  <2>3. OrderInv'
    BY <1>3, <1>8, <2>1, <2>2, Zenon DEF AccountInv, OrderInv, CopyOutcome
  <2> QED BY <1>1, <1>4, <1>5, <1>6, <1>8, <2>1, <2>2, <2>3, ProgressMoves, Zenon DEF OpIs, Capturing
<1> QED BY <1>1, <1>7, <1>8

LEMMA SyncFilesystemsKeeps ==
    ASSUME AccountInv, SyncFilesystems
    PROVE  AccountInv'
<1>1. op.do = "sync" /\ disk' = fs /\ Goto("again") /\ UNCHANGED <<boot, store, unit, fs, session, told>>
  BY DEF SyncFilesystems, At
<1>2. op \in Operations /\ fs \in Directories /\ disk \in Directories
  BY DEF AccountInv, AccountTypes
<1>3. OpIs(op.kind, "again", op.phase, op.out)
  BY <1>1, <1>2, GotoMoves, Zenon DEF Steps, Inspecting
<1>4. AccountTypes'
  BY <1>1, <1>3 DEF AccountInv, AccountTypes, OpIs
<1>5. UnitInv' /\ OrderInv' /\ OutcomeInv' /\ RepairInv'
  BY <1>1, UnitFrame, OrderFrame, OutcomeFrame, RepairFrame, Zenon DEF AccountInv, SameEvidence, NoUnitRuns
<1>6. EffectInv'
  BY <1>1 DEF AccountInv, EffectInv, NoRepair, Worked, Holds, Last
<1>7. ParentInv'
  <2>1. Explained(fs.parents) /\ (Restoring => Restoring')
    BY <1>1 DEF AccountInv, ParentInv, Restoring, AllSucceeded, Last
  <2> QED BY <1>1, <2>1, ExplainedFrame, Zenon DEF ParentInv
<1>8. SkillInv'
  BY <1>1, <1>2 DEF AccountInv, SkillInv, Directories
<1>9. CaptureInv'
  BY <1>1, <1>3, CaptureFrame DEF AccountInv, OpIs, Capturing, Settled
<1>10. MoveInv'
  BY <1>3, MoveFrame, Zenon DEF OpIs, Moving, Restores
<1>11. InspectInv'
  BY <1>1, <1>3 DEF AccountInv, InspectInv, OpIs, Restores, Inspecting, Inspected, NoUnitRuns, NoRepair
<1> QED BY <1>4, <1>5, <1>6, <1>7, <1>8, <1>9, <1>10, <1>11, Zenon DEF AccountInv

LEMMA AttestKeeps ==
    ASSUME AccountInv, Attest
    PROVE  AccountInv'
<1>1. op.do = "attest" /\ Goto("finish") /\ UNCHANGED <<boot, unit, fs, disk, session, told>> /\ Writes
  BY DEF Attest, At, Writes
<1>2. op \in Operations /\ store \in Records
  BY DEF AccountInv, AccountTypes
<1>3. OpIs(op.kind, "finish", op.phase, op.out)
  BY <1>1, <1>2, GotoMoves, Zenon DEF Steps, Inspecting, Inspected
<1>4. /\ op.kind \in {"migrate", "recover"} /\ op.out \in Terminal /\ NoUnitRuns
      /\ disk.tree = fs.tree /\ disk.parents = fs.parents /\ (op.out = "failed" => Holds(fs, "original"))
  BY <1>1, Zenon DEF AccountInv, InspectInv, Inspecting, Inspected
<1>5. MoveInv'
  BY <1>3, MoveFrame DEF OpIs, Moving, Restores
<1>6. InspectInv'
  BY <1>1, <1>3, <1>4, Zenon DEF InspectInv, OpIs, Restores, Inspecting, Inspected, NoUnitRuns, Holds
<1>7. CASE store' = store
  <2>1. Reads
    BY <1>1, <1>7 DEF Reads
  <2>2. CaptureInv'
    BY <1>3, <2>1, ReadCaptures DEF AccountInv, OpIs, Capturing
  <2> QED BY <1>3, <1>5, <1>6, <2>1, <2>2, ReadMoves, Zenon DEF OpIs
<1>8. CASE /\ store.mig = "started" /\ NoRepair /\ WriterOutcomes(op.out) /\ store.copy = "copied"
           /\ store' = [store EXCEPT !.attest = op.out]
  <2>1. /\ store' \in Records /\ store'.attest = op.out /\ SameRest
        /\ UNCHANGED <<store.mig, store.base, store.copy, store.intent, store.writer>>
    BY <1>2, <1>4, <1>8, Zenon DEF Records, SameRest, Ended
  <2>2. AccountTypes'
    BY <1>1, <1>3, <2>1, Zenon DEF AccountInv, AccountTypes, OpIs
  <2>3. UnitInv' /\ OrderInv' /\ RepairInv'
    BY <1>1, <1>8, <2>1, UnitFrame, OrderFrame, NoRepairFrame, Zenon DEF AccountInv, SameRest
  <2>4. OutcomeInv'
    BY <1>8, <2>1, OutcomesFrame DEF OutcomeInv, Terminal
  <2>5. EffectInv' /\ ParentInv' /\ SkillInv'
    BY <1>1, <2>1, EffectFrame, ParentFrame, SkillFrame, Zenon DEF AccountInv, SameRest, Worked
  <2>6. CaptureInv'
    BY <1>1, <1>3, <2>1, CaptureFrame DEF AccountInv, SameRest, OpIs, Capturing, Settled
  <2> QED BY <1>5, <1>6, <2>2, <2>3, <2>4, <2>5, <2>6, Zenon DEF AccountInv
<1> QED BY <1>7, <1>8 DEF Attest

LEMMA FinishMigrationKeeps ==
    ASSUME AccountInv, FinishMigration
    PROVE  AccountInv'
<1>1. /\ op.do = "finish" /\ Goto("reply") /\ Writes /\ store' = [store EXCEPT !.mig = op.out]
      /\ NoRepair /\ boot = store.boot /\ WriterOutcomes(op.out) /\ store.attest = op.out
      /\ store.mig \in {"started", op.out} /\ store.copy = "copied"
  BY DEF FinishMigration, At, Store, Writes
<1>2. op \in Operations /\ store \in Records
  BY DEF AccountInv, AccountTypes
<1>3. OpIs(op.kind, "reply", op.phase, op.out)
  BY <1>1, <1>2, GotoMoves, Zenon DEF Steps, Inspecting, Inspected
<1>4. /\ op.kind \in {"migrate", "recover"} /\ op.out \in Terminal /\ NoUnitRuns
      /\ disk.tree = fs.tree /\ disk.parents = fs.parents /\ (op.out = "failed" => Holds(fs, "original"))
  BY <1>1 DEF AccountInv, InspectInv, Inspecting, Inspected
<1>5. /\ store' \in Records /\ store'.mig = op.out /\ SameRest
      /\ UNCHANGED <<store.attest, store.base, store.copy, store.intent, store.writer>>
  BY <1>1, <1>2, <1>4 DEF Records, SameRest
<1>6. AccountTypes'
  BY <1>1, <1>3, <1>5 DEF AccountInv, AccountTypes, OpIs, Writes
<1>7. UnitInv' /\ RepairInv' /\ store.done = {}
  BY <1>1, <1>5, UnitFrame, NoRepairFrame, Zenon DEF AccountInv, SameRest, Writes
<1>8. OrderInv'
  BY <1>4, <1>5 DEF AccountInv, OrderInv, CopyOutcome, Terminal
<1>9. OutcomeInv'
  BY <1>1, <1>5, OutcomesFrame, Zenon DEF OutcomeInv, SameRest, NoRepair
<1>10. op.out = "succeeded" => Holds(fs, "target")
  <2>1. SUFFICES ASSUME op.out = "succeeded" PROVE Holds(fs, "target")
    OBVIOUS
  <2>2. "rollback" \notin store.intent /\ AllSucceeded("target")
    BY <1>1, <2>1, Zenon DEF WriterOutcomes, OwnershipOutcomes
  <2>3. Worked(<<"target", Last - 1>>) /\ Worked(<<"target", Last>>)
    BY <2>2, PhaseFacts DEF Worked, AllSucceeded
  <2> QED BY <1>1, <2>2, <2>3, Zenon DEF AccountInv, EffectInv, Holds
<1>11. EffectInv'
  <2>1. \A p : Worked(p)' <=> Worked(p)
    BY <1>1, <1>5 DEF Worked, Writes
  <2>2. op.out = "succeeded" => Holds(disk, "target")
    BY <1>4, <1>10 DEF Holds
  <2>3. op.out = "failed" => Holds(disk, "original")
    BY <1>4 DEF Holds
  <2>4. Last' = Last /\ EffectInv
    BY DEF Last, AccountInv
  <2> QED BY <1>1, <1>4, <1>5, <1>7, <1>10, <2>1, <2>2, <2>3, <2>4, Zenon DEF EffectInv, Writes, SameRest, NoRepair, Holds, Terminal
<1>12. ParentInv' /\ SkillInv'
  BY <1>1, <1>5, ParentFrame, SkillFrame, Zenon DEF AccountInv, SameRest, Writes
<1>13. CaptureInv'
  BY <1>1, <1>3, <1>4, <1>5, CaptureFrame, Zenon DEF AccountInv, SameRest, Writes, OpIs, Capturing, Settled
<1>14. MoveInv'
  BY <1>3, MoveFrame DEF OpIs, Moving, Restores
<1>15. InspectInv'
  BY <1>1, <1>3, <1>4, <1>5 DEF InspectInv, OpIs, Restores, Inspecting, Inspected, NoUnitRuns, Holds, Writes
<1> QED BY <1>6, <1>7, <1>8, <1>9, <1>11, <1>12, <1>13, <1>14, <1>15, Zenon DEF AccountInv

\* The control plane is told what the records say.
LEMMA TellMoves ==
    ASSUME AccountInv, UNCHANGED <<boot, store, unit, fs, disk, session>>,
           NEW place \in {"target", "source"}, told' = told \cup {place},
           place = "target" => store.mig = "succeeded",
           place = "source" => store.mig = "failed" \/ store.done # {},
           OpIs("idle", "idle", Copy, "none")
    PROVE  AccountInv'
<1>1. AccountTypes'
  BY DEF AccountInv, AccountTypes, OpIs
<1>2. UnitInv' /\ OrderInv' /\ OutcomeInv' /\ RepairInv'
  BY UnitFrame, OrderFrame, OutcomeFrame, RepairFrame DEF AccountInv, SameEvidence, NoUnitRuns
<1>3. ParentInv' /\ SkillInv'
  BY ParentFrame, SkillFrame, Zenon DEF AccountInv
<1>4. EffectInv'
  BY DEF AccountInv, EffectInv, NoRepair, Worked, Holds, Last
<1>5. CaptureInv'
  BY CaptureFrame DEF AccountInv, OpIs, Capturing, Settled
<1>6. MoveInv' /\ InspectInv'
  BY MoveFrame, InspectFrame DEF OpIs, Moving, Restores
<1> QED BY <1>1, <1>2, <1>3, <1>4, <1>5, <1>6, Zenon DEF AccountInv

LEMMA ReplyKeeps ==
    ASSUME AccountInv, Reply
    PROVE  AccountInv'
<1> DEFINE place == IF op.out = "succeeded" THEN "target" ELSE "source"
<1>1. op.do = "reply" /\ told' = told \cup {place} /\ Leave /\ UNCHANGED <<boot, store, unit, fs, disk, session>>
  BY Zenon DEF Reply, At
<1>2. /\ op.out \in Terminal /\ (op.kind = "repair" => op.out = "failed")
      /\ IF op.kind = "repair" THEN store.done # {} ELSE store.mig = op.out
  BY <1>1 DEF AccountInv, InspectInv, Inspecting, Inspected
<1>3. /\ place \in {"target", "source"}
      /\ place = "target" => store.mig = "succeeded"
      /\ place = "source" => store.mig = "failed" \/ store.done # {}
  BY <1>2 DEF Terminal
<1> HIDE DEF place
<1> QED BY <1>1, <1>3, LeaveMoves, TellMoves

LEMMA ReplayMigrationKeeps ==
    ASSUME AccountInv, ReplayMigration
    PROVE  AccountInv'
<1> DEFINE place == IF store.mig = "succeeded" THEN "target" ELSE "source"
<1>1. /\ op = Idle /\ op' = op /\ store.mig \in Terminal /\ told' = told \cup {place}
      /\ UNCHANGED <<boot, store, unit, fs, disk, session>>
  BY DEF ReplayMigration, Free
<1>2. /\ place \in {"target", "source"}
      /\ place = "target" => store.mig = "succeeded"
      /\ place = "source" => store.mig = "failed" \/ store.done # {}
  BY <1>1 DEF Terminal
<1> HIDE DEF place
<1>3. OpIs("idle", "idle", Copy, "none")
  BY <1>1, IdleType DEF OpIs
<1> QED BY <1>1, <1>2, <1>3, TellMoves, Zenon

-----------------------------------------------------------------------------
(* Steps beside the migration's records: attempts, imports, the capture and  *)
(* the native session.                                                       *)

LEMMA SideMoves ==
    ASSUME AccountInv, UNCHANGED <<boot, unit, disk, told>>,
           fs' \in Directories, fs'.tree = fs.tree, fs'.parents = fs.parents, SkillInv', session' \in {"none", "running"},
           store' \in Records, SameEvidence, UNCHANGED <<store.boot, store.base, store.repair, store.done>>,
           op' \in Operations, CaptureInv', MoveInv', InspectInv'
    PROVE  AccountInv'
<1>1. AccountTypes'
  BY DEF AccountInv, AccountTypes
<1>2. UnitInv' /\ OrderInv' /\ OutcomeInv' /\ RepairInv'
  BY UnitFrame, OrderFrame, OutcomeFrame, RepairFrame, Zenon DEF AccountInv, SameEvidence, NoUnitRuns
<1>3. EffectInv' /\ ParentInv'
  BY EffectFrame, ParentFrame, Zenon DEF AccountInv, SameEvidence, Worked
<1> QED BY <1>1, <1>2, <1>3, Zenon DEF AccountInv

\* An operation that is where it was.
LEMMA SameOperation ==
    ASSUME AccountInv, UNCHANGED <<boot, store, unit, disk, op>>, fs'.tree = fs.tree, fs'.parents = fs.parents
    PROVE  MoveInv' /\ InspectInv'
<1>1. Last' = Last
  BY DEF Last
<1>2. (NoRepair' <=> NoRepair) /\ (Restoring' <=> Restoring) /\ (AllSucceeded("target")' <=> AllSucceeded("target"))
  BY <1>1 DEF NoRepair, Restoring, AllSucceeded
<1>3. (NoUnitRuns' <=> NoUnitRuns) /\ (Holds(fs, "original")' <=> Holds(fs, "original"))
      /\ (CopyOutcome("succeeded")' <=> CopyOutcome("succeeded"))
  BY Zenon DEF NoUnitRuns, Holds, CopyOutcome
<1>4. MoveInv'
  BY SameMove DEF AccountInv
<1>5. InspectInv'
  BY <1>1, <1>2, <1>3, Zenon DEF AccountInv, InspectInv
<1> QED BY <1>4, <1>5

\* A repair is bound to the evidence it was admitted with.
LEMMA BeginRepairKeeps ==
    ASSUME AccountInv, BeginRepair
    PROVE  AccountInv'
<1>1. /\ op = Idle /\ store.fence = 0 /\ store.done = {} /\ EvidenceValid /\ Quiet /\ Writes
      /\ store' = [store EXCEPT !.repair = Evidence]
  BY Zenon DEF BeginRepair, RecoveryAdmitted, Free, RepairPreflight, Store, Writes
<1>2. PICK l \in Leases :
          op' = [Idle EXCEPT !.kind = "repair", !.do = "attempt", !.lease = l, !.seen = Observation]
  BY Zenon DEF BeginRepair
<1>3. store \in Records /\ fs \in Directories
  BY DEF AccountInv, AccountTypes
<1>4. OpIs("repair", "attempt", Copy, "none")
  BY <1>2, <1>3, IdleType, Zenon DEF Operations, OpIs, Observation
<1>5. Evidence \in SUBSET Evidences /\ Evidence # NoEvidence
  BY <1>3 DEF Records, Evidences, Evidence, NoEvidence
<1>6. /\ store' \in Records /\ store'.repair = Evidence /\ SameEvidence
      /\ UNCHANGED <<store.boot, store.base, store.done, store.fence, store.import, store.capture>>
  BY <1>1, <1>3, <1>5 DEF Records, SameEvidence
<1>7. NoUnitRuns /\ NoUnitRuns'
  BY <1>1, QuietUnits DEF AccountInv, Writes, NoUnitRuns
<1>8. ~NoRepair'
  BY <1>5, <1>6 DEF NoRepair
<1>9. AccountTypes'
  BY <1>1, <1>4, <1>6, Zenon DEF AccountInv, AccountTypes, OpIs, Writes
<1>10. UnitInv' /\ OrderInv'
  BY <1>1, <1>6, UnitFrame, OrderFrame DEF AccountInv, SameEvidence, Writes
<1>11. store.mig = "started"
  BY <1>1, Zenon DEF EvidenceValid
<1>12. OutcomeInv'
  BY <1>6, <1>11, OutcomesFrame DEF AccountInv, OutcomeInv, SameEvidence, Terminal
<1>13. RepairInv'
  BY <1>1, <1>6, <1>7, <1>8, EvidenceFrame, Zenon DEF RepairInv
<1>14. EffectInv'
  BY <1>1, <1>6, <1>8, Zenon DEF AccountInv, EffectInv, SameEvidence, Writes, Holds
<1>15. Restoring'
  BY <1>8 DEF Restoring, NoRepair
<1>16. ParentInv'
  BY <1>1, <1>6, <1>15, ExplainedFrame, Zenon DEF AccountInv, ParentInv, SameEvidence, Writes
<1>17. SkillInv' /\ CaptureInv'
  BY <1>1, <1>4, <1>6, SkillFrame, CaptureFrame, Zenon DEF AccountInv, OpIs, Capturing, Settled, SameEvidence, Writes
<1>18. MoveInv'
  BY <1>4, MoveFrame, Zenon DEF OpIs, Moving, Restores
<1>19. InspectInv'
  BY <1>4, <1>8 DEF InspectInv, OpIs, Restores, Inspecting, Inspected
<1> QED BY <1>9, <1>10, <1>12, <1>13, <1>14, <1>16, <1>17, <1>18, <1>19, Zenon DEF AccountInv

LEMMA BeginAttemptKeeps ==
    ASSUME AccountInv, BeginAttempt
    PROVE  AccountInv'
<1>1. /\ op.do = "attempt" /\ store.done = {} /\ Writes /\ Goto("tree")
      /\ store' = [store EXCEPT !.attempts = @ \cup {Attempt}]
  BY DEF BeginAttempt, At, Store, Writes
<1>2. op \in Operations /\ store \in Records /\ fs \in Directories /\ session \in {"none", "running"} /\ boot \in Nat
  BY DEF AccountInv, AccountTypes
<1>3. op.kind = "repair" /\ ~NoRepair
  BY <1>1 DEF AccountInv, InspectInv
<1>4. OpIs("repair", "tree", op.phase, op.out)
  BY <1>1, <1>2, <1>3, GotoMoves, Zenon DEF Steps, Restores
<1>5. Attempt \in (Leases \cup {0}) \X Nat
  BY <1>2 DEF Operations, Attempt
<1>6. /\ store' \in Records /\ SameEvidence /\ SameRest /\ store'.base = store.base
  BY <1>1, <1>2, <1>5 DEF Records, SameEvidence, SameRest
<1>7. SkillInv' /\ CaptureInv'
  BY <1>1, <1>4, <1>6, SkillFrame, CaptureFrame, Zenon DEF AccountInv, OpIs, Capturing, Settled, SameEvidence, SameRest, Writes
<1>8. MoveInv'
  BY <1>4, MoveFrame DEF OpIs, Moving
<1>9. ~NoRepair' /\ Restoring' /\ store'.done = {}
  BY <1>1, <1>3, <1>6, Zenon DEF NoRepair, Restoring, SameRest
<1>10. InspectInv'
  BY <1>4, <1>9, Zenon DEF InspectInv, OpIs, Restores, Inspecting, Inspected
<1> QED BY <1>1, <1>2, <1>4, <1>6, <1>7, <1>8, <1>10, SideMoves, Zenon DEF OpIs, SameRest, Writes

LEMMA CompleteRepairKeeps ==
    ASSUME AccountInv, CompleteRepair
    PROVE  AccountInv'
<1>1. op.do = "complete" /\ Goto("reply") /\ Writes
  BY DEF CompleteRepair, At, Writes
<1>2. op \in Operations /\ store \in Records /\ boot \in Nat
  BY Zenon DEF AccountInv, AccountTypes
<1>3. /\ op.kind = "repair" /\ ~NoRepair /\ op.out = "failed" /\ NoUnitRuns
      /\ Holds(fs, "original") /\ disk.tree = fs.tree /\ disk.parents = fs.parents
  BY <1>1, Zenon DEF AccountInv, InspectInv, Inspecting, Inspected
<1>4. OpIs("repair", "reply", op.phase, "failed")
  BY <1>1, <1>2, <1>3, GotoMoves, Zenon DEF Steps, Inspecting, Inspected
<1>5. /\ store' \in Records /\ store'.done # {} /\ SameEvidence
      /\ UNCHANGED <<store.boot, store.base, store.repair, store.fence, store.import, store.capture>>
  <2>1. CASE store.done # {}
    BY <2>1, <1>2 DEF CompleteRepair, SameEvidence
  <2>2. CASE store.done = {}
    <3>1. store' = [store EXCEPT !.done = {Attempt}] /\ Attempt \in (Leases \cup {0}) \X Nat
      BY <1>2, <2>2 DEF CompleteRepair, Attempt, Operations
    <3> QED BY <1>2, <3>1 DEF Records, SameEvidence
  <2> QED BY <2>1, <2>2
<1>6. ~NoRepair'
  BY <1>3, <1>5, Zenon DEF NoRepair
<1>7. AccountTypes'
  BY <1>1, <1>4, <1>5 DEF AccountInv, AccountTypes, OpIs, Writes
<1>8. UnitInv' /\ OrderInv' /\ OutcomeInv'
  BY <1>1, <1>5, UnitFrame, OrderFrame, OutcomeFrame, Zenon DEF AccountInv, SameEvidence, Writes
<1>9. RepairInv'
  BY <1>1, <1>3, <1>5, <1>6, EvidenceFrame, Zenon DEF AccountInv, RepairInv, Writes, NoUnitRuns
<1>10. store.mig = "started"
  BY <1>3 DEF AccountInv, RepairInv, EvidenceValid
<1>11. Holds(disk, "original")
  BY <1>3 DEF Holds
<1>12. EffectInv'
  BY <1>1, <1>3, <1>5, <1>6, <1>10, <1>11, Zenon DEF AccountInv, EffectInv, SameEvidence, Writes, Holds
<1>13. ParentInv' /\ SkillInv'
  BY <1>1, <1>5, ParentFrame, SkillFrame, Zenon DEF AccountInv, SameEvidence, Writes
<1>14. CaptureInv'
  BY <1>1, <1>4, <1>5, CaptureFrame, Zenon DEF AccountInv, OpIs, Capturing, Settled, Writes
<1>15. MoveInv'
  BY <1>4, MoveFrame, Zenon DEF OpIs, Moving, Restores
<1>16. InspectInv'
  BY <1>1, <1>3, <1>4, <1>5, <1>6, Zenon DEF InspectInv, OpIs, Restores, Inspecting, Inspected, NoUnitRuns, Holds, Writes, Terminal
<1> QED BY <1>7, <1>8, <1>9, <1>12, <1>13, <1>14, <1>15, <1>16, Zenon DEF AccountInv

LEMMA ImportManagedKeeps ==
    ASSUME AccountInv, ImportManaged
    PROVE  AccountInv'
<1>1. PICK epoch \in {1, 2} : store' = [store EXCEPT !.fence = ClosedFence(epoch)]
  BY DEF ImportManaged, Store
<1>2. op = Idle /\ op' = op /\ Writes
  BY DEF ImportManaged, Free, Store, Writes
<1>3. store \in Records /\ op \in Operations /\ fs \in Directories /\ session \in {"none", "running"}
  BY DEF AccountInv, AccountTypes
<1>4. ClosedFence(epoch) \in Nat /\ ClosedFence(epoch) # 0
  BY <1>3 DEF ClosedFence, Records
<1>5. /\ store' \in Records /\ store'.fence # 0 /\ SameEvidence
      /\ UNCHANGED <<store.boot, store.base, store.repair, store.done, store.import, store.capture>>
  BY <1>1, <1>3, <1>4 DEF Records, SameEvidence
<1>6. SkillInv' /\ CaptureInv'
  BY <1>2, <1>5, IdleType, SkillFrame, Zenon DEF AccountInv, Writes, CaptureInv, Sealed, Settled, SameEvidence
<1>7. MoveInv' /\ InspectInv'
  BY <1>2, IdleType, MoveFrame, InspectFrame, Zenon DEF Moving, Restores
<1> QED BY <1>2, <1>3, <1>5, <1>6, <1>7, SideMoves, Zenon DEF Writes

LEMMA BeginImportKeeps ==
    ASSUME AccountInv, BeginImport
    PROVE  AccountInv'
<1>1. store.fence = 0 /\ Writes /\ store' = [store EXCEPT !.import = "started"]
  BY Zenon DEF BeginImport, Store, Writes
<1>2. OpIs("import", "import", Copy, "none")
  BY StartMoves, Zenon DEF BeginImport, Steps
<1>3. store \in Records /\ fs \in Directories /\ session \in {"none", "running"}
  BY DEF AccountInv, AccountTypes
<1>4. /\ store' \in Records /\ store'.import = "started" /\ SameEvidence
      /\ UNCHANGED <<store.boot, store.base, store.repair, store.done, store.fence, store.capture>>
  BY <1>1, <1>3 DEF Records, SameEvidence
<1>5. SkillInv' /\ CaptureInv'
  BY <1>1, <1>2, <1>4, SkillFrame, Zenon DEF AccountInv, Writes, CaptureInv, Sealed, OpIs
<1>6. MoveInv' /\ InspectInv'
  BY <1>2, MoveFrame, InspectFrame DEF OpIs, Moving, Restores, Capturing
<1> QED BY <1>1, <1>2, <1>3, <1>4, <1>5, <1>6, SideMoves, Zenon DEF Writes, OpIs

LEMMA WriteImportKeeps ==
    ASSUME AccountInv, WriteImport
    PROVE  AccountInv'
<1>1. op.do = "import" /\ fs' = [fs EXCEPT !.skills = @ + 1] /\ UNCHANGED <<boot, store, unit, disk, session, told>>
  BY Zenon DEF WriteImport, At
<1>2. PICK out \in Terminal : op' = [op EXCEPT !.do = "imported", !.out = out]
  BY Zenon DEF WriteImport
<1>3. store \in Records /\ op \in Operations /\ fs \in Directories /\ disk \in Directories /\ session \in {"none", "running"}
  BY DEF AccountInv, AccountTypes
<1>4. OpIs(op.kind, "imported", op.phase, out)
  BY <1>2, <1>3, Zenon DEF Operations, OpIs, Ended
<1>5. fs' \in Directories /\ fs'.skills = fs.skills + 1 /\ fs'.tree = fs.tree /\ fs'.parents = fs.parents
  BY <1>1, <1>3 DEF Directories
<1>6. SkillInv'
  BY <1>1, <1>3, <1>5 DEF AccountInv, SkillInv, Directories
<1>7. CaptureInv'
  BY <1>1, <1>4, Zenon DEF AccountInv, CaptureInv, Sealed, OpIs
<1>8. op.kind = "repair" => ~NoRepair'
  BY <1>1 DEF AccountInv, InspectInv, NoRepair
<1>9. MoveInv'
  BY <1>4, MoveFrame, Zenon DEF OpIs, Moving, Restores
<1>10. InspectInv'
  BY <1>4, <1>8 DEF InspectInv, OpIs, Restores, Inspecting, Inspected
<1> QED BY <1>1, <1>3, <1>4, <1>5, <1>6, <1>7, <1>9, <1>10, SideMoves, Zenon DEF OpIs, SameEvidence

LEMMA FinishImportKeeps ==
    ASSUME AccountInv, FinishImport
    PROVE  AccountInv'
<1>1. op.do = "imported" /\ Writes /\ store' = [store EXCEPT !.import = op.out] /\ Leave
  BY DEF FinishImport, At, Store, Writes
<1>2. OpIs("idle", "idle", Copy, "none")
  BY <1>1, LeaveMoves
<1>3. store \in Records /\ fs \in Directories /\ session \in {"none", "running"}
  BY DEF AccountInv, AccountTypes
<1>4. op.out \in Terminal /\ store.import = "started"
  BY <1>1 DEF AccountInv, CaptureInv
<1>5. /\ store' \in Records /\ SameEvidence
      /\ UNCHANGED <<store.boot, store.base, store.repair, store.done, store.fence, store.capture>>
  BY <1>1, <1>3, <1>4, Zenon DEF Records, SameEvidence
<1>6. SkillInv' /\ CaptureInv'
  BY <1>1, <1>2, <1>4, <1>5, SkillFrame, Zenon DEF AccountInv, Writes, CaptureInv, Sealed, OpIs
<1>7. MoveInv' /\ InspectInv'
  BY <1>2, MoveFrame, InspectFrame DEF OpIs, Moving, Restores
<1> QED BY <1>1, <1>2, <1>3, <1>5, <1>6, <1>7, SideMoves, Zenon DEF Writes, OpIs

LEMMA CloseImportsKeeps ==
    ASSUME AccountInv, CloseImports
    PROVE  AccountInv'
<1>1. Writes /\ store' = [store EXCEPT !.fence = ClosedFence(1)]
  BY Zenon DEF CloseImports, Store, Writes
<1>2. OpIs("capture", "drain", Copy, "none")
  BY StartMoves, Zenon DEF CloseImports, Steps
<1>3. store \in Records /\ fs \in Directories /\ session \in {"none", "running"}
  BY DEF AccountInv, AccountTypes
<1>4. ClosedFence(1) \in Nat /\ ClosedFence(1) # 0
  BY <1>3 DEF ClosedFence, Records
<1>5. /\ store' \in Records /\ store'.fence # 0 /\ SameEvidence
      /\ UNCHANGED <<store.boot, store.base, store.repair, store.done, store.import, store.capture>>
  BY <1>1, <1>3, <1>4 DEF Records, SameEvidence
<1>6. SkillInv' /\ CaptureInv'
  BY <1>1, <1>2, <1>5, SkillFrame, Zenon DEF AccountInv, Writes, CaptureInv, Sealed, Settled, SameEvidence, OpIs
<1>7. MoveInv' /\ InspectInv'
  BY <1>2, MoveFrame, InspectFrame DEF OpIs, Moving, Restores
<1> QED BY <1>1, <1>2, <1>3, <1>5, <1>6, <1>7, SideMoves, Zenon DEF Writes, OpIs

LEMMA SealCaptureKeeps ==
    ASSUME AccountInv, SealCapture
    PROVE  AccountInv'
<1>1. op.do = "seal" /\ Writes /\ store' = [store EXCEPT !.capture = fs.skills] /\ Leave
  BY DEF SealCapture, At, Store, Writes
<1>2. OpIs("idle", "idle", Copy, "none")
  BY <1>1, LeaveMoves
<1>3. store \in Records /\ fs \in Directories /\ session \in {"none", "running"} /\ fs.skills \in Nat
  BY DEF AccountInv, AccountTypes, Directories
<1>4. /\ store' \in Records /\ store'.capture = fs.skills /\ SameEvidence
      /\ UNCHANGED <<store.boot, store.base, store.repair, store.done, store.fence, store.import>>
  BY <1>1, <1>3 DEF Records, SameEvidence
<1>5. Sealed
  BY <1>1 DEF AccountInv, CaptureInv
<1>6. SkillInv' /\ CaptureInv'
  <2>1. SkillInv'
    BY <1>1, SkillFrame DEF AccountInv, Writes
  <2>2. Sealed' /\ fs'.skills <= store'.capture
    BY <1>1, <1>3, <1>4, <1>5 DEF Writes, Sealed, Settled, SameEvidence
  <2>3. CaptureInv'
    BY <1>2, <2>2, Zenon DEF CaptureInv, OpIs
  <2> QED BY <2>1, <2>3
<1>7. MoveInv' /\ InspectInv'
  BY <1>2, MoveFrame, InspectFrame DEF OpIs, Moving, Restores
<1> QED BY <1>1, <1>2, <1>3, <1>4, <1>6, <1>7, SideMoves, Zenon DEF Writes, OpIs

LEMMA StartSessionKeeps ==
    ASSUME AccountInv, StartSession
    PROVE  AccountInv'
<1>1. op = Idle /\ store.fence = 0 /\ session' = "running" /\ UNCHANGED <<boot, store, unit, fs, disk, op, told>>
  BY DEF StartSession, Free, LegacyRuntime
<1>2. store \in Records /\ op \in Operations /\ fs \in Directories
  BY DEF AccountInv, AccountTypes
<1>3. SkillInv' /\ CaptureInv'
  BY <1>1, IdleType, SkillFrame, Zenon DEF AccountInv, CaptureInv, Sealed
<1>4. MoveInv' /\ InspectInv'
  BY <1>1, SameOperation
<1> QED BY <1>1, <1>2, <1>3, <1>4, SideMoves, Zenon DEF SameEvidence

LEMMA SessionWritesKeeps ==
    ASSUME AccountInv, SessionWrites
    PROVE  AccountInv'
<1>1. /\ session = "running" /\ fs' = [fs EXCEPT !.skills = @ + 1]
      /\ UNCHANGED <<boot, store, unit, disk, session, op, told>>
  BY DEF SessionWrites
<1>2. store \in Records /\ op \in Operations /\ fs \in Directories /\ disk \in Directories
  BY DEF AccountInv, AccountTypes
<1>3. fs' \in Directories /\ fs'.skills = fs.skills + 1 /\ fs'.tree = fs.tree /\ fs'.parents = fs.parents
  BY <1>1, <1>2 DEF Directories
<1>4. SkillInv'
  BY <1>1, <1>2, <1>3 DEF AccountInv, SkillInv, Directories
<1>5. CaptureInv'
  BY <1>1 DEF AccountInv, CaptureInv, Sealed
<1>6. MoveInv' /\ InspectInv'
  BY <1>1, <1>3, SameOperation
<1> QED BY <1>1, <1>2, <1>3, <1>4, <1>5, <1>6, SideMoves, Zenon DEF SameEvidence

LEMMA SessionExitsKeeps ==
    ASSUME AccountInv, SessionExits
    PROVE  AccountInv'
<1>1. session' = "none" /\ UNCHANGED <<boot, store, unit, fs, disk, op, told>>
  BY Zenon DEF SessionExits
<1>2. store \in Records /\ op \in Operations /\ fs \in Directories
  BY DEF AccountInv, AccountTypes
<1>3. SkillInv' /\ CaptureInv'
  BY <1>1, SkillFrame, Zenon DEF AccountInv, CaptureInv, Sealed, Settled
<1>4. MoveInv' /\ InspectInv'
  BY <1>1, SameOperation
<1> QED BY <1>1, <1>2, <1>3, <1>4, SideMoves, Zenon DEF SameEvidence

-----------------------------------------------------------------------------
(* The machine. *)

\* Every part of the directory is one of the two that were.
LEMMA RebootedDirectory ==
    ASSUME fs \in Directories, disk \in Directories, NEW kept,
           fs' = [part \in DOMAIN fs |-> IF part \in kept THEN fs[part] ELSE disk[part]]
    PROVE  /\ fs' \in Directories
           /\ fs'.skills \in {fs.skills, disk.skills} /\ fs'.tree \in {fs.tree, disk.tree}
           /\ fs'.parents \in {fs.parents, disk.parents}
<1>1. DOMAIN fs = {"skills", "tree", "parents", "backup"}
  BY DEF Directories
<1>2. /\ fs'.skills \in {fs.skills, disk.skills} /\ fs'.tree \in {fs.tree, disk.tree}
      /\ fs'.parents \in {fs.parents, disk.parents} /\ fs'.backup \in {fs.backup, disk.backup}
  BY <1>1, Zenon
<1>3. fs' = [skills |-> fs'.skills, tree |-> fs'.tree, parents |-> fs'.parents, backup |-> fs'.backup]
  BY <1>1, Zenon
<1>4. fs' \in Directories
  BY <1>2, <1>3 DEF Directories
<1> QED BY <1>2, <1>4

LEMMA RebootKeeps ==
    ASSUME AccountInv, Reboot
    PROVE  AccountInv'
<1>1. /\ boot' = boot + 1 /\ disk' = fs' /\ unit' = [p \in Phases |-> "none"] /\ session' = "none"
      /\ OpIs("idle", "idle", Copy, "none") /\ UNCHANGED <<store, told>>
  BY LeaveMoves DEF Reboot
<1>2. /\ boot \in Nat \ {0} /\ fs \in Directories /\ disk \in Directories /\ store.boot \in Nat
      /\ fs.skills \in Nat /\ disk.skills \in Nat /\ store.capture \in Nat
  BY DEF AccountInv, AccountTypes, Records, Directories
<1>3. PICK kept \in SUBSET DOMAIN fs :
          fs' = [part \in DOMAIN fs |-> IF part \in kept THEN fs[part] ELSE disk[part]]
  BY DEF Reboot
<1>4. /\ fs' \in Directories
      /\ fs'.skills \in {fs.skills, disk.skills} /\ fs'.tree \in {fs.tree, disk.tree}
      /\ fs'.parents \in {fs.parents, disk.parents}
  BY <1>2, <1>3, RebootedDirectory, Zenon
<1>5. AccountTypes'
  BY <1>1, <1>2, <1>4 DEF AccountInv, AccountTypes, OpIs
<1>6. store.boot <= boot /\ boot' # store.boot
  BY <1>1, <1>2 DEF AccountInv, UnitInv
<1>7. UnitInv'
  BY <1>1, <1>2, <1>6 DEF UnitInv
<1>8. OrderInv' /\ OutcomeInv' /\ RepairInv'
  BY <1>1, OrderFrame, OutcomeFrame, RepairFrame, Zenon DEF AccountInv, SameEvidence, NoUnitRuns
<1>9. EffectInv'
  BY <1>1, <1>4, <1>6, Zenon DEF AccountInv, EffectInv, Holds
<1>10. ParentInv'
  <2>1. Explained(fs'.parents) /\ (Restoring => Restoring')
    BY <1>1, <1>4 DEF AccountInv, ParentInv, Restoring, AllSucceeded, Last
  <2> QED BY <1>1, <2>1, ExplainedFrame, Zenon DEF ParentInv
<1>11. SkillInv' /\ fs'.skills <= fs.skills
  <2>1. disk.skills # 0 /\ disk.skills <= fs.skills
    BY DEF AccountInv, SkillInv
  <2>2. fs'.skills # 0 /\ fs'.skills <= fs.skills /\ fs'.skills <= fs'.skills
    BY <1>2, <1>4, <2>1
  <2> QED BY <1>1, <2>2 DEF SkillInv
<1>12. CaptureInv'
  <2>1. fs.skills <= store.capture => fs'.skills <= store.capture
    BY <1>2, <1>4, <1>11
  <2>2. Sealed => Sealed'
    BY <1>1 DEF Sealed, Settled
  <2> QED BY <1>1, <2>1, <2>2, Zenon DEF AccountInv, CaptureInv, OpIs
<1>13. MoveInv' /\ InspectInv'
  BY <1>1, MoveFrame, InspectFrame, Zenon DEF OpIs, Moving, Restores
<1> QED BY <1>5, <1>7, <1>8, <1>9, <1>10, <1>11, <1>12, <1>13, Zenon DEF AccountInv

\* What the command of a phase changes.
LEMMA AppliedChanges ==
    ASSUME fs \in Directories, NEW p \in Phases
    PROVE  /\ Applied(p) \in Directories /\ Applied(p).skills = fs.skills
           /\ p = Copy => Applied(p).tree = fs.tree /\ Applied(p).parents = fs.parents
           /\ p # Copy /\ p[2] < Last =>
                 /\ Applied(p).parents = fs.parents
                 /\ p[2] = Last - 1 => Applied(p).tree = p[1]
           /\ p # Copy /\ p[2] = Last =>
                 /\ Applied(p).tree = fs.tree
                 /\ Applied(p).parents = IF p[1] = "rollback" /\ fs.parents = "target" THEN "both" ELSE p[1]
<1>1. CASE p = Copy
  <2>1. Applied(p) = [fs EXCEPT !.backup = fs.skills]
    BY <1>1 DEF Applied
  <2> QED BY <1>1, <2>1 DEF Directories
<1>2. CASE p # Copy /\ p[2] < Last
  <2>1. Applied(p) = [fs EXCEPT !.tree = IF p[2] = Last - 1 THEN p[1] ELSE "mixed"]
    BY <1>2 DEF Applied
  <2>2. p[1] \in Directions /\ p[2] # Last
    BY <1>2, PhaseFacts
  <2> QED BY <1>2, <2>1, <2>2 DEF Directories
<1>3. CASE p # Copy /\ ~(p[2] < Last)
  <2>1. Applied(p) = [fs EXCEPT !.parents = IF p[1] = "rollback" /\ @ = "target" THEN "both" ELSE p[1]]
    BY <1>3 DEF Applied
  <2>2. p[1] \in Directions
    BY <1>3, PhaseFacts
  <2> QED BY <1>3, <2>1, <2>2 DEF Directories
<1> QED BY <1>1, <1>2, <1>3, Zenon

LEMMA UnitExitsKeeps ==
    ASSUME AccountInv, NEW p \in Phases, UnitExits(p)
    PROVE  AccountInv'
<1>1. PICK u \in {"ok", "bad"} : /\ unit' = [unit EXCEPT ![p] = u]
                                 /\ fs' \in {fs, Applied(p)} /\ (u = "ok" => fs' = Applied(p))
  BY DEF UnitExits
<1>2. unit[p] = "running" /\ UNCHANGED <<boot, store, disk, session, op, told>>
  BY DEF UnitExits
<1>3. fs \in Directories /\ unit \in [Phases -> {"none", "running", "ok", "bad"}] /\ store \in Records /\ op \in Operations
  BY DEF AccountInv, AccountTypes
<1>4. unit'[p] = u /\ \A q \in Phases : q # p => unit'[q] = unit[q]
  BY <1>1, <1>3
<1>5. store.writer[p] \in {"starting", "observed"} /\ boot = store.boot
  BY <1>2, Zenon DEF AccountInv, UnitInv
<1>6. ~NoUnitRuns /\ NoRepair /\ store.done = {}
  BY <1>2 DEF AccountInv, NoUnitRuns, RepairInv
<1>7. store.mig = "started"
  <2>1. store.mig # "none"
    BY <1>5 DEF AccountInv, OrderInv
  <2>2. p \in Recorded /\ store.writer[p] \notin Terminal
    BY <1>5, Zenon DEF Recorded, Terminal
  <2>3. store.mig \notin Terminal
    BY <2>2 DEF AccountInv, OutcomeInv, WriterOutcomes, Terminal
  <2> QED BY <1>3, <2>1, <2>3, Zenon DEF Records
<1>8. ~Settled /\ store.capture = 0 /\ op.do \notin {"scan", "seal"}
  <2>1. ~Settled
    BY <1>6, <1>7, Zenon DEF Settled, Terminal
  <2> QED BY <2>1 DEF AccountInv, CaptureInv, Sealed
<1>9. op.do \notin {"settle", "choose"} \cup Inspecting
  BY <1>6, Zenon DEF AccountInv, InspectInv
<1>10. /\ Applied(p) \in Directories /\ Applied(p).skills = fs.skills
       /\ p = Copy => Applied(p).tree = fs.tree /\ Applied(p).parents = fs.parents
       /\ p # Copy /\ p[2] < Last =>
             Applied(p).parents = fs.parents /\ (p[2] = Last - 1 => Applied(p).tree = p[1])
       /\ p # Copy /\ p[2] = Last =>
             /\ Applied(p).tree = fs.tree
             /\ Applied(p).parents = IF p[1] = "rollback" /\ fs.parents = "target" THEN "both" ELSE p[1]
  BY <1>3, AppliedChanges
<1>11. p # Copy => /\ p[1] \in Directions /\ p[2] \in 0 .. Last /\ p = <<p[1], p[2]>> /\ p[1] \in store.intent
                   /\ p[2] < Last \/ p[2] = Last
  <2>1. p # Copy => p[1] \in Directions /\ p[2] \in 0 .. Last /\ p = <<p[1], p[2]>> /\ (p[2] < Last \/ p[2] = Last)
    BY PhaseFacts
  <2>2. p # Copy => store.writer[<<p[1], p[2]>>] # "none"
    BY <1>5, <2>1, Zenon
  <2> QED BY <2>1, <2>2 DEF AccountInv, OrderInv
<1>12. fs' \in Directories /\ fs'.skills = fs.skills
  BY <1>1, <1>3, <1>10
<1>13. AccountTypes'
  BY <1>1, <1>2, <1>3, <1>12, Zenon DEF AccountInv, AccountTypes
<1>14. UnitInv'
  BY <1>2, <1>4, <1>5, Zenon DEF AccountInv, UnitInv
<1>15. OrderInv' /\ OutcomeInv' /\ RepairInv'
  BY <1>2, <1>6, OrderFrame, OutcomeFrame, NoRepairFrame, Zenon DEF AccountInv, SameEvidence
<1>16. SkillInv'
  BY <1>2, <1>12, SkillFrame DEF AccountInv
<1>17. CaptureInv'
  BY <1>2, <1>8, Zenon DEF AccountInv, CaptureInv
<1>18. MoveInv'
  BY <1>2, SameMove DEF AccountInv
<1>19. InspectInv'
  <2>1. (Restoring => Restoring') /\ (NoRepair' => NoRepair)
    BY <1>2 DEF Restoring, NoRepair, AllSucceeded, Last
  <2> QED BY <1>2, <1>9, <2>1, Zenon DEF AccountInv, InspectInv, Inspecting, Inspected
<1>20. ParentInv'
  <2>1. Explained(fs.parents) /\ Explained(disk.parents) /\ (Restoring => Restoring')
    BY <1>2 DEF AccountInv, ParentInv, Restoring, AllSucceeded, Last
  <2>2. CASE p # Copy /\ p[2] = Last /\ fs' = Applied(p)
    <3>1. p[1] \in Directions /\ store.writer[<<p[1], Last>>] # "none"
      BY <1>5, <1>11, <2>2
    <3>2. CASE p[1] = "rollback" /\ fs.parents = "target"
      <4>1. store.writer[<<"target", Last>>] # "none"
        BY <2>1, <3>2 DEF Explained
      <4>2. \A d \in Directions : store.writer[<<d, Last>>] # "none"
        BY <3>1, <3>2, <4>1, Zenon DEF Directions
      <4>3. fs'.parents = "both"
        BY <1>10, <2>2, <3>2
      <4> QED BY <1>2, <2>1, <4>2, <4>3, ExplainedFrame, Zenon DEF ParentInv, Explained
    <3>3. CASE ~(p[1] = "rollback" /\ fs.parents = "target")
      <4>1. fs'.parents = p[1]
        BY <1>10, <2>2, <3>3, Zenon
      <4>2. Explained(fs'.parents)
        BY <3>1, <4>1 DEF Explained
      <4> QED BY <1>2, <2>1, <4>2, ExplainedFrame, Zenon DEF ParentInv
    <3> QED BY <3>2, <3>3
  <2>3. CASE ~(p # Copy /\ p[2] = Last /\ fs' = Applied(p))
    <3>1. fs'.parents = fs.parents
      BY <1>1, <1>10, <1>11, <2>3, Zenon
    <3> QED BY <1>2, <2>1, <3>1, ExplainedFrame, Zenon DEF ParentInv
  <2> QED BY <2>2, <2>3
<1>21. ASSUME "rollback" \notin store.intent, NEW k \in {Last - 1, Last}, Worked(<<"target", k>>)'
       PROVE  IF k = Last THEN fs'.parents = "target" ELSE fs'.tree = "target"
  <2> DEFINE q == <<"target", k>>
  <2>1. k \in 0 .. Last /\ Last - 1 # Last /\ Last \in Nat /\ k \in Nat
    BY <1>21, PhaseFacts
  <2>2. q \in Phases /\ q[1] = "target" /\ q[2] = k /\ q # Copy /\ "target" \in Directions
    BY <2>1, PhaseFacts DEF Directions
  <2>3. CASE q = p
    <3>1. u = "ok"
      BY <1>2, <1>4, <1>5, <1>21, <2>3, Zenon DEF Worked
    <3> QED BY <1>1, <1>10, <1>11, <2>1, <2>2, <2>3, <3>1, Zenon
  <2>4. CASE q # p
    <3>1. Worked(q)
      BY <1>2, <1>4, <1>21, <2>2, <2>4, Zenon DEF Worked
    <3>2. IF k = Last THEN fs.parents = "target" ELSE fs.tree = "target"
      BY <1>5, <1>6, <1>21, <2>1, <3>1, Zenon DEF AccountInv, EffectInv
    <3>3. store.writer[<<"target", k>>] # "none"
      BY <2>2, <3>1 DEF AccountInv, UnitInv, Worked
    <3>4. CASE p = Copy \/ fs' = fs
      BY <1>1, <1>10, <3>2, <3>4, Zenon
    <3>5. CASE p # Copy
      <4>1. p[1] = "target"
        BY <1>11, <1>21, <3>5 DEF Directions
      <4>2. ~(p[2] < k)
        <5>1. SUFFICES ASSUME p[2] < k PROVE FALSE
          OBVIOUS
        <5>2. store.writer[<<"target", p[2]>>] = "succeeded"
          BY <1>11, <2>1, <2>2, <3>3, <3>5, <5>1, Zenon DEF AccountInv, OrderInv
        <5> QED BY <1>5, <1>11, <3>5, <4>1, <5>2, Zenon
      <4>3. p[2] # k
        BY <1>11, <2>4, <3>5, <4>1, Zenon
      <4>4. p[2] = Last /\ k # Last
        <5>1. p[2] \in 0 .. Last
          BY <1>11, <3>5
        <5>2. k < p[2]
          BY <2>1, <4>2, <4>3, <5>1
        <5> QED BY <1>21, <2>1, <5>1, <5>2
      <4> QED BY <1>1, <1>10, <3>2, <3>5, <4>4, Zenon
    <3> QED BY <3>4, <3>5
  <2> QED BY <2>3, <2>4
<1>22. EffectInv'
  <2>1. Last' = Last /\ Last - 1 # Last
    BY PhaseFacts DEF Last
  <2>2. "rollback" \notin store.intent => /\ Worked(<<"target", Last - 1>>)' => fs'.tree = "target"
                                          /\ Worked(<<"target", Last>>)' => fs'.parents = "target"
    BY <1>21, <2>1
  <2> QED BY <1>2, <1>6, <1>7, <2>1, <2>2, Zenon DEF AccountInv, EffectInv
<1> QED BY <1>13, <1>14, <1>15, <1>16, <1>17, <1>18, <1>19, <1>20, <1>22, Zenon DEF AccountInv

-----------------------------------------------------------------------------
(* The invariant and what it shows. *)

\* An account nothing was done to (no record, no unit, nothing told).
LEMMA AccountInit ==
    ASSUME Init
    PROVE  AccountInv
<1>1. /\ boot = 1 /\ disk = fs /\ session = "none" /\ told = {} /\ op = Idle /\ unit = [p \in Phases |-> "none"]
      /\ store = [fence |-> 0, mig |-> "none", boot |-> 0, base |-> NoBaseline,
                  copy |-> "none", intent |-> {}, writer |-> [p \in Phases |-> "none"], attest |-> "none",
                  repair |-> NoEvidence, attempts |-> {}, done |-> {}, import |-> "none", capture |-> 0]
      /\ fs = [skills |-> 1, tree |-> "original", parents |-> "original", backup |-> Absent]
  BY DEF Init
<1>0. boot = 1 /\ disk = fs /\ session = "none" /\ told = {} /\ op = Idle
  BY <1>1, Zenon
<1>2. fs \in Directories /\ fs.skills = 1 /\ fs.parents = "original"
  BY <1>1, Zenon DEF Directories, Absent
<1>3. store \in Records
  BY <1>1 DEF Records, NoBaseline, NoEvidence, Ended, Launches
<1>4. /\ store.mig = "none" /\ store.copy = "none" /\ store.intent = {} /\ store.boot = 0
      /\ store.attest = "none" /\ store.repair = NoEvidence /\ store.done = {} /\ store.capture = 0
      /\ \A p \in Phases : store.writer[p] = "none" /\ unit[p] = "none"
  BY <1>1, Zenon
<1>5. AccountTypes
  <2>1. boot \in Nat \ {0} /\ session \in {"none", "running"} /\ told \subseteq {"target", "source"}
    BY <1>0
  <2>2. unit \in [Phases -> {"none", "running", "ok", "bad"}]
    BY <1>1, Zenon
  <2>3. op \in Operations /\ disk \in Directories
    BY <1>0, <1>2, IdleType, Zenon
  <2> QED BY <1>2, <1>3, <2>1, <2>2, <2>3, Zenon DEF AccountTypes
<1>6. UnitInv
  BY <1>0, <1>4 DEF UnitInv
<1>7. OrderInv
  BY <1>4, PhaseFacts DEF OrderInv, CopyOutcome
<1>8. OutcomeInv /\ RepairInv
  BY <1>4 DEF OutcomeInv, RepairInv, NoRepair, Terminal
<1>9. EffectInv
  <2>1. boot # store.boot
    BY <1>0, <1>4
  <2> QED BY <1>0, <1>4, <2>1, Zenon DEF EffectInv
<1>10. ParentInv /\ SkillInv
  <2>1. ParentInv
    BY <1>0, <1>2, Zenon DEF ParentInv, Explained
  <2>2. SkillInv
    BY <1>0, <1>2 DEF SkillInv
  <2> QED BY <2>1, <2>2, Zenon
<1>11. CaptureInv
  BY <1>0, <1>4, IdleType DEF CaptureInv
<1>12. MoveInv
  BY <1>0, IdleType, Zenon DEF MoveInv, Moving, Restores
<1>13. InspectInv
  BY <1>0, IdleType, Zenon DEF InspectInv, Restores, Inspecting, Inspected
<1> QED BY <1>5, <1>6, <1>7, <1>8, <1>9, <1>10, <1>11, <1>12, <1>13, Zenon DEF AccountInv

\* Every step of every operation, and of the machine, keeps the invariant.
LEMMA AccountStep ==
    ASSUME AccountInv, [Next]_vars
    PROVE  AccountInv'
<1>1. CASE MigrationStep
  <2>1. ASSUME \/ BeginMigration \/ ReplayMigration \/ CaptureBaseline \/ CreateBackupDirectory \/ BeginCopy
               \/ FinishCopy \/ VerifyBackup \/ BeginOwnership \/ ChownTree
        PROVE  AccountInv'
    BY <2>1, BeginMigrationKeeps, ReplayMigrationKeeps, CaptureBaselineKeeps, CreateBackupDirectoryKeeps, BeginCopyKeeps,
       FinishCopyKeeps, VerifyBackupKeeps, BeginOwnershipKeeps, ChownTreeKeeps, Zenon
  <2>2. ASSUME \/ BeginWriter \/ StartUnit \/ WatchWriter \/ ReleaseUnit \/ VerifyAccount \/ CheckRestoration
               \/ RestoreTree \/ RestoreParentMode \/ RestoreParentAccess
        PROVE  AccountInv'
    BY <2>2, BeginWriterKeeps, StartUnitKeeps, WatchWriterKeeps, ReleaseUnitKeeps, VerifyAccountKeeps,
       CheckRestorationKeeps, RestoreTreeKeeps, RestoreParentModeKeeps, RestoreParentAccessKeeps, Zenon
  <2>3. ASSUME \/ RefreshWriter \/ RefreshDone \/ SettleCopy \/ ChooseOutcome \/ InspectFirst \/ SyncFilesystems
               \/ InspectAgain \/ Attest \/ FinishMigration \/ Reply
        PROVE  AccountInv'
    BY <2>3, RefreshWriterKeeps, RefreshDoneKeeps, SettleCopyKeeps, ChooseOutcomeKeeps, InspectFirstKeeps,
       SyncFilesystemsKeeps, InspectAgainKeeps, AttestKeeps, FinishMigrationKeeps, ReplyKeeps, Zenon
  <2> QED BY <1>1, <2>1, <2>2, <2>3 DEF MigrationStep
<1>2. CASE RecoveryStep
  BY <1>2, RecoverKeeps, InspectPreviousBootKeeps, VerifySourceKeeps, BeginRepairKeeps, BeginAttemptKeeps,
     CompleteRepairKeeps, RepeatRepairKeeps, Zenon DEF RecoveryStep
<1>3. CASE CaptureStep
  BY <1>3, ImportManagedKeeps, BeginImportKeeps, WriteImportKeeps, FinishImportKeeps, CloseImportsKeeps,
     CheckWritersKeeps, ScanSourceKeeps, SealCaptureKeeps, Zenon DEF CaptureStep
<1>4. CASE Environment
  BY <1>4, AbandonKeeps, StartSessionKeeps, SessionWritesKeeps, SessionExitsKeeps, RebootKeeps,
     UnitExitsKeeps, Zenon DEF Environment
<1>5. CASE UNCHANGED vars
  <2>1. Reads /\ op' = op /\ fs' = fs /\ UNCHANGED <<boot, store, unit, disk, op>>
    BY <1>5 DEF vars, Reads
  <2>2. MoveInv' /\ InspectInv'
    BY <2>1, SameOperation, Zenon
  <2>3. CaptureInv'
    <3>1. Sealed' <=> Sealed
      BY <2>1 DEF Reads, Sealed, Settled
    <3> QED BY <2>1, <3>1, Zenon DEF AccountInv, CaptureInv
  <2>4. op' \in Operations
    BY <2>1 DEF AccountInv, AccountTypes
  <2> QED BY <2>1, <2>2, <2>3, <2>4, ReadMoves, Zenon
<1> QED BY <1>1, <1>2, <1>3, <1>4, <1>5, Zenon DEF Next

\* What the records, the units and the directory are at every moment.
LEMMA AccountInvariant == Spec => []AccountInv
<1>1. Init => AccountInv
  BY AccountInit
<1>2. AccountInv /\ [Next]_vars => AccountInv'
  BY AccountStep
<1> QED BY <1>1, <1>2, PTL DEF Spec

\* What the control plane was told of an account is true of its disk and stays
\* true, whatever is interrupted, rebooted, recovered or repaired.  A reply comes
\* from an operation that compared the flushed directory with its outcome, and
\* after a recorded outcome or a completed repair nothing writes the directory
\* (executeAccountMigration, recoverCompletedAccountMigration,
\* repairMigrationSource).
THEOREM OutcomesAreTrue == Spec => []OutcomeTruth
<1>1. AccountInv => OutcomeTruth
  <2>1. SUFFICES ASSUME AccountInv PROVE OutcomeTruth
    OBVIOUS
  <2>2. "target" \in told => store.mig = "succeeded" /\ Holds(disk, "target")
    BY <2>1, Zenon DEF AccountInv, EffectInv
  <2>3. "source" \in told => (store.mig = "failed" \/ store.done # {}) /\ Holds(disk, "original")
    BY <2>1 DEF AccountInv, EffectInv
  <2>4. store.mig \in Terminal => NoUnitRuns
    <3>1. SUFFICES ASSUME store.mig \in Terminal, NEW p \in Phases PROVE unit[p] # "running"
      BY DEF NoUnitRuns
    <3>2. store.writer[p] # "none" => store.writer[p] \in Terminal
      BY <2>1, <3>1, Zenon DEF AccountInv, OutcomeInv, WriterOutcomes, Recorded, Terminal
    <3> QED BY <2>1, <3>2 DEF AccountInv, UnitInv, Terminal
  <2>5. store.done # {} => NoUnitRuns
    BY <2>1 DEF AccountInv, RepairInv
  <2>6. told # {} => "target" \in told \/ "source" \in told
    BY <2>1, Zenon DEF AccountInv, AccountTypes
  <2>7. told # {} => NoUnitRuns
    BY <2>2, <2>3, <2>4, <2>5, <2>6, Zenon DEF Terminal
  <2> QED BY <2>2, <2>3, <2>7 DEF OutcomeTruth, Holds, NoUnitRuns
<1> QED BY <1>1, AccountInvariant, PTL

\* The accesses the invariant explains are those a restoration accepts
\* (inspectMigrationRestorationParents).
LEMMA ExplainedParents ==
    ASSUME store \in Records, NEW access, Explained(access)
    PROVE  access \in ParentStates(Restoring)
<1> DEFINE applied == {d \in {"target", "rollback"} : <<d, Last>> \in Recorded}
<1>1. \A d \in Directions : store.writer[<<d, Last>>] # "none" => d \in applied
  BY PhaseFacts DEF Directions, Recorded
<1>2. CASE access = "original"
  BY <1>2 DEF ParentStates
<1>3. CASE access \in Directions /\ store.writer[<<access, Last>>] # "none"
  <2>1. access \in applied
    BY <1>1, <1>3
  <2> QED BY <2>1 DEF ParentStates
<1>4. CASE access = "both" /\ \A d \in Directions : store.writer[<<d, Last>>] # "none"
  <2>1. applied = {"target", "rollback"}
    BY <1>1, <1>4 DEF Directions
  <2>2. IsFiniteSet({"target"}) /\ Cardinality({"target"}) = 1
    BY FS_Singleton, Zenon
  <2>3. Cardinality({"target"} \cup {"rollback"}) = 2
    BY <2>2, FS_AddElement
  <2>4. {"target"} \cup {"rollback"} = {"target", "rollback"}
    OBVIOUS
  <2>5. Cardinality(applied) = 2
    BY <2>1, <2>3, <2>4, Zenon
  <2> QED BY <1>4, <2>5 DEF ParentStates
<1>5. CASE access = "masked" /\ Restoring /\ \E d \in Directions : store.writer[<<d, Last>>] # "none"
  <2>1. applied # {}
    BY <1>1, <1>5
  <2> QED BY <1>5, <2>1 DEF ParentStates
<1> QED BY <1>2, <1>3, <1>4, <1>5, Zenon DEF Explained

\* A migration that was cut off after its backup passes the preflight of a
\* repair, at whatever step it or an earlier repair was cut off: no record of the
\* original changes under a repair's intent, and each write of the parents is
\* preceded by the record that explains it
\* (inspectMigrationRestorationParents, ReadAccountMigrationRepairIntent).
THEOREM InterruptedIsRepairable == Spec => []Repairable
<1>1. AccountInv => Repairable
  <2>1. SUFFICES ASSUME AccountInv, store.mig = "started", store.copy = "copied",
                        \A p \in Phases : unit[p] # "running", fs.skills = store.base, fs.backup = store.base
                 PROVE  RepairPreflight
    BY Zenon DEF Repairable
  <2>2. EvidenceValid
    BY <2>1 DEF AccountInv, OrderInv, OutcomeInv, EvidenceValid
  <2>3. store.repair \in {NoEvidence, Evidence}
    BY <2>1 DEF AccountInv, RepairInv, NoRepair
  <2>4. Quiet
    BY <2>1 DEF Quiet, Recorded
  <2>5. Inspect("succeeded")
    BY <2>1 DEF Inspect, SameContent
  <2>6. ParentsExplained(Restoring)
    BY <2>1, ExplainedParents, Zenon DEF AccountInv, AccountTypes, ParentInv, ParentsExplained
  <2> QED BY <2>2, <2>3, <2>4, <2>5, <2>6, Zenon DEF RepairPreflight
<1> QED BY <1>1, AccountInvariant, PTL

\* Captured skills stay as captured: the fence admits no session and no import
\* any more, the history was settled, so no unit of a migration is left, and a
\* reboot brings no newer content back (captureNativeAccountTakeover).
THEOREM CaptureIsQuiet == Spec => []CaptureQuiet
<1>1. AccountInv => CaptureQuiet
  <2>1. SUFFICES ASSUME AccountInv, store.capture # 0
                 PROVE  session = "none" /\ NoUnitRuns /\ fs.skills <= store.capture
    BY DEF CaptureQuiet, NoUnitRuns
  <2>2. session = "none" /\ Settled /\ fs.skills <= store.capture
    BY <2>1 DEF AccountInv, CaptureInv, Sealed
  <2>3. store.done # {} => NoUnitRuns
    BY <2>1 DEF AccountInv, RepairInv
  <2>4. ASSUME store.mig = "none" \/ store.mig \in Terminal, NEW p \in Phases PROVE unit[p] # "running"
    <3>1. store.writer[p] # "none" => store.writer[p] \in Terminal
      BY <2>1, <2>4, Zenon DEF AccountInv, OrderInv, OutcomeInv, WriterOutcomes, Recorded, Terminal
    <3> QED BY <2>1, <3>1, Zenon DEF AccountInv, UnitInv, Terminal
  <2>5. store.mig = "none" \/ store.mig \in Terminal => NoUnitRuns
    BY <2>4 DEF NoUnitRuns
  <2> QED BY <2>2, <2>3, <2>5 DEF Settled
<1> QED BY <1>1, AccountInvariant, PTL
=============================================================================
