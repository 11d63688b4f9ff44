-------------------------- MODULE AccountMigration --------------------------
(***************************************************************************)
(* The Helper's work on the directory of one account: the migration of the *)
(* account between runtime backends, the recovery and the repair of an     *)
(* interrupted migration, the import of configuration files, and the       *)
(* capture of the account's skills when the account is taken over.         *)
(*                                                                         *)
(* Every operation runs under the Helper's mutex, so one is in progress at *)
(* a time, but it can be abandoned between any two of its steps: the       *)
(* request is cancelled, its deadline passes, or the Helper dies.  What it *)
(* left behind goes on: the private records (store), the systemd units     *)
(* that copy the account and rewrite its access lists (unit), the native   *)
(* session that was already running, and the directory itself.  A reboot   *)
(* ends the units and keeps of the directory what had reached the disk.    *)
(***************************************************************************)
EXTENDS Naturals, FiniteSets

CONSTANTS
    Commands,   \* access-list commands of one ownership change (3 in the code)
    MaxBoots,   \* boots of the machine
    MaxEdits,   \* writes of account files
    Leases      \* lease attempts of the repair task

\* Commands before the last set the tree, the last one its parents.
ASSUME AccountAssumption ==
    Commands \in Nat /\ Commands >= 2 /\ MaxBoots \in Nat /\ MaxEdits \in Nat

VARIABLES
    boot,       \* the current boot
    store,      \* the private records of the account, every one durable
    unit,       \* the transient unit of each phase
    fs,         \* the account directory, its parents and the backup, as read
    disk,       \* the same, as the disk holds them
    session,    \* "none" or "running": the native session of the account
    op,         \* the operation that holds the Helper's mutex
    told        \* the backends the control plane was told the account is on

vars == <<boot, store, unit, fs, disk, session, op, told>>

Last == Commands - 1

\* The phases in the order the code launches them: the copy, then the
\* commands that give the tree to the target, then those that give it back.
Copy == <<"copy", 0>>
Phases == {Copy} \cup ({"target", "rollback"} \X (0 .. Last))

Absent == 0             \* no backup directory
Torn == MaxEdits + 2    \* a backup that is nobody's content
NoBaseline == 0
NoEvidence == {}

Idle == [kind |-> "idle", do |-> "idle", phase |-> Copy, out |-> "none",
         seen |-> {}, lease |-> 0]

Init ==
    /\ boot = 1
    /\ store = [fence |-> 0, mig |-> "none", boot |-> 0, base |-> NoBaseline,
                copy |-> "none", intent |-> {},
                writer |-> [p \in Phases |-> "none"], attest |-> "none",
                repair |-> NoEvidence, attempts |-> {}, done |-> {},
                import |-> "none", capture |-> 0]
    /\ unit = [p \in Phases |-> "none"]
    /\ fs = [skills |-> 1, tree |-> "original", parents |-> "original",
             backup |-> Absent]
    /\ disk = fs
    /\ session = "none"
    /\ op = Idle
    /\ told = {}

-----------------------------------------------------------------------------
(* What the records say.                                                   *)

Terminal == {"succeeded", "failed"}

\* Mutant: only a completed repair ends the original's authority.
NoRepairDone == store.done = {}

\* An intent to repair fences every record of the original migration.
NoRepair == store.repair = NoEvidence

Recorded == {p \in Phases : store.writer[p] # "none"}

\* Whether the units of the recorded phases have exited.
Quiet == \A p \in Recorded : unit[p] # "running"

AllSucceeded(dir) == \A i \in 0 .. Last : store.writer[<<dir, i>>] = "succeeded"

OwnershipOutcomes(out) ==
    /\ "target" \in store.intent
    /\ ("rollback" \in store.intent) <=> (out = "failed")

CopyOutcome(out) == store.writer[Copy] = out

WriterOutcomes(out) ==
    /\ OwnershipOutcomes(out)
    /\ CopyOutcome("succeeded")
    /\ AllSucceeded(IF out = "failed" THEN "rollback" ELSE "target")
    /\ \A p \in Recorded : store.writer[p] \in Terminal
    /\ out = "succeeded" => \A i \in 0 .. Last : <<"rollback", i>> \notin Recorded

\* The evidence the intent to repair is bound to, and when it is acceptable.
Evidence == {<<store.mig, store.copy, store.intent, store.writer, store.attest>>}

EvidenceValid ==
    /\ store.mig = "started" /\ store.base # NoBaseline
    /\ store.copy = "copied" /\ CopyOutcome("succeeded")
    /\ "rollback" \in store.intent => "target" \in store.intent
    /\ store.attest # "none" => WriterOutcomes(store.attest)

\* The retained intent, as it reads while the evidence has not changed.
IntentReads == store.repair = Evidence /\ EvidenceValid

CompletionReads == store.done # {} /\ store.done \subseteq store.attempts /\ IntentReads

CheckWriter ==
    IF store.mig = "started"
    THEN CompletionReads
    ELSE /\ store.mig \in Terminal
         /\ store.attest = store.mig
         /\ WriterOutcomes(store.mig)
         /\ store.copy = "copied"

History == store.mig = "none" \/ CheckWriter

\* Mutant: the fence is not asked.
LegacyRuntimeUnfenced == History

\* Admission of a writer that needs the account unfenced and settled.
LegacyRuntime == store.fence = 0 /\ History

-----------------------------------------------------------------------------
(* What the scans of the directory say.                                    *)

\* The account and its independent backup hold the same content.
SameContent == fs.backup = fs.skills

\* What a scan records of every entry it walks.
Observation == {fs}

\* Nothing of the two trees changed since they were observed.
Unchanged == op.seen = Observation

ParentsOriginal == fs.parents = "original"

Inspect(out) ==
    /\ SameContent
    /\ store.base = fs.backup
    /\ out = "failed" => fs.tree = "original" /\ ParentsOriginal

\* The accesses of the parents that the recorded commands explain.  A parent
\* is restored by a chmod and then its access list, so an interrupted
\* restoration leaves the named entries under the original mask.
ParentStates(restoring) ==
    LET applied == {d \in {"target", "rollback"} : <<d, Last>> \in Recorded}
    IN  {"original"} \cup applied
            \cup (IF Cardinality(applied) = 2 THEN {"both"} ELSE {})
            \cup (IF restoring /\ applied # {} THEN {"masked"} ELSE {})

ParentsExplained(restoring) == fs.parents \in ParentStates(restoring)

-----------------------------------------------------------------------------
(* Operations.                                                             *)

Free == op = Idle

Goto(step) == op' = [op EXCEPT !.do = step]

Leave == op' = Idle

Store(change) == store' = change /\ UNCHANGED <<boot, unit, fs, disk, session, told>>

Only(step) == Goto(step) /\ UNCHANGED <<boot, store, unit, fs, disk, session, told>>

At(step) == op.do = step

\* A cancelled request, an expired deadline, an inspection that failed or the
\* death of the Helper: the operation ends where it is.
Abandon ==
    /\ ~Free
    /\ Leave
    /\ UNCHANGED <<boot, store, unit, fs, disk, session, told>>

-----------------------------------------------------------------------------
(* The migration: records first, then what they announce.                  *)

\* A new migration needs the account unfenced and its history settled; the
\* intent is recorded with the boot before anything else happens.
BeginMigration ==
    /\ Free
    /\ store.mig = "none" /\ LegacyRuntime
    /\ Store([store EXCEPT !.mig = "started", !.boot = boot])
    /\ op' = [Idle EXCEPT !.kind = "migrate", !.do = "baseline"]

\* A replay of a settled migration repeats its outcome.
ReplayMigration ==
    /\ Free
    /\ store.mig \in Terminal /\ CheckWriter
    /\ told' = told \cup {IF store.mig = "succeeded" THEN "target" ELSE "source"}
    /\ UNCHANGED <<boot, store, unit, fs, disk, session, op>>

CaptureBaseline ==
    /\ At("baseline")
    /\ Store([store EXCEPT !.base = fs.skills])
    /\ Goto("mkdir")

CreateBackupDirectory ==
    /\ At("mkdir") /\ fs.backup = Absent
    /\ fs' = [fs EXCEPT !.backup = Torn]
    /\ Goto("copy")
    /\ UNCHANGED <<boot, store, unit, disk, session, told>>

BeginCopy ==
    /\ At("copy") /\ NoRepair
    /\ Store([store EXCEPT !.copy = "started"])
    /\ Goto("launch")

\* The copy's receipt follows the outcome of its writer.
CopyState == IF CopyOutcome("succeeded") THEN "copied" ELSE "failed"

FinishCopy ==
    /\ At("copied") /\ NoRepair
    /\ Store([store EXCEPT !.copy = CopyState])
    /\ IF CopyState = "copied" THEN Goto("backup") ELSE Leave

\* No target write precedes the verification of the backup.
VerifyBackup ==
    /\ At("backup") /\ Inspect("failed")
    /\ op' = [op EXCEPT !.do = "own", !.phase = <<"target", 0>>]
    /\ UNCHANGED <<boot, store, unit, fs, disk, session, told>>

Direction == op.phase[1]

BeginOwnership ==
    /\ At("own") /\ NoRepair
    /\ store.copy = "copied" /\ store.mig = "started" /\ store.base # NoBaseline
    /\ Direction \notin store.intent
    /\ Store([store EXCEPT !.intent = @ \cup {Direction}])
    /\ Goto("chown")

\* A failed change of the owner to the target is rolled back; a failed
\* rollback leaves the migration started.
AfterFailure ==
    IF Direction = "target"
    THEN op' = [op EXCEPT !.do = "own", !.phase = <<"rollback", 0>>]
    ELSE Leave

ChownTree ==
    /\ At("chown")
    /\ \/ Goto("launch") /\ fs' = [fs EXCEPT !.tree = "mixed"]
       \/ AfterFailure /\ \E t \in {fs.tree, "mixed"} : fs' = [fs EXCEPT !.tree = t]
    /\ UNCHANGED <<boot, store, unit, disk, session, told>>

-----------------------------------------------------------------------------
(* One privileged writer: its launch is recorded, its unit started, its     *)
(* invocation pinned, its exit recorded, and its unit released.             *)

BeginWriter ==
    LET p == op.phase
    IN  /\ At("launch") /\ NoRepair
        /\ store.writer[p] = "none"
        /\ IF p = Copy
           THEN store.copy = "started"
           ELSE store.copy = "copied" /\ Direction \in store.intent
        /\ Store([store EXCEPT !.writer[p] = "starting"])
        /\ Goto("admit")

\* The service manager admits the unit, or the request is lost.  It admits
\* none later: an unlisted unit of this boot counts as quiet.
StartUnit ==
    /\ At("admit")
    /\ \E u \in {"running", "none"} : unit' = [unit EXCEPT ![op.phase] = u]
    /\ Goto("watch")
    /\ UNCHANGED <<boot, store, fs, disk, session, told>>

\* The unit of phase p is listed, in the boot that launched it.
Loaded(p) == unit[p] # "none" /\ boot = store.boot

Exited(p) == unit[p] \in {"ok", "bad"}

\* What an observation of the unit of phase p makes of the phase's record.
Observed(p) ==
    CASE store.writer[p] = "starting" -> "observed"
      [] store.writer[p] = "observed" /\ Exited(p) ->
             IF unit[p] = "ok" THEN "succeeded" ELSE "failed"
      [] OTHER -> store.writer[p]

Observe(p) ==
    /\ NoRepair /\ Loaded(p)
    /\ Observed(p) # store.writer[p]
    /\ Store([store EXCEPT !.writer[p] = Observed(p)])

WatchWriter ==
    /\ At("watch")
    /\ Observe(op.phase)
    /\ Goto(IF Observed(op.phase) \in Terminal THEN "reap" ELSE "watch")

\* Where the migration goes on once the writer of its phase has exited.
AfterWriter ==
    LET p == op.phase
    IN  CASE p = Copy -> Goto("copied")
          [] p # Copy /\ store.writer[p] = "failed" -> AfterFailure
          [] p # Copy /\ store.writer[p] = "succeeded" /\ p[2] < Last ->
                 op' = [op EXCEPT !.do = "launch", !.phase = <<p[1], p[2] + 1>>]
          [] p = <<"target", Last>> /\ store.writer[p] = "succeeded" -> Goto("verify")
          [] p = <<"rollback", Last>> /\ store.writer[p] = "succeeded" -> Goto("restore")

\* The exited unit is released.  (Best effort in the code: an exited unit
\* that stays listed counts as quiet all the same, so the two are one state.)
ReleaseUnit ==
    /\ At("reap")
    /\ unit' = [unit EXCEPT ![op.phase] = "none"]
    /\ AfterWriter
    /\ UNCHANGED <<boot, store, fs, disk, session, told>>

VerifyAccount ==
    /\ At("verify")
    /\ \/ op' = [op EXCEPT !.do = "refresh", !.out = "succeeded"]
       \/ AfterFailure
    /\ UNCHANGED <<boot, store, unit, fs, disk, session, told>>

-----------------------------------------------------------------------------
(* Restoring the permissions of the source, after a rollback and in a       *)
(* repair.                                                                  *)

\* The first execution checks the directory before its first write.
CheckRestoration ==
    /\ At("restore")
    /\ boot = store.boot /\ store.mig = "started"
    /\ store.intent = {"target", "rollback"}
    /\ CopyOutcome("succeeded") /\ AllSucceeded("rollback") /\ Quiet
    /\ Inspect("succeeded") /\ ParentsExplained(FALSE)
    /\ op' = [op EXCEPT !.do = "tree", !.seen = Observation]
    /\ UNCHANGED <<boot, store, unit, fs, disk, session, told>>

RestoreTree ==
    /\ At("tree") /\ Unchanged
    /\ fs' = [fs EXCEPT !.tree = "original"]
    /\ op' = [op EXCEPT !.do = "chmod", !.seen = {}]
    /\ UNCHANGED <<boot, store, unit, disk, session, told>>

RestoreParentMode ==
    /\ At("chmod")
    /\ fs' = [fs EXCEPT !.parents = IF ParentsOriginal THEN @ ELSE "masked"]
    /\ Goto("acl")
    /\ UNCHANGED <<boot, store, unit, disk, session, told>>

RestoreParentAccess ==
    /\ At("acl")
    /\ fs' = [fs EXCEPT !.parents = "original"]
    /\ op' = [op EXCEPT !.do = IF op.kind = "repair" THEN "inspect" ELSE "refresh",
                       !.out = "failed"]
    /\ UNCHANGED <<boot, store, unit, disk, session, told>>

-----------------------------------------------------------------------------
(* Completion: observe every writer, compare the directory with the backup  *)
(* twice around a flush of the filesystems, attest, and finish.             *)

\* A writer an earlier attempt left behind is observed; one that has not
\* exited, or whose unit is gone unobserved, ends the attempt.
RefreshWriter ==
    /\ At("refresh")
    /\ \E p \in Recorded : Observe(p)
    /\ UNCHANGED op

AllObserved == \A p \in Recorded : store.writer[p] \in Terminal

RefreshDone ==
    /\ At("refresh") /\ AllObserved /\ Quiet
    /\ IF op.kind = "recover"
       THEN CopyOutcome("succeeded") /\ Only("settle")
       ELSE Only("inspect")

\* A recovery finishes the receipt of a copy whose exit it observed.
SettleCopy ==
    /\ At("settle")
    /\ store.copy \in {"started", "copied"}
    /\ store.copy = "started" => NoRepair
    /\ Store([store EXCEPT !.copy = "copied"])
    /\ Goto("choose")

\* The outcome is the one whose direction the writers finished.
ChooseOutcome ==
    /\ At("choose")
    /\ "target" \in store.intent
    /\ \E out \in Terminal :
          /\ (out = "failed") <=> ("rollback" \in store.intent)
          /\ AllSucceeded(IF out = "failed" THEN "rollback" ELSE "target")
          /\ op' = [op EXCEPT !.do = "inspect", !.out = out]
    /\ UNCHANGED <<boot, store, unit, fs, disk, session, told>>

InspectFirst ==
    /\ At("inspect") /\ Inspect(op.out)
    /\ op' = [op EXCEPT !.do = "sync", !.seen = Observation]
    /\ UNCHANGED <<boot, store, unit, fs, disk, session, told>>

\* Mutant: the inspected trees are not flushed.
SyncFilesystemsSkipped ==
    /\ At("sync")
    /\ Only("again")

SyncFilesystems ==
    /\ At("sync")
    /\ disk' = fs
    /\ Goto("again")
    /\ UNCHANGED <<boot, store, unit, fs, session, told>>

\* What follows the second inspection depends on the operation.
InspectAgain ==
    /\ At("again") /\ Inspect(op.out) /\ Unchanged
    /\ op' = [op EXCEPT !.seen = {},
                       !.do = CASE op.kind \in {"migrate", "recover"} -> "attest"
                                [] op.kind = "repair" -> "complete"
                                [] OTHER -> "reply"]
    /\ UNCHANGED <<boot, store, unit, fs, disk, session, told>>

\* A migration that is already settled is checked, not attested again.
Attest ==
    /\ At("attest")
    /\ AllObserved /\ Quiet /\ boot = store.boot
    /\ IF store.mig # "started"
       THEN CheckWriter /\ store' = store
       ELSE /\ NoRepair /\ WriterOutcomes(op.out) /\ store.copy = "copied"
            /\ store.attest \in {"none", op.out}
            /\ store' = [store EXCEPT !.attest = op.out]
    /\ Goto("finish")
    /\ UNCHANGED <<boot, unit, fs, disk, session, told>>

FinishMigration ==
    /\ At("finish") /\ NoRepair
    /\ boot = store.boot
    /\ WriterOutcomes(op.out) /\ store.attest = op.out
    /\ store.mig \in {"started", op.out} /\ store.copy = "copied"
    /\ Store([store EXCEPT !.mig = op.out])
    /\ Goto("reply")

\* The reply that reaches the control plane says where the account is.
Reply ==
    /\ At("reply") /\ History
    /\ told' = told \cup {IF op.out = "succeeded" THEN "target" ELSE "source"}
    /\ Leave
    /\ UNCHANGED <<boot, store, unit, fs, disk, session>>

-----------------------------------------------------------------------------
(* Recovery of a migration the control plane knows to be unsettled.         *)

\* A recovery task is refused once the account is fenced for its takeover.
RecoveryAdmitted == Free /\ store.fence = 0

\* Replayed in its own boot, by its task or by a recovery of the first kind.
Recover ==
    /\ Free
    /\ store.mig \in {"started", "succeeded"} /\ boot = store.boot
    /\ op' = [Idle EXCEPT !.kind = "recover", !.do = "refresh"]
    /\ UNCHANGED <<boot, store, unit, fs, disk, session, told>>

\* In a later boot only a migration that was recorded as succeeded is
\* confirmed, and only by reading.
InspectPreviousBoot ==
    /\ RecoveryAdmitted
    /\ store.mig = "succeeded" /\ boot # store.boot
    /\ CheckWriter /\ AllSucceeded("target")
    /\ op' = [Idle EXCEPT !.kind = "previous", !.do = "inspect", !.out = "succeeded"]
    /\ UNCHANGED <<boot, store, unit, fs, disk, session, told>>

\* verify_source confirms a failed migration, in any boot, by reading.
VerifySource ==
    /\ RecoveryAdmitted
    /\ store.mig = "failed" /\ CheckWriter
    /\ store.intent = {"target", "rollback"} /\ AllSucceeded("rollback") /\ Quiet
    /\ op' = [Idle EXCEPT !.kind = "source", !.do = "inspect", !.out = "failed"]
    /\ UNCHANGED <<boot, store, unit, fs, disk, session, told>>

-----------------------------------------------------------------------------
(* Repair: the source is restored under an intent that fences the original. *)

\* An earlier restoration may have been interrupted.
Restoring == store.repair # NoEvidence \/ AllSucceeded("rollback")

\* What a repair requires before it may write: valid and unchanged evidence,
\* no unit of the original running, content as it was backed up, and
\* parents in a state the records explain.
RepairPreflight ==
    /\ EvidenceValid
    /\ store.repair \in {NoEvidence, Evidence}
    /\ Quiet
    /\ Inspect("succeeded") /\ ParentsExplained(Restoring)

BeginRepair ==
    /\ RecoveryAdmitted
    /\ store.done = {} /\ RepairPreflight
    /\ \E l \in Leases :
           op' = [Idle EXCEPT !.kind = "repair", !.do = "attempt", !.lease = l, !.seen = Observation]
    /\ Store([store EXCEPT !.repair = Evidence])

Attempt == <<op.lease, boot>>

\* The delivery is recorded before its writes.
BeginAttempt ==
    /\ At("attempt")
    /\ IntentReads /\ store.done = {}
    /\ Store([store EXCEPT !.attempts = @ \cup {Attempt}])
    /\ Goto("tree")

\* The verification of a repair ends with the units and the intent.
RepairVerified == Quiet /\ IntentReads

CompleteRepair ==
    /\ At("complete") /\ RepairVerified
    /\ IF store.done # {}
       THEN CompletionReads /\ store' = store
       ELSE Attempt \in store.attempts /\ store' = [store EXCEPT !.done = {Attempt}]
    /\ Goto("reply")
    /\ UNCHANGED <<boot, unit, fs, disk, session, told>>

\* A repair whose completion is retained only reads.
RepeatRepair ==
    /\ RecoveryAdmitted
    /\ CompletionReads /\ Quiet
    /\ \E l \in Leases :
           op' = [Idle EXCEPT !.kind = "repair", !.do = "inspect", !.out = "failed", !.lease = l]
    /\ UNCHANGED <<boot, store, unit, fs, disk, session, told>>

-----------------------------------------------------------------------------
(* Configuration import and the permanent fence.                            *)

\* The first fence stays, whatever epoch a later grant carries.
ClosedFence(epoch) == IF store.fence = 0 THEN epoch ELSE store.fence

\* An import under managed authority closes the fence and may not write the
\* skills.
ImportManaged ==
    /\ Free
    /\ \E epoch \in {1, 2} : Store([store EXCEPT !.fence = ClosedFence(epoch)])
    /\ UNCHANGED op

\* A legacy import records its intent before it writes.
BeginImport ==
    /\ Free
    /\ store.import = "none" /\ store.fence = 0 /\ History
    /\ Store([store EXCEPT !.import = "started"])
    /\ op' = [Idle EXCEPT !.kind = "import", !.do = "import"]

WriteImport ==
    /\ At("import") /\ fs.skills < MaxEdits
    /\ \E out \in Terminal : op' = [op EXCEPT !.do = "imported", !.out = out]
    /\ fs' = [fs EXCEPT !.skills = @ + 1]
    /\ UNCHANGED <<boot, store, unit, disk, session, told>>

FinishImport ==
    /\ At("imported")
    /\ Store([store EXCEPT !.import = op.out])
    /\ Leave

-----------------------------------------------------------------------------
(* Takeover: the skills are captured under the fence, once.                 *)

CloseImports ==
    /\ Free
    /\ Store([store EXCEPT !.fence = ClosedFence(1)])
    /\ op' = [Idle EXCEPT !.kind = "capture", !.do = "drain"]

ImportsDrained == store.import # "started"

\* No native session of the account runs.
NativeWritersExited == session = "none"

CheckWriters ==
    /\ At("drain")
    /\ store.fence = 1 /\ store.capture = 0
    /\ ImportsDrained /\ History /\ NativeWritersExited
    /\ Only("scan")

ScanSource ==
    /\ At("scan")
    /\ op' = [op EXCEPT !.do = "seal", !.seen = Observation]
    /\ UNCHANGED <<boot, store, unit, fs, disk, session, told>>

\* The copied objects are published when a second scan finds the same tree.
SealCapture ==
    /\ At("seal")
    /\ \A seen \in op.seen : seen.skills = fs.skills
    /\ Store([store EXCEPT !.capture = fs.skills])
    /\ Leave

-----------------------------------------------------------------------------
(* Native sessions, the units, and the machine.                             *)

StartSession ==
    /\ Free
    /\ session = "none" /\ LegacyRuntime
    /\ session' = "running"
    /\ UNCHANGED <<boot, store, unit, fs, disk, op, told>>

SessionWrites ==
    /\ session = "running" /\ fs.skills < MaxEdits
    /\ fs' = [fs EXCEPT !.skills = @ + 1]
    /\ UNCHANGED <<boot, store, unit, disk, session, op, told>>

SessionExits ==
    /\ session = "running"
    /\ session' = "none"
    /\ UNCHANGED <<boot, store, unit, fs, disk, op, told>>

\* What the command of phase p leaves when it succeeds.
Applied(p) ==
    CASE p = Copy -> [fs EXCEPT !.backup = fs.skills]
      [] p # Copy /\ p[2] < Last ->
             [fs EXCEPT !.tree = IF p[2] = Last - 1 THEN p[1] ELSE "mixed"]
      [] OTHER -> [fs EXCEPT !.parents = IF p[1] = "rollback" /\ @ = "target" THEN "both" ELSE p[1]]

\* A unit exits with its work done, or fails with part of it done.
UnitExits(p) ==
    /\ unit[p] = "running"
    /\ \/ unit' = [unit EXCEPT ![p] = "ok"] /\ fs' = Applied(p)
       \/ unit' = [unit EXCEPT ![p] = "bad"] /\ fs' \in {fs, Applied(p)}
    /\ UNCHANGED <<boot, store, disk, session, op, told>>

\* Each part of the directory is after a reboot as it was read last or as it
\* was flushed last.
Reboot ==
    /\ boot < MaxBoots
    /\ boot' = boot + 1
    /\ \E kept \in SUBSET DOMAIN fs :
           fs' = [part \in DOMAIN fs |-> IF part \in kept THEN fs[part] ELSE disk[part]]
    /\ disk' = fs'
    /\ unit' = [p \in Phases |-> "none"]
    /\ session' = "none"
    /\ Leave
    /\ UNCHANGED <<store, told>>

MigrationStep ==
    \/ BeginMigration \/ ReplayMigration \/ CaptureBaseline \/ CreateBackupDirectory
    \/ BeginCopy \/ FinishCopy \/ VerifyBackup \/ BeginOwnership \/ ChownTree
    \/ BeginWriter \/ StartUnit \/ WatchWriter \/ ReleaseUnit \/ VerifyAccount
    \/ CheckRestoration \/ RestoreTree \/ RestoreParentMode \/ RestoreParentAccess
    \/ RefreshWriter \/ RefreshDone \/ SettleCopy \/ ChooseOutcome \/ InspectFirst
    \/ SyncFilesystems \/ InspectAgain \/ Attest \/ FinishMigration \/ Reply

RecoveryStep ==
    \/ Recover \/ InspectPreviousBoot \/ VerifySource
    \/ BeginRepair \/ BeginAttempt \/ CompleteRepair \/ RepeatRepair

CaptureStep ==
    \/ ImportManaged \/ BeginImport \/ WriteImport \/ FinishImport
    \/ CloseImports \/ CheckWriters \/ ScanSource \/ SealCapture

Environment ==
    \/ Abandon \/ StartSession \/ SessionWrites \/ SessionExits \/ Reboot
    \/ \E p \in Phases : UnitExits(p)

Next == MigrationStep \/ RecoveryStep \/ CaptureStep \/ Environment

Spec == Init /\ [][Next]_vars

-----------------------------------------------------------------------------
(* Properties.                                                              *)

\* What the control plane was told of the account is true of the disk, and
\* stays true: told that the account is on the target backend, the tree and
\* the parents are the target's; told that it is on the source, they are as
\* they were; it is never told both, and no unit of the migration runs any
\* more (executeAccountMigration, recoverCompletedAccountMigration,
\* repairMigrationSource and the passive inspections).
OutcomeTruth ==
    /\ "target" \in told =>
          "source" \notin told /\ disk.tree = "target" /\ disk.parents = "target"
    /\ "source" \in told => disk.tree = "original" /\ disk.parents = "original"
    /\ told # {} => \A p \in Phases : unit[p] # "running"

\* A migration that was interrupted after its backup was made can be
\* repaired, as long as the account is not fenced and its content and backup
\* survive: whatever step it was interrupted at, and however often a repair
\* was itself interrupted, the retained evidence still matches and the
\* parents are in a state restoration accepts
\* (inspectMigrationRestorationParents, ReadAccountMigrationRepairIntent).
Repairable ==
    (/\ Free /\ store.mig = "started" /\ store.copy = "copied"
     /\ store.fence = 0 /\ store.done = {} /\ session = "none"
     /\ \A p \in Phases : unit[p] # "running"
     /\ fs.skills = store.base /\ fs.backup = store.base) => RepairPreflight

\* Once the skills are captured nothing of the old world can write them: no
\* session or migration unit runs, and the account holds nothing the capture
\* does not have (captureNativeAccountTakeover).
CaptureQuiet ==
    store.capture # 0 =>
        /\ session = "none"
        /\ \A p \in Phases : unit[p] # "running"
        /\ fs.skills <= store.capture
=============================================================================
