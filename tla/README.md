# Verification of agent-remote-node

TLA+ specifications of the node software, the TLC instances that check them and
the TLAPS proofs about them. The reference is the Go code; the docs are used for
what the code is meant to do, and a run records where the two differ.

## 1. The system

A node runs AI tool sessions for a control plane (the server).

- The **worker** is unprivileged. It polls tasks, executes them, reports their
  outcome, and runs several recovery loops beside the task loop.
- The **runtime helper** is privileged. It serves the worker over a Unix socket,
  starts and stops runtimes (systemd units, or terminals in a Docker sandbox) and
  owns the private state of managed sessions.
- The **ego-browser broker** is part of the worker process. Wrappers inside a
  session connect to it, and it forwards their requests to a browser on another
  device over a relay.
- Smaller services hang off these: the device bridge, the port-forward tunnel, the
  attachment gateway, the skill export.

### Inventory

| Part | State | Operations that change it | What makes it hard |
| --- | --- | --- | --- |
| Task ledger (`internal/ledger`) | one JSON file, its copy in memory, the blocked flag | `Open`, `Save`, `CompareAndSwap` | rename visible before it is synced; memory behind the file |
| Worker task loop (`worker.go`) | the leased batch, the task being executed | `PollOnce`, `executeTask` | leases expire under a running task; lost and late reports; restarts |
| Helper session lifecycle (`runtimehelper/server.go`, `engine.go`, `session_lifecycle_*`) | stop intents, runtime specs, result cache, three kinds of lock | start, stop, record intent, cleanup | a stop overtakes a start; callers time out while the helper goes on; power loss |
| Managed launch (`managed_launch_linux.go`) | snapshot bundle, launch journal | prepare, launch, recover, cancel | at most one submission over crashes and reboots |
| Worker managed start (`start_*.go`, `snapshot_*.go`, `task_lease.go`) | start journal in the ledger, the task lease | propose, confirm, retire | two loops on one record; an acknowledgement is lost |
| Skill deployments (`deployment_*.go`) | preparation and termination records | prepare, confirm, terminate, drain | a success competes with a revocation |
| Finalization (`finalization_*.go`) | transfer record, capture, acknowledgement | transfer, publish, acknowledge, reclaim | every stage can be the last before a crash |
| Skill manager store (`internal/skillmanager`) | session journals, captures, reclamation journal | prepare, capture, acknowledge, reclaim | two-phase deletion beside readers |
| Account migration (`migration_*`, `account_*`) | migration journal, backups | migrate, restore, repair | resumed after a crash in any phase |
| Ego-browser broker (`internal/egobrowser`) | bindings, permits, active requests, relay | `Run`, `IssuePermit`, `forward`, reload, cancel | a goroutine per connection; Broker.mu is given up between any two steps |
| Device control (`internal/devicecontrol`) | activation manifests, listeners | activate, deactivate, accept | a connection is accepted while its bridge stops |
| Port forward (`internal/portforward`) | lease, streams, counters | renew, serve, release | lease and grace period against late answers |
| Account takeover (`takeover_*.go`, `task_lease.go`, `account_takeover_*`) | lease budget, upload, capture | renew, capture, upload, commit | the worker's and the server's count of one lease |
| Attachments (`internal/claudeattachments`) | upload batches, receipts | serve, clean up, publish | removal, storage and publication fail one without the other |
| Skill export (`internal/skillexport`) | a renewable authorization, holds | serve, renew, relay | expiry in mid stream; the source is frozen or removed meanwhile |
| API client, config, keys, WireGuard, tmux, probes | none, or a file format | - | input and output without protocol state |

`PROJECT.json` lists every part with its sources and what of it is modelled, and
the hazards of the code at the lines where they bite.

### How the modules fit together

```
SessionGate            what the helper promises about a session
   ^        ^
   |        |  refinement (checked and proved)
   |        SessionFence      the helper in detail: locks, journals, cache
   WorkerTasks -- extends -- TaskLedger

ManagedStart           start of a managed session: worker, its loops, control plane
Deployment             preparation of a skill deployment: worker, helper, control plane
Finalization           end of a managed session: worker, helper, control plane, readers
EgoBroker              the broker

AccountMigration  DeviceBridge  PortForward  TakeoverTransfer  Attachments  SkillExport
                       services that share no state; MCNodeServices extends all six
```

`WorkerTasks` composes worker, ledger, control plane and a helper in which a
session's fence is one step. `SessionFence` opens that step up. Both implement
`SessionGate`, so what `WorkerTasks` assumes of the helper is what `SessionFence`
shows of it. `ManagedStart`, `Deployment` and `Finalization` each compose the
worker's half, the helper's half and the control plane of one protocol.

Proofs are in `<Module>Proofs`, except that `ServicesProofs` has those of
`PortForward`, `TakeoverTransfer`, `SkillExport`, `Attachments` and `DeviceBridge`. Type invariants (`TypeOK`, or one with the
module's letter) document the state and are part of the proofs; no run lists them.

## 2. Modules

### TaskLedger

`internal/ledger`. `entries` is the map in memory, `file` what a reader of the
file sees, `synced` what survives a power failure, `failed` the flag that blocks
the ledger when the directory sync after the rename failed. `SavePublished`,
`SaveUncertain` and `SaveRefused` are the three ways a save ends. `Reopen` is
`Open` in a new process. `PowerLossReopen` also chooses whether an unsynced
rename reached the disk.

### SessionGate

The abstract specification. A session is launched only while it is open, closing
is permanent, and a runtime may go away at any time.

### WorkerTasks

`Worker.PollOnce`, `executeTask` and the helper as its callers see it. In the
beginning a task is queued, or the control plane has closed it itself. `pc` is
where `executeTask` is; every call that blocks is a boundary between two actions.

- `BeginTask` takes a task of the batch and reads its ledger entry. A stop records
  its intent at the helper first (`IntentRecorded`). A stored outcome is reported
  again, for stops after a fresh observation (`OldStopObserved`).
- `StartTask`, `TaskExecuted`, `SaveOutcome` and `ReportOutcome` follow the code in
  order. Failed stops are neither recorded nor reported.
- A request in `requests` is executed whether or not its caller waits. `live` says
  whether the worker does.
- `HelperFence` publishes the intents of a stop before anything else;
  `HelperStart` saves the spec and `HelperLaunch` submits the unit under the fence.
- Faults: an expiring lease, a lost or late report, a call that times out, a failed
  or uncertain save, a failing helper operation, a restart of the worker or of the
  helper, and a loss of power. `MaxFaults` bounds how many a behaviour has.

Task types are grouped by how the code treats them: create, stop, cleanup, and
"import" for every type that owns no session.

### SessionFence

The helper in detail. A request is a goroutine. `mu` is `Server.mu`; `ilock` and
`rlock` are the intent lock and the runtime lock of a session. `intent` is none,
visible (renamed, not synced) or durable.

- `PublishIntent` runs before `Server.mu` is taken and again inside `Execute`.
- `StartSession`, `PrepareManaged`, `LaunchManaged`, `RecoverManaged` and
  `StopSession` are the operations up to their first blocking step. `AdmitLaunch`
  to `DrainSession` are the blocking steps they share. A managed launch or recovery
  that is cancelled stops the runtime, also when the journal says started already.
- `PrepareManaged` stands for both `prepare_skill_snapshot` and
  `prepare_managed_session_spec`: nothing can be launched before both succeeded.
- `HelperCrash` drops the handlers and their locks; a unit that was being submitted
  may still appear. `PowerLoss` may also take visible intents, specs and cached
  results, and makes prepared sessions belong to an earlier boot.

Clients issue requests as they like, also again under the same id, `MaxIssues`
times in all.

### EgoBroker

One tool session and one browser binding in `internal/egobrowser/broker.go`. Every
member of `Handlers` is a wrapper connection. `Loop` is `Broker.Run`, `Wrapper` a
wrapper that asks for a reload, `Worker` the task goroutine that registers,
unregisters and cancels.

- `Connect` to `ReleaseRequest` are the steps of a connection:
  permit, turn, relay, write, wait, release. `pc` is where it is.
- `Refresh` and `SetBindings` are apart, and so are `BeginRenewal` and
  `RenewReturns`: the answer of the control plane may be old when it is applied.
- Whoever clears the registry (`ClearMaterials`) becomes a member of `closers` and
  closes the relay later (`CloseRelay`), under `relayMu`.
- `relayEpoch` is only ever compared for equality with a value read before.
  `fresh` holds the handlers for which it has not changed since.
- `nonce` is odd while the session is registered, so that a session that was
  removed and registered again is told apart.
- `Restart` is a crash of the process: the sequence file alone survives.

`Kinds` and `MaxEvents` name which outside events an instance has, and how many.
Other statuses than active, and changes of allowlist or learning bundle, have the
same effect as a change of status and are one mode, "paused".

Left out: peer credentials and socket permissions, encodings and encryption, the
graceful `Close`, the window of consumed sequence numbers, the limit on abandoned
requests. `RevokeBinding` has no caller. Connections that are refused leave no
trace. A cancellation names only requests the server has received.

### ManagedStart

The start of one managed session by the worker, and all that runs beside it.

- `Poll` to `FinishStartup` are `executeManagedStartup`: gate and registration,
  the earlier proposal, the lease, recovery, preparation, admission of the browser
  peer, launch, proposal, confirmation, cancellation. `pc` is where it is, `job`
  its local variables. `LoseLease` may cancel the work at any point.
- `entry` is the task's ledger record. `Confirm`, `Retire` and `Replaceable` are
  the compare-and-swaps of the journal.
- `ListPending`, `InspectPending` and `SettlePending` are the confirmation loop.
- `ReconcileSession` and `DrainUnadmitted` are the admission half of the
  finalization loop. Between them it holds the gate.
- `RecordStopIntent` and `StopManagedWriters` are the part of a managed stop that
  shares state with the start. The intent is recorded without the gate. Both may
  fail part of the way, the second one before anything is unregistered.
- `WorkerCrash` loses registrations, grants and everything in progress.

The control plane is external. What is assumed of it is what the client's comments
say: a confirmation counts only for the current attempt, and a later lease, a
cancellation or an acceptance fences the others. Helper operations are one step
each; their interleavings are in `SessionFence`. A nonce is random in the code and
here one that nobody holds. The runtime user never changes, so grants are compared
by nonce only. The refusal in `AuthorizePeer` is in the code but not reachable,
since nobody else registers the session while the gate is held.

Left out: the decoding of the task, and the capture, report and replay of the stop
task, which are in `Finalization`. The arithmetic of the lease budget is in
`TakeoverTransfer`.

### Deployment

One original attempt of one skill deployment (`deployment_*.go`, the helper's
preparation and drain handlers, the store's deployments).

- Actor "task" is `runDeployment` under its lease: `LookUp` to `Acknowledge`, and
  the revocation after a failure. Actor "loop" is
  `recoverDeploymentConfirmations`. `CommonStep` is the code both call. `pc` is
  where each is, `mine` the record it last read: the ledger's compare-and-swap
  refuses a save over any other (`entry`).
- An unreadable retained bundle fails the drain call (`DrainUnanswered`, `DrainEnds`).
- `stream` are the helper's preparation handlers. `LockPreparation`, `CopyObject`,
  `SealBundle` and `PublishBundle` run under `Server.mu`, also when the caller is
  gone. `DrainAttempt` writes the permanent receipt.
- The control plane accepts one prepared result or one termination
  (`AcceptResult`, `AcceptRequest`); both may be on their way (`sent`, `asked`).
- Faults: calls that fail or are not answered, failing preparations, a crash of
  the worker or of the helper.

### Finalization

One managed session's skill directory from the running tool to the deletion of the
node's copy (`finalization_*.go` of the worker, the helper's capture, cleanup and
reclamation, the store's session journal).

- `unit`, `exit` and `work` are the machine; `term`, `cap`, `ack`, `marks`, `roots`
  and `res` are files of the helper's journal, each written by the action named
  after the code that writes it. `job` is the request the helper works on.
- `StopWriters`, `Inspect` or `DrainUnadmitted`, `Capture`, `CopyRetainedObjects`, `Verify` and `Publish`
  freeze the tree. `Acknowledge` and `AdvanceFinalization` move the phase.
  Cleanup and reclamation go resource by resource and file by file, so that a crash
  can fall between any two. `stop_session` may leave the network namespace behind
  (it does not look at the outcome of that command); cleanup may not.
- `TransferStep` is the upload, shared by loop and stop task under `gate`. `led` is
  the worker's ledger, `srv` the control plane.
- Faults: a failing request, a crash of the helper or the worker (the transfer
  ledger is then perhaps an older copy), a reboot, an edit of the tree after the
  tool has exited.

Check and unlink of one entry are one step. A released transient unit is not found
any more, so a crash between release and the retained termination makes the exit
unclean. Some content stays for ever, and is meant to: that of a superseded
publication, of an open conflict, and of a tree that was edited. When the ledger is
lost and a conflict was resolved in place meanwhile, `Follows` rejects the new
receipt; this too only keeps content. Upgrading captures of the first object format
is left out.

### AccountMigration

The helper's operations on one account's directory: migration between backends,
its recovery and repair, configuration imports, and the capture for a takeover.

- `Server.mu` admits one operation (`op`). `Abandon` ends it between any two steps:
  a cancelled request, a deadline, an error or the helper's death.
- `store` are the private records, all durable. `fs` is the directory as it is
  read, `disk` what a reboot leaves of it; a reboot may lose the tree, the parents
  or the backup one without the other. The backup is not flushed before the target
  is written, so `Repairable` is stated for a backup that survived.
- `unit` are the transient systemd units that copy and rewrite access lists. They
  go on when their operation was abandoned. A unit is admitted before `systemd-run`
  returns or not at all. This is an assumption on the service manager, and repair
  rests on it: a unit of this boot that is not listed counts as quiet, so one that
  was admitted after a repair would make what was told of it untrue.
- `BeginMigration` to `Reply` are the migration, `Recover` to `RepeatRepair` the
  recovery and the repair, `ImportManaged` to `SealCapture` imports and takeover.

Inventories and extended attributes are compared as a whole. What
`toolaccounts.Verify` answers is a choice. Account and parents are on one
filesystem. There is one migration and one import. A takeover closes the fence
before it checks the history. Docker writers, which only delay a takeover, are left
out, and so is a session's chmod.

### DeviceBridge

Tasks that activate and revoke a device session, and the bridges of
`BridgeManager`.

- One task runs at a time, since there is one poll loop. `Activate`, `Deactivate`,
  `Stop`, `AwaitDone` and `Listen` are its steps; `manifest` and `context` are the
  files it keeps.
- Every bridge has an accept loop (`Accept`, `Enter`, `EndLoop`) and a watcher of
  its context (`Watch`, `Expire`), every connection a handler (`Hello` to
  `CopyOpaqueRelay`).
- `socket` says whose listener the path leads to: paths are removed by name. An
  activation may fail with everything as it was (`FindSessions`), or after the old
  bridge was stopped, with the path as it was or removed (`ListenFails`).

A connection that is registered after both passes that close connections, and never
says hello, stays open but relays nothing. A worker restart loses the bridges until
the next activation; its shutdown is the expiry of all.

### PortForward

One tunnel. Time is discrete. `Serve` redeems the credential, `SendRenewal` to
`RenewalLost` are `maintainLease`, `BeginStream` to `StreamEnds` a CONNECT stream,
`SnapshotCounters` and `ReleasePortForward` the release. A lease counts from the
moment it is answered; `TunnelBounded` is relative to the lease the tunnel holds.
`Tick` passes neither a due renewal nor a time-out: timers fire in time.

### TakeoverTransfer

The worker's side of a takeover, and the recovery report that runs under a lease of
the same kind. `until` is the lease as the control plane counts it,
`budget` as the worker does (`RenewTaskBudget`), `renew` the renewal in flight. Only
durations are compared, so clocks may differ. `BeginSkillTakeover`,
`PutSkillTakeoverFile` and `CompleteSkillTakeover` are requests with their effect at
the control plane; a lost acknowledgement is a `GiveUp`. `ExpireUpload` starts a
second upload. One lease variable stands for that of the delivered task.

### Attachments

The gateways of one session, a process and a lease for each connection. `gate` is
where each is. `UploadFrame`, `ReceiveUpload` and `UploadBroken` are a batch;
`RemoveLeaseTree`, `PersistReceipt`, `CleanupHook`, `PersistUnknown` and `Answer`
are `Gateway.cleanup` in its order. Any of them fails alone, and a gateway may be
killed at any step. A comment says that a receipt is persisted before it is
returned; when storing fails the code returns a weaker one ("pending"), which
`ReceiptTruth` allows. `UploadFits` is the guard as it is written: what is left of
the lease's `MaxBytes` bounds a batch only while something is left, and an exactly
filled lease admits batches up to `MaxAttachmentBatchBytes` (see the findings).

### SkillExport

The export of a session's skill directory. `auth` is the authorization with its
window, `check` the request for the next one, `export` the stream. `Renew` is the
loop beside the stream, `Refresh` the forced check before header and footer.
`InspectSkillFinalization` finds the frozen capture, or `HandleStoppedExport` takes
the helper's lock and reads the stopped work; the session may stop, freeze, be
reported and be removed meanwhile. A permission holds for one recheck or ends
earlier (`Verify`); any failed renewal ends the stream. Digests stand for the version of the tree. Work is
not edited after the session has stopped: that is what the proof of stopped writers
is for.

### MCNodeServices

Extends the last six modules. They share no state, so a behaviour runs one of
them and the run explores the sum of their states, not the product. Bound
`OneWriter`: an account's files are written by an import or by a session, not both.

## 3. Runs

| Run | Instance | What it shows |
| --- | --- | --- |
| `worker_tasks` | a create, a stop and an import task with one session, or two creates and one cleanup of both sessions; 2 faults; 0.48 M states | the reports of a task agree; an accepted stop holds; recorded work is not repeated; SessionGate is implemented; tasks that stop nothing are settled |
| `worker_replay` | as `worker_tasks` | **violated**: a reissued stop with a stored outcome is executed again |
| `fence_legacy` | two starts, a stop and an intent record of one session; 4 calls, 2 faults; 0.14 M states | SessionGate; a runtime is always stoppable, and "stopped" is true and stays true (`RuntimesAccounted`); every request is answered |
| `fence_managed` | prepare, launch, recover, cancel and stop of one managed session; 5 calls, 2 faults; 0.18 M states | the unit is submitted at most once; the same safety properties |
| `managed_start` | two leases, 2 faults, with and without the browser; 0.16 M states | journal and control plane agree; only an admitted runtime is proposed; an admitted one is not drained and an unadmitted one ends; decided proposals settle |
| `deployment` | two leases, 2 faults, one file; 0.19 M states | what was accepted stays retained, complete and undrained; the record says no more than happened; a drained attempt stays sealed; every decision reaches the record |
| `finalization` | two files, one of them edited, two upload attempts, 1 fault; 0.52 M states | what is deleted is retained by the control plane; readers keep their content; only a clean exit is published; no journal runs ahead of the machine or the control plane; final content is reclaimed |
| `node_services` | the six services one by one; 2.3 M states | see below |
| `upload_bound` | `Attachments`, one connection, two batches | **violated**: a filled lease takes another upload |
| `broker` | two connections, 2 generations, 2 outside events; 1.15 M states | a turn is kept and no sequence number is sent twice; no wake-up is lost; no relay outlives its generation; cancellations are answered truthfully; nothing withdrawn comes back |
| `broker_live` | two connections, 1 outside event; 0.17 M states | every connection ends |
| `broker_order` | two connections, one reload | **violated**: a request is sent without its turn |

The properties of `node_services`:

| Service | Property | In words |
| --- | --- | --- |
| migration | `OutcomeTruth` | the backend the control plane was told is the one on the disk, and no unit runs any more |
| | `Repairable` | an interrupted migration whose content and backup survive can be repaired |
| | `CaptureQuiet` | after a takeover capture nothing of the old world writes |
| bridge | `SocketOwned` | a live bridge is what the socket path leads to |
| | `StoppedRelaysEnd` | no relay through a stopped bridge keeps both ends |
| forward | `TunnelBounded` | lease, grace and one renewal bound the tunnel; the smaller limit bounds its streams |
| takeover | `TakeoverCovered` | the worker works only under a lease the control plane honours; a commit is whole |
| attachment | `ReceiptTruth` | "cleaned" is true wherever it is read; acknowledged attachments stay, no more than the lease has entries |
| export | `RevocationObeyed` | an export ends within one recheck of a revocation |
| | `ExportFinal` | a complete export is the tree the session ended with |

### Bounds

- One session is enough for the fence: intents, specs, journals and locks are kept
  by session, and only `Server.mu` is shared. Two sessions are needed where one
  task names several, the cleanup of `worker_tasks`. That run has two sets of tasks
  and a behaviour has one of them queued (`TasksInit`); the tasks of the other are
  closed at the control plane.
- Two failures are what the hard cases need: the first loses an answer or a
  process, the second hits the recovery. A report that was lost may still be
  delivered late after that; this is not counted as a failure.
- Four or five calls let every operation be retried once while another one runs.
- Two connections are a request and one that is before or behind it. A second
  generation and two events reach a change between any two steps of a handler and
  another one while its effects are being undone. The two passing runs split the
  kinds of event between them.
- Two leases are a proposal and one that may replace it.
- `Finalization`: two files make a partial upload and a partial deletion;
  a session may edit those in `Edits`, once each, and one edited beside one unedited
  file is a change and an object kept as it was. One fault
  falls at any step; a second one is allowed while the stop task waits for the
  capture (`FaultBound`), since its own stop call has captured before and both must
  fail for a pending report. A reader comes when the phase is final
  (`ReaderArrives`): before that nothing is removed.
- `AccountMigration`: two access-list commands (three in the code) make a partial
  change; two boots are one reboot at any step.
- `DeviceBridge`: three tasks and two bridge sessions are a replacement and a stop;
  one connection crosses them.
- `PortForward`, `TakeoverTransfer` and `SkillExport`: the clock runs for a few
  leases, long enough for a renewal to be late in every way. The proofs are for
  every length.
- `Attachments`: two connections, two batches each, of one or two bytes under a lease
  of two, so that one batch can fill the lease exactly.
- `MaxFaults`, `MaxIssues`, `MaxAttempts`, `MaxEvents`, `MaxGeneration`, `MaxTasks`,
  `MaxBoots`, `MaxEdits`, `Edits`, `MaxUploads` and the clocks' ends bound behaviours in the
  guards, and otherwise only give the ranges of types.

`CHECK_DEADLOCK FALSE` is set for all but the broker: there a behaviour is over when
every task is settled, every call was made or the service has ended.

### Fairness

- `WorkerTasks`: the poll loop, `executeTask` and the helper keep running
  (`runOperationLoop` retries for ever and every call has a deadline), and the
  control plane takes back the lease of a task nobody holds.
- `SessionFence`: every goroutine is scheduled; the commands it waits for have
  deadlines.
- `ManagedStart`: the task loop, the confirmation loop and the finalization loop
  keep running, and every call has a deadline. `ReconcileSession` is strongly fair,
  because the gate may be taken again and again: it is a Go channel, whose waiters
  are served in order. Nothing is assumed of the control plane or the runtime.
- `Deployment`: the steps of the task, of the recovery loop and of the helper's
  handlers. Nothing is assumed of the control plane.
- `Finalization`: the helper's steps, the recovery loop's, the deadline of the stop
  task's transfer (`AttemptTimeout`), and a reader's deferred close.
- `EgoBroker`: some handler that can step does, and some closer does. The steps
  are local, or calls with a timeout, or waits ended by the connection's deadline.
  The time limit that ends the wait for a turn (`TurnLost`) is **not** assumed:
  `ConnectionsEnd` holds without its help.

### Findings

- `worker_replay`. docs/rules/02-architecture.md:26-28 says that a stored outcome
  is reported instead of invoking the runtime operation again. For stops and
  cleanups `executeTask` observes again first, by executing the task, as
  docs/session-lifecycle.md:57-62 describes.
- `broker_order`. docs/rules/10-node-control.md:30-31 promises "strict wire-order
  sequence submission". `waitForSendTurn` lets a request pass that is not in the
  registry when its wait begins. A reload (or a refresh, or a failed renewal) that
  clears the registry between `ConsumePermit` and the load of `relayEpoch` makes
  such requests: they keep running, get a relay and are written in any order. They
  are not counted against the parallelism limit either.

  What holds nevertheless is `TurnKept`: a request overtakes none that the registry
  still knows.
- `upload_bound`. docs/session-exact-attachment-transfer.md:15-19 says that the lease
  offer carries the limits and that the gateway rejects size violations.
  `UploadFrame.Validate` compares a batch with what is left of the lease only when that is
  more than zero (transfer.go:134). A batch that fills the lease exactly leaves zero,
  and the next one is accepted up to the general limit of a batch.

## 4. Proofs

All are for every value of the constants, under the named assumptions of the
modules that declare them (that bounds and durations are natural numbers, that sets
which are counted are finite).

| Module | Theorem | Statement |
| --- | --- | --- |
| `WorkerTasksProofs` | `TypeCorrect` | `Spec => []TypeOK` |
| | `ReportsAgree` | `Spec => []OneOutcome` |
| | `NeverRepeated` | `Spec => RecordedNeverRepeated` |
| | `StopsHold` | `Spec => []StoppedForGood` |
| | `ImplementsGate` | `Spec => Gate` |
| `SessionFenceProofs` | `RuntimesAreAccounted` | `Spec => []RuntimesAccounted` |
| | `FenceImplementsGate` | `Spec => ImplementsGate` |
| `ManagedStartProofs` | `JournalAgrees` | `Spec => []JournalAgreesWithServer` |
| | `ProposalsAreAdmitted` | `Spec => ProposedRuntimeAdmitted` |
| | `DrainsAreUnwanted` | `Spec => AdmittedNeverDrained` |
| `DeploymentProofs` | `AcceptedIsKept` | `Spec => []AcceptedKept` |
| | `RecordIsTrue` | `Spec => []JournalTruth` |
| | `DrainIsFinal` | `Spec => DrainSeals` |
| `FinalizationProofs` | `CleanIsPublished` | `Spec => []OnlyCleanPublished` |
| | `HoldsKeepContent` | `Spec => []ReadersKeepContent` |
| | `JournalsFollowTruth` | `Spec => []JournalsFollow` |
| | `DeletionIsRetained` | `Spec => DeletedIsRetained` |
| `EgoBrokerProofs` | `TurnsAreKept` | `Spec => []TurnKept` |
| | `SleepersAreWoken` | `Spec => []NoLostWakeup` |
| | `NoRelayIsStale` | `Spec => []NoStaleRelay` |
| | `NoBindingRevives` | `Spec => NoRevival` |
| | `CancellationsAreTrue` | `Spec => []CancelTruth` |
| `ServicesProofs` | `TunnelStaysBounded` | `PSpec => []TunnelBounded` |
| | `TakeoverIsCovered` | `TSpec => []TakeoverCovered` |
| | `RevocationIsObeyed` | `XSpec => []RevocationObeyed` |
| | `CompleteExportIsFinal` | `XSpec => []ExportFinal` |
| | `ReceiptsAreTrue` | `ASpec => []ReceiptTruth` |
| | `LiveBridgeIsReached` | `BSpec => []SocketOwned` |
| | `StoppedBridgeIsSilent` | `BSpec => []StoppedRelaysEnd` |
| `AccountMigrationProofs` | `OutcomesAreTrue` | `Spec => []OutcomeTruth` |
| | `InterruptedIsRepairable` | `Spec => []Repairable` |
| | `CaptureIsQuiet` | `Spec => []CaptureQuiet` |

None of the invariants is inductive alone.

**WorkerTasks.**

- `TypeInv` adds `Position`: a task that is being executed exists, and from
  "observe", "save" and "report" on it has an outcome.
- `RecordInv` is for the reports. `OneOutcome` only compares reports, so the
  invariant ties each to the ledger file (`SentRecorded`), says what `executeTask`
  knows of the file at each step (`TaskKnowledge`), and that memory equals the file
  unless the ledger is blocked (`LedgerCurrent`). The last part is why
  `SaveUncertain` has to block it. A record that a power failure took is the one
  exception (`dropped`).
- `StopInv` is for the stops. `StopEvidence` collects all the places a success of
  a stop can be on its way from: the server, a sent report, a result about to be
  stored, an answer not read yet. In each the sessions are closed and not running.
  That an answer belongs to the current task needs `LiveRequests` and `QuietStart`;
  that a served stop was fenced needs `FencedRequests`. Sessions that are closed
  and not running stay so because only open ones are launched (`StoppedStays`).
- `ImplementsGate` needs types only: every action is a step of the gate or leaves
  it alone.

**SessionFence.** `FenceInv` says what a handler may rely on at each step. It is alone
in the engine (`EngineIsSerial`). It submits under the intent lock of a session that
is still open (`SubmitsFenced`), after the spec or the journal is written and only as
the first use of that journal (`LaunchesRecorded`, `JournalFirst`). A stop comes to
`Server.mu` only with its intent durable (`StopsPublished`) and stores its result after
the runtime is gone (`Drained`). The step to the gate uses the same facts: a launch is
a launch of an open session because of `SubmitsFenced`, a stop closes what
`StopsPublished` has closed.

**ManagedStart.** Both loops settle the journal from observations that may be stale
when they are used. `StartInv` says which part of an observation lasts: an acceptance
and a cancellation are final (`Decided`, `Observed`). A late confirmation can only be
accepted while the journal still holds that proposal (`SentPending`), a startup under
way has the latest lease (`LeaseHeld`), and an outcome is in the journal before it is
sent (`Proposing`). `AdmissionInv` is for the two action properties. The startup and
the drain of the finalization loop exclude each other by `managedAdmissions.gate`
(`GateHeld`). Under the gate the runtime is launched once, with the nonce of the
startup that authorized its peer (`LaunchedOnce`), so what this process granted is
what the runtime has (`GrantTrue`), and a drain that was decided under the gate is of
a runtime whose peer is not authorized (`DrainUnwanted`).

**Deployment.** Task and loop each work on a copy of the record that may be stale when
they save it. `DeploymentInv` therefore says what is true of a record wherever it is,
saved or in hand (`Truthful`), and what an actor relies on at each step with the copy
it has (`Ready`): a result means the bundle is published and whole (`Kept`), an
acceptance or an intent that was read once is final. `HelperInv` says that a stream
that still copies or publishes holds `Server.mu` of an attempt that is not drained.

**Finalization.** `FinalizationInv` has one part for each party.

- `EvidenceInv`: the termination is written of stopped writers and is true of them.
- `JobInv`: what the Helper relies on at each step of a request. A capture is made of
  a whole tree, a phase moves along a path that ends at the acknowledged receipt, an
  authorized reclamation has the Server's commitment.
- `ReceiptInv`: a receipt, wherever it is kept, says no more than the Server
  (`Covered`). The Server takes nothing back (`Grows`), so an older copy stays covered.
- `PhaseInv`, `MarkInv`: phase, cleanup, intent and completion are in this order, and
  an intent stands on a committed input that is published or detached.
- `WorkerInv`, `ServerInv`: a transfer is of a frozen tree, uploads happen under the
  hold, and what the Server has of a file is the captured version.
- `ContentInv`: trees and objects are whole until the intent.

`DeletedIsRetained` follows from one step: only `DeleteWork` and `DeleteObject` lose an
entry, with the intent durable and the entry equal to the manifest's
(`LossIsReclamation`); by `MarkInv` the Server has committed, and by `ServerInv` it
holds that version. `PathStep` shows that every phase on the way to a receipt is
covered by it.

**EgoBroker.** `BindingTypes` and the moves of a binding give `NoRevival`. `TurnInv` is
for the queue: a number has one handler (`Numbered`), it is written once and after its
permit was consumed (`WrittenOnce`), and when a submitted request is no longer in the
registry, none before it is (`ClearedTogether`): such a request leaves it when it ends,
or when all of them leave together. `Sleeping` says where a sleeper is. `RelayInv` is for the relay: who
opens one holds `relayMu` (`RelayLocked`), and whoever still has the current epoch opens
it for the generation of the binding, unless a closer is under way (`RelayCurrent`).
`CancelInv` and `AnswerInv` are for the cancellations: a request that was written or
that a task waits for has its permit behind it, so no expiry takes it out of the
registry unseen, and the answer stays in its exchange while somebody may ask for it.
Exchanges exist for the numbers `1 .. Cardinality(Handlers)`; that every number is one
of these is `Counted`, and the reason why `BrokerAssumption` wants finitely many
connections.

**PortForward.** `TunnelLease`: a serving tunnel waits for its next renewal no longer
than one period past the deadline, or has sent it at most a time-out ago. `SlotInv`
counts the streams that hold a slot; steps either shrink that set or add one stream
below the limit.

**TakeoverTransfer.** `LeaseCover`: a renewal was sent before now, a granted one ends
no earlier at the control plane than by the worker's count, and the budget's
deadline is before the end of the lease. This holds because the count starts when the
request is sent. `UploadCover`: while the worker's copy of the upload's identity is
current, what it has sent is what the control plane has; an expired upload makes the
copy stale instead.

**SkillExport.** `WindowInv` follows the moment a permission was asked for through
the request in flight into the window: after a revocation, both are from before it.
`StreamInv` says what the stream has fixed and sent at each step: from the first
observation on the session has ended and the digest is its tree, everything read
came from that tree, and the footer comes after the last object.

**Attachments.** `LeaseInv` is one statement about each lease, and a gateway's step
leaves every other lease's part alone (`OthersKept`). `SilentInv`: before the cleanup
nothing is said of it. `UploadInv`: the files are the acknowledged ones and at most
one in flight, for which the lease had an entry left. `ReceiptInv`: a receipt in hand is worth no more than what
stands behind it at that step.

**DeviceBridge.** `TaskInv`: a task comes to start a bridge when the table of bridges is
empty. `LoopInv`: at most one accept loop is alive, it belongs to a bridge that is in
the table or being stopped, and while its context lives the socket path is its own.
`DialInv`: a connection that got past the registration has its local end only while
its bridge listens. `BridgeAssumption` (there is an activation) gives the idle task
a value for the activation it does not have.

**AccountMigration.** The three properties speak of what an operation leaves when it is
cut off, so `AccountInv` says what every step of every operation may rely on (`MoveInv`
for a migration, `InspectInv` for restorations, recoveries and inspections) and what
holds whoever is working:

- `UnitInv`: a unit runs under an open record, in the boot that launched it.
- `OrderInv`: the copy, the intents and the commands were recorded in this order, and a
  command only after those before it in its direction succeeded.
- `OutcomeInv`: an attestation says how the writers ended; a recorded outcome is the
  attested one, and no repair was begun.
- `RepairInv`: under the intent to repair the evidence is what the intent is bound to,
  and no unit runs. Every writer of these records asks for the intent first.
- `EffectInv`: as long as nothing gives the tree back, what the target's last two
  commands did is there. Once an outcome or a completed repair is recorded, directory
  and disk both hold it: this is where the flush between the two inspections is needed,
  since a reboot takes each part from either. What was told is one of these two.
- `ParentInv`: each access the parents can have, in the directory and on the disk, has
  the record of its command behind it, and the masked one a restoration.
- `SkillInv`, `CaptureInv`: the disk holds no newer skills than the directory, and from
  the scan on the fence is closed, imports are drained, no session runs and the
  migration is settled.

`Repairable` follows without its hypotheses on the fence, the session and a free
mutex. `AccountAssumption` wants two commands or more (three in the code): the last one
sets the parents, the one before it completes the tree. TLC checked `AccountInv` on the
constants of `node_services`, for `AccountMigration` alone and without the bound `OneWriter`
(1.2 M states), before it was proved.

Each proof has one step per action and frame lemmas for the actions that leave
the invariant's variables alone.

Only model-checked: liveness (`TasksSettle`, `EveryRequestAnswered`,
`ConnectionsEnd`, `UnadmittedRuntimeEnds`, `DecidedProposalSettles`,
`DecidedSettles`, `FinalIsReclaimed`), since the prover has no fairness. Every safety
property of a passing run is proved.

## 5. Not modelled

- Parsing, validation, encodings, encryption, file permissions and mounts. The
  outcome of an external command is a choice between success and failure.
- Heartbeat, reconciliation and WireGuard loops: they report or overwrite and share
  no state with the parts above.
- Probes, the Docker backend's commands, the native filesystem helpers, the runtime
  inventory, the skill catalogue, configuration, SSH keys, workspaces, browser
  commands and the tmux wrapper: input and output with no protocol state.
- Account-binding and browser slots of the helper; the upgrade of captures of the
  first object format.
- Windows inside one step: between the hash, the stat and the unlink of one entry of a
  reclamation; between the proofs of stopped writers around the scan of an export;
  between `ensureLease`, which reads a lapsed grace period, and `expireBinding`, which
  asks again only whether the binding is active.
- Power loss where a rename is not followed by a directory sync: the receipts of
  `Attachments` and the broker's sequence file are treated as durable. A process
  crash, which is modelled, loses neither. The ledger and the stop intents have it.
- A reported attachment cleanup: the control plane is taken to have stored the status
  that was sent. `reconcile` of a session that was never launched. Renewals of a port
  forward are granted for one full term, and the account and its parents are flushed
  as one filesystem.
- Timers and watchers are never late where time is a number.
- Time is a number only in `PortForward`, `TakeoverTransfer` and `SkillExport`, where
  durations are what the code computes with. Elsewhere a deadline is an event that
  may happen at any moment.
