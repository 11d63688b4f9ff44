------------------------------ MODULE TaskLedger ------------------------------
(***************************************************************************)
(* The worker's durable task ledger (internal/ledger).                     *)
(*                                                                         *)
(* The whole ledger is one JSON file, replaced by temp write, fsync,       *)
(* rename and a sync of the parent directory.  Four things are told apart: *)
(* the map the process holds (entries), the contents a reader of the file  *)
(* sees (file), the contents known to survive a power failure (synced) and *)
(* the flag that blocks the ledger after an uncertain publication          *)
(* (failed).                                                               *)
(***************************************************************************)
CONSTANTS Tasks,      \* task identifiers, the keys of the ledger
          Records,    \* what can be stored under a key
          NoRecord    \* "no entry under this key"

ASSUME RecordAssumption == NoRecord \notin Records

VARIABLES entries, file, synced, failed

ledgerVars == <<entries, file, synced, failed>>

Contents == [Tasks -> Records \cup {NoRecord}]

LedgerTypeOK ==
  /\ entries \in Contents
  /\ file \in Contents
  /\ synced \in Contents
  /\ failed \in BOOLEAN

\* A node that was just enrolled has an empty ledger.
LedgerInit ==
  /\ entries = [t \in Tasks |-> NoRecord]
  /\ file = entries
  /\ synced = entries
  /\ failed = FALSE

\* saveLocked derives the next contents from the map in memory.
Stored(t, r) == [entries EXCEPT ![t] = r]

\* publish succeeded: memory follows the file.
SavePublished(t, r) ==
  /\ ~failed
  /\ entries' = Stored(t, r)
  /\ file' = Stored(t, r)
  /\ synced' = Stored(t, r)
  /\ UNCHANGED failed

\* Mutant: the uncertain publication does not block the ledger.
SaveUncertainUnblocked(t, r) ==
  /\ ~failed
  /\ file' = Stored(t, r)
  /\ UNCHANGED <<entries, synced, failed>>

\* The rename happened and the directory sync failed: the file is visible, the
\* map in memory is not changed and the ledger is blocked until it is reopened.
SaveUncertain(t, r) ==
  /\ ~failed
  /\ file' = Stored(t, r)
  /\ failed' = TRUE
  /\ UNCHANGED <<entries, synced>>

\* The ledger was already blocked, or publish failed before its rename.
SaveRefused == UNCHANGED ledgerVars

\* A CompareAndSwap that finds another record than the expected one.
Conflicts(t, expected) == entries[t] # expected

\* A new process opens the file.  Open does not sync the directory.
Reopen ==
  /\ entries' = file
  /\ failed' = FALSE
  /\ UNCHANGED <<file, synced>>

\* The host lost power: an unsynced rename may or may not have reached the disk.
PowerLossReopen ==
  \E survivor \in {file, synced} :
    /\ entries' = survivor
    /\ file' = survivor
    /\ synced' = survivor
    /\ failed' = FALSE
=============================================================================
