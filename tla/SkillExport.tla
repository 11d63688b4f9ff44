----------------------------- MODULE SkillExport -----------------------------
(***************************************************************************)
(* The export of a session's skill directory over SSH.  The gateway reads  *)
(* the frozen capture, or, when there is none, has the Helper read the     *)
(* work of a session that stopped.  An authorization of its own is renewed *)
(* beside the stream; the end of it, however it comes, ends the stream,    *)
(* and only a footer makes what was sent an export.                        *)
(***************************************************************************)
EXTENDS Naturals, FiniteSets

CONSTANTS
    Recheck,        \* RecheckSeconds of a permission
    MaxNow,         \* where the clock stops
    Trees,          \* contents the directory can have
    Parts           \* how many objects an export has

ASSUME SkillExportAssumption == Recheck \in Nat /\ MaxNow \in Nat /\ Parts \in Nat \ {0}

VARIABLES
    time,
    tree,       \* the content of the directory
    source,     \* "running", "stopped", "frozen", "gone"
    authority,  \* the control plane: whether it authorizes, since when not,
                \* and the digest it knows
    locked,     \* whether the Helper's lifecycle lock is held by an export
    held,       \* whether the frozen capture is held
    export,     \* the stream
    auth,       \* the authorization: its window, and what it has seen
    check       \* the request to the control plane in flight

xvars == <<time, tree, source, authority, locked, held, export, auth, check>>

NoCheck == [do |-> "none", forced |-> FALSE, started |-> 0, facts |-> {}]
NoAuth == [live |-> FALSE, until |-> 0, refresh |-> 0, facts |-> {}, observed |-> {}]
Blank(step) == [do |-> step, recovery |-> FALSE, known |-> {}, digest |-> {}, sent |-> 0,
                read |-> {}]
NoExport == Blank("grant")

XInit ==
    /\ time = 0
    /\ tree \in Trees
    /\ source = "running"
    /\ authority = [granted |-> TRUE, since |-> 0, facts |-> {}]
    /\ locked = FALSE
    /\ held = FALSE
    /\ export = NoExport
    /\ auth = NoAuth
    /\ check = NoCheck

-----------------------------------------------------------------------------
(* The session, its finalization, and the control plane.                   *)

Edit ==
    /\ source = "running"
    /\ tree' \in Trees \ {tree}
    /\ UNCHANGED <<time, source, authority, locked, held, export, auth, check>>

SessionStops ==
    /\ source = "running"
    /\ source' = "stopped"
    /\ UNCHANGED <<time, tree, authority, locked, held, export, auth, check>>

\* The Helper captures under the lock that a stopped export holds.
Freeze ==
    /\ source = "stopped" /\ ~locked
    /\ source' = "frozen"
    /\ UNCHANGED <<time, tree, authority, locked, held, export, auth, check>>

ReportDigest ==
    /\ source = "frozen" /\ authority.facts = {}
    /\ authority' = [authority EXCEPT !.facts = {tree}]
    /\ UNCHANGED <<time, tree, source, locked, held, export, auth, check>>

\* A capture that was uploaded is removed unless it is held.
Reclaim ==
    /\ source = "frozen" /\ authority.facts # {} /\ ~held
    /\ source' = "gone"
    /\ UNCHANGED <<time, tree, authority, locked, held, export, auth, check>>

Withdraw ==
    /\ authority.granted
    /\ authority' = [authority EXCEPT !.granted = FALSE, !.since = time]
    /\ UNCHANGED <<time, tree, source, locked, held, export, auth, check>>

-----------------------------------------------------------------------------
(* The authorization.                                                      *)

Fails ==
    /\ export' = Blank("failed")
    /\ auth' = NoAuth
    /\ check' = NoCheck
    /\ locked' = FALSE
    /\ held' = FALSE

Goes(step) == export' = [export EXCEPT !.do = step]

Requests(forced) ==
    check' = [do |-> "sent", forced |-> forced, started |-> time, facts |-> {}]

\* The grant is read, and verified before anything else happens.
ReadGrant ==
    /\ export.do = "grant"
    /\ \E recovery \in BOOLEAN :
          export' = [export EXCEPT !.do = "verify", !.recovery = recovery]
    /\ Requests(TRUE)
    /\ UNCHANGED <<time, tree, source, authority, locked, held, auth>>

\* Stream and renewal loop share the lock under which a permission is asked
\* for; the loop asks once half of the window has passed.
NeedsRefresh == auth.live /\ time >= auth.refresh

Renew ==
    /\ auth.live /\ check.do = "none" /\ NeedsRefresh /\ time < auth.until
    /\ Requests(FALSE)
    /\ UNCHANGED <<time, tree, source, authority, locked, held, export, auth>>

Refresh ==
    /\ export.do \in {"fresh header", "fresh footer"} /\ check.do = "none"
    /\ auth.live /\ time < auth.until
    /\ Requests(TRUE)
    /\ UNCHANGED <<time, tree, source, authority, locked, held, export, auth>>

RenewNodeExport ==
    /\ check.do = "sent" /\ authority.granted
    /\ check' = [check EXCEPT !.do = "granted", !.facts = authority.facts]
    /\ UNCHANGED <<time, tree, source, authority, locked, held, export, auth>>

\* Mutant: the window starts when the answer arrives.
WindowFromAnswer(started, span) == [until |-> time + span, refresh |-> time + (span \div 2)]

Window(started, span) == [until |-> started + span, refresh |-> started + (span \div 2)]

\* A digest that the control plane has reported can neither vanish nor change,
\* and it is the digest of what is exported.
Agrees(facts) ==
    /\ auth.facts \subseteq facts
    /\ facts # {} /\ auth.observed # {} => facts = auth.observed

AfterRefresh ==
    CASE export.do = "verify" -> "inspect"
      [] export.do = "fresh header" -> "header"
      [] export.do = "fresh footer" -> "footer"

\* The permission holds for one recheck, or ends before that.
Verify ==
    /\ check.do = "granted"
    /\ \E span \in 1 .. Recheck :
       LET w == Window(check.started, span)
       IN  IF time < w.until /\ (auth.live => time < auth.until) /\ Agrees(check.facts)
           THEN /\ auth' = [auth EXCEPT !.live = TRUE, !.until = w.until, !.refresh = w.refresh,
                                        !.facts = check.facts]
                /\ check' = NoCheck
                /\ export' = [export EXCEPT !.do = IF check.forced THEN AfterRefresh ELSE @,
                                            !.known = IF auth.live THEN @ ELSE check.facts]
                /\ UNCHANGED <<locked, held>>
           ELSE Fails
    /\ UNCHANGED <<time, tree, source, authority>>

\* The request is refused, its answer lost, or not of this export.
Refused ==
    /\ check.do = "sent"
    /\ Fails
    /\ UNCHANGED <<time, tree, source, authority>>

WatchExpiry ==
    /\ auth.live /\ time >= auth.until /\ check.do # "sent"
    /\ Fails
    /\ UNCHANGED <<time, tree, source, authority>>

\* A write that makes no progress, a peer that left, a signal, a time-out.
Interrupted ==
    /\ export.do \notin {"grant", "failed", "done"} /\ check.do # "sent"
    /\ auth.live => time < auth.until
    /\ Fails
    /\ UNCHANGED <<time, tree, source, authority>>

\* What is exported is fixed by the first observation.
ObserveDigest(digest, step) ==
    IF Agrees(auth.facts) /\ auth.facts \subseteq {digest}
    THEN /\ auth' = [auth EXCEPT !.observed = {digest}]
         /\ export' = [export EXCEPT !.do = step, !.digest = {digest}]
         /\ UNCHANGED <<check, locked, held>>
    ELSE Fails

-----------------------------------------------------------------------------
(* The stream.  A step of it needs an authorization that is not due.       *)

Authorized == auth.live /\ ~NeedsRefresh

\* Inspection finds the frozen capture, or the stopped work is asked for; a
\* recovery is not for work whose digest is known.
InspectSkillFinalization ==
    /\ export.do = "inspect" /\ Authorized
    /\ CASE source = "frozen" -> ObserveDigest(tree, "hold")
         [] source # "frozen" /\ export.recovery /\ export.known # {} -> Fails
         [] OTHER -> Goes("lock") /\ UNCHANGED <<auth, check, locked, held>>
    /\ UNCHANGED <<time, tree, source, authority>>

HoldSkillFinalization ==
    /\ export.do = "hold" /\ Authorized /\ source = "frozen"
    /\ held' = TRUE
    /\ Goes("fresh header")
    /\ UNCHANGED <<time, tree, source, authority, locked, auth, check>>

HandleStoppedExport ==
    /\ export.do = "lock" /\ ~locked
    /\ locked' = TRUE
    /\ Goes("scan")
    /\ UNCHANGED <<time, tree, source, authority, held, auth, check>>

\* No capture exists, and every writer of the session has exited.
RequireUnfrozenWork == source \in {"running", "stopped"}

\* Mutant: the absence of a capture is enough.
WritersUnchecked == RequireUnfrozenWork

StoppedExportWriters == source = "stopped"

OpenStoppedWorkExport ==
    /\ export.do = "scan" /\ ~export.recovery /\ Authorized /\ RequireUnfrozenWork /\ StoppedExportWriters
    /\ ObserveDigest(tree, "fresh header")
    /\ UNCHANGED <<time, tree, source, authority>>

\* The same source, and it is proven stopped in the same way.
OpenStoppedWorkRecovery ==
    /\ export.do = "scan" /\ export.recovery /\ Authorized
    /\ RequireUnfrozenWork /\ StoppedExportWriters
    /\ ObserveDigest(tree, "fresh header")
    /\ UNCHANGED <<time, tree, source, authority>>

WriteHeader ==
    /\ export.do = "header" /\ Authorized
    /\ Goes("objects")
    /\ UNCHANGED <<time, tree, source, authority, locked, held, auth, check>>

\* An object that is not the one of the header ends the stream.
Streaming(recovery) == export.do = "objects" /\ (locked /\ export.recovery <=> recovery)

SendObject ==
    /\ Streaming(FALSE) /\ Authorized /\ export.sent < Parts
    /\ export.digest = {tree}
    /\ export' = [export EXCEPT !.sent = @ + 1, !.read = @ \cup {tree}]
    /\ UNCHANGED <<time, tree, source, authority, locked, held, auth, check>>

\* A recovery hashes what it sends, and knows only at the end what it was.
RelayRecoveryEntry ==
    /\ Streaming(TRUE) /\ Authorized /\ export.sent < Parts
    /\ export' = [export EXCEPT !.sent = @ + 1, !.read = @ \cup {tree}]
    /\ UNCHANGED <<time, tree, source, authority, locked, held, auth, check>>

RecoveryMatches == export.read = export.digest

\* Stopped work is read once more as a whole, between two proofs that nobody
\* writes.
VerifyUnchanged ==
    locked => export.digest = {tree} /\ RequireUnfrozenWork /\ StoppedExportWriters

EndOfObjects ==
    /\ export.do = "objects" /\ Authorized /\ export.sent = Parts
    /\ Streaming(TRUE) => RecoveryMatches
    /\ VerifyUnchanged
    /\ Goes("fresh footer")
    /\ locked' = FALSE
    /\ UNCHANGED <<time, tree, source, authority, held, auth, check>>

WriteFooter ==
    /\ export.do = "footer" /\ auth.live
    /\ export' = [export EXCEPT !.do = "done", !.known = {}]
    /\ auth' = NoAuth
    /\ check' = NoCheck
    /\ held' = FALSE
    /\ UNCHANGED <<time, tree, source, authority, locked>>

-----------------------------------------------------------------------------
\* The clock does not pass the end of the window.
Passes ==
    /\ time < MaxNow
    /\ auth.live => time < auth.until
    /\ time' = time + 1
    /\ UNCHANGED <<tree, source, authority, locked, held, export, auth, check>>

XNext ==
    \/ Edit \/ SessionStops \/ Freeze \/ ReportDigest \/ Reclaim \/ Withdraw
    \/ ReadGrant \/ Renew \/ Refresh \/ RenewNodeExport \/ Verify \/ Refused
    \/ WatchExpiry \/ Interrupted
    \/ InspectSkillFinalization \/ HoldSkillFinalization \/ HandleStoppedExport
    \/ OpenStoppedWorkExport \/ OpenStoppedWorkRecovery \/ WriteHeader \/ SendObject
    \/ RelayRecoveryEntry \/ EndOfObjects \/ WriteFooter
    \/ Passes

XSpec == XInit /\ [][XNext]_xvars

Steps ==
    {"grant", "verify", "inspect", "hold", "lock", "scan", "fresh header", "header", "objects",
     "fresh footer", "footer", "done", "failed"}

Authorities == [granted : BOOLEAN, since : Nat, facts : SUBSET Trees]
Exports == [do : Steps, recovery : BOOLEAN, known : SUBSET Trees, digest : SUBSET Trees,
            sent : Nat, read : SUBSET Trees]
Auths == [live : BOOLEAN, until : Nat, refresh : Nat, facts : SUBSET Trees, observed : SUBSET Trees]
Checks == [do : {"none", "sent", "granted"}, forced : BOOLEAN, started : Nat, facts : SUBSET Trees]

XTypeOK ==
    /\ time \in Nat /\ tree \in Trees
    /\ source \in {"running", "stopped", "frozen", "gone"}
    /\ locked \in BOOLEAN /\ held \in BOOLEAN
    /\ authority \in Authorities /\ export \in Exports /\ auth \in Auths /\ check \in Checks

-----------------------------------------------------------------------------
\* A revocation is obeyed within one recheck: however long an answer takes,
\* nothing is written later than that after the control plane withdrew its
\* permission (exportAuthorization.verify, setWindow and watchExpiry).
RevocationObeyed ==
    auth.live /\ ~authority.granted => time <= authority.since + Recheck

\* A complete export is what the session left: all of the tree it ended with,
\* whether it was read from the capture or from the stopped work, and whatever
\* froze, reported or removed the capture meanwhile (serve, RelaySnapshot,
\* streamStoppedSource).
ExportFinal ==
    export.do = "done" =>
        /\ export.digest = {tree} /\ export.read = {tree} /\ export.sent = Parts
        /\ source # "running"
        /\ authority.facts \subseteq export.digest
=============================================================================
