----------------------------- MODULE PortForward -----------------------------
(***************************************************************************)
(* One port-forward tunnel: the handshake that redeems its credential, the *)
(* loop that renews its lease, the streams it multiplexes onto the session *)
(* loopback, and the release that reports its usage.                       *)
(*                                                                         *)
(* Time is discrete.  A lease holds until it expires; while the control    *)
(* plane cannot be reached the tunnel goes on for a grace period.  The     *)
(* tunnel learns of either only when a renewal comes back, so what it owes *)
(* is a bound that takes the period and the time-out into account.         *)
(***************************************************************************)
EXTENDS Naturals, FiniteSets

CONSTANTS
    MaxTime,        \* where the clock stops
    Term,           \* how long a granted lease holds
    Grace,          \* ControlPlaneGraceSeconds
    RenewPeriod,
    RenewTimeout,
    Streams,        \* CONNECT streams of the client
    LeaseStreams,   \* MaxStreams of the lease
    ClientStreams   \* MaxStreams of the handshake

\* What the validation of lease and handshake guarantees.
ASSUME PortForwardAssumption ==
    /\ MaxTime \in Nat /\ Term \in Nat /\ Grace \in Nat
    /\ RenewPeriod \in Nat /\ RenewTimeout \in Nat
    /\ LeaseStreams \in Nat /\ ClientStreams \in Nat
    /\ IsFiniteSet(Streams)

VARIABLES
    now,
    granted,    \* whether the control plane still authorizes the tunnel
    tunnel,     \* "handshake", "serving", "ended", "releasing", "closed"
    expires,    \* when the lease that the tunnel holds expires
    renewal,    \* "wait", "sent", "stopped"
    since,      \* when the renewal was sent, or when the next one is due
    stream,     \* what each stream does
    usage       \* connections counted, and the count the release reported

pvars == <<now, granted, tunnel, expires, renewal, since, stream, usage>>

PInit ==
    /\ now = 0
    /\ granted = TRUE
    /\ tunnel = "handshake"
    /\ expires = 0
    /\ renewal = "stopped"
    /\ since = 0
    /\ stream = [s \in Streams |-> "none"]
    /\ usage = [counted |-> 0, reported |-> {}]

-----------------------------------------------------------------------------
(* The handshake.                                                          *)

\* What the client asks for never exceeds what the lease allows.
MaxStreams == IF ClientStreams < LeaseStreams THEN ClientStreams ELSE LeaseStreams

\* A bad handshake, a refused credential or an invalid lease ends the
\* connection before any stream is served.
RefuseHandshake ==
    /\ tunnel = "handshake"
    /\ tunnel' = "closed"
    /\ UNCHANGED <<now, granted, expires, renewal, since, stream, usage>>

Serve ==
    /\ tunnel = "handshake" /\ granted
    /\ tunnel' = "serving"
    /\ expires' = now + Term
    /\ renewal' = "wait"
    /\ since' = now + RenewPeriod
    /\ UNCHANGED <<now, granted, stream, usage>>

-----------------------------------------------------------------------------
(* The lease.                                                              *)

LeaseFailureDeadline == expires + Grace

Cancel ==
    /\ tunnel' = "ended"
    /\ renewal' = "stopped"

RenewalDue == renewal = "wait" /\ now >= since

SendRenewal ==
    /\ tunnel = "serving" /\ RenewalDue
    /\ renewal' = "sent"
    /\ since' = now
    /\ UNCHANGED <<now, granted, tunnel, expires, stream, usage>>

NextTick == since + RenewPeriod

RenewalGranted ==
    /\ tunnel = "serving" /\ renewal = "sent" /\ granted
    /\ expires' = now + Term
    /\ renewal' = "wait"
    /\ since' = NextTick
    /\ UNCHANGED <<now, granted, tunnel, stream, usage>>

\* The control plane refuses the renewal, or answers with another generation.
RenewalRefused ==
    /\ tunnel = "serving" /\ renewal = "sent" /\ ~granted
    /\ Cancel
    /\ UNCHANGED <<now, granted, expires, since, stream, usage>>

\* Mutant: only a refusal ends the tunnel.
RenewalLostForever ==
    /\ tunnel = "serving" /\ renewal = "sent"
    /\ renewal' = "wait" /\ since' = NextTick /\ UNCHANGED tunnel
    /\ UNCHANGED <<now, granted, expires, stream, usage>>

\* The control plane cannot be reached; the deadline is that of the lease
\* the renewal was sent with.
RenewalLost ==
    /\ tunnel = "serving" /\ renewal = "sent"
    /\ IF now > LeaseFailureDeadline
       THEN Cancel /\ UNCHANGED since
       ELSE renewal' = "wait" /\ since' = NextTick /\ UNCHANGED tunnel
    /\ UNCHANGED <<now, granted, expires, stream, usage>>

Revoke ==
    /\ granted
    /\ granted' = FALSE
    /\ UNCHANGED <<now, tunnel, expires, renewal, since, stream, usage>>

\* The client, or the SSH session, ends the connection.
Disconnect ==
    /\ tunnel = "serving"
    /\ Cancel
    /\ UNCHANGED <<now, granted, expires, since, stream, usage>>

-----------------------------------------------------------------------------
(* Streams: one slot each, taken before the runtime is dialled.            *)

Held == {s \in Streams : stream[s] \in {"dial", "open"}}

Move(s, state) == stream' = [stream EXCEPT ![s] = state]

BeginStream(s) ==
    /\ stream[s] = "none" /\ tunnel # "handshake"
    /\ Move(s, IF tunnel # "serving" \/ Cardinality(Held) >= MaxStreams
               THEN "refused" ELSE "dial")
    /\ UNCHANGED <<now, granted, tunnel, expires, renewal, since, usage>>

StreamDialled(s) ==
    /\ stream[s] = "dial"
    /\ Move(s, "open")
    /\ usage' = [usage EXCEPT !.counted = @ + 1]
    /\ UNCHANGED <<now, granted, tunnel, expires, renewal, since>>

StreamFails(s) ==
    /\ stream[s] = "dial"
    /\ Move(s, "failed")
    /\ UNCHANGED <<now, granted, tunnel, expires, renewal, since, usage>>

\* The runtime or the client closes the stream, or the tunnel's context does.
StreamEnds(s) ==
    /\ stream[s] = "open"
    /\ Move(s, "closed")
    /\ UNCHANGED <<now, granted, tunnel, expires, renewal, since, usage>>

-----------------------------------------------------------------------------
(* The release: the totals are read once, and sent up to three times.      *)

SnapshotCounters ==
    /\ tunnel = "ended"
    /\ tunnel' = "releasing"
    /\ usage' = [usage EXCEPT !.reported = {usage.counted}]
    /\ UNCHANGED <<now, granted, expires, renewal, since, stream>>

ReleasePortForward ==
    /\ tunnel = "releasing"
    /\ tunnel' = "closed"
    /\ UNCHANGED <<now, granted, expires, renewal, since, stream, usage>>

-----------------------------------------------------------------------------
\* The clock passes neither a renewal that is due nor its time-out.
Tick ==
    /\ now < MaxTime
    /\ ~(tunnel = "serving" /\ RenewalDue)
    /\ ~(renewal = "sent" /\ now >= since + RenewTimeout)
    /\ now' = now + 1
    /\ UNCHANGED <<granted, tunnel, expires, renewal, since, stream, usage>>

PNext ==
    \/ RefuseHandshake \/ Serve \/ SendRenewal \/ RenewalGranted \/ RenewalRefused
    \/ RenewalLost \/ Revoke \/ Disconnect \/ SnapshotCounters \/ ReleasePortForward
    \/ Tick
    \/ \E s \in Streams :
          BeginStream(s) \/ StreamDialled(s) \/ StreamFails(s) \/ StreamEnds(s)

PSpec == PInit /\ [][PNext]_pvars

-----------------------------------------------------------------------------
PTypeOK ==
    /\ now \in Nat /\ granted \in BOOLEAN
    /\ tunnel \in {"handshake", "serving", "ended", "releasing", "closed"}
    /\ expires \in Nat
    /\ renewal \in {"wait", "sent", "stopped"}
    /\ since \in Nat
    /\ stream \in [Streams -> {"none", "refused", "dial", "failed", "open", "closed"}]
    /\ usage \in [counted : Nat, reported : SUBSET Nat]

\* A tunnel stays within what it was granted.  It serves no longer than its
\* authorization allows: past the last lease and the grace by at most one
\* renewal, whatever answers are lost and however late the refusal comes
\* (maintainLease, leaseFailureDeadline).  And the runtime never sees more of
\* its connections than the smaller of the two limits, those that outlive the
\* tunnel included (handler.ServeHTTP).
TunnelBounded ==
    /\ tunnel = "serving" => now <= LeaseFailureDeadline + RenewPeriod + RenewTimeout
    /\ Cardinality(Held) <= MaxStreams
=============================================================================
