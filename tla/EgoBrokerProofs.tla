--------------------------- MODULE EgoBrokerProofs ---------------------------
(***************************************************************************)
(* The requests of a browser binding keep their turns and sleep with       *)
(* reason, cancellations are told the truth, no stale relay stays and no   *)
(* binding is revived, for every number of connections, of generations and *)
(* of events.                                                              *)
(***************************************************************************)
EXTENDS EgoBroker, FiniteSetTheorems, TLAPS

\* Leaves that name no prover are Zenon's.
USE Zenon

Bindings == [bound : BOOLEAN, gen : Nat, mode : {"healthy", "grace", "paused", "expired"},
             terminal : BOOLEAN]
Views == [gen : Nat, mode : PlaneModes]

BindingTypes ==
  /\ binding \in Bindings /\ plane \in Views /\ snapshot \in Views
  /\ nonce \in Nat /\ relayGen \in Seq(Nat) /\ relay \in 0 .. Len(relayGen)

Locals == [seq : Nat, gen : Nat, nonce : Nat, relay : Nat,
           watch : BOOLEAN, tracked : BOOLEAN, ok : BOOLEAN]

LocalType == local \in [Handlers -> Locals]

\* Places of a handler that has no request, that has its permit behind it, and
\* that has not written yet.
Outside == {"idle", "fetched", "due", "renew", "admit", "end"}
After == {"forward", "epoch", "turn", "mark", "await", "finish"} \cup Sending
Unsent == {"permitted", "forward", "epoch", "turn"} \cup Sending

TurnTypes ==
  /\ LocalType /\ pc \in [Actors -> PCs]
  /\ sequence \in Nat /\ persisted = sequence /\ wire \in Seq(Nat)
  /\ active \subseteq 1 .. sequence /\ permits \subseteq active /\ lapsed \subseteq permits

\* A request has one handler, and its number is not given again.
Numbered ==
  /\ \A h \in Handlers : /\ local[h].seq <= sequence
                         /\ local[h].seq = 0 <=> pc[h] \in Outside
  /\ \A h, g \in Handlers : local[h].seq = local[g].seq => h = g \/ local[h].seq = 0

\* It is written once, after its permit was consumed.
WrittenOnce ==
  /\ \A m \in DOMAIN wire : wire[m] \in 1 .. sequence
  /\ \A h \in Handlers : pc[h] \in Unsent => \A m \in DOMAIN wire : wire[m] # local[h].seq
  /\ \A h \in Handlers : pc[h] \in After => local[h].seq \notin permits

\* When a submitted request is no longer in the registry, none before it is.
ClearedTogether ==
  \A h \in Handlers : pc[h] \in After /\ local[h].seq \notin active =>
    \A other \in active : other > local[h].seq

Sleeping == \A h \in asleep : h \in Handlers /\ pc[h] = "turn"

TurnInv ==
  /\ TurnTypes /\ Numbered /\ WrittenOnce /\ ClearedTogether /\ Sleeping
  /\ TurnKept /\ NoLostWakeup

-----------------------------------------------------------------------------
(* The binding. *)

LEMMA NoBindingType == NoBinding \in Bindings /\ ~NoBinding.bound
  BY DEF NoBinding, Bindings

LEMMA ExpiresType ==
  ASSUME binding \in Bindings
  PROVE  LET b == [binding EXCEPT !.mode = "expired", !.terminal = TRUE]
         IN  b \in Bindings /\ b.gen = binding.gen /\ b.terminal
  BY DEF Bindings

LEMMA ModeType ==
  ASSUME binding \in Bindings, NEW m \in {"healthy", "grace"}
  PROVE  LET b == [binding EXCEPT !.mode = m]
         IN  /\ b \in Bindings /\ b.gen = binding.gen /\ b.terminal = binding.terminal
             /\ b.bound = binding.bound /\ b.mode = m
  BY DEF Bindings

\* What a step may do to the binding: it expires, is in grace or healthy again,
\* is fetched, or is gone.
BindingMoves ==
  \/ binding' = binding
  \/ binding' = [binding EXCEPT !.mode = "expired", !.terminal = TRUE]
  \/ \E m \in {"healthy", "grace"} : binding' = [binding EXCEPT !.mode = m]
  \/ binding' = NoBinding
  \/ /\ binding' = [bound |-> TRUE, gen |-> snapshot.gen, mode |-> snapshot.mode, terminal |-> FALSE]
     /\ snapshot.mode # "gone"
     /\ binding.bound => snapshot.gen >= binding.gen /\ (binding.terminal => snapshot.gen > binding.gen)

LEMMA RenewalFailsMoves ==
  ASSUME NEW a, RenewalFails(a)
  PROVE  BindingMoves
  BY DEF RenewalFails, Expire, BindingMoves, bindingVars

LEMMA AdoptMoves ==
  ASSUME BindingTypes, AdoptFetched, snapshot.mode # "gone"
  PROVE  BindingMoves
  <1>1. binding.gen \in Nat /\ snapshot.gen \in Nat
    BY DEF BindingTypes, Bindings, Views
  <1> QED BY <1>1, SMT DEF AdoptFetched, Adopt, BindingMoves, bindingVars

LEMMA LoopMoves ==
  ASSUME BindingTypes, LoopStep
  PROVE  BindingMoves
  <1>1. CASE Refresh
    BY <1>1, RenewalFailsMoves DEF Refresh, bindingVars, BindingMoves
  <1>2. CASE SetBindings
    BY <1>2, AdoptMoves DEF SetBindings, bindingVars, BindingMoves
  <1>3. CASE RenewDue
    BY <1>3 DEF RenewDue, BeginRenewal, Expire, bindingVars, BindingMoves
  <1>4. CASE RenewReturns(Loop)
    BY <1>4, RenewalFailsMoves DEF RenewReturns, BindingMoves
  <1> QED BY <1>1, <1>2, <1>3, <1>4 DEF LoopStep

LEMMA HandlerMoves ==
  ASSUME NEW h \in Handlers, HandlerStep(h) \/ TurnLost(h)
  PROVE  BindingMoves
  <1>1. CASE Connect(h)
    BY <1>1 DEF Connect, BeginRenewal, Expire, bindingVars, BindingMoves
  <1>2. CASE RenewReturns(h)
    BY <1>2, RenewalFailsMoves DEF RenewReturns, BindingMoves
  <1>3. CASE \/ IssuePermit(h) \/ ConsumePermit(h) \/ ReadMetadata(h) \/ LoadEpoch(h)
             \/ WaitForSendTurn(h) \/ TurnLost(h)
    BY <1>3 DEF IssuePermit, ConsumePermit, ReadMetadata, LoadEpoch, WaitForSendTurn, TurnLost, bindingVars,
                BindingMoves
  <1>4. CASE \/ ValidateForwardBinding(h) \/ EnsureRelaySession(h) \/ DialReturns(h) \/ InstallRelay(h)
             \/ RegisterExchange(h) \/ Send(h)
    BY <1>4 DEF ValidateForwardBinding, EnsureRelaySession, DialReturns, InstallRelay, RegisterExchange,
                Send, BindingMoves
  <1>5. CASE MarkRequestSent(h) \/ Await(h) \/ FinishRequestForward(h) \/ ReleaseRequest(h)
    BY <1>5 DEF MarkRequestSent, Await, FinishRequestForward, ReleaseRequest, bindingVars, BindingMoves
  <1> QED BY <1>1, <1>2, <1>3, <1>4, <1>5 DEF HandlerStep

LEMMA NextMoves ==
  ASSUME BindingTypes, Next
  PROVE  BindingMoves
  <1>1. CASE \E c \in closers : CloseRelay(c)
    BY <1>1 DEF CloseRelay, bindingVars, BindingMoves
  <1>2. CASE \E r \in Requests : PermitLapses(r) \/ Deliver(r) \/ CancelRequest(r)
    BY <1>2 DEF PermitLapses, Deliver, CancelRequest, bindingVars, BindingMoves
  <1>3. CASE RelayBreaks \/ Reload \/ UnregisterToolSession \/ RegisterToolSession
    BY <1>3 DEF RelayBreaks, Reload, UnregisterToolSession, RegisterToolSession, bindingVars, BindingMoves
  <1>4. CASE CancelReturns \/ CancelTimesOut \/ PlaneChanges \/ Restart
    BY <1>4 DEF CancelReturns, CancelTimesOut, PlaneChanges, Restart, bindingVars, BindingMoves
  <1> QED BY <1>1, <1>2, <1>3, <1>4, LoopMoves, HandlerMoves DEF Next

LEMMA MovesType ==
  ASSUME BindingTypes, BindingMoves
  PROVE  /\ binding' \in Bindings
         /\ binding.bound /\ binding'.bound =>
              /\ binding'.gen >= binding.gen
              /\ binding.terminal /\ binding'.gen = binding.gen => binding'.terminal
  <1>1. binding \in Bindings /\ binding.gen \in Nat /\ snapshot \in Views
    BY DEF BindingTypes, Bindings
  <1>2. CASE binding' = binding
    BY <1>1, <1>2, SMT
  <1>3. CASE binding' = [binding EXCEPT !.mode = "expired", !.terminal = TRUE]
    BY <1>1, <1>3, ExpiresType, SMT
  <1>4. CASE \E m \in {"healthy", "grace"} : binding' = [binding EXCEPT !.mode = m]
    BY <1>1, <1>4, ModeType, SMT
  <1>5. CASE binding' = NoBinding
    BY <1>5, NoBindingType
  <1>6. CASE /\ binding' = [bound |-> TRUE, gen |-> snapshot.gen, mode |-> snapshot.mode, terminal |-> FALSE]
             /\ snapshot.mode # "gone"
             /\ binding.bound => snapshot.gen >= binding.gen /\ (binding.terminal => snapshot.gen > binding.gen)
    BY <1>1, <1>6, SMT DEF Bindings, Views, PlaneModes
  <1> QED BY <1>2, <1>3, <1>4, <1>5, <1>6 DEF BindingMoves


\* The relays: one may break, be closed or be installed.
RelayMoves ==
  \/ relayGen' = relayGen /\ relay' \in {0, relay}
  \/ relayGen' = <<>> /\ relay' = 0
  \/ \E h \in Handlers : relayGen' = Append(relayGen, local[h].gen) /\ relay' = Len(relayGen) + 1

LEMMA NextRelay ==
  ASSUME Next
  PROVE  RelayMoves
  <1>1. CASE LoopStep
    BY <1>1 DEF LoopStep, Refresh, SetBindings, RenewDue, RenewReturns, relayVars, RelayMoves
  <1>2. ASSUME NEW h \in Handlers, HandlerStep(h) \/ TurnLost(h) PROVE RelayMoves
    <2>1. CASE \/ Connect(h) \/ RenewReturns(h) \/ IssuePermit(h) \/ ConsumePermit(h) \/ ReadMetadata(h)
               \/ LoadEpoch(h) \/ WaitForSendTurn(h) \/ TurnLost(h)
      BY <2>1 DEF Connect, RenewReturns, IssuePermit, ConsumePermit, ReadMetadata, LoadEpoch,
                  WaitForSendTurn, TurnLost, relayVars, RelayMoves
    <2>2. CASE \/ ValidateForwardBinding(h) \/ EnsureRelaySession(h) \/ DialReturns(h) \/ InstallRelay(h)
               \/ RegisterExchange(h)
      BY <2>2 DEF ValidateForwardBinding, EnsureRelaySession, DialReturns, InstallRelay, RegisterExchange,
                  relayVars, RelayMoves
    <2>3. CASE Send(h) \/ MarkRequestSent(h) \/ Await(h) \/ FinishRequestForward(h) \/ ReleaseRequest(h)
      BY <2>3 DEF Send, MarkRequestSent, Await, FinishRequestForward, ReleaseRequest, FailRelay, relayVars,
                  RelayMoves
    <2> QED BY <1>2, <2>1, <2>2, <2>3 DEF HandlerStep
  <1>3. CASE \E c \in closers : CloseRelay(c)
    BY <1>3 DEF CloseRelay, RelayMoves
  <1>4. CASE \E r \in Requests : PermitLapses(r) \/ Deliver(r) \/ CancelRequest(r)
    BY <1>4 DEF PermitLapses, Deliver, CancelRequest, relayVars, RelayMoves
  <1>5. CASE RelayBreaks \/ Reload \/ UnregisterToolSession \/ RegisterToolSession
    BY <1>5 DEF RelayBreaks, FailRelay, Reload, UnregisterToolSession, RegisterToolSession, relayVars,
                RelayMoves
  <1>6. CASE CancelReturns \/ CancelTimesOut \/ PlaneChanges \/ Restart
    BY <1>6 DEF CancelReturns, CancelTimesOut, PlaneChanges, Restart, relayVars, RelayMoves
  <1> QED BY <1>1, <1>2, <1>3, <1>4, <1>5, <1>6 DEF Next

\* The control plane moves on, a refresh takes a copy of it, registrations are counted.
LEMMA NextPlane ==
  ASSUME BindingTypes, Next
  PROVE  /\ plane' \in Views /\ snapshot' \in Views /\ nonce' \in Nat
  <1>1. NoSnapshot \in Views
    BY DEF NoSnapshot, Views, PlaneModes
  <1>2. CASE LoopStep
    BY <1>1, <1>2 DEF LoopStep, Refresh, SetBindings, RenewDue, RenewReturns, planeVars, numbers, BindingTypes
  <1>3. ASSUME NEW h \in Handlers, HandlerStep(h) \/ TurnLost(h) PROVE UNCHANGED <<plane, snapshot, nonce>>
    BY <1>3 DEF HandlerStep, Connect, RenewReturns, IssuePermit, ConsumePermit, ReadMetadata, LoadEpoch,
                WaitForSendTurn, TurnLost, ValidateForwardBinding, EnsureRelaySession, DialReturns,
                InstallRelay, RegisterExchange, Send, MarkRequestSent, Await, FinishRequestForward,
                ReleaseRequest, planeVars, numbers
  <1>4. CASE PlaneChanges
    BY <1>4, SMT DEF PlaneChanges, BindingTypes, Views, PlaneModes, numbers
  <1>5. CASE \/ \E c \in closers : CloseRelay(c)
             \/ \E r \in Requests : PermitLapses(r) \/ Deliver(r) \/ CancelRequest(r)
             \/ RelayBreaks \/ Reload \/ CancelReturns \/ CancelTimesOut
    BY <1>5 DEF CloseRelay, PermitLapses, Deliver, CancelRequest, RelayBreaks, Reload, CancelReturns,
                CancelTimesOut, planeVars, numbers, BindingTypes
  <1>6. CASE UnregisterToolSession \/ RegisterToolSession
    BY <1>6, SMT DEF UnregisterToolSession, RegisterToolSession, planeVars, BindingTypes
  <1>7. CASE Restart
    <2>1. nonce % 2 \in Nat
      BY SMT DEF BindingTypes
    <2> QED BY <1>1, <1>7, <2>1, SMT DEF Restart, BindingTypes
  <1>8. CASE \E h \in Handlers : HandlerStep(h) \/ TurnLost(h)
    BY <1>3, <1>8 DEF BindingTypes
  <1> QED BY <1>2, <1>4, <1>5, <1>6, <1>7, <1>8 DEF Next

-----------------------------------------------------------------------------
(* The handlers' records. *)

LEMMA LocalFields ==
  ASSUME NEW l \in Locals, NEW n \in Nat, NEW b \in BOOLEAN
  PROVE  /\ LET k == [l EXCEPT !.nonce = n]
            IN  k \in Locals /\ k.seq = l.seq /\ k.gen = l.gen /\ k.ok = l.ok
         /\ LET k == [l EXCEPT !.tracked = b]
            IN  k \in Locals /\ k.seq = l.seq /\ k.gen = l.gen /\ k.ok = l.ok
         /\ LET k == [l EXCEPT !.watch = b]
            IN  k \in Locals /\ k.seq = l.seq /\ k.gen = l.gen /\ k.ok = l.ok
         /\ LET k == [l EXCEPT !.gen = n, !.watch = b]
            IN  k \in Locals /\ k.seq = l.seq /\ k.gen = n /\ k.ok = l.ok
  BY DEF Locals

LEMMA FreshLocals ==
  ASSUME NEW r \in Nat, NEW b \in BOOLEAN
  PROVE  /\ LET l == [NoLocal EXCEPT !.seq = r] IN l \in Locals /\ l.seq = r /\ ~l.ok
         /\ LET l == [NoLocal EXCEPT !.seq = r, !.ok = b] IN l \in Locals /\ l.seq = r /\ l.ok = b
         /\ NoLocal \in Locals /\ NoLocal.seq = 0 /\ ~NoLocal.ok
  BY DEF Locals, NoLocal

\* A step of h leaves the other handlers alone.
Only(h) == LocalType' /\ \A g \in Handlers : g # h => local'[g] = local[g]

\* It keeps its request and what it knows of it.
Keeps(h) ==
  /\ Only(h) /\ local'[h].seq = local[h].seq /\ local'[h].gen = local[h].gen
  /\ local'[h].ok = local[h].ok

\* It keeps its request only.
Quits(h) == Only(h) /\ local'[h].seq = local[h].seq /\ ~local'[h].ok

LEMMA QuitLocal ==
  ASSUME LocalType, NEW h \in Handlers, Quit(h)
  PROVE  Quits(h) /\ pc' = [pc EXCEPT ![h] = "finish"] /\ fresh' = fresh \ {h}
  <1>1. local[h].seq \in Nat
    BY DEF LocalType, Locals
  <1>2. LET l == [NoLocal EXCEPT !.seq = local[h].seq] IN l \in Locals /\ l.seq = local[h].seq /\ ~l.ok
    BY <1>1, FreshLocals
  <1> QED BY <1>2 DEF LocalType, Quit, Quits, Only, Goto

LEMMA HoldLocal ==
  ASSUME LocalType, NEW h \in Handlers, NEW k \in Nat, Hold(h, k)
  PROVE  Quits(h) /\ fresh' = fresh \ {h}
  <1>1. local[h].seq \in Nat /\ local[h].watch \in BOOLEAN
    BY DEF LocalType, Locals
  <1>2. LET l == [NoLocal EXCEPT !.seq = local[h].seq, !.watch = local[h].watch, !.relay = k]
        IN  l \in Locals /\ l.seq = local[h].seq /\ ~l.ok
    <2>1. PICK b \in BOOLEAN : b = local[h].watch
      BY <1>1
    <2>2. LET l == [NoLocal EXCEPT !.seq = local[h].seq, !.watch = b, !.relay = k]
          IN  l \in Locals /\ l.seq = local[h].seq /\ ~l.ok
      BY <1>1 DEF Locals, NoLocal
    <2> QED BY <2>1, <2>2
  <1> QED BY <1>2 DEF LocalType, Hold, Quits, Only

LEMMA ConnectLocal ==
  ASSUME LocalType, BindingTypes, NEW h \in Handlers, Connect(h)
  PROVE  Keeps(h)
  BY LocalFields, ZenonT(30) DEF LocalType, BindingTypes, Connect, Keeps, Only

LEMMA ReadMetadataLocal ==
  ASSUME LocalType, BindingTypes, NEW h \in Handlers, ReadMetadata(h)
  PROVE  /\ Only(h) /\ local'[h].seq = local[h].seq /\ (local'[h].ok => local[h].ok)
         /\ \/ pc' = [pc EXCEPT ![h] = "epoch"] /\ fresh' = fresh
            \/ pc' = [pc EXCEPT ![h] = "finish"] /\ fresh' = fresh \ {h}
  <1>1. CASE Admitting
    <2>0. \E b \in BOOLEAN : b = (local[h].seq \in active)
      <3>1. CASE local[h].seq \in active
        BY <3>1
      <3>2. CASE local[h].seq \notin active
        <4>1. FALSE = (local[h].seq \in active)
          BY <3>2, SMT
        <4> QED BY <4>1
      <3> QED BY <3>1, <3>2
    <2>1. PICK b \in BOOLEAN : b = (local[h].seq \in active)
      BY <2>0
    <2>2. local' = [local EXCEPT ![h].gen = binding.gen, ![h].watch = b]
      BY <1>1, <2>1 DEF ReadMetadata
    <2>3. binding.gen \in Nat
      BY DEF BindingTypes, Bindings
    <2>4. local' \in [Handlers -> Locals]
      BY <2>2, <2>3, LocalFields DEF LocalType
    <2>5. local'[h].seq = local[h].seq /\ local'[h].ok = local[h].ok
      BY <2>2, <2>3 DEF LocalType, Locals
    <2>6. \A g \in Handlers : g # h => local'[g] = local[g]
      BY <2>2 DEF LocalType
    <2> QED BY <1>1, <2>4, <2>5, <2>6 DEF LocalType, Only, ReadMetadata, Goto
  <1>2. CASE ~Admitting
    BY <1>2, QuitLocal DEF ReadMetadata, Quits
  <1> QED BY <1>1, <1>2

LEMMA AwaitLocal ==
  ASSUME LocalType, NEW h \in Handlers, Await(h)
  PROVE  /\ Only(h) /\ local'[h].seq = local[h].seq
         /\ local'[h].ok => local[h].ok \/ (exchange[local[h].seq].state = "answer" /\ exchange' = exchange)
  <1>1. CASE Quit(h)
    BY <1>1, QuitLocal DEF Quits
  <1>2. CASE local' = [local EXCEPT ![h].watch = FALSE]
    BY <1>2, LocalFields DEF LocalType, Only
  <1>3. CASE /\ local' = [local EXCEPT ![h] = [NoLocal EXCEPT !.seq = local[h].seq,
                                                 !.ok = exchange[local[h].seq].state = "answer"]]
             /\ exchange' = exchange
    <2>1. PICK b \in BOOLEAN : b = (exchange[local[h].seq].state = "answer")
      OBVIOUS
    <2>2. local' = [local EXCEPT ![h] = [NoLocal EXCEPT !.seq = local[h].seq, !.ok = b]]
      BY <1>3, <2>1
    <2>3. local[h].seq \in Nat
      BY DEF LocalType, Locals
    <2>4. LET l == [NoLocal EXCEPT !.seq = local[h].seq, !.ok = b]
          IN  l \in Locals /\ l.seq = local[h].seq /\ l.ok = b
      BY <2>3, FreshLocals
    <2> QED BY <1>3, <2>1, <2>2, <2>4, ZenonT(30) DEF LocalType, Only
  <1> QED BY <1>1, <1>2, <1>3 DEF Await, relayVars

LEMMA BindingInit == Init => BindingTypes
  BY NoBindingType, SMT DEF Init, BindingTypes, NoSnapshot, Views, PlaneModes

LEMMA BindingStep == BindingTypes /\ LocalType /\ [Next]_vars => BindingTypes'
  <1> SUFFICES ASSUME BindingTypes, LocalType, [Next]_vars PROVE BindingTypes'
    OBVIOUS
  <1>1. CASE Next
    <2>1. \A h \in Handlers : local[h].gen \in Nat
      BY DEF LocalType, Locals
    <2>2. relayGen' \in Seq(Nat) /\ relay' \in 0 .. Len(relayGen')
      <3>1. CASE relayGen' = relayGen /\ relay' \in {0, relay}
        BY <3>1, SMT DEF BindingTypes
      <3>2. CASE relayGen' = <<>> /\ relay' = 0
        BY <3>2, SMT
      <3>3. ASSUME NEW n \in Nat, relayGen' = Append(relayGen, n), relay' = Len(relayGen) + 1
            PROVE  relayGen' \in Seq(Nat) /\ relay' \in 0 .. Len(relayGen')
        BY <3>3, SMT DEF BindingTypes
      <3> QED BY <1>1, <2>1, <3>1, <3>2, <3>3, NextRelay DEF RelayMoves
    <2> QED BY <1>1, <2>2, NextMoves, MovesType, NextPlane DEF BindingTypes
  <1>2. CASE UNCHANGED vars
    BY <1>2 DEF vars, bindingVars, planeVars, numbers, relayVars, BindingTypes
  <1> QED BY <1>1, <1>2

-----------------------------------------------------------------------------
(* Turns: the steps that leave the registry as it is or empty it. *)

Kept == UNCHANGED <<permits, lapsed, active, marked, asleep>>
Cleared == permits' = {} /\ lapsed' = {} /\ active' = {} /\ marked' = {} /\ asleep' = {}

LEMMA RenewalFailsRegistry ==
  ASSUME NEW a, RenewalFails(a)
  PROVE  Kept \/ Cleared
  BY DEF RenewalFails, Expire, ClearMaterials, Stir, registry, Kept, Cleared

LEMMA LoopIsNoHandler == Loop \notin Handlers
  BY BrokerAssumption

\* Handlers move where they have no request, the loop moves, or nobody does.
Elsewhere ==
  /\ LocalType' /\ \A g \in Handlers : local'[g].seq = local[g].seq
  /\ pc' \in [Actors -> PCs]
  /\ \A g \in Handlers : pc'[g] = pc[g] \/ (pc[g] \in Outside /\ pc'[g] \in Outside)
  /\ UNCHANGED <<wire, sequence, persisted>>
  /\ Kept \/ Cleared

LEMMA ElsewhereKeeps == TurnInv /\ Elsewhere => TurnInv'
  <1> SUFFICES ASSUME TurnInv, Elsewhere PROVE TurnInv'
    OBVIOUS
  <1> USE DEF TurnInv, Elsewhere
  <1>1. TurnTypes'
    BY DEF TurnTypes, Kept, Cleared
  <1>2. Numbered'
    BY DEF TurnTypes, Numbered
  <1>3. WrittenOnce'
    BY SMT DEF WrittenOnce, Kept, Cleared, Outside, After, Unsent, Sending
  <1>4. ClearedTogether'
    BY DEF ClearedTogether, Kept, Cleared, Outside, After, Sending
  <1>5. Sleeping'
    BY DEF Sleeping, Kept, Cleared, Outside
  <1>6. TurnKept'
    BY DEF TurnKept, Kept, Cleared, Outside, Sending
  <1>7. NoLostWakeup'
    BY DEF NoLostWakeup, Sleeping, Kept, Cleared
  <1> QED BY <1>1, <1>2, <1>3, <1>4, <1>5, <1>6, <1>7

\* A handler goes on with its request, which keeps its place.
Onward(h) ==
  /\ Only(h) /\ local'[h].seq = local[h].seq
  /\ \E l \in After \cup {"release"} :
       /\ pc' = [pc EXCEPT ![h] = l] /\ pc[h] \in After
       /\ l \in Unsent => pc[h] \in Unsent
       /\ l \in Sending => pc[h] \in Sending
  /\ asleep' \subseteq asleep /\ (pc[h] = "turn" => h \notin asleep')
  /\ UNCHANGED <<wire, sequence, persisted, permits, lapsed, active, marked>>

LEMMA OnwardKeeps ==
  ASSUME TurnInv, NEW h \in Handlers, Onward(h)
  PROVE  TurnInv'
  <1> USE DEF TurnInv
  <1>0. PICK l \in After \cup {"release"} :
          /\ pc' = [pc EXCEPT ![h] = l] /\ pc[h] \in After
          /\ l \in Unsent => pc[h] \in Unsent
          /\ l \in Sending => pc[h] \in Sending
    BY DEF Onward
  <1>a. /\ \A g \in Handlers : local'[g].seq = local[g].seq
        /\ \A g \in Handlers : g # h => pc'[g] = pc[g]
        /\ pc'[h] = l /\ pc' \in [Actors -> PCs]
        /\ UNCHANGED <<wire, sequence, persisted, permits, lapsed, active, marked>>
    BY <1>0 DEF Onward, Only, TurnTypes, Actors, PCs, After, Sending
  <1>1. TurnTypes'
    BY <1>a DEF TurnTypes, Onward, Only
  <1>2. Numbered'
    BY <1>0, <1>a, SMT DEF TurnTypes, Numbered, Outside, After, Sending
  <1>3. WrittenOnce'
    BY <1>0, <1>a DEF WrittenOnce, After, Unsent
  <1>4. ClearedTogether'
    BY <1>0, <1>a DEF ClearedTogether, After
  <1>5. Sleeping'
    BY <1>0, <1>a DEF Sleeping, Onward
  <1>6. TurnKept'
    BY <1>0, <1>a DEF TurnKept
  <1>7. NoLostWakeup'
    BY <1>a DEF NoLostWakeup, Sleeping, Onward
  <1> QED BY <1>1, <1>2, <1>3, <1>4, <1>5, <1>6, <1>7

LEMMA LoopTurn == TurnInv /\ BindingTypes /\ LoopStep => TurnInv'
  <1> SUFFICES ASSUME TurnInv, LoopStep PROVE Elsewhere
    BY ElsewhereKeeps
  <1>0. LocalType /\ pc \in [Actors -> PCs] /\ Loop \in Actors /\ Loop \notin Handlers
    BY LoopIsNoHandler DEF TurnInv, TurnTypes, Actors
  <1>1. UNCHANGED <<local, wire, sequence, persisted>>
    BY DEF LoopStep, Refresh, SetBindings, RenewDue, RenewReturns, numbers
  <1>2. pc' \in [Actors -> PCs] /\ \A g \in Handlers : pc'[g] = pc[g]
    BY <1>0 DEF LoopStep, Refresh, SetBindings, RenewDue, BeginRenewal, RenewReturns, Goto, PCs, Actors
  <1>3. Kept \/ Cleared
    <2>1. CASE Refresh
      BY <2>1, RenewalFailsRegistry DEF Refresh, registry, Kept
    <2>2. CASE SetBindings
      BY <2>2 DEF SetBindings, AdoptFetched, Adopt, ClearMaterials, Stir, registry, Kept, Cleared
    <2>3. CASE RenewDue
      BY <2>3 DEF RenewDue, BeginRenewal, Expire, ClearMaterials, Stir, registry, Kept, Cleared
    <2>4. CASE RenewReturns(Loop)
      BY <2>4, RenewalFailsRegistry DEF RenewReturns, registry, Kept
    <2> QED BY <2>1, <2>2, <2>3, <2>4 DEF LoopStep
  <1> QED BY <1>0, <1>1, <1>2, <1>3 DEF Elsewhere, LocalType

LEMMA OutsideTurn ==
  ASSUME TurnInv, BindingTypes, NEW h \in Handlers, Connect(h) \/ RenewReturns(h)
  PROVE  TurnInv'
  <1> SUFFICES Elsewhere
    BY ElsewhereKeeps
  <1>0. LocalType /\ pc \in [Actors -> PCs] /\ h \in Actors /\ h # Loop
    BY LoopIsNoHandler DEF TurnInv, TurnTypes, Actors
  <1>1. LocalType' /\ (\A g \in Handlers : local'[g].seq = local[g].seq) /\ UNCHANGED <<wire, sequence, persisted>>
    <2>1. CASE Connect(h)
      BY <1>0, <2>1, ConnectLocal DEF Connect, numbers, Keeps, Only
    <2>2. CASE RenewReturns(h)
      BY <1>0, <2>2 DEF RenewReturns, numbers, LocalType
    <2> QED BY <2>1, <2>2
  <1>2. /\ pc' \in [Actors -> PCs]
        /\ \A g \in Handlers : pc'[g] = pc[g] \/ (pc[g] \in Outside /\ pc'[g] \in Outside)
    <2>1. CASE Connect(h)
      BY <1>0, <2>1 DEF Connect, At, BeginRenewal, Goto, PCs, Outside, Actors
    <2>2. CASE RenewReturns(h)
      BY <1>0, <2>2 DEF RenewReturns, At, Goto, PCs, Outside, Actors
    <2> QED BY <2>1, <2>2
  <1>3. Kept \/ Cleared
    <2>1. CASE Connect(h)
      BY <2>1 DEF Connect, BeginRenewal, Expire, ClearMaterials, Stir, registry, Kept, Cleared
    <2>2. CASE RenewReturns(h)
      BY <2>2, RenewalFailsRegistry DEF RenewReturns, registry, Kept
    <2> QED BY <2>1, <2>2
  <1> QED BY <1>1, <1>2, <1>3 DEF Elsewhere

\* What happens to the broker from outside, other than a restart and the expiry of a permit.
Outer ==
  \/ \E c \in closers : CloseRelay(c)
  \/ \E r \in Requests : Deliver(r) \/ CancelRequest(r)
  \/ RelayBreaks \/ Reload \/ UnregisterToolSession \/ RegisterToolSession
  \/ CancelReturns \/ CancelTimesOut \/ PlaneChanges

LEMMA OuterTurn == TurnInv /\ Outer => TurnInv'
  <1> SUFFICES ASSUME TurnInv, Outer PROVE Elsewhere
    BY ElsewhereKeeps
  <1>1. UNCHANGED <<pc, local, wire, sequence, persisted>> /\ (Kept \/ Cleared)
    <2>1. CASE \E c \in closers : CloseRelay(c)
      BY <2>1 DEF CloseRelay, registry, numbers, Kept
    <2>2. CASE \E r \in Requests : Deliver(r) \/ CancelRequest(r)
      BY <2>2 DEF Deliver, CancelRequest, registry, numbers, Kept
    <2>3. CASE RelayBreaks \/ Reload \/ UnregisterToolSession \/ RegisterToolSession
      BY <2>3 DEF RelayBreaks, Reload, UnregisterToolSession, RegisterToolSession, ClearMaterials, Stir,
                  registry, numbers, Kept, Cleared
    <2>4. CASE CancelReturns \/ CancelTimesOut \/ PlaneChanges
      BY <2>4 DEF CancelReturns, CancelTimesOut, PlaneChanges, registry, numbers, Kept
    <2> QED BY <2>1, <2>2, <2>3, <2>4 DEF Outer
  <1> QED BY <1>1 DEF Elsewhere, TurnInv, TurnTypes, LocalType

-----------------------------------------------------------------------------
(* Turns: the steps of a handler with a request. *)

LEMMA QuitOnward ==
  ASSUME TurnInv, NEW h \in Handlers, Quit(h), pc[h] \in After \ {"turn"},
         UNCHANGED <<wire, sequence, persisted, registry>>
  PROVE  Onward(h)
  <1>1. Quits(h) /\ pc' = [pc EXCEPT ![h] = "finish"]
    BY QuitLocal DEF TurnInv, TurnTypes
  <1> QED BY <1>1, SMT DEF Quits, Onward, After, Unsent, Sending, registry

LEMMA OnwardTurn ==
  ASSUME TurnInv, BindingTypes, NEW h \in Handlers,
         \/ ReadMetadata(h) \/ LoadEpoch(h) \/ TurnLost(h) \/ ValidateForwardBinding(h)
         \/ EnsureRelaySession(h) \/ DialReturns(h) \/ InstallRelay(h) \/ RegisterExchange(h)
         \/ Await(h) \/ FinishRequestForward(h)
  PROVE  TurnInv'
  <1> SUFFICES Onward(h)
    BY OnwardKeeps
  <1>0. LocalType /\ pc \in [Actors -> PCs] /\ h \in Actors
    BY DEF TurnInv, TurnTypes, Actors
  <1>a. (h \in asleep => pc[h] = "turn") /\ (UNCHANGED local => Only(h) /\ local'[h].seq = local[h].seq)
    BY <1>0 DEF TurnInv, Sleeping, LocalType, Only
  <1>1. CASE ReadMetadata(h)
    <2>1. /\ Only(h) /\ local'[h].seq = local[h].seq
          /\ pc' = [pc EXCEPT ![h] = "epoch"] \/ pc' = [pc EXCEPT ![h] = "finish"]
      BY <1>0, <1>1, ReadMetadataLocal
    <2>2. pc[h] = "forward" /\ UNCHANGED <<wire, sequence, persisted, permits, lapsed, active, marked, asleep>>
      BY <1>1 DEF ReadMetadata, At, registry, numbers
    <2> QED BY <2>1, <2>2 DEF Onward, After, Unsent, Sending
  <1>2. CASE LoadEpoch(h)
    BY <1>a, <1>2, SMT DEF LoadEpoch, At, Goto, registry, numbers, Onward, After, Unsent, Sending
  <1>3. CASE TurnLost(h)
    <2>1. Quits(h) /\ pc' = [pc EXCEPT ![h] = "finish"]
      BY <1>0, <1>3, QuitLocal DEF TurnLost
    <2> QED BY <1>3, <2>1, SMT DEF TurnLost, At, Quits, numbers, Onward, After, Unsent, Sending
  <1>4. CASE ValidateForwardBinding(h)
    <2>1. pc[h] = "validate" /\ UNCHANGED <<wire, sequence, persisted, registry>>
      BY <1>4 DEF ValidateForwardBinding, At, numbers
    <2>2. CASE Quit(h)
      BY <2>1, <2>2, QuitOnward DEF After, Sending
    <2>3. CASE Goto(h, "relay") /\ UNCHANGED local
      BY <1>a, <2>1, <2>3 DEF Goto, registry, Onward, After, Unsent, Sending
    <2> QED BY <1>4, <2>2, <2>3 DEF ValidateForwardBinding
  <1>5. CASE EnsureRelaySession(h)
    <2>1. pc[h] = "relay" /\ UNCHANGED <<wire, sequence, persisted, registry>>
      BY <1>5 DEF EnsureRelaySession, At, numbers
    <2>2. CASE Quit(h)
      BY <2>1, <2>2, QuitOnward DEF After, Sending
    <2>3. CASE Goto(h, "register") /\ Hold(h, relay)
      <3>1. Quits(h)
        BY <1>0, <2>3, HoldLocal, SMT DEF BindingTypes
      <3> QED BY <1>a, <2>1, <2>3, <3>1 DEF Goto, registry, Quits, Onward, After, Unsent, Sending
    <2>4. CASE Goto(h, "dial") /\ UNCHANGED local
      BY <1>a, <2>1, <2>4 DEF Goto, registry, Onward, After, Unsent, Sending
    <2> QED BY <1>5, <2>2, <2>3, <2>4 DEF EnsureRelaySession
  <1>6. CASE DialReturns(h)
    <2>1. pc[h] = "dial" /\ UNCHANGED <<wire, sequence, persisted, registry>>
      BY <1>6 DEF DialReturns, At, numbers
    <2>2. CASE Quit(h)
      BY <2>1, <2>2, QuitOnward DEF After, Sending
    <2>3. CASE Goto(h, "install") /\ UNCHANGED local
      BY <1>a, <2>1, <2>3 DEF Goto, registry, Onward, After, Unsent, Sending
    <2> QED BY <1>6, <2>2, <2>3 DEF DialReturns
  <1>7. CASE InstallRelay(h)
    <2>1. Len(relayGen) + 1 \in Nat
      BY SMT DEF BindingTypes
    <2>2. Quits(h)
      BY <1>0, <1>7, <2>1, HoldLocal DEF InstallRelay
    <2> QED BY <1>a, <1>7, <2>2 DEF InstallRelay, At, Goto, registry, numbers, Quits, Onward, After, Unsent, Sending
  <1>8. CASE RegisterExchange(h)
    <2>1. pc[h] = "register" /\ UNCHANGED <<wire, sequence, persisted, registry>>
      BY <1>8 DEF RegisterExchange, At, numbers
    <2>2. CASE Quit(h)
      BY <2>1, <2>2, QuitOnward DEF After, Sending
    <2>3. CASE Goto(h, "send") /\ UNCHANGED local
      BY <1>a, <2>1, <2>3 DEF Goto, registry, Onward, After, Unsent, Sending
    <2> QED BY <1>8, <2>2, <2>3 DEF RegisterExchange
  <1>9. CASE Await(h)
    <2>1. Only(h) /\ local'[h].seq = local[h].seq
      BY <1>0, <1>9, AwaitLocal
    <2>2. pc[h] = "await" /\ UNCHANGED <<wire, sequence, persisted, registry>>
      BY <1>9 DEF Await, At, numbers
    <2>3. pc' = [pc EXCEPT ![h] = "finish"] \/ pc' = [pc EXCEPT ![h] = "await"]
      BY <1>0, <1>9, <2>2 DEF Await, Quit, Goto
    <2> QED BY <1>a, <2>1, <2>2, <2>3 DEF registry, Onward, After, Unsent, Sending
  <1>10. CASE FinishRequestForward(h)
    BY <1>a, <1>10, SMT DEF FinishRequestForward, At, Goto, numbers, Onward, After, Unsent, Sending
  <1> QED BY <1>1, <1>2, <1>3, <1>4, <1>5, <1>6, <1>7, <1>8, <1>9, <1>10

LEMMA PermitLapsesTurn ==
  ASSUME TurnInv, NEW r \in Requests, PermitLapses(r)
  PROVE  TurnInv'
  BY DEF TurnInv, PermitLapses, numbers, TurnTypes, LocalType, Numbered, WrittenOnce, ClearedTogether,
         Sleeping, TurnKept, NoLostWakeup

LEMMA RestartTurn ==
  ASSUME TurnInv, Restart
  PROVE  TurnInv'
  <1>1. /\ LocalType' /\ \A h \in Handlers : local'[h].seq = 0 /\ pc'[h] \in {"idle", "end"}
        /\ pc' \in [Actors -> PCs]
    BY FreshLocals DEF Restart, LocalType, Actors, PCs
  <1>2. UNCHANGED <<wire, persisted, sequence>> /\ Cleared
    BY DEF Restart, Cleared, TurnInv, TurnTypes
  <1> QED BY <1>1, <1>2, SMT DEF TurnInv, Cleared, TurnTypes, Numbered, WrittenOnce, ClearedTogether,
         Sleeping, TurnKept, NoLostWakeup, Outside, After, Unsent, Sending

\* A handler's step to label l that keeps its request.
Steps(h, l) ==
  /\ Only(h) /\ local'[h].seq = local[h].seq /\ pc' = [pc EXCEPT ![h] = l]
  /\ UNCHANGED <<sequence, persisted>>

LEMMA StepFacts ==
  ASSUME TurnInv, NEW h \in Handlers, NEW l \in PCs, Steps(h, l)
  PROVE  /\ \A g \in Handlers : local'[g].seq = local[g].seq
         /\ \A g \in Handlers : g # h => pc'[g] = pc[g]
         /\ pc'[h] = l /\ pc' \in [Actors -> PCs] /\ LocalType'
  BY DEF TurnInv, TurnTypes, Actors, Steps, Only

LEMMA StepNumbered ==
  ASSUME TurnInv, NEW h \in Handlers, NEW l \in PCs \ Outside, Steps(h, l), pc[h] \notin Outside
  PROVE  Numbered'
  <1>1. /\ \A g \in Handlers : local'[g].seq = local[g].seq
        /\ \A g \in Handlers : g # h => pc'[g] = pc[g]
        /\ pc'[h] = l /\ sequence' = sequence
    BY StepFacts DEF Steps
  <1>2. Numbered
    BY DEF TurnInv
  <1>3. \A g \in Handlers : local'[g].seq <= sequence' /\ (local'[g].seq = 0 <=> pc'[g] \in Outside)
    BY <1>1, <1>2 DEF Numbered
  <1> QED BY <1>1, <1>2, <1>3, SMT DEF Numbered

LEMMA IssuePermitTurn ==
  ASSUME TurnInv, NEW h \in Handlers, IssuePermit(h)
  PROVE  TurnInv'
  <1> USE DEF TurnInv
  <1>0. /\ LocalType /\ pc \in [Actors -> PCs] /\ h \in Actors /\ pc[h] = "admit" /\ wire' = wire
        /\ \A g \in Handlers : local[g].seq \in Nat
    BY DEF TurnTypes, Actors, IssuePermit, At, LocalType, Locals
  <1>a. \A g \in Handlers : pc[g] \in After /\ local[g].seq \notin active \ lapsed => local[g].seq \notin active
    BY DEF TurnTypes, WrittenOnce
  <1>1. CASE /\ NextSequence
             /\ permits' = (permits \ lapsed) \cup {sequence + 1}
             /\ active' = (active \ lapsed) \cup {sequence + 1}
             /\ lapsed' = {} /\ Stir
             /\ local' = [local EXCEPT ![h] = [NoLocal EXCEPT !.seq = sequence + 1]]
             /\ Goto(h, "permitted") /\ marked' = marked
    <2>1. /\ LocalType' /\ local'[h].seq = sequence + 1
          /\ \A g \in Handlers : g # h => local'[g] = local[g]
      <3>1. sequence + 1 \in Nat
        BY SMT DEF TurnTypes
      <3> QED BY <1>0, <1>1, <3>1, FreshLocals DEF LocalType
    <2>2. pc' \in [Actors -> PCs] /\ pc'[h] = "permitted" /\ \A g \in Handlers : g # h => pc'[g] = pc[g]
      BY <1>0, <1>1 DEF Goto, PCs, Actors
    <2>3. TurnTypes'
      BY <1>0, <1>1, <2>1, <2>2, SMT DEF TurnTypes, NextSequence
    <2>4. Numbered'
      BY <1>0, <1>1, <2>1, <2>2, SMT DEF TurnTypes, Numbered, NextSequence, Outside
    <2>5. WrittenOnce'
      <3>1. \A m \in DOMAIN wire : wire[m] \in 1 .. sequence /\ wire[m] # sequence + 1
        BY SMT DEF WrittenOnce, TurnTypes
      <3>2. \A g \in Handlers : g # h /\ pc[g] \in After => local'[g].seq \notin permits'
        BY <1>0, <1>1, <2>1, SMT DEF WrittenOnce, Numbered, TurnTypes
      <3> QED BY <1>0, <1>1, <2>1, <2>2, <3>1, <3>2, SMT DEF WrittenOnce, TurnTypes, NextSequence, After, Sending
    <2>6. ClearedTogether'
      BY <1>0, <1>a, <1>1, <2>1, <2>2, SMT DEF ClearedTogether, Numbered, TurnTypes, After, Sending
    <2>7. Sleeping' /\ NoLostWakeup'
      BY <1>1 DEF Stir, Sleeping, NoLostWakeup
    <2>8. TurnKept'
      BY <1>0, <1>1, <2>1, <2>2, SMT DEF TurnKept, Numbered, TurnTypes, Sending
    <2> QED BY <2>3, <2>4, <2>5, <2>6, <2>7, <2>8
  <1>2. CASE Pruned /\ Goto(h, "end") /\ UNCHANGED <<sequence, persisted, local, marked>>
    <2>2. pc' \in [Actors -> PCs] /\ pc'[h] = "end" /\ \A g \in Handlers : g # h => pc'[g] = pc[g]
      BY <1>0, <1>2 DEF Goto, PCs, Actors
    <2>3. TurnTypes'
      BY <1>0, <1>2, <2>2 DEF TurnTypes, LocalType, Pruned
    <2>4. Numbered'
      BY <1>0, <1>2, <2>2 DEF Numbered, Outside
    <2>5. WrittenOnce'
      BY <1>0, <1>2, <2>2 DEF WrittenOnce, Pruned, Unsent, After, Sending
    <2>6. ClearedTogether'
      BY <1>0, <1>a, <1>2, <2>2 DEF ClearedTogether, Pruned, After, Sending
    <2>7. Sleeping' /\ NoLostWakeup'
      BY <1>0, <1>2, <2>2 DEF Pruned, Sleeping, NoLostWakeup
    <2>8. TurnKept'
      BY <1>0, <1>2, <2>2 DEF TurnKept, Pruned, Sending
    <2> QED BY <2>3, <2>4, <2>5, <2>6, <2>7, <2>8
  <1> QED BY <1>1, <1>2 DEF IssuePermit

LEMMA ConsumePermitTurn ==
  ASSUME TurnInv, NEW h \in Handlers, ConsumePermit(h)
  PROVE  TurnInv'
  <1> USE DEF TurnInv
  <1>0. /\ LocalType /\ pc \in [Actors -> PCs] /\ h \in Actors /\ pc[h] = "permitted"
        /\ UNCHANGED <<wire, local, marked, sequence, persisted>>
    BY DEF TurnTypes, Actors, ConsumePermit, At, numbers
  <1>1. PICK l \in {"release", "forward"} : pc' = [pc EXCEPT ![h] = l]
    BY DEF ConsumePermit, Goto
  <1>2. Steps(h, l) /\ l \in PCs \ Outside
    BY <1>0, <1>1 DEF Steps, Only, LocalType, PCs, Outside
  <1>3. /\ permits' \subseteq permits /\ lapsed' \subseteq permits' /\ active' \subseteq active
        /\ \A r \in active \ active' : r = local[h].seq
        /\ permits' \subseteq active'
        /\ asleep' = {} \/ (asleep' = asleep /\ active' = active)
        /\ l = "forward" => local[h].seq \in active' \ permits'
    BY <1>0, <1>1 DEF ConsumePermit, TurnTypes, Stir, Goto, Actors
  <1>4. TurnTypes'
    BY <1>0, <1>2, <1>3, StepFacts DEF TurnTypes
  <1>5. Numbered'
    BY <1>0, <1>2, StepNumbered DEF Outside
  <1>6. WrittenOnce'
    BY <1>0, <1>2, <1>3, StepFacts, SMT DEF WrittenOnce, Unsent, After, Sending
  <1>7. ClearedTogether'
    BY <1>0, <1>2, <1>3, StepFacts, SMT DEF ClearedTogether, Numbered, Outside, After, Sending
  <1>8. Sleeping' /\ NoLostWakeup'
    BY <1>0, <1>2, <1>3, StepFacts DEF Sleeping, NoLostWakeup
  <1>9. TurnKept'
    BY <1>0, <1>2, <1>3, StepFacts DEF TurnKept, Sending
  <1> QED BY <1>4, <1>5, <1>6, <1>7, <1>8, <1>9

LEMMA WaitForSendTurnTurn ==
  ASSUME TurnInv, NEW h \in Handlers, WaitForSendTurn(h)
  PROVE  TurnInv'
  <1> USE DEF TurnInv
  <1> DEFINE r == local[h].seq
             awake == IF lapsed = {} THEN asleep ELSE {}
  <1>0. /\ LocalType /\ pc \in [Actors -> PCs] /\ h \in Actors /\ pc[h] = "turn" /\ h \notin asleep
        /\ UNCHANGED <<wire, marked, sequence, persisted>>
        /\ permits' = permits \ lapsed /\ active' = active \ lapsed /\ lapsed' = {}
        /\ \A g \in Handlers : local[g].seq \in Nat
    BY DEF TurnTypes, Actors, WaitForSendTurn, At, numbers, LocalType, Locals
  <1>a. \A g \in Handlers : pc[g] \in After /\ local[g].seq \notin active' => local[g].seq \notin active
    BY <1>0 DEF TurnTypes, WrittenOnce
  <1>1. PICK l \in {"turn", "finish", "validate"} :
          /\ Steps(h, l)
          /\ l = "turn" => asleep' = awake \cup {h} /\ r \in active' /\ Blocked(r)
          /\ l # "turn" => asleep' = awake
          /\ l = "validate" => r \notin active' \/ ~Blocked(r)
    <2>1. CASE /\ r \in active' /\ Blocked(r) /\ asleep' = awake \cup {h}
               /\ local' = [local EXCEPT ![h].tracked = TRUE] /\ UNCHANGED pc
      <3>1. Only(h) /\ local'[h].seq = r
        BY <1>0, <2>1, LocalFields DEF LocalType, Only
      <3>2. pc' = [pc EXCEPT ![h] = "turn"]
        BY <1>0, <2>1
      <3> QED BY <1>0, <2>1, <3>1, <3>2 DEF Steps
    <2>2. CASE ~(r \in active' /\ Blocked(r)) /\ asleep' = awake /\ Quit(h)
      BY <1>0, <2>2, QuitLocal DEF Steps, Quits
    <2>3. CASE /\ ~(r \in active' /\ Blocked(r)) /\ asleep' = awake /\ Goto(h, "validate")
               /\ local' = [local EXCEPT ![h].tracked = FALSE]
      <3>1. Only(h) /\ local'[h].seq = r
        BY <1>0, <2>3, LocalFields DEF LocalType, Only
      <3> QED BY <1>0, <2>3, <3>1 DEF Steps, Goto
    <2> QED BY <1>0, <2>1, <2>2, <2>3 DEF WaitForSendTurn
  <1>2. l \in PCs \ Outside
    BY DEF PCs, Outside, Sending
  <1>4. TurnTypes'
    BY <1>0, <1>1, <1>2, StepFacts DEF TurnTypes
  <1>5. Numbered'
    BY <1>0, <1>1, <1>2, StepNumbered DEF Outside
  <1>6. WrittenOnce'
    BY <1>0, <1>1, <1>2, StepFacts, SMT DEF WrittenOnce, Unsent, After, Sending
  <1>7. ClearedTogether'
    BY <1>0, <1>a, <1>1, <1>2, StepFacts, SMT DEF ClearedTogether, After, Sending
  <1>8. Sleeping'
    BY <1>0, <1>1, <1>2, StepFacts, SMT DEF Sleeping
  <1>9. NoLostWakeup'
    <2>1. \A g \in awake : g \in Handlers /\ local'[g].seq \in active'
                            /\ \E other \in active' : other < local'[g].seq /\ other \notin marked'
      BY <1>0, <1>1, <1>2, StepFacts DEF NoLostWakeup, Sleeping
    <2>2. l = "turn" => local'[h].seq \in active' /\ \E other \in active' : other < local'[h].seq /\ other \notin marked'
      BY <1>0, <1>1, <1>2, StepFacts DEF Blocked
    <2> QED BY <1>1, <2>1, <2>2 DEF NoLostWakeup
  <1>10. TurnKept'
    <2>1. l = "validate" => \A other \in active' : other < r => other \in marked
      <3>1. CASE r \notin active'
        <4>1. \A other \in active : other > r
          BY <1>0, <1>a, <3>1 DEF ClearedTogether, After
        <4>2. \A other \in active : other \in Nat
          BY SMT DEF TurnTypes
        <4> QED BY <1>0, <4>1, <4>2, SMT
      <3>2. CASE ~Blocked(r)
        BY <1>0, <3>2 DEF Blocked
      <3> QED BY <1>1, <3>1, <3>2
    <2> QED BY <1>0, <1>1, <1>2, <2>1, StepFacts DEF TurnKept, Sending
  <1> QED BY <1>4, <1>5, <1>6, <1>7, <1>8, <1>9, <1>10

LEMMA SendTurn ==
  ASSUME TurnInv, NEW h \in Handlers, Send(h)
  PROVE  TurnInv'
  <1> USE DEF TurnInv
  <1> DEFINE r == local[h].seq
  <1>0. /\ LocalType /\ pc \in [Actors -> PCs] /\ h \in Actors /\ pc[h] = "send" /\ r \in Nat
        /\ UNCHANGED <<registry, sequence, persisted>>
    BY DEF TurnTypes, Actors, Send, At, numbers, LocalType, Locals
  <1>1. CASE Quit(h) /\ UNCHANGED wire
    <2>1. Onward(h)
      BY <1>0, <1>1, QuitOnward DEF After, Sending
    <2> QED BY <2>1, OnwardKeeps
  <1>2. CASE Goto(h, "mark") /\ wire' = Append(wire, r) /\ UNCHANGED local
    <2>1. Steps(h, "mark") /\ "mark" \in PCs \ Outside
      BY <1>0, <1>2 DEF Steps, Only, LocalType, Goto, PCs, Outside
    <2>2. r \in 1 .. sequence
      BY <1>0, SMT DEF Numbered, Outside, TurnTypes
    <2>3. /\ wire' \in Seq(Nat)
          /\ \A m \in DOMAIN wire' : \/ m = Len(wire) + 1 /\ wire'[m] = r
                                     \/ m \in DOMAIN wire /\ wire'[m] = wire[m]
      BY <1>0, <1>2, SMT DEF TurnTypes
    <2>4. TurnTypes'
      BY <1>0, <2>1, <2>3, StepFacts DEF TurnTypes, registry
    <2>5. Numbered'
      BY <1>0, <2>1, StepNumbered DEF Outside
    <2>6. WrittenOnce'
      <3>1. \A g \in Handlers : g # h /\ pc[g] \in Unsent => local[g].seq # r
        BY <1>0, <2>2 DEF Numbered, Unsent, Outside, Sending
      <3>2. \A m \in DOMAIN wire' : wire'[m] \in 1 .. sequence'
        BY <1>0, <2>2, <2>3 DEF WrittenOnce
      <3>3. \A g \in Handlers : pc'[g] \in Unsent => g # h /\ pc[g] \in Unsent /\ local'[g].seq = local[g].seq
        BY <2>1, StepFacts DEF Unsent, Sending
      <3>4. \A g \in Handlers : pc'[g] \in Unsent => \A m \in DOMAIN wire' : wire'[m] # local'[g].seq
        BY <2>3, <3>1, <3>3 DEF WrittenOnce
      <3>5. \A g \in Handlers : pc'[g] \in After => local'[g].seq \notin permits'
        BY <1>0, <2>1, StepFacts DEF WrittenOnce, After, Sending, registry
      <3> QED BY <3>2, <3>4, <3>5 DEF WrittenOnce
    <2>7. ClearedTogether'
      BY <1>0, <2>1, StepFacts DEF ClearedTogether, After, Sending, registry
    <2>8. Sleeping' /\ NoLostWakeup'
      BY <1>0, <2>1, StepFacts DEF Sleeping, NoLostWakeup, registry
    <2>9. TurnKept'
      <3>1. \A m \in DOMAIN wire : wire[m] # r
        BY <1>0 DEF WrittenOnce, Unsent, Sending
      <3>2. \A m, n \in DOMAIN wire' : wire'[m] = wire'[n] => m = n
        BY <2>3, <3>1 DEF TurnKept
      <3> QED BY <1>0, <2>1, <3>2, StepFacts, SMT DEF TurnKept, Sending, registry
    <2> QED BY <2>4, <2>5, <2>6, <2>7, <2>8, <2>9
  <1> QED BY <1>1, <1>2 DEF Send

LEMMA MarkTurn ==
  ASSUME TurnInv, NEW h \in Handlers, MarkRequestSent(h)
  PROVE  TurnInv'
  <1> USE DEF TurnInv
  <1>0. /\ LocalType /\ pc \in [Actors -> PCs] /\ h \in Actors /\ pc[h] = "mark"
        /\ UNCHANGED <<wire, local, sequence, persisted, permits, lapsed, active>>
        /\ marked \subseteq marked' /\ (asleep' = {} \/ (asleep' = asleep /\ marked' = marked))
    BY DEF TurnTypes, Actors, MarkRequestSent, At, numbers, Stir
  <1>1. Steps(h, "await") /\ "await" \in PCs \ Outside
    BY <1>0 DEF MarkRequestSent, Steps, Only, LocalType, Goto, PCs, Outside
  <1>2. TurnTypes'
    BY <1>0, <1>1, StepFacts DEF TurnTypes
  <1>3. Numbered'
    BY <1>0, <1>1, StepNumbered DEF Outside
  <1>4. WrittenOnce'
    BY <1>0, <1>1, StepFacts, SMT DEF WrittenOnce, Unsent, After, Sending
  <1>5. ClearedTogether'
    BY <1>0, <1>1, StepFacts DEF ClearedTogether, After, Sending
  <1>6. Sleeping' /\ NoLostWakeup'
    BY <1>0, <1>1, StepFacts DEF Sleeping, NoLostWakeup
  <1>7. TurnKept'
    BY <1>0, <1>1, StepFacts, SMT DEF TurnKept, Sending
  <1> QED BY <1>2, <1>3, <1>4, <1>5, <1>6, <1>7

LEMMA ReleaseTurn ==
  ASSUME TurnInv, NEW h \in Handlers, ReleaseRequest(h)
  PROVE  TurnInv'
  <1> USE DEF TurnInv
  <1> DEFINE r == local[h].seq
  <1>0. /\ LocalType /\ pc \in [Actors -> PCs] /\ h \in Actors /\ pc[h] = "release" /\ r # 0
        /\ UNCHANGED <<wire, sequence, persisted>>
        /\ permits' = permits \ {r} /\ lapsed' = lapsed \ {r} /\ active' = active \ {r}
        /\ \/ asleep' = {} /\ marked' = marked \ {r}
           \/ r \notin active /\ UNCHANGED <<asleep, marked>>
    BY DEF TurnTypes, Actors, ReleaseRequest, At, numbers, Stir, Numbered, Outside
  <1>1. /\ LocalType' /\ local'[h].seq = 0
        /\ \A g \in Handlers : g # h => local'[g] = local[g] /\ (local[g].seq # r)
    BY <1>0, FreshLocals DEF ReleaseRequest, LocalType, Numbered
  <1>2. pc' \in [Actors -> PCs] /\ pc'[h] = "end" /\ \A g \in Handlers : g # h => pc'[g] = pc[g]
    BY <1>0 DEF ReleaseRequest, Goto, PCs, Actors
  <1>3. TurnTypes'
    BY <1>0, <1>1, <1>2 DEF TurnTypes
  <1>4. Numbered'
    BY <1>0, <1>1, <1>2, SMT DEF Numbered, Outside, TurnTypes
  <1>5. WrittenOnce'
    BY <1>0, <1>1, <1>2, SMT DEF WrittenOnce, Unsent, After, Sending
  <1>6. ClearedTogether'
    BY <1>0, <1>1, <1>2 DEF ClearedTogether, After, Sending
  <1>7. Sleeping' /\ NoLostWakeup'
    BY <1>0, <1>1, <1>2 DEF Sleeping, NoLostWakeup
  <1>8. TurnKept'
    BY <1>0, <1>1, <1>2 DEF TurnKept, Sending
  <1> QED BY <1>3, <1>4, <1>5, <1>6, <1>7, <1>8

LEMMA TurnInit == Init => TurnInv
  <1> SUFFICES ASSUME Init PROVE TurnInv
    OBVIOUS
  <1>1. LocalType /\ \A h \in Handlers : local[h].seq = 0 /\ pc[h] = "idle"
    BY FreshLocals DEF Init, LocalType, Actors
  <1> QED BY <1>1, SMT DEF Init, TurnInv, TurnTypes, Numbered, WrittenOnce, ClearedTogether, Sleeping, TurnKept,
                      NoLostWakeup, Outside, After, Unsent, Sending, PCs

LEMMA TurnStep == TurnInv /\ BindingTypes /\ [Next]_vars => TurnInv'
  <1> SUFFICES ASSUME TurnInv, BindingTypes, [Next]_vars PROVE TurnInv'
    OBVIOUS
  <1>1. CASE UNCHANGED vars
    <2>1. Elsewhere
      BY <1>1 DEF vars, registry, numbers, Elsewhere, Kept, TurnInv, TurnTypes, LocalType
    <2> QED BY <2>1, ElsewhereKeeps
  <1>2. ASSUME NEW h \in Handlers, HandlerStep(h) \/ TurnLost(h) PROVE TurnInv'
    BY <1>2, OutsideTurn, OnwardTurn, IssuePermitTurn, ConsumePermitTurn, WaitForSendTurnTurn, SendTurn,
       MarkTurn, ReleaseTurn DEF HandlerStep
  <1>3. CASE LoopStep
    BY <1>3, LoopTurn
  <1>4. CASE Outer
    BY <1>4, OuterTurn
  <1>5. CASE (\E r \in Requests : PermitLapses(r)) \/ Restart
    BY <1>5, PermitLapsesTurn, RestartTurn
  <1> QED BY <1>1, <1>2, <1>3, <1>4, <1>5 DEF Next, Outer


-----------------------------------------------------------------------------
(* The relay. *)

\* Who opens a relay holds relayMu.
RelayLocked ==
  /\ relayMu \in Handlers \cup {Nobody}
  /\ \A h \in Handlers : pc[h] \in {"dial", "install"} => relayMu = h

\* A handler for which the epoch still holds is about to open a relay of the
\* binding's generation; so is one that opens it, unless somebody is to close it.
RelayCurrent ==
  /\ \A h \in Handlers : pc[h] = "relay" /\ h \in fresh => Renewable /\ binding.gen = local[h].gen
  /\ \A h \in Handlers : pc[h] \in {"dial", "install"} /\ closers = {}
                           => Renewable /\ binding.gen = local[h].gen

RelayInv == RelayLocked /\ RelayCurrent /\ NoStaleRelay

\* A step that leaves an epoch valid, or nobody to close the relay, leaves the binding
\* renewable in its generation.
LEMMA RenewableType ==
  ASSUME BindingTypes
  PROVE  Renewable => /\ binding.bound /\ binding.mode \in {"healthy", "grace"}
                      /\ \A m \in {"healthy", "grace"} :
                           LET b == [binding EXCEPT !.mode = m]
                           IN  b.bound /\ b.mode = m /\ b.gen = binding.gen
  BY DEF BindingTypes, Bindings, Renewable

Lasting == Renewable => Renewable' /\ binding'.gen = binding.gen

LEMMA FailureLasts ==
  ASSUME BindingTypes, NEW a, RenewalFails(a), fresh' # {} \/ closers' = {}
  PROVE  Lasting
  BY RenewableType DEF RenewalFails, Expire, ClearMaterials, bindingVars, Renewable, Lasting

LEMMA RenewalLasts ==
  ASSUME BindingTypes, NEW a, RenewReturns(a), fresh' # {} \/ closers' = {}
  PROVE  Lasting
  BY RenewableType, FailureLasts DEF RenewReturns, Renewable, Lasting

LEMMA LoopLasts ==
  ASSUME BindingTypes, LoopStep, fresh' # {} \/ closers' = {}
  PROVE  Lasting
  <1>1. CASE Refresh
    BY <1>1, FailureLasts DEF Refresh, bindingVars, Renewable, Lasting
  <1>2. CASE SetBindings
    BY <1>2, SMT DEF SetBindings, AdoptFetched, Adopt, ClearMaterials, bindingVars, Renewable, Lasting
  <1>3. CASE RenewDue
    BY <1>3 DEF RenewDue, BeginRenewal, Expire, ClearMaterials, bindingVars, Renewable, Lasting
  <1> QED BY <1>1, <1>2, <1>3, RenewalLasts DEF LoopStep

\* A step that opens and closes no relay.
Aside ==
  /\ Lasting \/ (fresh' = {} /\ closers' # {})
  /\ relayMu' = relayMu /\ relayGen' = relayGen /\ relay' \in {0, relay}
  /\ closers' = {} => closers = {}
  /\ \A g \in Handlers : pc'[g] \in {"relay", "dial", "install"} =>
       pc[g] = pc'[g] /\ local'[g].gen = local[g].gen /\ (g \in fresh' => g \in fresh)

LEMMA AsideKeeps == RelayInv /\ Aside => RelayInv'
  <1> SUFFICES ASSUME RelayInv, Aside PROVE RelayInv'
    OBVIOUS
  <1>1. RelayLocked'
    BY DEF RelayInv, RelayLocked, Aside
  <1>2. RelayCurrent'
    BY DEF RelayInv, RelayCurrent, Aside, Lasting
  <1>3. NoStaleRelay'
    BY DEF RelayInv, NoStaleRelay, Aside, Lasting
  <1> QED BY <1>1, <1>2, <1>3 DEF RelayInv

LEMMA HandlerAside ==
  ASSUME TurnInv, BindingTypes, NEW h \in Handlers,
         \/ Connect(h) \/ RenewReturns(h) \/ IssuePermit(h) \/ ConsumePermit(h) \/ ReadMetadata(h)
         \/ LoadEpoch(h) \/ WaitForSendTurn(h) \/ TurnLost(h) \/ RegisterExchange(h) \/ Send(h)
         \/ MarkRequestSent(h) \/ Await(h) \/ FinishRequestForward(h) \/ ReleaseRequest(h)
  PROVE  Aside
  <1>0. LocalType /\ pc \in [Actors -> PCs] /\ h \in Actors /\ h # Loop
    BY LoopIsNoHandler DEF TurnInv, TurnTypes, Actors
  <1>1. /\ \A g \in Handlers : g # h => local'[g] = local[g] /\ pc'[g] = pc[g]
        /\ pc'[h] \notin {"relay", "dial", "install"}
    <2>1. CASE Connect(h) \/ RenewReturns(h)
      BY <1>0, <2>1 DEF Connect, BeginRenewal, RenewReturns, Goto, LocalType, Actors
    <2>2. CASE IssuePermit(h) \/ ConsumePermit(h) \/ ReadMetadata(h) \/ LoadEpoch(h)
      BY <1>0, <2>2 DEF IssuePermit, ConsumePermit, ReadMetadata, LoadEpoch, Quit, Goto, LocalType, Actors
    <2>3. CASE WaitForSendTurn(h) \/ TurnLost(h) \/ RegisterExchange(h) \/ Send(h)
      BY <1>0, <2>3 DEF WaitForSendTurn, TurnLost, RegisterExchange, Send, Quit, Goto, At, LocalType, Actors
    <2>4. CASE MarkRequestSent(h) \/ Await(h) \/ FinishRequestForward(h) \/ ReleaseRequest(h)
      BY <1>0, <2>4 DEF MarkRequestSent, Await, FinishRequestForward, ReleaseRequest, Quit, Goto, At,
                        LocalType, Actors
    <2> QED BY <2>1, <2>2, <2>3, <2>4
  <1>2. fresh' \subseteq fresh \cup {h} /\ (closers' = {} => closers = {})
    BY DEF Connect, BeginRenewal, RenewReturns, RenewalFails, Expire, ClearMaterials, IssuePermit,
           ConsumePermit, ReadMetadata, LoadEpoch, WaitForSendTurn, TurnLost, RegisterExchange, Send,
           MarkRequestSent, Await, FinishRequestForward, ReleaseRequest, Quit, bindingVars
  <1>3. relayMu' = relayMu /\ relayGen' = relayGen /\ relay' \in {0, relay}
    BY DEF Connect, RenewReturns, IssuePermit, ConsumePermit, ReadMetadata, LoadEpoch, WaitForSendTurn,
           TurnLost, RegisterExchange, Send, MarkRequestSent, Await, FinishRequestForward, ReleaseRequest,
           FailRelay, relayVars
  <1>4. Lasting \/ (fresh' = {} /\ closers' # {})
    <2>1. CASE Connect(h)
      BY <2>1 DEF Connect, BeginRenewal, Expire, ClearMaterials, bindingVars, Renewable, Lasting
    <2>2. CASE RenewReturns(h)
      BY <2>2, RenewalLasts
    <2>3. CASE ~Connect(h) /\ ~RenewReturns(h)
      BY <2>3 DEF IssuePermit, ConsumePermit, ReadMetadata, LoadEpoch, WaitForSendTurn, TurnLost,
             RegisterExchange, Send, MarkRequestSent, Await, FinishRequestForward, ReleaseRequest,
             bindingVars, Renewable, Lasting
    <2> QED BY <2>1, <2>2, <2>3
  <1> QED BY <1>1, <1>2, <1>3, <1>4 DEF Aside

LEMMA LoopAside == TurnInv /\ BindingTypes /\ LoopStep => Aside
  <1> SUFFICES ASSUME TurnInv, BindingTypes, LoopStep PROVE Aside
    OBVIOUS
  <1>0. pc \in [Actors -> PCs] /\ Loop \in Actors /\ Loop \notin Handlers
    BY LoopIsNoHandler DEF TurnInv, TurnTypes, Actors
  <1>1. UNCHANGED local /\ \A g \in Handlers : pc'[g] = pc[g]
    BY <1>0 DEF LoopStep, Refresh, SetBindings, RenewDue, BeginRenewal, RenewReturns, Goto, Actors
  <1>2. fresh' \subseteq fresh /\ (closers' = {} => closers = {})
    BY DEF LoopStep, Refresh, SetBindings, AdoptFetched, Adopt, RenewDue, BeginRenewal, RenewReturns,
           RenewalFails, Expire, ClearMaterials, bindingVars
  <1>3. UNCHANGED relayVars
    BY DEF LoopStep, Refresh, SetBindings, RenewDue, RenewReturns
  <1>4. Lasting \/ (fresh' = {} /\ closers' # {})
    BY LoopLasts
  <1> QED BY <1>1, <1>2, <1>3, <1>4 DEF Aside, relayVars

LEMMA OuterAside ==
  ASSUME BindingTypes, Outer \/ \E r \in Requests : PermitLapses(r), ~\E c \in closers : CloseRelay(c)
  PROVE  Aside
  <1>1. UNCHANGED <<pc, local, binding>>
    BY DEF Outer, PermitLapses, Deliver, CancelRequest, RelayBreaks, Reload,
           UnregisterToolSession, RegisterToolSession, CancelReturns, CancelTimesOut, PlaneChanges, bindingVars
  <1>2. fresh' \subseteq fresh /\ (closers' = {} => closers = {})
    BY DEF Outer, PermitLapses, Deliver, CancelRequest, RelayBreaks, Reload, UnregisterToolSession,
           RegisterToolSession, CancelReturns, CancelTimesOut, PlaneChanges, ClearMaterials, bindingVars
  <1>3. relayMu' = relayMu /\ relayGen' = relayGen /\ relay' \in {0, relay}
    BY DEF Outer, PermitLapses, Deliver, CancelRequest, RelayBreaks, FailRelay, Reload,
           UnregisterToolSession, RegisterToolSession, CancelReturns, CancelTimesOut, PlaneChanges, relayVars
  <1> QED BY <1>1, <1>2, <1>3 DEF Aside, Lasting, Renewable

LEMMA OpeningKeeps ==
  ASSUME TurnInv, BindingTypes, RelayInv, NEW h \in Handlers,
         ValidateForwardBinding(h) \/ EnsureRelaySession(h) \/ DialReturns(h) \/ InstallRelay(h)
  PROVE  RelayInv'
  <1>0. LocalType /\ pc \in [Actors -> PCs] /\ h \in Actors /\ Nobody \notin Handlers
    BY BrokerAssumption DEF TurnInv, TurnTypes, Actors
  <1>1. UNCHANGED <<binding, closers>> /\ fresh' \subseteq fresh /\ (Renewable' <=> Renewable)
    BY DEF ValidateForwardBinding, EnsureRelaySession, DialReturns, InstallRelay, Quit, Hold, Renewable
  <1>2. \A g \in Handlers : g # h => local'[g] = local[g] /\ pc'[g] = pc[g]
    BY <1>0 DEF ValidateForwardBinding, EnsureRelaySession, DialReturns, InstallRelay, Quit, Hold, Goto,
                LocalType, Actors
  <1>3. pc'[h] \in {"relay", "dial", "install"} => local'[h] = local[h]
    BY <1>0 DEF ValidateForwardBinding, EnsureRelaySession, DialReturns, InstallRelay, Quit, Goto, Actors
  <1>4. CASE ValidateForwardBinding(h)
    <2>1. /\ UNCHANGED relayVars /\ pc'[h] \in {"relay", "finish"}
          /\ pc'[h] = "relay" => Renewable /\ binding.gen = local[h].gen
      BY <1>0, <1>4 DEF ValidateForwardBinding, Quit, Goto, Admitting, Renewable, Actors
    <2> QED BY <1>1, <1>2, <1>3, <2>1 DEF RelayInv, RelayLocked, RelayCurrent, NoStaleRelay, relayVars
  <1>5. CASE EnsureRelaySession(h)
    <2>1. /\ UNCHANGED <<relay, relayGen>> /\ pc[h] = "relay" /\ relayMu = Nobody
          /\ \/ pc'[h] \in {"finish", "register"} /\ relayMu' = relayMu
             \/ pc'[h] = "dial" /\ relayMu' = h /\ h \in fresh
      BY <1>0, <1>5 DEF EnsureRelaySession, At, Quit, Goto, Actors
    <2> QED BY <1>0, <1>1, <1>2, <1>3, <2>1, SMT DEF RelayInv, RelayLocked, RelayCurrent, NoStaleRelay
  <1>6. CASE DialReturns(h)
    <2>1. /\ UNCHANGED <<relay, relayGen>> /\ pc[h] = "dial"
          /\ \/ pc'[h] = "finish" /\ relayMu' = Nobody
             \/ pc'[h] = "install" /\ relayMu' = relayMu
      BY <1>0, <1>6 DEF DialReturns, At, Quit, Goto, Actors
    <2> QED BY <1>0, <1>1, <1>2, <1>3, <2>1, SMT DEF RelayInv, RelayLocked, RelayCurrent, NoStaleRelay
  <1>7. CASE InstallRelay(h)
    <2>1. pc[h] = "install" /\ pc'[h] = "register" /\ relayMu' = Nobody
      BY <1>0, <1>7 DEF InstallRelay, At, Goto, Actors
    <2>2. relayGen'[relay'] = local[h].gen
      BY <1>0, <1>7, SMT DEF InstallRelay, BindingTypes, LocalType, Locals
    <2> QED BY <1>0, <1>1, <1>2, <2>1, <2>2, SMT DEF RelayInv, RelayLocked, RelayCurrent, NoStaleRelay
  <1> QED BY <1>4, <1>5, <1>6, <1>7

LEMMA RelayInit == Init => RelayInv
  BY DEF Init, RelayInv, RelayLocked, RelayCurrent, NoStaleRelay, Actors

LEMMA RelayStep == TurnInv /\ BindingTypes /\ RelayInv /\ [Next]_vars => RelayInv'
  <1> SUFFICES ASSUME TurnInv, BindingTypes, RelayInv, [Next]_vars PROVE RelayInv'
    OBVIOUS
  <1>1. CASE UNCHANGED vars
    <2>1. Aside
      BY <1>1 DEF vars, bindingVars, relayVars, Aside, Lasting, Renewable
    <2> QED BY <2>1, AsideKeeps
  <1>2. ASSUME NEW h \in Handlers, HandlerStep(h) \/ TurnLost(h) PROVE RelayInv'
    BY <1>2, HandlerAside, OpeningKeeps, AsideKeeps DEF HandlerStep
  <1>3. CASE LoopStep
    BY <1>3, LoopAside, AsideKeeps
  <1>4. CASE \E c \in closers : CloseRelay(c)
    <2>1. relay' = 0 /\ relayMu = Nobody /\ relayMu' = Nobody /\ UNCHANGED <<pc, local, fresh, binding>>
      BY <1>4 DEF CloseRelay, bindingVars
    <2>2. Nobody \notin Handlers
      BY BrokerAssumption
    <2> QED BY <2>1, <2>2 DEF RelayInv, RelayLocked, RelayCurrent, NoStaleRelay, Renewable
  <1>5. CASE Restart
    <2>1. \A h \in Handlers : pc'[h] \in {"idle", "end"}
      BY <1>5 DEF Restart, Actors
    <2> QED BY <1>5, <2>1 DEF Restart, RelayInv, RelayLocked, RelayCurrent, NoStaleRelay
  <1>6. CASE (Outer \/ \E r \in Requests : PermitLapses(r)) /\ ~\E c \in closers : CloseRelay(c)
    BY <1>6, OuterAside, AsideKeeps
  <1> QED BY <1>1, <1>2, <1>3, <1>4, <1>5, <1>6 DEF Next, Outer

-----------------------------------------------------------------------------
(* Cancellations. *)

\* Handlers that have not asked for a number; every other one took at most one.
Ahead == {h \in Handlers : pc[h] \in {"idle", "renew", "admit"}}
Counted == sequence + Cardinality(Ahead) <= Cardinality(Handlers)

\* A request that was written, whose forward is over or that a task waits for has its
\* permit behind it, so that no expiry takes it out of the registry unseen.
CancelInv ==
  /\ finished \subseteq 1 .. sequence /\ observed \subseteq finished
  /\ \A m \in DOMAIN wire : wire[m] \notin permits
  /\ \A r \in finished : r \notin permits
  /\ waiting \notin permits
  /\ observed \subseteq active \cup {waiting}
  /\ waiting # 0 => waiting \in active \cup finished

Exchanges == [state : {"none", "pending", "abandoned", "answer", "error"}, relay : Nat]

\* Places of a request whose forward is not over.
Open == {"permitted"} \cup After

\* The answer stays in the exchange of a request from the handler's look at it until
\* nobody asks whether it was observed.
AnswerInv ==
  /\ exchange \in [Requests -> Exchanges]
  /\ \A h \in Handlers : pc[h] \in Open => local[h].seq \notin observed
  /\ \A h \in Handlers : local[h].ok => /\ pc[h] \in {"finish", "release"}
                                        /\ pc[h] = "finish" => exchange[local[h].seq].state = "answer"
  /\ \A r \in observed : exchange[r].state = "answer"

Early == {"idle", "renew", "admit"}

\* Nobody comes back before its number, and who takes one leaves the others behind.
Fewer ==
  \/ sequence' = sequence /\ \A g \in Handlers : pc'[g] \in Early => pc[g] \in Early
  \/ /\ sequence' = sequence + 1
     /\ \E h \in Handlers : /\ pc[h] \in Early /\ pc'[h] \notin Early
                            /\ \A g \in Handlers : g # h => pc'[g] = pc[g]

LEMMA NextFewer ==
  ASSUME TurnInv, Next
  PROVE  Fewer
  <1>0. pc \in [Actors -> PCs] /\ persisted = sequence /\ Handlers \subseteq Actors /\ Loop \notin Handlers
    BY LoopIsNoHandler DEF TurnInv, TurnTypes, Actors
  <1>1. ASSUME NEW h \in Handlers, HandlerStep(h) \/ TurnLost(h) PROVE Fewer
    <2>0. h # Loop /\ h \in Actors
      BY <1>0
    <2>1. CASE Connect(h) \/ RenewReturns(h)
      BY <1>0, <2>0, <2>1 DEF Connect, BeginRenewal, RenewReturns, At, Goto, numbers, Fewer, Early
    <2>2. CASE IssuePermit(h)
      BY <1>0, <2>0, <2>2 DEF IssuePermit, At, Goto, NextSequence, Fewer, Early
    <2>3. CASE ConsumePermit(h) \/ ReadMetadata(h) \/ LoadEpoch(h) \/ WaitForSendTurn(h) \/ TurnLost(h)
      BY <1>0, <2>0, <2>3 DEF ConsumePermit, ReadMetadata, LoadEpoch, WaitForSendTurn, TurnLost, Quit, At, Goto,
                              numbers, Fewer, Early
    <2>4. CASE \/ ValidateForwardBinding(h) \/ EnsureRelaySession(h) \/ DialReturns(h) \/ InstallRelay(h)
               \/ RegisterExchange(h) \/ Send(h)
      BY <1>0, <2>0, <2>4 DEF ValidateForwardBinding, EnsureRelaySession, DialReturns, InstallRelay,
                              RegisterExchange, Send, Quit, At, Goto, numbers, Fewer, Early
    <2>5. CASE MarkRequestSent(h) \/ Await(h) \/ FinishRequestForward(h) \/ ReleaseRequest(h)
      BY <1>0, <2>0, <2>5 DEF MarkRequestSent, Await, FinishRequestForward, ReleaseRequest, Quit, At, Goto,
                              numbers, Fewer, Early
    <2> QED BY <1>1, <2>1, <2>2, <2>3, <2>4, <2>5 DEF HandlerStep
  <1>2. CASE LoopStep
    BY <1>0, <1>2 DEF LoopStep, Refresh, SetBindings, RenewDue, BeginRenewal, RenewReturns, Goto, numbers,
                      Fewer, Actors
  <1>3. CASE Outer \/ \E r \in Requests : PermitLapses(r)
    BY <1>3 DEF Outer, PermitLapses, CloseRelay, Deliver, CancelRequest, RelayBreaks, Reload,
                UnregisterToolSession, RegisterToolSession, CancelReturns, CancelTimesOut, PlaneChanges,
                numbers, Fewer
  <1>4. CASE Restart
    BY <1>0, <1>4 DEF Restart, Fewer, Early
  <1> QED BY <1>1, <1>2, <1>3, <1>4 DEF Next, Outer

LEMMA CountStep == TurnInv /\ Counted /\ [Next]_vars => Counted'
  <1> SUFFICES ASSUME TurnInv, Counted, [Next]_vars PROVE Counted'
    OBVIOUS
  <1> DEFINE before == {h \in Handlers : pc[h] \in Early}
             after == {h \in Handlers : pc'[h] \in Early}
  <1>0. /\ Ahead = before /\ Ahead' = after /\ IsFiniteSet(Handlers) /\ IsFiniteSet(before)
        /\ Cardinality(Handlers) \in Nat /\ Cardinality(before) \in Nat /\ sequence \in Nat
    BY BrokerAssumption, FS_Subset, FS_CardinalityType DEF Ahead, Early, TurnInv, TurnTypes
  <1>1. CASE sequence' = sequence /\ after \subseteq before
    <2>1. Cardinality(after) <= Cardinality(before) /\ Cardinality(after) \in Nat
      BY <1>0, <1>1, FS_Subset, FS_CardinalityType
    <2> QED BY <1>0, <1>1, <2>1, SMT DEF Counted
  <1>2. ASSUME sequence' = sequence + 1, NEW h \in before, after = before \ {h} PROVE Counted'
    <2> HIDE DEF before, after
    <2>1. Cardinality(before \ {h}) = IF h \in before THEN Cardinality(before) - 1 ELSE Cardinality(before)
      BY <1>0, FS_RemoveElement
    <2>2. Cardinality(after) = Cardinality(before) - 1
      BY <1>2, <2>1
    <2> QED BY <1>0, <1>2, <2>2, SMT DEF Counted
  <1>3. CASE UNCHANGED vars
    BY <1>1, <1>3 DEF vars, numbers
  <1>4. CASE Next
    BY <1>1, <1>2, <1>4, NextFewer DEF Fewer
  <1> QED BY <1>3, <1>4

LEMMA NumbersAreRequests ==
  ASSUME TurnInv, Counted
  PROVE  1 .. sequence \subseteq Requests
  <1>1. /\ Cardinality(Handlers) \in Nat /\ Cardinality(Ahead) \in Nat /\ sequence \in Nat
    BY BrokerAssumption, FS_Subset, FS_CardinalityType DEF Ahead, TurnInv, TurnTypes
  <1> QED BY <1>1, SMT DEF Counted, Requests

\* The registry as a cancellation sees it.
Seen == <<finished, observed, waiting, active, permits, wire, sequence>>

LEMMA SeenKeeps == CancelInv /\ UNCHANGED Seen => CancelInv'
  BY DEF CancelInv, Seen

LEMMA ClearedKeeps ==
  ASSUME CancelInv, TurnInv, ClearMaterials, UNCHANGED <<waiting, wire, sequence>>
  PROVE  CancelInv'
  <1>1. active \subseteq 1 .. sequence
    BY DEF TurnInv, TurnTypes
  <1> QED BY <1>1 DEF CancelInv, ClearMaterials

LEMMA FailureClears ==
  ASSUME NEW a, RenewalFails(a)
  PROVE  UNCHANGED registry \/ ClearMaterials
  BY DEF RenewalFails, Expire

\* The steps of the loop, of a handler without a request and of a reload leave the
\* registry as it is or empty it.
LEMMA LoopCancel ==
  ASSUME TurnInv, CancelInv,
         LoopStep \/ (\E h \in Handlers : Connect(h) \/ RenewReturns(h)) \/ Reload \/ UnregisterToolSession
  PROVE  CancelInv'
  <1>1. UNCHANGED <<waiting, wire, sequence>>
    BY DEF LoopStep, Refresh, SetBindings, RenewDue, RenewReturns, Connect, Reload, UnregisterToolSession,
           cancelVars, numbers
  <1>2. UNCHANGED registry \/ ClearMaterials
    <2>1. CASE Refresh \/ (\E a \in Actors : RenewReturns(a))
      BY <2>1, FailureClears DEF Refresh, RenewReturns
    <2>2. CASE SetBindings
      BY <2>2 DEF SetBindings, AdoptFetched, Adopt
    <2>3. CASE RenewDue \/ (\E h \in Handlers : Connect(h))
      BY <2>3 DEF RenewDue, Connect, BeginRenewal, Expire
    <2>4. CASE Reload \/ UnregisterToolSession
      BY <2>4 DEF Reload, UnregisterToolSession
    <2> QED BY <2>1, <2>2, <2>3, <2>4 DEF LoopStep, Actors
  <1> QED BY <1>1, <1>2, SeenKeeps, ClearedKeeps DEF registry, Seen

LEMMA HandlerSeen ==
  ASSUME NEW h \in Handlers,
         \/ ReadMetadata(h) \/ LoadEpoch(h) \/ TurnLost(h) \/ ValidateForwardBinding(h)
         \/ EnsureRelaySession(h) \/ DialReturns(h) \/ InstallRelay(h) \/ RegisterExchange(h)
         \/ MarkRequestSent(h) \/ Await(h)
  PROVE  UNCHANGED Seen
  <1>1. CASE ReadMetadata(h) \/ LoadEpoch(h) \/ TurnLost(h) \/ ValidateForwardBinding(h) \/ MarkRequestSent(h)
    BY <1>1 DEF ReadMetadata, LoadEpoch, TurnLost, ValidateForwardBinding, MarkRequestSent, registry, cancelVars,
                numbers, Seen
  <1>2. CASE EnsureRelaySession(h) \/ DialReturns(h) \/ InstallRelay(h) \/ RegisterExchange(h) \/ Await(h)
    BY <1>2 DEF EnsureRelaySession, DialReturns, InstallRelay, RegisterExchange, Await, registry, cancelVars,
                numbers, Seen
  <1> QED BY <1>1, <1>2

LEMMA OuterSeen ==
  ASSUME \/ \E c \in closers : CloseRelay(c)
         \/ \E r \in Requests : PermitLapses(r) \/ Deliver(r)
         \/ RelayBreaks \/ RegisterToolSession \/ PlaneChanges
  PROVE  UNCHANGED Seen
  BY DEF CloseRelay, PermitLapses, Deliver, RelayBreaks, RegisterToolSession, PlaneChanges, registry, cancelVars,
         numbers, Seen

\* An expired permit is of a request that nobody waits for.
LEMMA IssuePermitCancel ==
  ASSUME TurnInv, CancelInv, NEW h \in Handlers, IssuePermit(h)
  PROVE  CancelInv'
  <1>0. /\ UNCHANGED <<finished, observed, waiting, wire>> /\ lapsed \subseteq permits
        /\ sequence \in Nat /\ active \subseteq 1 .. sequence
        /\ \A m \in DOMAIN wire : wire[m] \in 1 .. sequence
    BY DEF IssuePermit, cancelVars, TurnInv, TurnTypes, WrittenOnce
  <1>1. CASE /\ sequence' = sequence + 1 /\ permits' = (permits \ lapsed) \cup {sequence + 1}
             /\ active' = (active \ lapsed) \cup {sequence + 1}
    <2>1. /\ 1 .. sequence \subseteq 1 .. (sequence + 1)
          /\ sequence + 1 \notin 1 .. sequence /\ sequence + 1 # 0
      BY <1>0, SMT
    <2>2. waiting # sequence + 1
      BY <1>0, <2>1 DEF CancelInv
    <2> QED BY <1>0, <1>1, <2>1, <2>2 DEF CancelInv
  <1>2. CASE permits' = permits \ lapsed /\ active' = active \ lapsed /\ sequence' = sequence
    BY <1>0, <1>2 DEF CancelInv
  <1> QED BY <1>1, <1>2 DEF IssuePermit, NextSequence, Pruned

LEMMA ConsumePermitCancel ==
  ASSUME TurnInv, CancelInv, NEW h \in Handlers, ConsumePermit(h)
  PROVE  CancelInv'
  <1>1. /\ UNCHANGED <<finished, observed, waiting, wire, sequence>> /\ permits' \subseteq permits
        /\ lapsed \subseteq permits
        /\ active' = active \/ (\E r \in lapsed : active' = active \ {r})
    BY DEF ConsumePermit, cancelVars, numbers, TurnInv, TurnTypes
  <1> QED BY <1>1 DEF CancelInv

LEMMA WaitForSendTurnCancel ==
  ASSUME TurnInv, CancelInv, NEW h \in Handlers, WaitForSendTurn(h)
  PROVE  CancelInv'
  <1>1. /\ UNCHANGED <<finished, observed, waiting, wire, sequence>> /\ lapsed \subseteq permits
        /\ permits' = permits \ lapsed /\ active' = active \ lapsed
    BY DEF WaitForSendTurn, cancelVars, numbers, TurnInv, TurnTypes
  <1> QED BY <1>1 DEF CancelInv

LEMMA SendCancel ==
  ASSUME TurnInv, CancelInv, NEW h \in Handlers, Send(h)
  PROVE  CancelInv'
  <1>1. UNCHANGED <<finished, observed, waiting, active, permits, sequence>>
    BY DEF Send, registry, cancelVars, numbers
  <1>2. pc[h] \in After /\ local[h].seq \notin permits
    BY DEF Send, At, After, Sending, TurnInv, WrittenOnce
  <1>3. wire' = wire \/ wire' = Append(wire, local[h].seq)
    BY DEF Send
  <1>4. wire \in Seq(Nat) /\ local[h].seq \in Nat
    BY DEF TurnInv, TurnTypes, LocalType, Locals
  <1>5. \A m \in DOMAIN wire' : wire'[m] \notin permits
    <2>1. ASSUME NEW m \in DOMAIN wire', wire' = Append(wire, local[h].seq)
          PROVE  wire'[m] = local[h].seq \/ (m \in DOMAIN wire /\ wire'[m] = wire[m])
      BY <1>4, <2>1, SMT
    <2> QED BY <1>2, <1>3, <2>1 DEF CancelInv
  <1> QED BY <1>1, <1>5 DEF CancelInv

LEMMA FinishCancel ==
  ASSUME TurnInv, CancelInv, NEW h \in Handlers, FinishRequestForward(h)
  PROVE  CancelInv'
  <1> DEFINE r == local[h].seq
  <1>1. /\ UNCHANGED <<waiting, active, permits, wire, sequence>> /\ finished' = finished \cup ({r} \cap active)
        /\ observed' = observed \/ observed' = observed \cup ({r} \cap active)
    BY DEF FinishRequestForward, cancelVars, numbers
  <1>2. r \notin permits /\ active \subseteq 1 .. sequence
    BY DEF FinishRequestForward, At, After, TurnInv, TurnTypes, WrittenOnce
  <1> QED BY <1>1, <1>2 DEF CancelInv

LEMMA ReleaseCancel ==
  ASSUME TurnInv, CancelInv, NEW h \in Handlers, ReleaseRequest(h)
  PROVE  CancelInv'
  <1> DEFINE r == local[h].seq
  <1>1. /\ UNCHANGED <<waiting, wire, sequence>> /\ permits' = permits \ {r}
        /\ active \subseteq 1 .. sequence
    BY DEF ReleaseRequest, numbers, TurnInv, TurnTypes
  <1>2. CASE r \notin active
    BY <1>1, <1>2 DEF ReleaseRequest, CancelInv
  <1>3. CASE r \in active /\ r = waiting
    <2>1. finished' = finished \cup {r} /\ observed' = observed /\ active' = active \ {r}
      BY <1>3 DEF ReleaseRequest
    <2> QED BY <1>1, <1>3, <2>1 DEF CancelInv
  <1>4. CASE r \in active /\ r # waiting
    <2>1. finished' = finished \ {r} /\ observed' = observed \ {r} /\ active' = active \ {r}
      BY <1>4 DEF ReleaseRequest
    <2> QED BY <1>1, <1>4, <2>1 DEF CancelInv
  <1> QED BY <1>2, <1>3, <1>4

LEMMA CancelRequestCancel ==
  ASSUME TurnInv, CancelInv, NEW r \in Requests, CancelRequest(r)
  PROVE  CancelInv'
  <1>1. /\ UNCHANGED <<finished, observed, active, permits, wire, sequence>> /\ waiting = 0 /\ waiting' = r
        /\ r \in active
    BY DEF CancelRequest, WorkerFree, registry, numbers
  <1>2. r \notin permits
    BY DEF CancelRequest, Range, CancelInv
  <1>3. 0 \notin finished
    BY SMT DEF CancelInv, TurnInv, TurnTypes
  <1> QED BY <1>1, <1>2, <1>3 DEF CancelInv

LEMMA CancelEnds ==
  ASSUME TurnInv, CancelInv, CancelReturns \/ CancelTimesOut
  PROVE  CancelInv'
  <1>1. /\ UNCHANGED <<active, permits, wire, sequence>> /\ waiting' = 0
        /\ finished' = finished \cap active /\ observed' = observed \cap active
    BY DEF CancelReturns, CancelTimesOut, numbers
  <1>2. 0 \notin permits
    BY SMT DEF TurnInv, TurnTypes
  <1> QED BY <1>1, <1>2 DEF CancelInv

LEMMA RestartCancel ==
  ASSUME TurnInv, CancelInv, Restart
  PROVE  CancelInv'
  BY DEF Restart, CancelInv

LEMMA CancelStep == TurnInv /\ CancelInv /\ [Next]_vars => CancelInv'
  <1> SUFFICES ASSUME TurnInv, CancelInv, [Next]_vars PROVE CancelInv'
    OBVIOUS
  <1>1. CASE UNCHANGED vars
    BY <1>1, SeenKeeps DEF vars, registry, cancelVars, numbers, Seen
  <1>2. ASSUME NEW h \in Handlers, HandlerStep(h) \/ TurnLost(h) PROVE CancelInv'
    <2>1. CASE Connect(h) \/ RenewReturns(h)
      BY <2>1, LoopCancel
    <2>2. CASE ~(Connect(h) \/ RenewReturns(h))
      BY <1>2, <2>2, HandlerSeen, SeenKeeps, IssuePermitCancel, ConsumePermitCancel, WaitForSendTurnCancel,
         SendCancel, FinishCancel, ReleaseCancel DEF HandlerStep
    <2> QED BY <2>1, <2>2
  <1>3. CASE LoopStep \/ Reload \/ UnregisterToolSession
    BY <1>3, LoopCancel
  <1>4. CASE \/ \E c \in closers : CloseRelay(c)
             \/ \E r \in Requests : PermitLapses(r) \/ Deliver(r)
             \/ RelayBreaks \/ RegisterToolSession \/ PlaneChanges
    BY <1>4, OuterSeen, SeenKeeps
  <1>5. CASE (\E r \in Requests : CancelRequest(r)) \/ CancelReturns \/ CancelTimesOut \/ Restart
    BY <1>5, CancelRequestCancel, CancelEnds, RestartCancel
  <1> QED BY <1>1, <1>2, <1>3, <1>4, <1>5 DEF Next

-----------------------------------------------------------------------------
(* Answers. *)

LEMMA ExchangeTypes ==
  ASSUME exchange \in [Requests -> Exchanges], NEW k
  PROVE  LET e == ClosedExchange(k)
         IN  /\ e \in [Requests -> Exchanges]
             /\ \A r \in Requests : exchange[r].state = "answer" => e[r].state = "answer"
  <1>1. ASSUME NEW r \in Requests
        PROVE  /\ ClosedExchange(k)[r] \in Exchanges
               /\ exchange[r].state = "answer" => ClosedExchange(k)[r].state = "answer"
    <2>1. exchange[r] \in Exchanges
      OBVIOUS
    <2>2. /\ [exchange[r] EXCEPT !.state = "error"] \in Exchanges
          /\ [exchange[r] EXCEPT !.state = "none"] \in Exchanges
      BY <2>1 DEF Exchanges
    <2>3. \/ ClosedExchange(k)[r] = exchange[r]
          \/ /\ exchange[r].state = "pending"
             /\ ClosedExchange(k)[r] = [exchange[r] EXCEPT !.state = "error"]
          \/ /\ exchange[r].state = "abandoned"
             /\ ClosedExchange(k)[r] = [exchange[r] EXCEPT !.state = "none"]
      BY SMT DEF ClosedExchange
    <2> QED BY <2>1, <2>2, <2>3
  <1> QED BY <1>1 DEF ClosedExchange

\* No answer is forgotten.
Answers ==
  /\ exchange' \in [Requests -> Exchanges]
  /\ \A r \in Requests : exchange[r].state = "answer" => exchange'[r].state = "answer"

LEMMA FinishingIsRequest ==
  ASSUME TurnInv, Counted
  PROVE  \A g \in Handlers : pc[g] = "finish" => local[g].seq \in Requests
  <1>1. \A n \in Nat : n <= sequence /\ n # 0 => n \in 1 .. sequence
    BY SMT DEF TurnInv, TurnTypes
  <1>2. \A g \in Handlers : /\ local[g].seq \in Nat /\ local[g].seq <= sequence
                            /\ pc[g] = "finish" => local[g].seq # 0
    BY DEF TurnInv, TurnTypes, LocalType, Locals, Numbered, Outside
  <1>3. ASSUME NEW g \in Handlers, pc[g] = "finish" PROVE local[g].seq \in Requests
    <2>1. local[g].seq \in Nat /\ local[g].seq <= sequence /\ local[g].seq # 0
      BY <1>2, <1>3
    <2>2. local[g].seq \in 1 .. sequence
      BY <1>1, <2>1, SMT
    <2> QED BY <2>2, NumbersAreRequests
  <1> QED BY <1>3

\* Nobody takes a request on, nobody learns of an answer, and none is forgotten.
Unheard ==
  /\ Answers /\ observed' \subseteq observed
  /\ \A g \in Handlers : pc'[g] \in Open => pc[g] \in Open /\ local'[g].seq = local[g].seq
  /\ \A g \in Handlers : local'[g].ok =>
       local[g].ok /\ (pc[g] \in {"finish", "release"} => pc'[g] = pc[g] /\ local'[g].seq = local[g].seq)

LEMMA UnheardKeeps ==
  ASSUME TurnInv, Counted, CancelInv, AnswerInv, Unheard
  PROVE  AnswerInv'
  <1>1. observed \subseteq Requests
    BY NumbersAreRequests DEF CancelInv
  <1>2. \A g \in Handlers : pc[g] = "finish" => local[g].seq \in Requests
    BY FinishingIsRequest
  <1>3. exchange' \in [Requests -> Exchanges]
    BY DEF Unheard, Answers
  <1>4. \A g \in Handlers : pc'[g] \in Open => local'[g].seq \notin observed'
    BY DEF Unheard, AnswerInv
  <1>5. \A g \in Handlers : local'[g].ok => /\ pc'[g] \in {"finish", "release"}
                                            /\ pc'[g] = "finish" => exchange'[local'[g].seq].state = "answer"
    BY <1>2 DEF Unheard, Answers, AnswerInv
  <1>6. \A r \in observed' : exchange'[r].state = "answer"
    BY <1>1 DEF Unheard, Answers, AnswerInv
  <1> QED BY <1>3, <1>4, <1>5, <1>6 DEF AnswerInv

LEMMA LoopAnswer ==
  ASSUME TurnInv, AnswerInv, LoopStep
  PROVE  Unheard
  <1>0. pc \in [Actors -> PCs] /\ Loop \in Actors /\ Loop \notin Handlers
    BY LoopIsNoHandler DEF TurnInv, TurnTypes, Actors
  <1>1. UNCHANGED <<local, exchange>>
    BY DEF LoopStep, Refresh, SetBindings, RenewDue, RenewReturns, relayVars
  <1>2. \A g \in Handlers : pc'[g] = pc[g]
    BY <1>0 DEF LoopStep, Refresh, SetBindings, RenewDue, BeginRenewal, RenewReturns, Goto, Actors
  <1>3. observed' \subseteq observed
    BY DEF LoopStep, Refresh, SetBindings, AdoptFetched, Adopt, RenewDue, BeginRenewal, RenewReturns,
           RenewalFails, Expire, ClearMaterials, registry
  <1> QED BY <1>1, <1>2, <1>3 DEF Unheard, Answers, AnswerInv

LEMMA OuterAnswer ==
  ASSUME TurnInv, AnswerInv, Outer \/ \E r \in Requests : PermitLapses(r)
  PROVE  Unheard
  <1>1. UNCHANGED <<local, pc>>
    BY DEF Outer, CloseRelay, PermitLapses, Deliver, CancelRequest, RelayBreaks, Reload,
           UnregisterToolSession, RegisterToolSession, CancelReturns, CancelTimesOut, PlaneChanges
  <1>2. observed' \subseteq observed
    BY DEF Outer, CloseRelay, PermitLapses, Deliver, CancelRequest, RelayBreaks, Reload,
           UnregisterToolSession, RegisterToolSession, CancelReturns, CancelTimesOut, PlaneChanges,
           ClearMaterials, registry
  <1>3. Answers
    <2>0. exchange \in [Requests -> Exchanges]
      BY DEF AnswerInv
    <2>1. CASE (\E c \in closers : CloseRelay(c)) \/ RelayBreaks
      BY <2>0, <2>1, ExchangeTypes DEF CloseRelay, RelayBreaks, FailRelay, Answers
    <2>2. ASSUME NEW r \in Requests, Deliver(r) PROVE Answers
      <3>1. PICK s \in {"answer", "none"} : exchange' = [exchange EXCEPT ![r].state = s]
        BY <2>2 DEF Deliver
      <3>2. exchange[r] \in Exchanges /\ exchange[r].state # "answer"
        BY <2>0, <2>2 DEF Deliver
      <3>3. [exchange[r] EXCEPT !.state = s] \in Exchanges
        BY <3>2 DEF Exchanges
      <3> QED BY <2>0, <3>1, <3>2, <3>3 DEF Answers
    <2>3. CASE \/ \E r \in Requests : PermitLapses(r) \/ CancelRequest(r)
               \/ Reload \/ UnregisterToolSession \/ RegisterToolSession
               \/ CancelReturns \/ CancelTimesOut \/ PlaneChanges
      BY <2>0, <2>3 DEF PermitLapses, CancelRequest, Reload, UnregisterToolSession, RegisterToolSession,
                        CancelReturns, CancelTimesOut, PlaneChanges, relayVars, Answers
    <2> QED BY <2>1, <2>2, <2>3 DEF Outer
  <1> QED BY <1>1, <1>2, <1>3 DEF Unheard

\* A handler keeps its request and learns of no answer.
Carries(h) == Only(h) /\ local'[h].seq = local[h].seq /\ (local'[h].ok => local[h].ok)

LEMMA HandlerCarries ==
  ASSUME TurnInv, BindingTypes, NEW h \in Handlers,
         \/ Connect(h) \/ RenewReturns(h) \/ ConsumePermit(h) \/ ReadMetadata(h) \/ LoadEpoch(h)
         \/ WaitForSendTurn(h) \/ TurnLost(h) \/ ValidateForwardBinding(h) \/ EnsureRelaySession(h)
         \/ DialReturns(h) \/ InstallRelay(h) \/ RegisterExchange(h) \/ Send(h) \/ MarkRequestSent(h)
         \/ FinishRequestForward(h)
  PROVE  Carries(h)
  <1>0. LocalType
    BY DEF TurnInv, TurnTypes
  <1>1. UNCHANGED local => Carries(h)
    BY <1>0 DEF Carries, Only, LocalType
  <1>2. Quit(h) => Carries(h)
    BY <1>0, QuitLocal DEF Carries, Quits
  <1>3. CASE Connect(h) \/ ReadMetadata(h)
    BY <1>0, <1>3, ConnectLocal, ReadMetadataLocal DEF Carries, Keeps
  <1>4. CASE \/ RenewReturns(h) \/ ConsumePermit(h) \/ LoadEpoch(h) \/ TurnLost(h) \/ ValidateForwardBinding(h)
             \/ DialReturns(h) \/ RegisterExchange(h) \/ Send(h) \/ MarkRequestSent(h) \/ FinishRequestForward(h)
    BY <1>1, <1>2, <1>4 DEF RenewReturns, ConsumePermit, LoadEpoch, TurnLost, ValidateForwardBinding, DialReturns,
                            RegisterExchange, Send, MarkRequestSent, FinishRequestForward
  <1>5. CASE WaitForSendTurn(h)
    <2>1. ASSUME NEW b \in BOOLEAN, local' = [local EXCEPT ![h].tracked = b] PROVE Carries(h)
      <3>1. LET k == [local[h] EXCEPT !.tracked = b]
            IN  k \in Locals /\ k.seq = local[h].seq /\ k.ok = local[h].ok
        BY <1>0 DEF LocalType, Locals
      <3> QED BY <1>0, <2>1, <3>1 DEF LocalType, Carries, Only
    <2> QED BY <1>2, <1>5, <2>1 DEF WaitForSendTurn
  <1>6. CASE EnsureRelaySession(h)
    <2>1. relay \in Nat
      BY SMT DEF BindingTypes
    <2>2. Hold(h, relay) => Carries(h)
      BY <1>0, <2>1, HoldLocal DEF Carries, Quits
    <2> QED BY <1>1, <1>2, <1>6, <2>2 DEF EnsureRelaySession
  <1>7. CASE InstallRelay(h)
    <2>1. Len(relayGen) + 1 \in Nat
      BY SMT DEF BindingTypes
    <2> QED BY <1>0, <1>7, <2>1, HoldLocal DEF InstallRelay, Carries, Quits
  <1> QED BY <1>3, <1>4, <1>5, <1>6, <1>7

LEMMA HandlerUnheard ==
  ASSUME TurnInv, BindingTypes, AnswerInv, NEW h \in Handlers,
         \/ Connect(h) \/ RenewReturns(h) \/ ConsumePermit(h) \/ ReadMetadata(h) \/ LoadEpoch(h)
         \/ WaitForSendTurn(h) \/ TurnLost(h) \/ ValidateForwardBinding(h) \/ EnsureRelaySession(h)
         \/ DialReturns(h) \/ InstallRelay(h) \/ Send(h) \/ MarkRequestSent(h)
  PROVE  Unheard
  <1>0. pc \in [Actors -> PCs] /\ h \in Actors /\ h # Loop /\ exchange \in [Requests -> Exchanges]
    BY LoopIsNoHandler DEF TurnInv, TurnTypes, Actors, AnswerInv
  <1>1. Carries(h)
    BY HandlerCarries
  <1>2. /\ \A g \in Handlers : g # h => pc'[g] = pc[g]
        /\ pc'[h] \in Open => pc[h] \in Open
        /\ pc[h] \notin {"finish", "release"}
    <2>1. CASE Connect(h) \/ RenewReturns(h)
      BY <1>0, <2>1 DEF Connect, BeginRenewal, RenewReturns, At, Goto, Actors, Open, After, Sending
    <2>2. CASE ConsumePermit(h) \/ ReadMetadata(h) \/ LoadEpoch(h)
      BY <1>0, <2>2 DEF ConsumePermit, ReadMetadata, LoadEpoch, Quit, At, Goto, Actors, Open, After
    <2>3. CASE WaitForSendTurn(h) \/ TurnLost(h) \/ MarkRequestSent(h)
      BY <1>0, <2>3 DEF WaitForSendTurn, TurnLost, MarkRequestSent, Quit, At, Goto, Actors, Open, After
    <2>4. CASE \/ ValidateForwardBinding(h) \/ EnsureRelaySession(h) \/ DialReturns(h) \/ InstallRelay(h)
               \/ Send(h)
      BY <1>0, <2>4 DEF ValidateForwardBinding, EnsureRelaySession, DialReturns, InstallRelay, Send, Quit, At,
                        Goto, Actors, Open, After, Sending
    <2> QED BY <2>1, <2>2, <2>3, <2>4
  <1>3. observed' \subseteq observed
    <2>1. CASE Connect(h) \/ RenewReturns(h)
      BY <2>1 DEF Connect, BeginRenewal, RenewReturns, RenewalFails, Expire, ClearMaterials, registry
    <2>2. CASE ~(Connect(h) \/ RenewReturns(h))
      BY <2>2 DEF ConsumePermit, ReadMetadata, LoadEpoch, WaitForSendTurn, TurnLost, ValidateForwardBinding,
                  EnsureRelaySession, DialReturns, InstallRelay, Send, MarkRequestSent, registry
    <2> QED BY <2>1, <2>2
  <1>4. Answers
    <2>1. CASE Send(h)
      BY <1>0, <2>1, ExchangeTypes DEF Send, FailRelay, relayVars, Answers
    <2>2. CASE ~Send(h)
      <3>1. exchange' = exchange
        BY <2>2 DEF Connect, RenewReturns, ConsumePermit, ReadMetadata, LoadEpoch, WaitForSendTurn, TurnLost,
                  ValidateForwardBinding, EnsureRelaySession, DialReturns, InstallRelay, MarkRequestSent, relayVars
      <3> QED BY <1>0, <3>1 DEF Answers
    <2> QED BY <2>1, <2>2
  <1> QED BY <1>1, <1>2, <1>3, <1>4 DEF Unheard, Carries, Only

LEMMA IssuePermitAnswer ==
  ASSUME TurnInv, Counted, CancelInv, AnswerInv, NEW h \in Handlers, IssuePermit(h)
  PROVE  AnswerInv'
  <1>0. /\ LocalType /\ pc \in [Actors -> PCs] /\ h \in Actors /\ pc[h] = "admit" /\ sequence \in Nat
        /\ UNCHANGED <<observed, exchange>>
    BY DEF TurnInv, TurnTypes, Actors, IssuePermit, At, relayVars
  <1>1. \A g \in Handlers : g # h => pc'[g] = pc[g] /\ local'[g] = local[g]
    BY <1>0 DEF IssuePermit, Goto, LocalType, Actors
  <1>2. ~local'[h].ok /\ (pc'[h] \in Open => local'[h].seq \notin observed)
    <2>1. CASE local' = [local EXCEPT ![h] = [NoLocal EXCEPT !.seq = sequence + 1]]
      <3>1. sequence + 1 \in Nat /\ sequence + 1 \notin observed
        BY <1>0, SMT DEF CancelInv
      <3> QED BY <1>0, <2>1, <3>1, FreshLocals DEF LocalType
    <2>2. CASE UNCHANGED local /\ Goto(h, "end")
      BY <1>0, <2>2 DEF AnswerInv, Goto, Open, After, Sending
    <2> QED BY <2>1, <2>2 DEF IssuePermit
  <1> QED BY <1>0, <1>1, <1>2 DEF AnswerInv

\* What happens in the exchange of one request before its forward is over concerns
\* no request that was answered.
LEMMA OwnExchange ==
  ASSUME TurnInv, Counted, CancelInv, AnswerInv, NEW h \in Handlers, pc[h] \in Open,
         exchange' \in [Requests -> Exchanges],
         \A r \in Requests : r # local[h].seq => exchange'[r] = exchange[r],
         observed' = observed, Carries(h), ~local'[h].ok, pc'[h] \in Open,
         \A g \in Handlers : g # h => pc'[g] = pc[g]
  PROVE  AnswerInv'
  <1>1. observed \subseteq Requests /\ local[h].seq \notin observed /\ local[h].seq # 0
    BY NumbersAreRequests DEF CancelInv, AnswerInv, TurnInv, Numbered, Open, Outside, After, Sending
  <1>2. \A g \in Handlers : g # h => local[g].seq # local[h].seq /\ local'[g] = local[g]
    BY <1>1 DEF TurnInv, Numbered, Carries, Only
  <1>3. \A g \in Handlers : pc[g] = "finish" => local[g].seq \in Requests
    BY FinishingIsRequest
  <1>4. \A g \in Handlers : pc'[g] \in Open => local'[g].seq \notin observed'
    BY <1>1, <1>2 DEF Carries, AnswerInv
  <1>5. \A g \in Handlers : local'[g].ok => /\ pc'[g] \in {"finish", "release"}
                                            /\ pc'[g] = "finish" => exchange'[local'[g].seq].state = "answer"
    <2>1. \A g \in Handlers : local'[g].ok =>
            g # h /\ local'[g] = local[g] /\ pc'[g] = pc[g] /\ local[g].seq # local[h].seq
      BY <1>2
    <2>2. \A g \in Handlers : pc[g] = "finish" /\ local[g].seq # local[h].seq
                               => exchange'[local[g].seq] = exchange[local[g].seq]
      BY <1>3
    <2>3. \A g \in Handlers : local[g].ok => pc[g] \in {"finish", "release"}
                                              /\ (pc[g] = "finish" => exchange[local[g].seq].state = "answer")
      BY DEF AnswerInv
    <2> SUFFICES ASSUME NEW g \in Handlers, local'[g].ok
                 PROVE  /\ pc'[g] \in {"finish", "release"}
                        /\ pc'[g] = "finish" => exchange'[local'[g].seq].state = "answer"
      OBVIOUS
    <2>4. local'[g] = local[g] /\ pc'[g] = pc[g]
      BY <2>1
    <2>5. local[g].ok
      BY <2>4
    <2>6. pc[g] = "finish" => exchange'[local[g].seq] = exchange[local[g].seq]
      BY <2>1, <2>2
    <2>7. pc[g] \in {"finish", "release"} /\ (pc[g] = "finish" => exchange[local[g].seq].state = "answer")
      BY <2>3, <2>5
    <2> QED BY <2>4, <2>6, <2>7, SMT
  <1>6. \A r \in observed' : exchange'[r].state = "answer"
    BY <1>1 DEF AnswerInv
  <1> QED BY <1>4, <1>5, <1>6 DEF AnswerInv

LEMMA RegisterAnswer ==
  ASSUME TurnInv, BindingTypes, Counted, CancelInv, AnswerInv, NEW h \in Handlers, RegisterExchange(h)
  PROVE  AnswerInv'
  <1>0. /\ LocalType /\ pc \in [Actors -> PCs] /\ h \in Actors /\ pc[h] = "register" /\ observed' = observed
        /\ exchange \in [Requests -> Exchanges] /\ local[h].relay \in Nat
    BY DEF TurnInv, TurnTypes, LocalType, Locals, Actors, RegisterExchange, At, registry, AnswerInv
  <1>1. exchange' \in [Requests -> Exchanges] /\ \A r \in Requests : r # local[h].seq => exchange'[r] = exchange[r]
    <2>1. [state |-> "pending", relay |-> local[h].relay] \in Exchanges
      BY <1>0 DEF Exchanges
    <2> QED BY <1>0, <2>1 DEF RegisterExchange
  <1>2. Carries(h) /\ ~local'[h].ok
    BY <1>0, HandlerCarries DEF Carries, AnswerInv
  <1>3. /\ pc[h] \in Open /\ pc'[h] \in Open /\ \A g \in Handlers : g # h => pc'[g] = pc[g]
    BY <1>0 DEF RegisterExchange, Quit, Goto, Open, After, Sending, Actors
  <1> QED BY <1>0, <1>1, <1>2, <1>3, OwnExchange

LEMMA AwaitAnswer ==
  ASSUME TurnInv, Counted, CancelInv, AnswerInv, NEW h \in Handlers, Await(h)
  PROVE  AnswerInv'
  <1>0. /\ LocalType /\ pc \in [Actors -> PCs] /\ h \in Actors /\ pc[h] = "await" /\ observed' = observed
        /\ exchange \in [Requests -> Exchanges] /\ ~local[h].ok
    BY DEF TurnInv, TurnTypes, Actors, Await, At, registry, AnswerInv
  <1>1. /\ Only(h) /\ local'[h].seq = local[h].seq
        /\ local'[h].ok => exchange[local[h].seq].state = "answer" /\ exchange' = exchange
    BY <1>0, AwaitLocal
  <1>2. /\ pc[h] \in Open /\ pc'[h] \in {"await", "finish"} /\ pc'[h] \in Open
        /\ \A g \in Handlers : g # h => pc'[g] = pc[g]
    BY <1>0 DEF Await, Quit, Goto, Open, After, Actors
  <1>3. CASE local'[h].ok
    <2>1. pc'[h] = "finish"
      <3>1. UNCHANGED pc => ~local'[h].ok
        BY <1>0 DEF Await, Quit, Goto, LocalType, Locals
      <3>2. UNCHANGED pc \/ pc'[h] = "finish"
        BY <1>0 DEF Await, Quit, Goto, Actors
      <3> QED BY <1>3, <3>1, <3>2
    <2> QED BY <1>0, <1>1, <1>2, <1>3, <2>1 DEF AnswerInv, Only
  <1>4. CASE ~local'[h].ok
    <2>1. CASE exchange' = exchange
      BY <1>0, <1>1, <1>2, <1>4, <2>1, OwnExchange DEF Carries
    <2>2. CASE FailRelay(local[h].relay)
      <3>1. Answers
        BY <1>0, <2>2, ExchangeTypes DEF FailRelay, Answers
      <3> QED BY <1>0, <1>1, <1>2, <1>4, <3>1, UnheardKeeps DEF Unheard, Only
    <2>3. CASE exchange' = [exchange EXCEPT ![local[h].seq].state = "abandoned"]
      <3>1. \A r \in Requests : [exchange[r] EXCEPT !.state = "abandoned"] \in Exchanges
        BY <1>0 DEF Exchanges
      <3>2. /\ exchange' \in [Requests -> Exchanges]
            /\ \A r \in Requests : r # local[h].seq => exchange'[r] = exchange[r]
        BY <1>0, <2>3, <3>1
      <3> QED BY <1>0, <1>1, <1>2, <1>4, <3>2, OwnExchange DEF Carries
    <2> QED BY <2>1, <2>2, <2>3 DEF Await, relayVars
  <1> QED BY <1>3, <1>4

LEMMA FinishAnswer ==
  ASSUME TurnInv, BindingTypes, Counted, CancelInv, AnswerInv, NEW h \in Handlers, FinishRequestForward(h)
  PROVE  AnswerInv'
  <1> DEFINE r == local[h].seq
  <1>0. /\ pc \in [Actors -> PCs] /\ h \in Actors /\ pc[h] = "finish" /\ UNCHANGED <<exchange, local>>
        /\ observed' = observed \/ (observed' \subseteq observed \cup {r} /\ local[h].ok)
    BY DEF TurnInv, TurnTypes, Actors, FinishRequestForward, At, relayVars
  <1>1. pc'[h] = "release" /\ \A g \in Handlers : g # h => pc'[g] = pc[g]
    BY <1>0 DEF FinishRequestForward, Goto, Actors
  <1>2. \A g \in Handlers : g # h /\ pc[g] \in Open => local[g].seq # r
    BY <1>0 DEF TurnInv, Numbered, Outside
  <1>3. local[h].ok => exchange[r].state = "answer"
    BY <1>0 DEF AnswerInv
  <1>4. \A g \in Handlers : pc'[g] \in Open => local'[g].seq \notin observed'
    <2>1. "release" \notin Open
      BY DEF Open, After, Sending
    <2> QED BY <1>0, <1>1, <1>2, <2>1 DEF AnswerInv
  <1>5. \A s \in observed' : exchange'[s].state = "answer"
    BY <1>0, <1>3 DEF AnswerInv
  <1> QED BY <1>0, <1>1, <1>4, <1>5 DEF AnswerInv

LEMMA ReleaseAnswer ==
  ASSUME TurnInv, Counted, CancelInv, AnswerInv, NEW h \in Handlers, ReleaseRequest(h)
  PROVE  AnswerInv'
  <1> DEFINE r == local[h].seq
  <1>0. /\ LocalType /\ pc \in [Actors -> PCs] /\ h \in Actors /\ pc[h] = "release" /\ r # 0
        /\ exchange \in [Requests -> Exchanges]
    BY DEF TurnInv, TurnTypes, Actors, ReleaseRequest, At, AnswerInv, Numbered, Outside
  <1>1. /\ pc'[h] = "end" /\ ~local'[h].ok
        /\ \A g \in Handlers : g # h => pc'[g] = pc[g] /\ local'[g] = local[g] /\ local[g].seq # r
    BY <1>0, FreshLocals DEF ReleaseRequest, Goto, LocalType, Actors, TurnInv, Numbered
  <1>2. observed' \subseteq observed /\ (r \in observed' => r = waiting)
    BY DEF ReleaseRequest, CancelInv
  <1>3. /\ exchange' \in [Requests -> Exchanges]
        /\ \A s \in Requests : s # r \/ r = waiting => exchange'[s] = exchange[s]
    <2>1. NoExchange \in Exchanges
      BY DEF NoExchange, Exchanges
    <2> QED BY <1>0, <2>1 DEF ReleaseRequest
  <1>4. observed \subseteq Requests
    BY NumbersAreRequests DEF CancelInv
  <1>5. \A g \in Handlers : pc'[g] \in Open => local'[g].seq \notin observed'
    <2>1. "end" \notin Open
      BY DEF Open, After, Sending
    <2> QED BY <1>1, <1>2, <2>1 DEF AnswerInv
  <1>6. \A g \in Handlers : local'[g].ok => /\ pc'[g] \in {"finish", "release"}
                                            /\ pc'[g] = "finish" => exchange'[local'[g].seq].state = "answer"
    <2>1. \A g \in Handlers : local'[g].ok =>
            g # h /\ local'[g] = local[g] /\ pc'[g] = pc[g] /\ local[g].seq # r
      BY <1>1
    <2>2. \A g \in Handlers : pc[g] = "finish" /\ local[g].seq # r
                               => exchange'[local[g].seq] = exchange[local[g].seq]
      BY <1>3, FinishingIsRequest
    <2>3. \A g \in Handlers : local[g].ok => pc[g] \in {"finish", "release"}
                                              /\ (pc[g] = "finish" => exchange[local[g].seq].state = "answer")
      BY DEF AnswerInv
    <2> SUFFICES ASSUME NEW g \in Handlers, local'[g].ok
                 PROVE  /\ pc'[g] \in {"finish", "release"}
                        /\ pc'[g] = "finish" => exchange'[local'[g].seq].state = "answer"
      OBVIOUS
    <2>4. local'[g] = local[g] /\ pc'[g] = pc[g]
      BY <2>1
    <2>5. local[g].ok
      BY <2>4
    <2>6. pc[g] = "finish" => exchange'[local[g].seq] = exchange[local[g].seq]
      BY <2>1, <2>2
    <2>7. pc[g] \in {"finish", "release"} /\ (pc[g] = "finish" => exchange[local[g].seq].state = "answer")
      BY <2>3, <2>5
    <2> QED BY <2>4, <2>6, <2>7, SMT
  <1>7. \A s \in observed' : exchange'[s].state = "answer"
    BY <1>2, <1>3, <1>4 DEF AnswerInv
  <1> QED BY <1>3, <1>5, <1>6, <1>7 DEF AnswerInv

LEMMA RestartAnswer ==
  ASSUME Restart
  PROVE  AnswerInv'
  <1>1. NoExchange \in Exchanges /\ ~NoLocal.ok
    BY FreshLocals DEF NoExchange, Exchanges
  <1>2. observed' = {} /\ exchange' \in [Requests -> Exchanges] /\ \A h \in Handlers : ~local'[h].ok
    BY <1>1 DEF Restart
  <1> QED BY <1>2 DEF AnswerInv

LEMMA AnswerStep ==
  TurnInv /\ BindingTypes /\ Counted /\ CancelInv /\ AnswerInv /\ [Next]_vars => AnswerInv'
  <1> SUFFICES ASSUME TurnInv, BindingTypes, Counted, CancelInv, AnswerInv, [Next]_vars PROVE AnswerInv'
    OBVIOUS
  <1>1. CASE UNCHANGED vars
    <2>1. UNCHANGED <<exchange, observed, pc, local>>
      BY <1>1 DEF vars, relayVars, registry
    <2> QED BY <2>1 DEF AnswerInv
  <1>2. ASSUME NEW h \in Handlers, HandlerStep(h) \/ TurnLost(h) PROVE AnswerInv'
    BY <1>2, HandlerUnheard, UnheardKeeps, IssuePermitAnswer, RegisterAnswer, AwaitAnswer, FinishAnswer,
       ReleaseAnswer DEF HandlerStep
  <1>3. CASE LoopStep
    BY <1>3, LoopAnswer, UnheardKeeps
  <1>4. CASE Outer \/ \E r \in Requests : PermitLapses(r)
    BY <1>4, OuterAnswer, UnheardKeeps
  <1>5. CASE Restart
    BY <1>5, RestartAnswer
  <1> QED BY <1>1, <1>2, <1>3, <1>4, <1>5 DEF Next, Outer

LEMMA CancelInit == Init => Counted /\ CancelInv /\ AnswerInv
  <1> SUFFICES ASSUME Init PROVE Counted /\ CancelInv /\ AnswerInv
    OBVIOUS
  <1>1. Counted
    <2>1. Cardinality(Handlers) \in Nat /\ Cardinality(Ahead) \in Nat /\ Cardinality(Ahead) <= Cardinality(Handlers)
      BY BrokerAssumption, FS_Subset, FS_CardinalityType DEF Ahead
    <2> QED BY <2>1, SMT DEF Init, Counted
  <1>2. CancelInv
    BY DEF Init, CancelInv
  <1>3. AnswerInv
    <2>1. NoExchange \in Exchanges /\ ~NoLocal.ok
      BY FreshLocals DEF NoExchange, Exchanges
    <2> QED BY <2>1 DEF Init, AnswerInv
  <1> QED BY <1>1, <1>2, <1>3

-----------------------------------------------------------------------------
LEMMA BrokerInvariant == Spec => [](BindingTypes /\ TurnInv /\ RelayInv)
  <1>1. Init => BindingTypes /\ TurnInv /\ RelayInv
    BY BindingInit, TurnInit, RelayInit
  <1>2. (BindingTypes /\ TurnInv /\ RelayInv) /\ [Next]_vars => (BindingTypes /\ TurnInv /\ RelayInv)'
    BY BindingStep, TurnStep, RelayStep DEF TurnInv, TurnTypes
  <1> QED BY <1>1, <1>2, PTL DEF Spec

LEMMA CancelInvariant == Spec => [](Counted /\ CancelInv /\ AnswerInv)
  <1>1. Init => Counted /\ CancelInv /\ AnswerInv
    BY CancelInit
  <1>2. (BindingTypes /\ TurnInv /\ RelayInv) /\ (Counted /\ CancelInv /\ AnswerInv) /\ [Next]_vars
          => (Counted /\ CancelInv /\ AnswerInv)'
    BY CountStep, CancelStep, AnswerStep
  <1> QED BY <1>1, <1>2, BrokerInvariant, PTL DEF Spec

\* The requests of a binding keep their turns and their numbers, whatever comes
\* between waitForSendTurn and the write.
THEOREM TurnsAreKept == Spec => []TurnKept
  <1>1. TurnInv => TurnKept
    BY DEF TurnInv
  <1> QED BY <1>1, BrokerInvariant, PTL

\* Every change of the registry that lets a sleeping handler of waitForSendTurn pass
\* wakes it.
THEOREM SleepersAreWoken == Spec => []NoLostWakeup
  <1>1. TurnInv => NoLostWakeup
    BY DEF TurnInv
  <1> QED BY <1>1, BrokerInvariant, PTL

\* The epoch and relayMu keep a relay of another generation from staying installed,
\* wherever a refresh comes between the steps of ensureRelaySession.
THEOREM NoRelayIsStale == Spec => []NoStaleRelay
  <1>1. RelayInv => NoStaleRelay
    BY DEF RelayInv
  <1> QED BY <1>1, BrokerInvariant, PTL

\* CancelRequestAndWait is told of a terminal response only when the server answered,
\* and the request it waits for leaves the registry only with its forwardDone closed.
THEOREM CancellationsAreTrue == Spec => []CancelTruth
  <1>1. CancelInv /\ AnswerInv => CancelTruth
    BY DEF CancelInv, AnswerInv, CancelTruth
  <1> QED BY <1>1, CancelInvariant, PTL

\* setBindings and renewBinding move no binding back and revive no generation.
THEOREM NoBindingRevives == Spec => NoRevival
  <1>1. BindingTypes /\ [Next]_vars
          => [binding.bound /\ binding'.bound =>
                /\ binding'.gen >= binding.gen
                /\ binding.terminal /\ binding'.gen = binding.gen => binding'.terminal]_vars
    BY NextMoves, MovesType
  <1> QED BY <1>1, BrokerInvariant, PTL DEF Spec, NoRevival
=============================================================================
