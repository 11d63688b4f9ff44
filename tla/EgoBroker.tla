------------------------------- MODULE EgoBroker -------------------------------
(***************************************************************************)
(* The ego-browser broker of the node (internal/egobrowser): the requests  *)
(* of one tool session that go through one browser binding.                *)
(*                                                                         *)
(* Every wrapper connection is a goroutine that obtains a permit, consumes *)
(* it and forwards one request over the binding's relay.  Broker.mu guards *)
(* the registry of permits and active requests, relayMu the connection.    *)
(* The handler gives Broker.mu up between any two steps, so a refresh, a   *)
(* renewal, a reload, the end of the session or a cancellation can come    *)
(* there.  Whoever removes material counts relayEpoch up under Broker.mu   *)
(* and closes the relay afterwards, under relayMu.                         *)
(***************************************************************************)
EXTENDS Naturals, FiniteSets, Sequences, Functions

CONSTANTS Handlers,       \* wrapper connections
          Loop,           \* the goroutine of Broker.Run
          Wrapper,        \* a wrapper that asks for a reload
          Worker,         \* the worker's task goroutine
          Nobody,
          Limit,          \* the lower of the node's and the binding's parallelism
          MaxGeneration,  \* generations of the binding
          Kinds,          \* what happens to the broker from outside in an instance,
          MaxEvents       \* and how often

ASSUME BrokerAssumption ==
  /\ Cardinality({Loop, Wrapper, Worker, Nobody}) = 4
  /\ {Loop, Wrapper, Worker, Nobody} \cap Handlers = {}
  /\ Kinds \subseteq {"outage", "lease", "disk", "permit", "relay", "reload", "session", "cancel",
                "plane", "restart"}
  /\ IsFiniteSet(Handlers) /\ Limit \in Nat \ {0}
  /\ MaxGeneration \in Nat \ {0} /\ MaxEvents \in Nat

VARIABLES
  plane,     \* the control plane's binding
  snapshot,  \* the binding as the running refresh fetched it
  binding,   \* the broker's binding
  fresh,     \* handlers for which relayEpoch is still as they loaded it
  relay,     \* its relay, 0 when it has none
  relayGen,  \* the generation every relay was opened for
  closed,    \* relays that were closed
  relayMu,   \* the handler that opens a relay
  closers,   \* goroutines that removed material and have yet to call closeRelay
  nonce,     \* odd while the session is registered; counts registrations and removals
  sequence, persisted,
  permits, lapsed,  \* permits not yet consumed; those past their expiry
  active,    \* Broker.active; a member is submitted once its permit is consumed
  marked,    \* active requests with sent
  finished, observed,  \* requests with forwardDone closed, with serverTerminalObserved,
                       \* as long as the registry or a cancellation task holds them
  asleep,    \* handlers that wait for the next registry change
  exchange,  \* every request's place in a relay session
  cancelled, waiting,  \* requests with cancel closed; the one a cancellation task waits for
  pc, local, \* where every goroutine is, and what a handler read on the way
  renewal,   \* the generation of a renewal under way and its answer
  wire,      \* requests in the order they were written to a relay
  events

bindingVars == <<binding, fresh>>
relayVars == <<relay, relayGen, closed, relayMu, exchange>>
registry == <<permits, lapsed, active, marked, finished, observed, asleep>>
cancelVars == <<cancelled, waiting>>
planeVars == <<plane, snapshot>>
numbers == <<nonce, sequence, persisted>>
vars == <<bindingVars, relayVars, registry, cancelVars, planeVars, numbers,
          closers, pc, local, renewal, wire, events>>

Generations == 1 .. MaxGeneration
Requests == 1 .. Cardinality(Handlers)
Actors == Handlers \cup {Loop}
\* "paused" stands for every status but "active".
PlaneModes == {"healthy", "paused", "gone"}
NoBinding == [bound |-> FALSE, gen |-> 0, mode |-> "expired", terminal |-> FALSE]
NoLocal == [seq |-> 0, gen |-> 0, nonce |-> 0, relay |-> 0,
            watch |-> FALSE, tracked |-> FALSE, ok |-> FALSE]
NoSnapshot == [gen |-> 0, mode |-> "gone"]
NoExchange == [state |-> "none", relay |-> 0]
NoRenewal == [gen |-> 0, ok |-> FALSE]

\* Places between the turn and the write.
Sending == {"validate", "relay", "dial", "install", "register", "send"}
PCs == Sending \cup {"idle", "fetched", "due", "renew", "admit", "permitted", "forward",
                     "epoch", "turn", "mark", "await", "finish", "release", "end"}

TypeOK ==
  /\ plane \in [gen : Generations, mode : PlaneModes]
  /\ snapshot \in [gen : 0 .. MaxGeneration, mode : PlaneModes]
  /\ binding \in [bound : BOOLEAN, gen : 0 .. MaxGeneration,
                  mode : {"healthy", "grace", "paused", "expired"}, terminal : BOOLEAN]
  /\ fresh \subseteq Handlers /\ nonce \in Nat /\ events \in 0 .. MaxEvents
  /\ relay # 0 => relay \in DOMAIN relayGen
  /\ closed \subseteq DOMAIN relayGen
  /\ relayMu \in Handlers \cup {Nobody} /\ closers \subseteq Actors \cup {Wrapper, Worker}
  /\ sequence \in 0 .. Cardinality(Handlers)
  /\ lapsed \subseteq permits /\ permits \subseteq active /\ active \subseteq 1 .. sequence
  /\ observed \subseteq finished /\ asleep \subseteq Handlers
  /\ exchange \in [Requests -> [state : {"none", "pending", "abandoned", "answer", "error"},
                                relay : 0 .. Len(relayGen)]]
  /\ pc \in [Actors -> PCs]
  /\ \A h \in Handlers : local[h].seq \in 0 .. Cardinality(Handlers)

Init ==
  /\ plane = [gen |-> 1, mode |-> "healthy"] /\ snapshot = NoSnapshot
  /\ binding = NoBinding /\ fresh = {}
  /\ relay = 0 /\ relayGen = <<>> /\ closed = {} /\ relayMu = Nobody /\ closers = {}
  /\ nonce = 1 /\ sequence = 0 /\ persisted = 0
  /\ permits = {} /\ lapsed = {} /\ active = {} /\ marked = {}
  /\ finished = {} /\ observed = {} /\ asleep = {}
  /\ exchange = [r \in Requests |-> NoExchange]
  /\ cancelled = {} /\ waiting = 0
  /\ pc = [a \in Actors |-> "idle"] /\ local = [h \in Handlers |-> NoLocal]
  /\ renewal = [a \in Actors |-> NoRenewal]
  /\ wire = <<>> /\ events = 0

Event(kind) == kind \in Kinds /\ events < MaxEvents /\ events' = events + 1
At(a, label) == pc[a] = label /\ a \notin closers
Goto(a, label) == pc' = [pc EXCEPT ![a] = label]
\* forward returns an error.
Quit(h) ==
  /\ Goto(h, "finish") /\ fresh' = fresh \ {h}
  /\ local' = [local EXCEPT ![h] = [NoLocal EXCEPT !.seq = local[h].seq]]
Registered == nonce % 2 = 1
Admitting == binding.bound /\ binding.mode = "healthy"
Renewable == binding.bound /\ binding.mode \in {"healthy", "grace"}

-----------------------------------------------------------------------------
(* The registry, under Broker.mu. *)

\* notifyRequestChangeLocked.
Stir == asleep' = {}

\* clearBindingMaterialsLocked.
ClearMaterials ==
  /\ finished' = (finished \cup active) \cap {waiting} /\ observed' = observed \cap {waiting}
  /\ active' = {} /\ marked' = {}
  /\ permits' = {} /\ lapsed' = {}
  /\ fresh' = {} /\ Stir

\* pruneExpiredPermitsLocked: a request whose permit ran out before it was submitted
\* is forgotten; nobody closes its forwardDone.
Pruned ==
  /\ permits' = permits \ lapsed /\ active' = active \ lapsed /\ lapsed' = {}
  /\ asleep' = IF lapsed = {} THEN asleep ELSE {}

\* expireBindingLocked.
Expire(a) ==
  /\ binding' = [binding EXCEPT !.mode = "expired", !.terminal = TRUE]
  /\ ClearMaterials /\ closers' = closers \cup {a}

\* markRenewalFailureFor: the first failure starts a grace period, whose end
\* expires the binding.  Only then is the relay closed.
RenewalFails(a) ==
  IF Renewable
  THEN \/ binding.mode = "grace" /\ Expire(a)
       \/ /\ binding' = [binding EXCEPT !.mode = "grace"]
          /\ ClearMaterials /\ UNCHANGED closers
  ELSE UNCHANGED <<bindingVars, registry, closers>>

-----------------------------------------------------------------------------
(* Broker.Run: a refresh, then the renewals that are due. *)

Refresh ==
  /\ At(Loop, "idle")
  /\ \/ /\ snapshot' = plane /\ Goto(Loop, "fetched")
        /\ UNCHANGED <<bindingVars, registry, closers, events>>
     \/ /\ binding.bound /\ Event("outage") /\ RenewalFails(Loop)
        /\ UNCHANGED <<snapshot, pc>>
  /\ UNCHANGED <<relayVars, cancelVars, numbers, plane, local, renewal, wire>>

Adopt ==
  /\ binding' = [bound |-> TRUE, gen |-> snapshot.gen, mode |-> snapshot.mode, terminal |-> FALSE]
  /\ IF binding.bound /\ (snapshot.gen # binding.gen \/ snapshot.mode # binding.mode)
     THEN ClearMaterials /\ closers' = closers \cup {Loop}
     ELSE UNCHANGED <<fresh, registry, closers>>

\* Mutant: the fetched binding always replaces the one that is held.
AdoptAlways == Adopt

\* A delayed snapshot does not move the binding back, nor revive a generation that
\* ended here.
AdoptFetched ==
  IF binding.bound /\ (\/ snapshot.gen < binding.gen
                       \/ binding.terminal /\ snapshot.gen <= binding.gen)
  THEN UNCHANGED <<bindingVars, registry, closers>>
  ELSE Adopt

SetBindings ==
  /\ At(Loop, "fetched") /\ Goto(Loop, "due") /\ snapshot' = NoSnapshot
  /\ IF snapshot.mode # "gone" THEN AdoptFetched
     ELSE IF binding.bound
     THEN binding' = NoBinding /\ ClearMaterials /\ closers' = closers \cup {Loop}
     ELSE UNCHANGED <<bindingVars, registry, closers>>
  /\ UNCHANGED <<relayVars, cancelVars, plane, numbers, local, renewal, wire, events>>

\* The lease is near its end: renewBinding until the control plane has answered.  The
\* answer is applied later.
BeginRenewal(a) ==
  /\ Renewable /\ Event("lease") /\ Goto(a, "renew")
  /\ \E ok \in BOOLEAN :
       /\ ok => plane = [gen |-> binding.gen, mode |-> "healthy"]
       /\ renewal' = [renewal EXCEPT ![a] = [gen |-> binding.gen, ok |-> ok]]
  /\ UNCHANGED <<bindingVars, registry, closers>>

\* RenewDue: the lease lasts, has run out, or is to be renewed.
RenewDue ==
  /\ At(Loop, "due")
  /\ \/ Goto(Loop, "idle") /\ UNCHANGED <<bindingVars, registry, closers, renewal, events>>
     \/ Renewable /\ Event("lease") /\ Expire(Loop) /\ Goto(Loop, "idle") /\ UNCHANGED renewal
     \/ BeginRenewal(Loop)
  /\ UNCHANGED <<relayVars, cancelVars, planeVars, numbers, local, wire>>

\* The rest of renewBinding.  A renewal of another generation, or of a binding that
\* ended meanwhile, changes nothing.
RenewReturns(a) ==
  /\ At(a, "renew")
  /\ IF renewal[a].ok
     THEN LET current == Renewable /\ binding.gen = renewal[a].gen IN
          /\ binding' = IF current THEN [binding EXCEPT !.mode = "healthy"] ELSE binding
          /\ Goto(a, IF a = Loop THEN "idle" ELSE IF current THEN "admit" ELSE "end")
          /\ UNCHANGED <<fresh, registry, closers>>
     ELSE RenewalFails(a) /\ Goto(a, IF a = Loop THEN "idle" ELSE "end")
  /\ renewal' = [renewal EXCEPT ![a] = NoRenewal]
  /\ UNCHANGED <<relayVars, cancelVars, planeVars, numbers, local, wire, events>>

-----------------------------------------------------------------------------
(* A wrapper connection until its permit is consumed. *)

\* bindingForNonce and ensureLease.  A connection that is refused leaves no trace.
Connect(h) ==
  /\ At(h, "idle") /\ Registered /\ binding.bound
  /\ local' = [local EXCEPT ![h].nonce = nonce]
  /\ \/ /\ Admitting /\ Goto(h, "admit")
        /\ UNCHANGED <<bindingVars, registry, closers, renewal, events>>
     \/ Admitting /\ BeginRenewal(h)
     \/ /\ binding.mode = "grace" /\ Event("lease") /\ Expire(h) /\ Goto(h, "end")
        /\ UNCHANGED renewal
  /\ UNCHANGED <<relayVars, cancelVars, planeVars, numbers, wire>>

\* nextSequenceLocked, when persistSequence succeeds.
NextSequence == sequence' = sequence + 1 /\ persisted' = sequence + 1

\* The second half of IssuePermit, after the lease is known to be good.
IssuePermit(h) ==
  LET r == sequence + 1
      admitted == /\ nonce = local[h].nonce /\ Admitting
                  /\ Cardinality(active \ lapsed) < Limit IN
  /\ At(h, "admit")
  /\ \/ /\ admitted /\ NextSequence
        /\ permits' = (permits \ lapsed) \cup {r} /\ active' = (active \ lapsed) \cup {r}
        /\ lapsed' = {} /\ Stir
        /\ local' = [local EXCEPT ![h] = [NoLocal EXCEPT !.seq = r]]
        /\ Goto(h, "permitted") /\ UNCHANGED events
     \/ /\ Pruned /\ Goto(h, "end") /\ UNCHANGED <<sequence, persisted, local>>
        /\ IF admitted THEN Event("disk") ELSE UNCHANGED events
  /\ UNCHANGED <<bindingVars, relayVars, cancelVars, planeVars, nonce, marked, finished,
                 observed, closers, renewal, wire>>

\* The expiry of a permit passes.
PermitLapses(r) ==
  /\ r \in permits \ lapsed /\ Event("permit") /\ lapsed' = lapsed \cup {r}
  /\ UNCHANGED <<bindingVars, relayVars, cancelVars, planeVars, numbers, permits, active, marked,
                 finished, observed, asleep, closers, pc, local, renewal, wire>>

\* The wrapper submits its request, or goes away first.
ConsumePermit(h) ==
  LET r == local[h].seq IN
  /\ At(h, "permitted")
  /\ \/ /\ r \in permits
        /\ permits' = permits \ {r} /\ lapsed' = lapsed \ {r} /\ Stir
        /\ active' = IF r \in lapsed THEN active \ {r} ELSE active
        /\ Goto(h, IF r \in lapsed THEN "release" ELSE "forward")
     \/ Goto(h, "release") /\ UNCHANGED <<permits, lapsed, active, asleep>>
  /\ UNCHANGED <<bindingVars, relayVars, cancelVars, planeVars, numbers, marked, finished,
                 observed, closers, local, renewal, wire, events>>

-----------------------------------------------------------------------------
(* Broker.forward.  Its deferred finishRequestForward and the connection's deferred
   releaseRequest end every path. *)

\* The metadata and the cancel channel.  The generation is the binding's at this
\* moment, not the permit's.
ReadMetadata(h) ==
  /\ At(h, "forward")
  /\ IF Admitting
     THEN /\ Goto(h, "epoch")
          /\ local' = [local EXCEPT ![h].gen = binding.gen, ![h].watch = local[h].seq \in active]
          /\ UNCHANGED fresh
     ELSE Quit(h)
  /\ UNCHANGED <<binding, relayVars, registry, cancelVars, planeVars, numbers, closers,
                 renewal, wire, events>>

LoadEpoch(h) ==
  /\ At(h, "epoch") /\ Goto(h, "turn") /\ fresh' = fresh \cup {h}
  /\ UNCHANGED <<binding, relayVars, registry, cancelVars, planeVars, numbers, closers, local,
                 renewal, wire, events>>

\* Mutant: only requests that were submitted are waited for.
BlockedBySubmitted(r) == \E other \in active \ permits : other < r /\ other \notin marked

\* Mutant: a request is in its own way.
BlockedByItself(r) == \E other \in active \ lapsed : other <= r /\ other \notin marked

Blocked(r) == \E other \in active \ lapsed : other < r /\ other \notin marked

\* One round of waitForSendTurn.  A request that is not in the registry when the wait
\* begins passes; one that leaves it during the wait is revoked.
WaitForSendTurn(h) ==
  LET r == local[h].seq
      present == r \in active \ lapsed IN
  /\ At(h, "turn") /\ h \notin asleep
  /\ permits' = permits \ lapsed /\ active' = active \ lapsed /\ lapsed' = {}
  /\ IF present /\ Blocked(r)
     THEN /\ asleep' = (IF lapsed = {} THEN asleep ELSE {}) \cup {h}
          /\ local' = [local EXCEPT ![h].tracked = TRUE] /\ UNCHANGED <<pc, fresh>>
     ELSE /\ asleep' = IF lapsed = {} THEN asleep ELSE {}
          /\ IF ~present /\ local[h].tracked THEN Quit(h)
             ELSE /\ Goto(h, "validate") /\ UNCHANGED fresh
                  /\ local' = [local EXCEPT ![h].tracked = FALSE]
  /\ UNCHANGED <<binding, relayVars, cancelVars, planeVars, numbers, marked, finished,
                 observed, closers, renewal, wire, events>>

\* The wrapper goes away, or the request's time is over, before its turn.
TurnLost(h) ==
  /\ At(h, "turn") /\ h \in asleep /\ asleep' = asleep \ {h} /\ Quit(h)
  /\ UNCHANGED <<binding, relayVars, cancelVars, planeVars, numbers, permits, lapsed, active,
                 marked, finished, observed, closers, renewal, wire, events>>

ValidateForwardBinding(h) ==
  /\ At(h, "validate")
  /\ IF Admitting /\ binding.gen = local[h].gen THEN Goto(h, "relay") /\ UNCHANGED <<local, fresh>> ELSE Quit(h)
  /\ UNCHANGED <<binding, relayVars, registry, cancelVars, planeVars, numbers, closers, renewal,
                 wire, events>>

\* The handler keeps the relay session and its cancel channel.
Hold(h, k) ==
  /\ fresh' = fresh \ {h}
  /\ local' = [local EXCEPT ![h] = [NoLocal EXCEPT !.seq = local[h].seq, !.watch = local[h].watch,
                                                   !.relay = k]]

\* ensureRelaySession takes relayMu and keeps it while it opens a relay.
EnsureRelaySession(h) ==
  /\ At(h, "relay") /\ relayMu = Nobody
  /\ IF h \notin fresh THEN Quit(h) /\ UNCHANGED relayMu
     ELSE IF relay # 0
     THEN Goto(h, "register") /\ Hold(h, relay) /\ UNCHANGED relayMu
     ELSE Goto(h, "dial") /\ relayMu' = h /\ UNCHANGED <<local, fresh>>
  /\ UNCHANGED <<binding, registry, cancelVars, planeVars, numbers, relay, relayGen, closed,
                 exchange, closers, renewal, wire, events>>

\* The control plane grants tickets for its own generation only.  The epoch is read
\* again once the connection is open.
DialReturns(h) ==
  /\ At(h, "dial")
  /\ \/ /\ plane = [gen |-> local[h].gen, mode |-> "healthy"] /\ h \in fresh
        /\ Goto(h, "install") /\ UNCHANGED <<relayMu, local, fresh>>
     \/ Quit(h) /\ relayMu' = Nobody
  /\ UNCHANGED <<binding, registry, cancelVars, planeVars, numbers, relay, relayGen, closed,
                 exchange, closers, renewal, wire, events>>

InstallRelay(h) ==
  /\ At(h, "install") /\ Goto(h, "register")
  /\ relayGen' = Append(relayGen, local[h].gen) /\ relay' = Len(relayGen) + 1
  /\ relayMu' = Nobody /\ Hold(h, Len(relayGen) + 1)
  /\ UNCHANGED <<binding, registry, cancelVars, planeVars, numbers, closed, exchange, closers,
                 renewal, wire, events>>

\* closeWithError: pending exchanges fail, abandoned ones are forgotten.
ClosedExchange(k) ==
  [r \in Requests |->
     IF exchange[r].relay # k THEN exchange[r]
     ELSE CASE exchange[r].state = "pending" -> [exchange[r] EXCEPT !.state = "error"]
            [] exchange[r].state = "abandoned" -> [exchange[r] EXCEPT !.state = "none"]
            [] OTHER -> exchange[r]]

FailRelay(k) ==
  /\ relayMu = Nobody
  /\ relay' = IF relay = k THEN 0 ELSE relay
  /\ closed' = closed \cup {k} /\ exchange' = ClosedExchange(k)
  /\ UNCHANGED <<relayGen, relayMu>>

RegisterExchange(h) ==
  LET r == local[h].seq k == local[h].relay IN
  /\ At(h, "register")
  /\ IF k \in closed THEN Quit(h) /\ UNCHANGED exchange
     ELSE /\ Goto(h, "send") /\ UNCHANGED <<local, fresh>>
          /\ exchange' = [exchange EXCEPT ![r] = [state |-> "pending", relay |-> k]]
  /\ UNCHANGED <<binding, registry, cancelVars, planeVars, numbers, relay, relayGen, closed,
                 relayMu, closers, renewal, wire, events>>

Send(h) ==
  LET r == local[h].seq k == local[h].relay IN
  /\ At(h, "send")
  /\ \/ /\ k \notin closed /\ Goto(h, "mark")
        /\ wire' = Append(wire, r) /\ UNCHANGED <<relayVars, local, fresh>>
     \/ FailRelay(k) /\ Quit(h) /\ UNCHANGED wire
  /\ UNCHANGED <<binding, registry, cancelVars, planeVars, numbers, closers, renewal, events>>

\* Mutant: sleeping requests are not told.
MarkQuietly(h) ==
  LET r == local[h].seq IN
  /\ At(h, "mark") /\ Goto(h, "await")
  /\ marked' = IF r \in active THEN marked \cup {r} ELSE marked
  /\ UNCHANGED <<bindingVars, relayVars, cancelVars, planeVars, numbers, permits, lapsed, active,
                 asleep, finished, observed, closers, local, renewal, wire, events>>

MarkRequestSent(h) ==
  LET r == local[h].seq IN
  /\ At(h, "mark") /\ Goto(h, "await")
  /\ IF r \in active THEN marked' = marked \cup {r} /\ Stir ELSE UNCHANGED <<marked, asleep>>
  /\ UNCHANGED <<bindingVars, relayVars, cancelVars, planeVars, numbers, permits, lapsed, active,
                 finished, observed, closers, local, renewal, wire, events>>

\* The loop at the end of forward: a result; the cancel frame, sent once; the end of
\* the request's time, which abandons the exchange.
Await(h) ==
  LET r == local[h].seq k == local[h].relay
      answered == exchange[r].state \in {"answer", "error"}
      told == local[h].watch /\ r \in cancelled IN
  /\ At(h, "await")
  /\ \/ /\ answered /\ Goto(h, "finish")
        /\ local' = [local EXCEPT ![h] = [NoLocal EXCEPT !.seq = r, !.ok = exchange[r].state = "answer"]]
        /\ UNCHANGED <<relayVars, fresh>>
     \/ /\ ~answered /\ told
        /\ local' = [local EXCEPT ![h].watch = FALSE] /\ UNCHANGED <<relayVars, pc, fresh>>
     \/ ~answered /\ FailRelay(k) /\ Quit(h)
     \/ /\ ~answered /\ Quit(h)
        /\ exchange' = [exchange EXCEPT ![r].state = "abandoned"]
        /\ UNCHANGED <<relay, relayGen, closed, relayMu>>
  /\ UNCHANGED <<binding, registry, cancelVars, planeVars, numbers, closers, renewal, wire,
                 events>>

\* Mutant: the end of the forward counts as an answer.
FinishAlwaysObserved(h) ==
  LET r == local[h].seq IN
  /\ At(h, "finish") /\ Goto(h, "release")
  /\ finished' = finished \cup ({r} \cap active)
  /\ observed' = observed \cup ({r} \cap active)
  /\ UNCHANGED <<bindingVars, relayVars, cancelVars, planeVars, numbers, permits, lapsed, active,
                 marked, asleep, closers, local, renewal, wire, events>>

FinishRequestForward(h) ==
  LET r == local[h].seq IN
  /\ At(h, "finish") /\ Goto(h, "release")
  /\ finished' = finished \cup ({r} \cap active)
  /\ observed' = IF local[h].ok THEN observed \cup ({r} \cap active) ELSE observed
  /\ UNCHANGED <<bindingVars, relayVars, cancelVars, planeVars, numbers, permits, lapsed, active,
                 marked, asleep, closers, local, renewal, wire, events>>

\* releaseRequest; what only this handler could reach is gone with it.
ReleaseRequest(h) ==
  LET r == local[h].seq IN
  /\ At(h, "release") /\ Goto(h, "end")
  /\ permits' = permits \ {r} /\ lapsed' = lapsed \ {r}
  /\ IF r \in active
     THEN /\ finished' = IF r = waiting THEN finished \cup {r} ELSE finished \ {r}
          /\ observed' = IF r = waiting THEN observed ELSE observed \ {r}
          /\ active' = active \ {r} /\ marked' = marked \ {r} /\ Stir
     ELSE UNCHANGED <<finished, observed, active, marked, asleep>>
  /\ cancelled' = cancelled \ {r} /\ local' = [local EXCEPT ![h] = NoLocal]
  /\ exchange' = IF exchange[r].state = "abandoned" \/ r = waiting THEN exchange
                 ELSE [exchange EXCEPT ![r] = NoExchange]
  /\ UNCHANGED <<bindingVars, planeVars, numbers, relay, relayGen, closed, relayMu, waiting,
                 closers, renewal, wire, events>>

-----------------------------------------------------------------------------
(* The relay. *)

\* The server answers a request it received; readRelay delivers the answer.
Deliver(r) ==
  /\ r \in Range(wire)
  /\ exchange[r].state \in {"pending", "abandoned"} /\ exchange[r].relay \notin closed
  /\ exchange' = [exchange EXCEPT ![r].state =
                    IF exchange[r].state = "pending" THEN "answer" ELSE "none"]
  /\ UNCHANGED <<bindingVars, registry, cancelVars, planeVars, numbers, relay, relayGen, closed,
                 relayMu, closers, pc, local, renewal, wire, events>>

RelayBreaks ==
  /\ relay # 0 /\ Event("relay") /\ FailRelay(relay)
  /\ UNCHANGED <<bindingVars, registry, cancelVars, planeVars, numbers, closers, pc, local, renewal,
                 wire>>

\* Mutant: a relay that is being opened is not waited for.
CloseRelayNow(c) ==
  /\ c \in closers /\ closers' = closers \ {c} /\ relay' = 0
  /\ closed' = closed \cup ({relay} \ {0}) /\ exchange' = ClosedExchange(relay)
  /\ UNCHANGED <<bindingVars, registry, cancelVars, planeVars, numbers, relayGen, relayMu, pc,
                 local, renewal, wire, events>>

CloseRelay(c) ==
  /\ c \in closers /\ closers' = closers \ {c}
  /\ relayMu = Nobody /\ relay' = 0
  /\ closed' = closed \cup ({relay} \ {0}) /\ exchange' = ClosedExchange(relay)
  /\ UNCHANGED <<bindingVars, registry, cancelVars, planeVars, numbers, relayGen, relayMu, pc,
                 local, renewal, wire, events>>

-----------------------------------------------------------------------------
(* The session, cancellations, the control plane and restarts. *)

\* reloadToolSession.
Reload ==
  /\ Registered /\ binding.bound /\ Wrapper \notin closers
  /\ Event("reload") /\ ClearMaterials /\ closers' = closers \cup {Wrapper}
  /\ UNCHANGED <<binding, relayVars, cancelVars, planeVars, numbers, pc, local, renewal, wire>>

WorkerFree == Worker \notin closers /\ waiting = 0

UnregisterToolSession ==
  /\ Registered /\ WorkerFree /\ Event("session") /\ nonce' = nonce + 1
  /\ IF binding.bound THEN ClearMaterials /\ closers' = closers \cup {Worker}
     ELSE UNCHANGED <<fresh, registry, closers>>
  /\ UNCHANGED <<binding, relayVars, cancelVars, planeVars, sequence, persisted, pc, local, renewal,
                 wire>>

RegisterToolSession ==
  /\ ~Registered /\ WorkerFree /\ nonce' = nonce + 1
  /\ UNCHANGED <<bindingVars, relayVars, registry, cancelVars, planeVars, sequence, persisted,
                 closers, pc, local, renewal, wire, events>>

\* CancelRequestAndWait of a request the server has received.
CancelRequest(r) ==
  /\ WorkerFree /\ Event("cancel") /\ r \in active /\ r \in Range(wire)
  /\ cancelled' = cancelled \cup {r} /\ waiting' = r
  /\ UNCHANGED <<bindingVars, relayVars, registry, planeVars, numbers, closers, pc, local, renewal,
                 wire>>

\* The forward is over, and observed says whether the server answered.
CancelReturns ==
  /\ waiting \in finished /\ waiting' = 0
  /\ finished' = finished \cap active /\ observed' = observed \cap active
  /\ UNCHANGED <<bindingVars, relayVars, planeVars, numbers, permits, lapsed, active, marked, asleep,
                 cancelled, closers, pc, local, renewal, wire, events>>

CancelTimesOut ==
  /\ waiting # 0 /\ waiting' = 0
  /\ finished' = finished \cap active /\ observed' = observed \cap active
  /\ UNCHANGED <<bindingVars, relayVars, planeVars, numbers, permits, lapsed, active, marked, asleep,
                 cancelled, closers, pc, local, renewal, wire, events>>

\* A binding that is gone does not come back.
PlaneChanges ==
  /\ plane.mode # "gone" /\ Event("plane")
  /\ \/ \E m \in PlaneModes \ {plane.mode} : plane' = [plane EXCEPT !.mode = m]
     \/ plane.gen < MaxGeneration /\ plane' = [gen |-> plane.gen + 1, mode |-> "healthy"]
  /\ UNCHANGED <<bindingVars, relayVars, registry, cancelVars, snapshot, numbers, closers, pc,
                 local, renewal, wire>>

\* The process ends and starts again: only the sequence file is left.
Restart ==
  /\ Event("restart")
  /\ sequence' = persisted /\ nonce' = nonce + (nonce % 2) /\ UNCHANGED persisted
  /\ binding' = NoBinding /\ fresh' = {}
  /\ relay' = 0 /\ relayGen' = <<>> /\ closed' = {} /\ relayMu' = Nobody
  /\ exchange' = [r \in Requests |-> NoExchange] /\ closers' = {}
  /\ permits' = {} /\ lapsed' = {} /\ active' = {} /\ marked' = {}
  /\ finished' = {} /\ observed' = {} /\ asleep' = {}
  /\ cancelled' = {} /\ waiting' = 0
  /\ pc' = [a \in Actors |-> IF a = Loop \/ pc[a] = "idle" THEN "idle" ELSE "end"]
  /\ renewal' = [a \in Actors |-> NoRenewal]
  /\ snapshot' = NoSnapshot /\ local' = [h \in Handlers |-> NoLocal]
  /\ UNCHANGED <<plane, wire>>

-----------------------------------------------------------------------------
HandlerStep(h) ==
  \/ Connect(h) \/ RenewReturns(h) \/ IssuePermit(h) \/ ConsumePermit(h)
  \/ ReadMetadata(h) \/ LoadEpoch(h) \/ WaitForSendTurn(h) \/ ValidateForwardBinding(h)
  \/ EnsureRelaySession(h) \/ DialReturns(h) \/ InstallRelay(h) \/ RegisterExchange(h)
  \/ Send(h) \/ MarkRequestSent(h) \/ Await(h) \/ FinishRequestForward(h) \/ ReleaseRequest(h)

LoopStep == Refresh \/ SetBindings \/ RenewDue \/ RenewReturns(Loop)

Next ==
  \/ \E h \in Handlers : HandlerStep(h) \/ TurnLost(h)
  \/ LoopStep
  \/ \E c \in closers : CloseRelay(c)
  \/ \E r \in Requests : PermitLapses(r) \/ Deliver(r) \/ CancelRequest(r)
  \/ RelayBreaks \/ Reload \/ UnregisterToolSession \/ RegisterToolSession
  \/ CancelReturns \/ CancelTimesOut \/ PlaneChanges \/ Restart

\* Goroutines run, calls have timeouts and a connection has a deadline, so every step
\* of a handler happens in the end; a request's own time limit need not be what ends
\* the wait for its turn.
Spec ==
  /\ Init /\ [][Next]_vars
  /\ WF_vars(\E h \in Handlers : HandlerStep(h))
  /\ WF_vars(\E c \in closers : CloseRelay(c))

-----------------------------------------------------------------------------
(* Properties. *)

\* Between its turn and its write a request has no earlier request of the registry
\* left to overtake, whatever was issued, cleared, pruned or released since
\* waitForSendTurn looked; and a sequence number is written to a relay at most once,
\* restarts included.
TurnKept ==
  /\ \A h \in Handlers : pc[h] \in Sending =>
       \A other \in active : other < local[h].seq => other \in marked
  /\ \A m, n \in DOMAIN wire : wire[m] = wire[n] => m = n

\* A handler that sleeps in waitForSendTurn has a reason to: every change of the
\* registry that lets it pass also wakes it.
NoLostWakeup ==
  \A h \in asleep : local[h].seq \in active
                    /\ \E other \in active : other < local[h].seq /\ other \notin marked

\* A relay that is installed was opened for the binding's generation, and the
\* binding is neither paused nor expired; where it is not so, a goroutine is on its
\* way to close it.  This is what the epoch and relayMu are for: a refresh can come
\* between any two steps of ensureRelaySession.
NoStaleRelay ==
  relay # 0 /\ closers = {} => Renewable /\ relayGen[relay] = binding.gen

\* A cancellation task is told of a terminal response only when the server answered
\* that request.  Until then it waits for a request that is still in the registry, and
\* so for a handler that will release it, or whose forwardDone is closed: whoever takes
\* a request the server has out of the registry closes it.
CancelTruth ==
  /\ waiting \in observed => exchange[waiting].state = "answer"
  /\ waiting # 0 => waiting \in active \cup finished

\* A delayed snapshot or renewal moves no binding back to an earlier generation, and
\* a generation that ended here does not come back to life.
NoRevival ==
  [][binding.bound /\ binding'.bound =>
       /\ binding'.gen >= binding.gen
       /\ binding.terminal /\ binding'.gen = binding.gen => binding'.terminal]_vars

\* Every connection comes to its end, also without its time limit for the turn: no
\* set of requests waits for one another, for relayMu or for a wake-up that was lost.
ConnectionsEnd ==
  (\E h \in Handlers : pc[h] \notin {"idle", "end"})
    ~> (\A h \in Handlers : pc[h] \in {"idle", "end"})

\* docs/rules/10-node-control.md: "strict wire-order sequence submission", asked of the
\* relay that is installed while nobody is about to close it.
WireOrder ==
  closers = {} => \A m, n \in DOMAIN wire :
    m < n /\ relay # 0 /\ exchange[wire[m]].relay = relay /\ exchange[wire[n]].relay = relay
      => wire[m] < wire[n]

=============================================================================
