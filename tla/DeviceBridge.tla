---------------------------- MODULE DeviceBridge ----------------------------
(***************************************************************************)
(* Device control: the tasks that activate and revoke a device session,    *)
(* the manifest and the proxy context they keep, and the local bridges     *)
(* through which the device proxy of one tool session reaches the relay of *)
(* the control plane.                                                      *)
(*                                                                         *)
(* One task runs at a time, but every bridge has goroutines of its own: an *)
(* accept loop, a watcher of its context, and one handler for each         *)
(* connection.  Stopping a bridge closes the connections it knows of and   *)
(* waits for the accept loop only.                                         *)
(***************************************************************************)
EXTENDS Naturals, FiniteSets

CONSTANTS
    Activations,    \* the activations that are sent: [dev, gen]
    Sessions,       \* bridge sessions, by the order they start in
    Dials,          \* connections of the device proxy
    MaxTasks        \* tasks that run

ASSUME BridgeAssumption == Activations # {}

VARIABLES
    manifest,   \* the stored generation of each device session, 0 if none
    context,    \* the proxy's context: {} or {activation}
    bridge,     \* the bridge sessions
    table,      \* the sessions the manager knows
    socket,     \* whose listener the socket path leads to: {} or {session}
    dial,       \* the proxy's connections
    task,       \* the task that runs
    tasks       \* how many have begun

bvars == <<manifest, context, bridge, table, socket, dial, task, tasks>>

Devices == {a.dev : a \in Activations}

NoTask == [kind |-> "none", act |-> CHOOSE a \in Activations : TRUE,
           do |-> "none", keys |-> {}, stopping |-> {}]

BInit ==
    /\ manifest = [d \in Devices |-> 0]
    /\ context = {}
    /\ bridge = [s \in Sessions |-> [act |-> {}, loop |-> "none", listening |-> FALSE,
                                     cancelled |-> FALSE, watching |-> FALSE]]
    /\ table = {}
    /\ socket = {}
    /\ dial = [c \in Dials |-> [to |-> {}, do |-> "none", known |-> FALSE,
                                local |-> FALSE, remote |-> FALSE]]
    /\ task = NoTask
    /\ tasks = 0

-----------------------------------------------------------------------------
(* Tasks.                                                                  *)

TaskTo(step) == task' = [task EXCEPT !.do = step]

\* The tasks that a well-formed, unexpired payload of this node leads to.
DecodeActivatePayload ==
    {[NoTask EXCEPT !.kind = "activate", !.act = a, !.do = "clear"] : a \in Activations}

DecodeDeactivatePayload ==
    {[NoTask EXCEPT !.kind = "deactivate", !.act = a, !.do = "find"] : a \in Activations}

StopToolSession == [NoTask EXCEPT !.kind = "stop", !.do = "find"]

BeginTask ==
    /\ task.kind = "none" /\ tasks < MaxTasks
    /\ tasks' = tasks + 1
    /\ task' \in DecodeActivatePayload \cup DecodeDeactivatePayload \cup {StopToolSession}
    /\ UNCHANGED <<manifest, context, bridge, table, socket, dial>>

EndTask == task' = NoTask

\* A context that is older than the task's generation, or as old when the
\* task revokes it, is removed; one of another device session fails the task.
Cleared(inclusive) ==
    {c \in context : c.gen > task.act.gen \/ (~inclusive /\ c.gen = task.act.gen)}

\* What the helper finds of the tool session: its specification, none (and so
\* no socket path either), or one it does not trust.
LoadManagedSessionContextSpec == {"found", "absent", "refused"}

\* The context as it is on disk, or nothing that can be used.
LoadManagedDeviceContext == {{context}, {}}

ClearContext ==
    /\ task.do = "clear"
    /\ \E spec \in LoadManagedSessionContextSpec, current \in LoadManagedDeviceContext :
          CASE spec = "absent" -> TaskTo("unbridged") /\ UNCHANGED context
            [] spec = "found" /\ current # {} /\ \A c \in context : c.dev = task.act.dev ->
                  context' = Cleared(task.kind = "deactivate") /\ TaskTo("manifest")
            [] OTHER -> EndTask /\ UNCHANGED context
    /\ UNCHANGED <<manifest, bridge, table, socket, dial, tasks>>

\* The generation the manifest names, or none; the directory or the file may
\* be refused.
LoadManifest == {{manifest[task.act.dev]}, {}}

\* The manifest only moves to a newer generation.
Activate ==
    /\ task.do \in {"manifest", "unbridged"} /\ task.kind = "activate"
    /\ \E current \in LoadManifest :
          IF current = {} \/ \E gen \in current : gen > task.act.gen
          THEN EndTask /\ UNCHANGED manifest
          ELSE /\ manifest' = [manifest EXCEPT ![task.act.dev] = task.act.gen]
               /\ IF task.do = "manifest" THEN TaskTo("find") ELSE EndTask
    /\ UNCHANGED <<context, bridge, table, socket, dial, tasks>>

Deactivate ==
    /\ task.do \in {"manifest", "unbridged"} /\ task.kind = "deactivate"
    /\ \E current \in LoadManifest :
          manifest' = [manifest EXCEPT ![task.act.dev] =
                          IF \E gen \in current : gen <= task.act.gen THEN 0 ELSE @]
    /\ EndTask
    /\ UNCHANGED <<context, bridge, table, socket, dial, tasks>>

\* The new context is there as a whole, or the old one still is.
WriteManagedDeviceContext(act) == context' \in {{act}, context}

\* A newer generation replaces the context; the same generation renews it.
UpdateContext(act) ==
    /\ task.kind = "none" /\ tasks < MaxTasks
    /\ tasks' = tasks + 1
    /\ \A c \in context : c.gen < act.gen \/ c = act
    /\ WriteManagedDeviceContext(act)
    /\ UNCHANGED <<manifest, bridge, table, socket, dial, task>>

-----------------------------------------------------------------------------
(* The manager: finding the sessions a task ends, and ending them.         *)

ActOf(s) == CHOOSE a \in bridge[s].act : TRUE

SameDevice(s) == ActOf(s).dev = task.act.dev

StopThroughKeys == {s \in table : SameDevice(s) /\ ActOf(s).gen <= task.act.gen}

\* Every bridge of the tool session conflicts with its new activation, and a
\* newer generation of the same device session refuses it.
Stale == \E s \in table : SameDevice(s) /\ ActOf(s).gen > task.act.gen

AfterStops ==
    CASE task.kind = "activate" -> "listen"
      [] task.kind = "deactivate" -> "clear"
      [] task.kind = "stop" -> "stopped"

\* The socket path may be refused before any bridge is looked at.
FindSessions ==
    /\ task.do = "find"
    /\ \/ task.kind = "activate" /\ EndTask
       \/ /\ ~(task.kind = "activate" /\ Stale)
          /\ task' = [task EXCEPT !.do = "stop",
                         !.keys = IF task.kind = "deactivate" THEN StopThroughKeys ELSE table]
    /\ UNCHANGED <<manifest, context, bridge, table, socket, dial, tasks>>

\* Closing the listener of s unlinks the path, whatever it leads to by then,
\* and closes the connections s knows of.
Halted(s) == [bridge EXCEPT ![s].listening = FALSE, ![s].cancelled = TRUE]

Unlinked(s) == IF bridge[s].listening THEN {} ELSE socket

HungUp(s) ==
    [c \in Dials |-> CASE dial[c].to = {s} /\ dial[c].known -> [dial[c] EXCEPT !.local = FALSE]
                       [] dial[c].to = {s} /\ dial[c].do = "backlog" /\ bridge[s].listening ->
                              [dial[c] EXCEPT !.do = "ended", !.local = FALSE]
                       [] OTHER -> dial[c]]

\* Mutant: the accept loop is not waited for.
StopAndLeave(s) ==
    /\ task.do = "stop" /\ s \in task.keys /\ task.stopping = {}
    /\ table' = table \ {s}
    /\ bridge' = Halted(s)
    /\ socket' = Unlinked(s)
    /\ dial' = HungUp(s)
    /\ task' = [task EXCEPT !.keys = @ \ {s}]
    /\ UNCHANGED <<manifest, context, tasks>>

\* Mutant: the known connections are left to their handlers.
StopListening(s) ==
    /\ task.do = "stop" /\ s \in task.keys /\ task.stopping = {}
    /\ table' = table \ {s}
    /\ bridge' = [Halted(s) EXCEPT ![s].watching = FALSE]
    /\ socket' = Unlinked(s)
    /\ task' = [task EXCEPT !.keys = @ \ {s}, !.stopping = {s}]
    /\ UNCHANGED <<manifest, context, dial, tasks>>

Stop(s) ==
    /\ task.do = "stop" /\ s \in task.keys /\ task.stopping = {}
    /\ table' = table \ {s}
    /\ bridge' = Halted(s)
    /\ socket' = Unlinked(s)
    /\ dial' = HungUp(s)
    /\ task' = [task EXCEPT !.keys = @ \ {s}, !.stopping = {s}]
    /\ UNCHANGED <<manifest, context, tasks>>

AwaitDone ==
    /\ task.do = "stop"
    /\ \A s \in task.stopping : bridge[s].loop = "done"
    /\ task' = [task EXCEPT !.stopping = {}, !.do = IF task.keys = {} THEN AfterStops ELSE "stop"]
    /\ UNCHANGED <<manifest, context, bridge, table, socket, dial, tasks>>

EndStopTask ==
    /\ task.do = "stopped"
    /\ EndTask
    /\ UNCHANGED <<manifest, context, bridge, table, socket, dial, tasks>>

\* The new bridge: what is left at the path is removed, the listener opened,
\* the session entered, and its loop and watcher started.
Listen(s) ==
    /\ task.do = "listen"
    /\ bridge[s].loop = "none" /\ \A t \in Sessions : t < s => bridge[t].loop # "none"
    /\ bridge' = [bridge EXCEPT ![s] = [act |-> {task.act}, loop |-> "accept", listening |-> TRUE,
                                        cancelled |-> FALSE, watching |-> TRUE]]
    /\ socket' = {s}
    /\ table' = table \cup {s}
    /\ EndTask
    /\ UNCHANGED <<manifest, context, dial, tasks>>

\* What is at the path is no socket or cannot be removed; or it is removed and
\* the listener cannot be opened, or the activation had expired on arrival.
ListenFails ==
    /\ task.do = "listen"
    /\ socket' \in {socket, {}}
    /\ EndTask
    /\ UNCHANGED <<manifest, context, bridge, table, dial, tasks>>

-----------------------------------------------------------------------------
(* The goroutines of a bridge.                                             *)

\* The activation expires, or the worker shuts down.
Expire(s) ==
    /\ bridge[s].loop # "none" /\ ~bridge[s].cancelled
    /\ bridge' = [bridge EXCEPT ![s].cancelled = TRUE]
    /\ UNCHANGED <<manifest, context, table, socket, dial, task, tasks>>

Watch(s) ==
    /\ bridge[s].cancelled /\ bridge[s].watching
    /\ bridge' = [Halted(s) EXCEPT ![s].watching = FALSE]
    /\ socket' = Unlinked(s)
    /\ dial' = HungUp(s)
    /\ UNCHANGED <<manifest, context, table, task, tasks>>

\* A connection that was accepted is entered after the lock is taken.
Accept(s, c) ==
    /\ bridge[s].loop = "accept" /\ bridge[s].listening
    /\ dial[c].to = {s} /\ dial[c].do = "backlog"
    /\ dial' = [dial EXCEPT ![c].do = "accepted"]
    /\ bridge' = [bridge EXCEPT ![s].loop = "enter"]
    /\ UNCHANGED <<manifest, context, table, socket, task, tasks>>

Enter(s, c) ==
    /\ bridge[s].loop = "enter"
    /\ dial[c].to = {s} /\ dial[c].do = "accepted"
    /\ dial' = [dial EXCEPT ![c].do = "hello", ![c].known = TRUE]
    /\ bridge' = [bridge EXCEPT ![s].loop = "accept"]
    /\ UNCHANGED <<manifest, context, table, socket, task, tasks>>

\* The loop ends when the listener is closed: it removes the path once more.
EndLoop(s) ==
    /\ bridge[s].loop = "accept" /\ ~bridge[s].listening
    /\ bridge' = [bridge EXCEPT ![s].loop = "done", ![s].cancelled = TRUE]
    /\ socket' = {}
    /\ UNCHANGED <<manifest, context, table, dial, task, tasks>>

-----------------------------------------------------------------------------
(* One connection.                                                         *)

DialTo(c, step) == dial' = [dial EXCEPT ![c].do = step]

Settled == UNCHANGED <<manifest, context, bridge, table, socket, task, tasks>>

Hangup(c) ==
    dial' = [dial EXCEPT ![c].do = "ended", ![c].known = FALSE, ![c].local = FALSE,
                         ![c].remote = FALSE]

SessionOf(c) == CHOOSE s \in dial[c].to : TRUE

Connect(c) ==
    /\ dial[c].do = "none" /\ socket # {}
    /\ dial' = [dial EXCEPT ![c] = [to |-> socket, do |-> "backlog", known |-> FALSE,
                                    local |-> TRUE, remote |-> FALSE]]
    /\ Settled

\* One frame: a strict object that names an activation, or nothing of use.
ReadBridgeFrame == {{}} \cup {{a} : a \in Activations}

ValidBridgeHello(c, hello) == hello = bridge[SessionOf(c)].act

\* The proxy says which activation its context names; nothing goes to the
\* control plane for another one.
Hello(c) ==
    /\ dial[c].do = "hello"
    /\ \/ dial[c].local /\ \E hello \in ReadBridgeFrame :
              IF ValidBridgeHello(c, hello) THEN DialTo(c, "register") ELSE Hangup(c)
       \/ ~dial[c].local /\ Hangup(c)
    /\ Settled

\* The material is asked for until it is ready; a cancelled context refuses
\* the request before it is sent.
AwaitRelayMaterial(c) ==
    /\ dial[c].do = "register"
    /\ IF bridge[SessionOf(c)].cancelled
       THEN Hangup(c)
       ELSE DialTo(c, "answer")
    /\ Settled

MaterialAnswer(c) ==
    /\ dial[c].do = "answer"
    /\ \/ DialTo(c, "register")       \* waiting: once more after a pause
       \/ DialTo(c, "open")           \* ready
       \/ Hangup(c)                 \* refused, or not of this generation
    /\ Settled

\* The relay is dialled under the context; its answer may cross a cancel.
OpenDeviceRelay(c) ==
    /\ dial[c].do = "open"
    /\ IF bridge[SessionOf(c)].cancelled THEN Hangup(c) ELSE DialTo(c, "opening")
    /\ Settled

RelayOpened(c) ==
    /\ dial[c].do = "opening"
    /\ \/ dial' = [dial EXCEPT ![c].do = "write", ![c].remote = TRUE]
       \/ Hangup(c)
    /\ Settled

\* The proxy gets its material before anything is relayed.
WriteBridgeFrame(c) ==
    /\ dial[c].do = "write"
    /\ IF dial[c].local THEN DialTo(c, "relay") ELSE Hangup(c)
    /\ Settled

\* Either side ends both: one copy fails, and both ends are closed.
CopyOpaqueRelay(c) ==
    /\ dial[c].do = "relay"
    /\ Hangup(c)
    /\ Settled

PeerCloses(c) ==
    /\ dial[c].local /\ dial[c].do # "backlog"
    /\ dial' = [dial EXCEPT ![c].local = FALSE]
    /\ Settled

-----------------------------------------------------------------------------
TaskStep ==
    \/ BeginTask
    \/ \E act \in Activations : UpdateContext(act)
    \/ ClearContext \/ Activate \/ Deactivate \/ FindSessions \/ AwaitDone \/ EndStopTask
    \/ \E s \in Sessions : Stop(s) \/ Listen(s)
    \/ ListenFails

BridgeStep ==
    \/ \E s \in Sessions : Expire(s) \/ Watch(s) \/ EndLoop(s)
    \/ \E s \in Sessions, c \in Dials : Accept(s, c) \/ Enter(s, c)

DialStep ==
    \E c \in Dials :
       \/ Connect(c) \/ Hello(c) \/ AwaitRelayMaterial(c) \/ MaterialAnswer(c)
       \/ OpenDeviceRelay(c) \/ RelayOpened(c) \/ WriteBridgeFrame(c)
       \/ CopyOpaqueRelay(c) \/ PeerCloses(c)

BNext == TaskStep \/ BridgeStep \/ DialStep

BSpec == BInit /\ [][BNext]_bvars

-----------------------------------------------------------------------------
(* Properties.                                                             *)

\* A bridge whose activation is live can be reached: the socket path leads to
\* it, although every bridge that ends removes the path by its name, and more
\* than once (BridgeManager.Start, Stop and serve).
SocketOwned ==
    \A s \in table : ~bridge[s].cancelled => bridge[s].listening /\ socket = {s}

\* Nothing is relayed through a bridge that was stopped: whatever connection
\* was accepted while it stopped, and whatever request crossed the stop, a
\* relay that is still open has lost its local end and closes
\* (BridgeManager.Stop, serve and handle).
StoppedRelaysEnd ==
    \A c \in Dials :
        dial[c].remote => \/ ~dial[c].local
                          \/ bridge[SessionOf(c)].loop # "done"
=============================================================================
