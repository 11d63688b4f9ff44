----------------------------- MODULE SessionGate -----------------------------
(***************************************************************************)
(* What the runtime helper promises about a tool session, whatever the     *)
(* order in which starts, stops, crashes and replays arrive: a session is  *)
(* launched only while it is open, closing it is permanent, and its        *)
(* runtime may go away at any time.                                        *)
(***************************************************************************)
CONSTANT Sessions

VARIABLES open,     \* sessions for which no stop intent was accepted
          running   \* sessions whose original runtime is alive

gateVars == <<open, running>>

GateInit == open = Sessions /\ running = {}

\* systemd-run was submitted, or a terminal started, while the fence was open.
Admit(s) == s \in open /\ running' = running \cup {s} /\ UNCHANGED open

\* Stop intents were accepted for these sessions.
Close(S) == open' = open \ S /\ UNCHANGED running

\* Runtimes stopped, exited or died with the host.
Halt(S) == running' = running \ S /\ UNCHANGED open

GateNext ==
  \/ \E s \in Sessions : Admit(s)
  \/ \E S \in SUBSET Sessions : Close(S) \/ Halt(S)

GateSpec == GateInit /\ [][GateNext]_gateVars
=============================================================================
