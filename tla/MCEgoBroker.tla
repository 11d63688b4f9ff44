------------------------------ MODULE MCEgoBroker ------------------------------
(* The ego-browser broker on small instances: model values for the connections. *)
EXTENDS EgoBroker, TLC

Connections == Permutations(Handlers)
=============================================================================
