------------------------------ MODULE MCSwarm ------------------------------
(* Two agents, of which one may use a tool, and one permit. *)
EXTENDS SwarmCoordinator, TLC

CONSTANTS a, b, search

MCAgents == {a, b}
MCAllowed == (a :> {search}) @@ [x \in MCAgents |-> {}]
=============================================================================
