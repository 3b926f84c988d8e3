--------------------------- MODULE MCDagRecovery ---------------------------
(* A chain of three nodes beside a node of its own. *)
EXTENDS DagRecovery, TLC

CONSTANTS a, b, c, d

Chain == {<<a, b>>, <<b, c>>}
Fresh == {[n \in Nodes |-> "Pending"]}
=============================================================================
