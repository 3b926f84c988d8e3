--------------------------- MODULE MCDagExecution ---------------------------
(* Small task graphs for DagExecution. *)
EXTENDS DagExecution, TLC

CONSTANTS a, b, c, d

\* A join (c waits for a and b) whose second input also feeds d: with one
\* permit the first batch is larger than the cap.
JoinAndChain == {<<a, c>>, <<b, c>>, <<b, d>>}

\* Three roots, two of which feed d: a batch of three for two permits.
ThreeRoots == {<<a, d>>, <<b, d>>}

Fresh == {[n \in Nodes |-> "Pending"]}

\* What decompose, replan and an earlier run can leave in a spec: one node
\* that is not Pending any more, or none.
FreshOrReused ==
    {[n \in Nodes |-> IF n = m THEN s ELSE "Pending"] :
        m \in Nodes, s \in {"Pending", "Running", "Completed", "Failed", "Skipped"}}
=============================================================================
