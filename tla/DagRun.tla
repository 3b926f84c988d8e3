------------------------------- MODULE DagRun -------------------------------
(***************************************************************************)
(* What a caller of the DAG engine may rely on, without queues, permits,    *)
(* handles or reports: a task graph is worked through once, forward only.   *)
(*   - a task starts at most once, while the run is open, and only after    *)
(*     every task it depends on is done (or was bypassed before the run);   *)
(*   - a verdict (done, dropped) is final;                                  *)
(*   - once the run is closed nothing starts any more, and when it is over  *)
(*     no task is left waiting.                                             *)
(* DagExecution implements this specification (see Engine there).           *)
(***************************************************************************)
EXTENDS Integers

CONSTANTS Nodes,   \* the tasks of the graph
          Edges    \* <<from, to>>: from must be done before to starts

VARIABLES st,        \* the state of each task
          bypassed,  \* the tasks whose result nobody waits for
          phase      \* "open", then "closed", then "over"

absVars == <<st, bypassed, phase>>

TaskState == {"waiting", "active", "done", "dropped"}

Inputs(n) == {p \in Nodes : <<p, n>> \in Edges}

AbsTypeOK ==
    /\ st \in [Nodes -> TaskState]
    /\ bypassed \in SUBSET Nodes
    /\ phase \in {"open", "closed", "over"}

AbsInit ==
    /\ st \in [Nodes -> TaskState]
    /\ bypassed \in SUBSET {n \in Nodes : st[n] = "dropped"}
    /\ phase = "open"

\* A waiting task starts once all its inputs are available.
Start(n) ==
    /\ phase = "open"
    /\ st[n] = "waiting"
    /\ \A p \in Inputs(n) : st[p] = "done" \/ p \in bypassed
    /\ st' = [st EXCEPT ![n] = "active"]
    /\ UNCHANGED <<bypassed, phase>>

\* A task succeeds while the run is open.
Succeed(n) ==
    /\ phase = "open"
    /\ st[n] = "active"
    /\ st' = [st EXCEPT ![n] = "done"]
    /\ UNCHANGED <<bypassed, phase>>

\* The run stops taking new work, giving up any tasks without a verdict.
Close(given_up) ==
    /\ phase = "open"
    /\ \A n \in given_up : st[n] \in {"waiting", "active"}
    /\ st' = [n \in Nodes |-> IF n \in given_up THEN "dropped" ELSE st[n]]
    /\ phase' = "closed"
    /\ UNCHANGED bypassed

\* A task that was still active when the run closed reports late.
ReportLate(n, verdict) ==
    /\ phase = "closed"
    /\ st[n] = "active"
    /\ st' = [st EXCEPT ![n] = verdict]
    /\ UNCHANGED <<bypassed, phase>>

\* The run ends: what never started is dropped.
Conclude ==
    /\ phase = "closed"
    /\ st' = [n \in Nodes |-> IF st[n] = "waiting" THEN "dropped" ELSE st[n]]
    /\ phase' = "over"
    /\ UNCHANGED bypassed

AbsNext ==
    \/ \E n \in Nodes : Start(n) \/ Succeed(n)
    \/ \E given_up \in SUBSET Nodes : Close(given_up)
    \/ \E n \in Nodes, verdict \in {"done", "dropped"} : ReportLate(n, verdict)
    \/ Conclude

AbsSpec == AbsInit /\ [][AbsNext]_absVars
=============================================================================
