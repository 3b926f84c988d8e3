---------------------------- MODULE DagExecution ----------------------------
(***************************************************************************)
(* DagExecutionEngine::run_with_outcome (hydragent-planner,                 *)
(* dag_execution.rs), with the ready queue it polls (scheduler.rs).         *)
(*                                                                         *)
(* One engine task drives a validated DagSpec: it snapshots the ready       *)
(* nodes, starts a sub-agent for each of them under a semaphore, waits for  *)
(* one of them (or for the cancel token), applies its verdict, and starts   *)
(* over.  The first failure or the token ends the loop; what is in flight   *)
(* is then drained with a time limit and what never ran is skipped.         *)
(* Sub-agents, the wrappers that hold their permits and the holder of the   *)
(* token run concurrently with the engine.                                  *)
(*                                                                         *)
(* While it is blocked on the semaphore the engine looks neither at the     *)
(* token nor at the verdicts that arrive.                                   *)
(***************************************************************************)
EXTENDS Integers, FiniteSets

CONSTANTS Nodes,            \* ids of the DagSpec's nodes
          Edges,            \* its DagEdges, as pairs <<from, to>>
          MaxConcurrent,    \* max_concurrent; 0 means no limit
          InitialStatuses   \* the statuses a spec may be handed in with

\* NodeStatus.  No code of the engine ever assigns Ready.
NodeStatus ==
    {"Pending", "Ready", "Running", "Completed", "Failed", "Skipped"}

\* What a sub-agent's task can end in: a terminal AgentState, or a panic,
\* which its join handle reports as an error.
Verdict == {"Completed", "Failed", "Cancelled", "Panicked"}

\* DagSpec::validate: every edge joins two nodes of the spec and a
\* topological order (here: a rank) exists.  run_with_outcome returns an
\* error before its first step otherwise.
ValidSpec ==
    /\ Edges \subseteq Nodes \X Nodes
    /\ \E rank \in [Nodes -> 1..Cardinality(Nodes)] :
           \A e \in Edges : rank[e[1]] < rank[e[2]]

ASSUME NodesAssumption == IsFiniteSet(Nodes)
ASSUME SpecAssumption == ValidSpec
ASSUME MaxConcurrentAssumption == MaxConcurrent \in Nat
ASSUME InitialStatusesAssumption == InitialStatuses \subseteq [Nodes -> NodeStatus]

VARIABLES
    pc,          \* where the engine is (see TypeOK)
    given,       \* the statuses the spec was handed in with (never written)
    status,      \* NodeStatus of every node
    batch,       \* what is left of the snapshot of ready nodes
    starting,    \* the node marked Running whose permit is awaited, if any
    inFlight,    \* the nodes whose join handle is in the in_flight map
    agent,       \* the sub-agent of a node: "Idle", "Running" or its Verdict
    permits,     \* the nodes whose wrapper task holds a permit
    cancelled,   \* the CancellationToken has fired
    hadFailure,  \* had_failure
    results,     \* report.node_results: a NodeStatus, or "None" for no entry
    count        \* report.completed, .failed, .cancelled, .skipped

engineVars == <<pc, given, batch, starting, inFlight, hadFailure>>
specVars == <<status, results, count>>
taskVars == <<agent, permits>>
vars == <<pc, given, status, batch, starting, inFlight, agent, permits,
          cancelled, hadFailure, results, count>>

Parents(n) == {p \in Nodes : <<p, n>> \in Edges}
-----------------------------------------------------------------------------
(* The ready queue and the status updates.                                  *)

\* Plausible mistakes in what follows, for the mutation runs: a parent that
\* merely started counts as done; completed nodes are ready again; only the
\* roots are ever ready.
ReadyNodesStale(st) ==
    {n \in Nodes : st[n] = "Pending" /\ \A p \in Parents(n) : st[p] # "Pending"}
ReadyNodesAgain(st) ==
    {n \in Nodes : st[n] \in {"Pending", "Completed"}
                   /\ \A p \in Parents(n) : st[p] \in {"Completed", "Skipped"}}
ReadyNodesRootsOnly(st) ==
    {n \in Nodes : st[n] = "Pending" /\ Parents(n) = {}}

\* ReadyQueue::get_ready_nodes.
ReadyNodes(st) ==
    {n \in Nodes : st[n] = "Pending"
                   /\ \A p \in Parents(n) : st[p] \in {"Completed", "Skipped"}}

\* Mistake: the verdict is stored as it is.
StatusOfRaw(verdict) == verdict

\* apply_status and status_to_outcome: NodeStatus has no Cancelled.
StatusOf(verdict) == IF verdict = "Cancelled" THEN "Skipped" ELSE verdict

\* Mistake: a node's own status is not looked at.
BlockedNodesAnyStatus(st) ==
    {n \in Nodes : \E p \in Parents(n) : st[p] \notin {"Completed", "Skipped"}}

\* skip_downstream: a Pending node with a parent that is neither Completed
\* nor Skipped.  The code repeats the pass until nothing changes; skipping a
\* node can only unblock others, so the first pass finds them all.
BlockedNodes(st) ==
    {n \in Nodes : st[n] = "Pending"
                   /\ \E p \in Parents(n) : st[p] \notin {"Completed", "Skipped"}}

\* Mistake: an agent stopped by its own limits does not fail the run.
FailsTheRunLenient(verdict) == verdict = "Failed"

\* What sets had_failure.
FailsTheRun(verdict) == verdict # "Completed"

SetAll(f, S, v) == [n \in Nodes |-> IF n \in S THEN v ELSE f[n]]

\* Mistake: one permit too many.
PermitFreeOffByOne ==
    MaxConcurrent = 0 \/ Cardinality(permits) <= MaxConcurrent

\* Semaphore::new(max_concurrent) and acquire_owned.
PermitFree == MaxConcurrent = 0 \/ Cardinality(permits) < MaxConcurrent

\* The loop's exit test, and the look at the token.
NothingInFlight == inFlight = {}
TokenSeen == cancelled

\* Mistake: only a task that returned a report counts as finished.
HandleFinishedByReturn(n) == agent[n] \in {"Completed", "Failed"} /\ n \notin permits

\* JoinHandle::is_finished on the wrapper, which first drops its permit.
HandleFinished(n) == agent[n] \in Verdict /\ n \notin permits
-----------------------------------------------------------------------------
(* The engine.                                                              *)

NoCount == [k \in {"Completed", "Failed", "Cancelled", "Skipped"} |-> 0]

Init ==
    /\ given \in InitialStatuses
    /\ status = given
    /\ pc = "Scan"
    /\ batch = {}
    /\ starting = {}
    /\ inFlight = {}
    /\ agent = [n \in Nodes |-> "Idle"]
    /\ permits = {}
    /\ cancelled = FALSE
    /\ hadFailure = FALSE
    /\ results = [n \in Nodes |-> "None"]
    /\ count = NoCount

\* Snapshot the ready nodes.
Scan ==
    /\ pc = "Scan"
    /\ batch' = ReadyNodes(status)
    /\ pc' = "Dispatch"
    /\ UNCHANGED <<given, starting, inFlight, hadFailure, specVars, taskVars, cancelled>>

\* Mark the next node of the snapshot Running.  The order of the nodes in
\* the spec is abstracted: any node of the snapshot may be next.
MarkRunning(n) ==
    /\ pc = "Dispatch"
    /\ n \in batch
    /\ batch' = batch \ {n}
    /\ status' = [status EXCEPT ![n] = "Running"]
    /\ starting' = {n}
    /\ pc' = "Acquire"
    /\ UNCHANGED <<given, inFlight, hadFailure, results, count, taskVars, cancelled>>

\* Once a permit is free, take it and spawn the sub-agent and the wrapper
\* that will return the permit.
Spawn(n) ==
    /\ pc = "Acquire"
    /\ n \in starting
    /\ PermitFree
    /\ permits' = permits \cup {n}
    /\ agent' = [agent EXCEPT ![n] = "Running"]
    /\ inFlight' = inFlight \cup {n}
    /\ starting' = {}
    /\ pc' = "Dispatch"
    /\ UNCHANGED <<given, batch, hadFailure, specVars, cancelled>>

\* spawn_with_council refuses the sub-agent's spec: the run returns an error,
\* the permit is returned, and the handles are dropped, which detaches the
\* tasks behind them.
SpawnRejected(n) ==
    /\ pc = "Acquire"
    /\ n \in starting
    /\ PermitFree
    /\ starting' = {}
    /\ inFlight' = {}
    /\ pc' = "Error"
    /\ UNCHANGED <<given, batch, hadFailure, specVars, taskVars, cancelled>>

\* The whole snapshot is spawned: wait for an in-flight node, or stop.
BatchDone ==
    /\ pc = "Dispatch"
    /\ batch = {}
    /\ pc' = IF NothingInFlight THEN "Drain" ELSE "Wait"
    /\ UNCHANGED <<given, batch, starting, inFlight, hadFailure, specVars, taskVars, cancelled>>

\* wait_for_any_or_cancel: each round looks at the map (AllDone) and the
\* token first, then sleeps in a select against the token, then looks for a
\* finished handle.
LookAtToken ==
    /\ pc = "Wait"
    /\ pc' = IF inFlight = {} \/ TokenSeen THEN "Drain" ELSE "Poll"
    /\ UNCHANGED <<given, batch, starting, inFlight, hadFailure, specVars, taskVars, cancelled>>

\* The sleep is over and no handle is finished: another round.
NothingFinished ==
    /\ pc = "Poll"
    /\ \A n \in inFlight : ~HandleFinished(n)
    /\ pc' = "Wait"
    /\ UNCHANGED <<given, batch, starting, inFlight, hadFailure, specVars, taskVars, cancelled>>

\* A handle is finished (the token may have fired since it was looked at),
\* and its sub-agent succeeded.
ResolveCompleted(n) ==
    /\ pc = "Poll"
    /\ n \in inFlight /\ HandleFinished(n) /\ agent[n] = "Completed"
    /\ inFlight' = inFlight \ {n}
    /\ status' = [status EXCEPT ![n] = "Completed"]
    /\ results' = [results EXCEPT ![n] = "Completed"]
    /\ count' = [count EXCEPT !["Completed"] = @ + 1]
    /\ pc' = "Scan"
    /\ UNCHANGED <<given, batch, starting, hadFailure, taskVars, cancelled>>

\* It failed, or was cancelled by its own limits: skip what can no longer
\* run and leave the loop.
ResolveFailure(n) ==
    /\ pc = "Poll"
    /\ n \in inFlight /\ HandleFinished(n) /\ agent[n] \in {"Failed", "Cancelled"}
    /\ inFlight' = inFlight \ {n}
    /\ LET settled == [status EXCEPT ![n] = StatusOf(agent[n])]
           dropped == BlockedNodes(settled)
       IN  /\ status' = SetAll(settled, dropped, "Skipped")
           /\ results' = SetAll([results EXCEPT ![n] = StatusOf(agent[n])],
                                dropped, "Skipped")
           /\ count' = [count EXCEPT ![agent[n]] = @ + 1,
                                     !["Skipped"] = @ + Cardinality(dropped)]
    /\ hadFailure' = TRUE
    /\ pc' = "Drain"
    /\ UNCHANGED <<given, batch, starting, taskVars, cancelled>>

\* Its task panicked: the run returns the join error and no report.
ResolvePanic(n) ==
    /\ pc = "Poll"
    /\ n \in inFlight /\ HandleFinished(n) /\ agent[n] = "Panicked"
    /\ inFlight' = {}
    /\ pc' = "Error"
    /\ UNCHANGED <<given, batch, starting, hadFailure, specVars, taskVars, cancelled>>

\* The token wins the select: leave the loop.
ObserveCancel ==
    /\ pc = "Poll"
    /\ TokenSeen
    /\ pc' = "Drain"
    /\ UNCHANGED <<given, batch, starting, inFlight, hadFailure, specVars, taskVars, cancelled>>

\* Drain: a handle that finishes within its two seconds is applied.
DrainJoin(n) ==
    /\ pc = "Drain"
    /\ n \in inFlight /\ HandleFinished(n) /\ agent[n] # "Panicked"
    /\ inFlight' = inFlight \ {n}
    /\ status' = [status EXCEPT ![n] = StatusOf(agent[n])]
    /\ results' = [results EXCEPT ![n] = StatusOf(agent[n])]
    /\ count' = [count EXCEPT ![agent[n]] = @ + 1]
    /\ hadFailure' = (hadFailure \/ FailsTheRun(agent[n]))
    /\ UNCHANGED <<pc, given, batch, starting, taskVars, cancelled>>

\* Drain: the time limit passes, or the task panicked, and the node is
\* abandoned: it keeps the status Running and gets no result.
DrainAbandon(n) ==
    /\ pc = "Drain"
    /\ n \in inFlight
    /\ ~HandleFinished(n) \/ agent[n] = "Panicked"
    /\ inFlight' = inFlight \ {n}
    /\ UNCHANGED <<pc, given, batch, starting, hadFailure, specVars, taskVars, cancelled>>

\* Skip every node that is still Pending and hand out the report:
\* RunOutcome::Failed if had_failure, RunOutcome::Success otherwise.
Finalize ==
    /\ pc = "Drain"
    /\ inFlight = {}
    /\ LET left == {n \in Nodes : status[n] = "Pending"}
       IN  /\ status' = SetAll(status, left, "Skipped")
           /\ results' = SetAll(results, left, "Skipped")
           /\ count' = [count EXCEPT !["Skipped"] = @ + Cardinality(left)]
    /\ pc' = "Done"
    /\ UNCHANGED <<given, batch, starting, inFlight, hadFailure, taskVars, cancelled>>

Engine ==
    \/ Scan \/ BatchDone \/ LookAtToken \/ NothingFinished \/ ObserveCancel \/ Finalize
    \/ \E n \in Nodes :
          \/ MarkRunning(n) \/ Spawn(n) \/ SpawnRejected(n)
          \/ ResolveCompleted(n) \/ ResolveFailure(n) \/ ResolvePanic(n)
          \/ DrainJoin(n) \/ DrainAbandon(n)
-----------------------------------------------------------------------------
(* What runs beside the engine.                                             *)

\* The sub-agent of a node ends; it may outlive the run that started it.
AgentFinish(n, verdict) ==
    /\ agent[n] = "Running"
    /\ agent' = [agent EXCEPT ![n] = verdict]
    /\ UNCHANGED <<engineVars, specVars, permits, cancelled>>

\* Its wrapper drops the permit and returns.
WrapperReturn(n) ==
    /\ n \in permits
    /\ agent[n] \in Verdict
    /\ permits' = permits \ {n}
    /\ UNCHANGED <<engineVars, specVars, agent, cancelled>>

\* The caller fires its token.
FireCancel ==
    /\ ~cancelled
    /\ cancelled' = TRUE
    /\ UNCHANGED <<engineVars, specVars, taskVars>>

SubAgents ==
    \E n \in Nodes :
        (\E verdict \in Verdict : AgentFinish(n, verdict)) \/ WrapperReturn(n)

Next == Engine \/ SubAgents \/ FireCancel

Spec == Init /\ [][Next]_vars

\* The runtime keeps polling the engine; a sub-agent gets its verdict (its
\* loop has a step limit) and its wrapper is polled.  Nobody owes a cancel.
AgentsFair ==
    \A n \in Nodes : WF_vars((\E v \in Verdict : AgentFinish(n, v)) \/ WrapperReturn(n))
FairSpec == Spec /\ WF_vars(Engine) /\ AgentsFair

\* The same with sub-agents that may hang in a model or tool call.
HungAgentsSpec == Spec /\ WF_vars(Engine)
-----------------------------------------------------------------------------
(* Properties.                                                              *)

Finished == pc \in {"Done", "Error"}

\* Every variable keeps its type; report entries are statuses a finished
\* node can have.
TypeOK ==
    /\ pc \in {"Scan", "Dispatch", "Acquire", "Wait", "Poll", "Drain", "Done", "Error"}
    /\ given \in [Nodes -> NodeStatus]
    /\ status \in [Nodes -> NodeStatus]
    /\ batch \in SUBSET Nodes
    /\ starting \in SUBSET Nodes
    /\ inFlight \in SUBSET Nodes
    /\ agent \in [Nodes -> {"Idle", "Running"} \cup Verdict]
    /\ permits \in SUBSET Nodes
    /\ cancelled \in BOOLEAN
    /\ hadFailure \in BOOLEAN
    /\ results \in [Nodes -> {"None", "Completed", "Failed", "Skipped"}]
    /\ count \in [{"Completed", "Failed", "Cancelled", "Skipped"} -> Nat]

\* "Every spawn acquires a permit (waiting if at the cap) and releases it on
\* completion": the sub-agents running at once never exceed the cap, not
\* even while the engine drains or after it returned an error.
RunningAgents == {n \in Nodes : agent[n] = "Running"}
ConcurrencyCap ==
    MaxConcurrent # 0 => Cardinality(RunningAgents) <= MaxConcurrent

\* A sub-agent only ever exists for a node all of whose parents completed,
\* or were already skipped in the spec the run was handed.
InputsAvailable ==
    \A n \in Nodes : agent[n] # "Idle" =>
        \A p \in Parents(n) : status[p] = "Completed" \/ given[p] = "Skipped"

\* The report adds up: each counter is the number of entries it counts, an
\* entry is the status of its node in final_spec, and the nodes without an
\* entry are those the run was handed in a settled state, those not reached
\* yet and those left Running (in flight or abandoned).
ReportConsistent ==
    /\ count["Completed"] = Cardinality({n \in Nodes : results[n] = "Completed"})
    /\ count["Failed"] = Cardinality({n \in Nodes : results[n] = "Failed"})
    /\ count["Cancelled"] + count["Skipped"]
         = Cardinality({n \in Nodes : results[n] = "Skipped"})
    /\ \A n \in Nodes : results[n] # "None" => results[n] = status[n]
    /\ \A n \in Nodes : results[n] = "None" <=>
           given[n] # "Pending" \/ status[n] \in {"Pending", "Running"}

\* The RunOutcome and the report never disagree: had_failure is set exactly
\* when a failed or cancelled sub-agent was counted, wherever it was joined.
OutcomeMatchesReport ==
    hadFailure <=> count["Failed"] + count["Cancelled"] > 0

\* A run of a fresh spec that ends in RunOutcome::Success without its token
\* having fired completed every node: no node is forgotten between two
\* scans, left behind by the exit test or dropped by the drain.
SuccessIsComplete ==
    (/\ pc = "Done" /\ ~hadFailure /\ ~cancelled
     /\ given = [n \in Nodes |-> "Pending"])
    => \A n \in Nodes : status[n] = "Completed"

\* The run comes to an end if its sub-agents do: no node is waited for
\* that nobody will finish, and no permit is waited for that nobody returns.
Termination == <>Finished

\* "We break when: ... cancellation token fires": the run ends once its
\* token has fired, even if sub-agents hang.
CancelEndsRun == cancelled ~> Finished

\* "Always populated for every node in the spec, even if the node was
\* skipped" (node_results).
EveryNodeReported ==
    pc = "Done" => \A n \in Nodes : results[n] # "None"

\* The engine implements the abstract run: what a node's status means to a
\* caller, and when the run is open, closed and over.
AbstractState(s) ==
    CASE s = "Pending" -> "waiting"
      [] s = "Running" -> "active"
      [] s = "Completed" -> "done"
      [] OTHER -> "dropped"
AbstractPhase ==
    CASE pc \in {"Scan", "Dispatch", "Acquire", "Wait", "Poll"} -> "open"
      [] pc \in {"Drain", "Error"} -> "closed"
      [] OTHER -> "over"
Abstract ==
    INSTANCE DagRun WITH
        st <- [n \in Nodes |-> AbstractState(status[n])],
        bypassed <- {n \in Nodes : given[n] = "Skipped"},
        phase <- AbstractPhase
ImplementsDagRun == Abstract!AbsSpec
=============================================================================
