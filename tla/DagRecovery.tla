----------------------------- MODULE DagRecovery -----------------------------
(* A task graph that is run, repaired and run again: DagExecution composed   *)
(* with SelfHealingReplanner (hydragent-planner, replan.rs).  The caller is  *)
(* not in the crates: it does what replan_test.rs does, that is, it takes    *)
(* the final_spec of a failed run, lets the replanner decide about each node *)
(* that is Failed in it, and starts a new engine, with a semaphore and a     *)
(* token of its own, on the repaired spec.                                   *)
EXTENDS DagExecution

CONSTANTS
  MaxRetries,   \* max_retries of the replanner
  Fallbacks,    \* there are fallback models to reroute to
  MaxPutBacks   \* bound: how often a node is put back, whatever its caller counts

ASSUME RecoveryAssumption ==
  /\ MaxRetries \in Nat /\ Fallbacks \in BOOLEAN
  /\ MaxPutBacks \in Nat

VARIABLES
  stage,        \* the caller: "engine" runs, "replan", or "over"
  todo,         \* failed nodes of the last run that are not decided about yet
  retries,      \* DagNode.retry_count
  escalated,    \* history: nodes the replanner gave up
  counted,      \* history: the caller has always passed the node's retry_count
  starts,       \* history: sub-agents started for a node, counted up to TooOften
  finished      \* history: nodes that completed in some run

recoveryVars == <<stage, todo, retries, escalated, counted>>
history == <<starts, finished>>
rvars == <<vars, recoveryVars, history>>

TooOften == MaxPutBacks + 2

RInit ==
  /\ Init
  /\ stage = "engine"
  /\ todo = {}
  /\ retries = [n \in Nodes |-> 0]
  /\ escalated = {}
  /\ counted = TRUE
  /\ starts = [n \in Nodes |-> 0]
  /\ finished = {}

EngineRuns ==
  /\ stage = "engine"
  /\ Engine
  /\ starts' = [n \in Nodes |->
        IF agent[n] = "Idle" /\ agent'[n] = "Running" /\ starts[n] < TooOften
        THEN starts[n] + 1 ELSE starts[n]]
  /\ finished' = finished \cup {n \in Nodes : status'[n] = "Completed"}
  /\ UNCHANGED recoveryVars

(* Sub-agents that a drain abandoned go on beside the caller. *)
BesideEngine ==
  /\ SubAgents \/ FireCancel
  /\ UNCHANGED <<recoveryVars, history>>

(* A run that failed is looked at; any other end is the caller's end. *)
Review ==
  /\ stage = "engine" /\ Finished
  /\ stage' = IF pc = "Done" /\ hadFailure THEN "replan" ELSE "over"
  /\ todo' = IF stage' = "replan" THEN {n \in Nodes : status[n] = "Failed"} ELSE {}
  /\ UNCHANGED <<vars, retries, escalated, counted, history>>

(* Mistakes, for the mutation runs: the ceiling is off by one; retries are   *)
(* not counted; every node that did not complete is put back.                *)
ExhaustedLate(k) == k > MaxRetries
RetriesUncounted(n) == retries
PutBackAll(n) == [m \in Nodes |-> IF m = n \/ status[m] = "Skipped" THEN "Pending" ELSE status[m]]
PutBackDone(n) == [m \in Nodes |-> IF m = n \/ status[m] = "Completed" THEN "Pending" ELSE status[m]]

(* decide_and_apply: the hard ceiling.  k is failure.attempt_count, which    *)
(* the caller fills in: FailureInfo::new and the test pass 0, its doc says   *)
(* that it is the number of retries.                                         *)
Exhausted(k) == k >= MaxRetries
Counts(n, k) == counted /\ k = retries[n]

RetriesAfter(n) == [retries EXCEPT ![n] = @ + 1]
PutBack(n) == [status EXCEPT ![n] = "Pending"]

Decided(n, k) ==
  /\ stage = "replan" /\ n \in todo
  /\ todo' = todo \ {n}
  /\ counted' = Counts(n, k)
  /\ UNCHANGED <<stage, pc, given, batch, starting, inFlight, hadFailure,
                 results, count, taskVars, cancelled, history>>

(* apply_retry, apply_reroute and apply_decompose: what they change in the   *)
(* node beside its status does not matter to the engine.                     *)
Reset(n, k) ==
  /\ Decided(n, k)
  /\ ~Exhausted(k)
  /\ retries[n] < MaxPutBacks
  /\ retries' = RetriesAfter(n)
  /\ status' = PutBack(n)
  /\ UNCHANGED escalated

(* apply_escalate, at the ceiling or by the roll. *)
Escalate(n, k) ==
  /\ Decided(n, k)
  /\ status' = [status EXCEPT ![n] = "Skipped"]
  /\ escalated' = escalated \cup {n}
  /\ UNCHANGED retries

(* The roll says reroute and there is no fallback model. *)
NoAction(n, k) ==
  /\ Decided(n, k)
  /\ ~Exhausted(k) /\ ~Fallbacks
  /\ UNCHANGED <<status, retries, escalated>>

(* A new engine on the repaired spec, if there is anything for it to do. *)
RunAgain ==
  /\ stage = "replan" /\ todo = {}
  /\ \E n \in Nodes : status[n] = "Pending"
  /\ stage' = "engine"
  /\ given' = status
  /\ pc' = "Scan"
  /\ batch' = {} /\ starting' = {} /\ inFlight' = {}
  /\ agent' = [n \in Nodes |-> IF status[n] = "Pending" THEN "Idle" ELSE agent[n]]
  /\ permits' = {}
  /\ cancelled' = FALSE /\ hadFailure' = FALSE
  /\ results' = [n \in Nodes |-> "None"]
  /\ count' = NoCount
  /\ UNCHANGED <<status, todo, retries, escalated, counted, history>>

GiveUp ==
  /\ stage = "replan" /\ todo = {}
  /\ \A n \in Nodes : status[n] # "Pending"
  /\ stage' = "over"
  /\ UNCHANGED <<vars, todo, retries, escalated, counted, history>>

Caller ==
  \/ Review \/ RunAgain \/ GiveUp
  \/ \E n \in Nodes, k \in 0 .. MaxRetries : Reset(n, k) \/ Escalate(n, k) \/ NoAction(n, k)

RNext == EngineRuns \/ BesideEngine \/ Caller

RSpec ==
  /\ RInit /\ [][RNext]_rvars
  /\ WF_rvars(EngineRuns) /\ WF_rvars(Caller)
  /\ \A n \in Nodes : WF_rvars(BesideEngine /\ (agent'[n] # agent[n] \/ permits' # permits))
-----------------------------------------------------------------------------
RTypeOK ==
  /\ TypeOK
  /\ stage \in {"engine", "replan", "over"}
  /\ todo \subseteq Nodes
  /\ retries \in [Nodes -> 0 .. MaxPutBacks]
  /\ escalated \subseteq Nodes
  /\ counted \in BOOLEAN
  /\ starts \in [Nodes -> 0 .. TooOften]
  /\ finished \subseteq Nodes

(* However often the graph is run and repaired, no try of a node is missing  *)
(* from its retry_count; and as long as the caller passes that count, as the *)
(* doc of attempt_count asks, a node is tried at most once more than         *)
(* max_retries.                                                              *)
AttemptsBounded ==
  \A n \in Nodes :
    /\ starts[n] <= 1 + retries[n]
    /\ counted => starts[n] <= 1 + MaxRetries

(* A later run does not redo finished work: what completed once stays        *)
(* completed and is not started again.                                       *)
FinishedWorkKept ==
  [][\A n \in finished : starts'[n] = starts[n] /\ status'[n] = "Completed"]_rvars

(* Even after repairs, whatever runs has the outputs of all its parents: a   *)
(* node given up, or skipped with it, never counts as an input of a node     *)
(* that runs, although a Skipped parent satisfies the ready queue.           *)
InputsCompleted ==
  \A n \in Nodes : starts[n] > 0 => \A p \in Parents(n) : status[p] = "Completed"

(* Running and repairing comes to an end if the sub-agents do and the caller *)
(* passes the retry_count; one that always passes 0 may go on for ever.      *)
RecoveryEnds == <>(stage = "over" \/ ~counted)

(* "Hard ceiling: if retries are exhausted, always Escalate" (replan.rs:229),*)
(* with an attempt_count that is "Bumped by `apply_retry` and                *)
(* `apply_reroute`" (144).  Nothing bumps it, and this does not hold.        *)
RetryCeiling == \A n \in Nodes : starts[n] <= 1 + MaxRetries

(* "the same ReadyQueue that processed the original graph will pick up the   *)
(* recovered node on the next tick. No engine-level reentry logic needed"    *)
(* (replan.rs:32-34): a run that succeeds in the end, with nothing given up, *)
(* completed the graph.                                                      *)
RecoveredIsComplete ==
  (stage = "over" /\ pc = "Done" /\ ~hadFailure /\ ~cancelled /\ escalated = {})
    => \A n \in Nodes : status[n] = "Completed"
=============================================================================
