------------------------- MODULE DagExecutionProofs -------------------------
(***************************************************************************)
(* Theorems about DagExecution, and about DagRecovery which runs it again   *)
(* and again, for every finite acyclic task graph, every cap, every retry   *)
(* limit and every set of initial statuses.                                 *)
(***************************************************************************)
EXTENDS DagRecovery, FiniteSetTheorems, WellFoundedInduction, TLAPS

USE NodesAssumption, MaxConcurrentAssumption, InitialStatusesAssumption

LEMMA CardinalityIsNat ==
    ASSUME NEW S \in SUBSET Nodes
    PROVE  IsFiniteSet(S) /\ Cardinality(S) \in Nat
BY FS_Subset, FS_CardinalityType

(***************************************************************************)
(* Types.                                                                   *)
(***************************************************************************)

LEMMA InitType == Init => TypeOK
<1> SUFFICES ASSUME Init PROVE TypeOK
  OBVIOUS
<1>1. given \in [Nodes -> NodeStatus] /\ status = given
  BY DEF Init
<1>2. count \in [{"Completed", "Failed", "Cancelled", "Skipped"} -> Nat]
  BY DEF Init, NoCount
<1>3. QED
  BY <1>1, <1>2 DEF Init, TypeOK

LEMMA NextType == TypeOK /\ [Next]_vars => TypeOK'
<1> SUFFICES ASSUME TypeOK, [Next]_vars PROVE TypeOK'
  OBVIOUS
<1> USE DEF TypeOK, engineVars, specVars, taskVars
<1>1. CASE Scan
  BY <1>1 DEF Scan, ReadyNodes
<1>2. CASE BatchDone
  BY <1>2 DEF BatchDone
<1>3. CASE LookAtToken \/ NothingFinished \/ ObserveCancel
  BY <1>3 DEF LookAtToken, NothingFinished, ObserveCancel
<1>4. CASE Finalize
  <2>1. Cardinality({n \in Nodes : status[n] = "Pending"}) \in Nat
    BY CardinalityIsNat
  <2>2. QED
    BY <1>4, <2>1 DEF Finalize, SetAll, NodeStatus
<1>5. ASSUME NEW n \in Nodes, MarkRunning(n) PROVE TypeOK'
  BY <1>5 DEF MarkRunning, NodeStatus
<1>6. ASSUME NEW n \in Nodes, Spawn(n) PROVE TypeOK'
  BY <1>6 DEF Spawn
<1>7. ASSUME NEW n \in Nodes, SpawnRejected(n) PROVE TypeOK'
  BY <1>7 DEF SpawnRejected
<1>8. ASSUME NEW n \in Nodes, ResolveCompleted(n) PROVE TypeOK'
  BY <1>8 DEF ResolveCompleted, NodeStatus
<1>9. ASSUME NEW n \in Nodes, ResolveFailure(n) PROVE TypeOK'
  <2> DEFINE settled == [status EXCEPT ![n] = StatusOf(agent[n])]
             dropped == BlockedNodes(settled)
  <2>1. dropped \in SUBSET Nodes /\ Cardinality(dropped) \in Nat
    BY CardinalityIsNat DEF BlockedNodes
  <2>2. StatusOf(agent[n]) \in {"Failed", "Skipped"}
    BY <1>9 DEF ResolveFailure, StatusOf
  <2>3. settled \in [Nodes -> NodeStatus]
    BY <2>2 DEF NodeStatus
  <2>4. status' \in [Nodes -> NodeStatus]
    BY <1>9, <2>3 DEF ResolveFailure, SetAll, NodeStatus
  <2>5. results' \in [Nodes -> {"None", "Completed", "Failed", "Skipped"}]
    BY <1>9, <2>2 DEF ResolveFailure, SetAll
  <2>6. count' = [count EXCEPT ![agent[n]] = @ + 1,
                               !["Skipped"] = @ + Cardinality(dropped)]
    BY <1>9 DEF ResolveFailure
  <2>7. count' \in [{"Completed", "Failed", "Cancelled", "Skipped"} -> Nat]
    BY <1>9, <2>1, <2>6 DEF ResolveFailure
  <2>8. QED
    BY <1>9, <2>4, <2>5, <2>7 DEF ResolveFailure
<1>10. ASSUME NEW n \in Nodes, ResolvePanic(n) PROVE TypeOK'
  BY <1>10 DEF ResolvePanic
<1>11. ASSUME NEW n \in Nodes, DrainJoin(n) PROVE TypeOK'
  BY <1>11 DEF DrainJoin, HandleFinished, Verdict, StatusOf, FailsTheRun, NodeStatus
<1>12. ASSUME NEW n \in Nodes, DrainAbandon(n) PROVE TypeOK'
  BY <1>12 DEF DrainAbandon
<1>13. ASSUME NEW n \in Nodes, NEW v \in Verdict, AgentFinish(n, v) PROVE TypeOK'
  BY <1>13 DEF AgentFinish
<1>14. ASSUME NEW n \in Nodes, WrapperReturn(n) PROVE TypeOK'
  BY <1>14 DEF WrapperReturn
<1>15. CASE FireCancel
  BY <1>15 DEF FireCancel
<1>16. CASE UNCHANGED vars
  BY <1>16 DEF vars
<1>17. QED
  BY <1>1, <1>2, <1>3, <1>4, <1>5, <1>6, <1>7, <1>8, <1>9, <1>10, <1>11,
     <1>12, <1>13, <1>14, <1>15, <1>16 DEF Next, Engine, SubAgents

\* Every reachable state is well typed.
THEOREM TypeCorrect == Spec => []TypeOK
BY InitType, NextType, PTL DEF Spec

(***************************************************************************)
(* The concurrency cap: the permits bound the sub-agents, because a permit  *)
(* is returned by the wrapper, after the sub-agent it was taken for.        *)
(***************************************************************************)

CapInv ==
    /\ RunningAgents \subseteq permits
    /\ MaxConcurrent # 0 => Cardinality(permits) <= MaxConcurrent

LEMMA InitCap == Init => CapInv
<1> SUFFICES ASSUME Init PROVE CapInv
  OBVIOUS
<1>1. RunningAgents = {} /\ permits = {}
  BY DEF Init, RunningAgents
<1>2. Cardinality({}) = 0
  BY FS_EmptySet
<1>3. QED
  BY <1>1, <1>2 DEF CapInv

LEMMA NextCap == TypeOK /\ CapInv /\ [Next]_vars => CapInv'
<1> SUFFICES ASSUME TypeOK, CapInv, [Next]_vars PROVE CapInv'
  OBVIOUS
<1> USE DEF CapInv, RunningAgents, TypeOK
<1>1. ASSUME UNCHANGED taskVars PROVE CapInv'
  BY <1>1 DEF taskVars
<1>2. ASSUME NEW n \in Nodes, Spawn(n) PROVE CapInv'
  <2>1. RunningAgents' \subseteq permits'
    BY <1>2 DEF Spawn
  <2>2. IsFiniteSet(permits) /\ Cardinality(permits) \in Nat
    BY CardinalityIsNat
  <2>3. Cardinality(permits \cup {n})
          = IF n \in permits THEN Cardinality(permits) ELSE Cardinality(permits) + 1
    BY <2>2, FS_AddElement, Zenon
  <2>4. Cardinality(permits \cup {n}) \in Nat
    BY CardinalityIsNat
  <2>5. MaxConcurrent # 0 => Cardinality(permits') <= MaxConcurrent
    BY <1>2, <2>2, <2>3, <2>4 DEF Spawn, PermitFree
  <2>6. QED
    BY <2>1, <2>5
<1>3. ASSUME NEW n \in Nodes, NEW v \in Verdict, AgentFinish(n, v) PROVE CapInv'
  BY <1>3 DEF AgentFinish, Verdict
<1>4. ASSUME NEW n \in Nodes, WrapperReturn(n) PROVE CapInv'
  <2>1. RunningAgents' \subseteq permits'
    BY <1>4 DEF WrapperReturn, Verdict
  <2>2. IsFiniteSet(permits) /\ Cardinality(permits) \in Nat
    BY CardinalityIsNat
  <2>3. Cardinality(permits \ {n}) = Cardinality(permits) - 1
    BY <1>4, <2>2, FS_RemoveElement DEF WrapperReturn
  <2>4. QED
    BY <1>4, <2>1, <2>2, <2>3 DEF WrapperReturn
<1>5. QED
  BY <1>1, <1>2, <1>3, <1>4
  DEF Next, Engine, SubAgents, vars, taskVars, FireCancel, Scan, BatchDone,
      LookAtToken, NothingFinished, ObserveCancel, Finalize, MarkRunning, SpawnRejected, ResolveCompleted,
      ResolveFailure, ResolvePanic, DrainJoin, DrainAbandon

\* No more sub-agents run at once than max_concurrent allows, in any state of
\* the run, its drain, and after it returned.
THEOREM CapHolds == Spec => []ConcurrencyCap
<1>1. TypeOK /\ CapInv => ConcurrencyCap
  <2> SUFFICES ASSUME TypeOK, CapInv, MaxConcurrent # 0
               PROVE  Cardinality(RunningAgents) <= MaxConcurrent
    BY DEF ConcurrencyCap
  <2>1. IsFiniteSet(permits) /\ Cardinality(permits) \in Nat
    BY CardinalityIsNat DEF TypeOK
  <2>2. Cardinality(RunningAgents) <= Cardinality(permits)
    BY <2>1, FS_Subset DEF CapInv
  <2>3. Cardinality(RunningAgents) \in Nat
    BY CardinalityIsNat DEF RunningAgents
  <2>4. QED
    BY <2>1, <2>2, <2>3 DEF CapInv
<1>2. QED
  BY <1>1, InitCap, NextCap, TypeCorrect, PTL DEF Spec

(***************************************************************************)
(* The engine's bookkeeping: which nodes its sets hold at which point of    *)
(* the loop, and which statuses the loop can have produced.                 *)
(***************************************************************************)

LoopPc == {"Scan", "Dispatch", "Acquire", "Wait", "Poll"}

Bookkeeping ==
    /\ \A n \in batch : status[n] = "Pending"
    /\ \A n \in starting \cup inFlight : status[n] = "Running" /\ given[n] = "Pending"
    /\ \A m, n \in starting : m = n
    /\ \A n \in starting : n \notin inFlight
    /\ \A n \in Nodes : status[n] = "Pending" => given[n] = "Pending"
    /\ pc \notin {"Dispatch", "Acquire", "Error"} => batch = {}
    /\ pc # "Acquire" => starting = {}

LEMMA InitBookkeeping == Init => Bookkeeping
BY DEF Init, Bookkeeping

LEMMA NextBookkeeping == TypeOK /\ Bookkeeping /\ [Next]_vars => Bookkeeping'
<1> SUFFICES ASSUME TypeOK, Bookkeeping, [Next]_vars PROVE Bookkeeping'
  OBVIOUS
<1> USE DEF TypeOK, Bookkeeping, engineVars, specVars, taskVars
<1>1. CASE Scan
  BY <1>1 DEF Scan, ReadyNodes
<1>2. CASE BatchDone
  BY <1>2 DEF BatchDone
<1>3. CASE LookAtToken \/ NothingFinished \/ ObserveCancel
  BY <1>3 DEF LookAtToken, NothingFinished, ObserveCancel
<1>4. CASE Finalize
  BY <1>4 DEF Finalize, SetAll
<1>5. ASSUME NEW n \in Nodes, MarkRunning(n) PROVE Bookkeeping'
  BY <1>5 DEF MarkRunning
<1>6. ASSUME NEW n \in Nodes, Spawn(n) PROVE Bookkeeping'
  BY <1>6 DEF Spawn
<1>7. ASSUME NEW n \in Nodes, SpawnRejected(n) PROVE Bookkeeping'
  BY <1>7 DEF SpawnRejected
<1>8. ASSUME NEW n \in Nodes, ResolveCompleted(n) PROVE Bookkeeping'
  BY <1>8 DEF ResolveCompleted
<1>9. ASSUME NEW n \in Nodes, ResolveFailure(n) PROVE Bookkeeping'
  <2>1. StatusOf(agent[n]) \in {"Failed", "Skipped"}
    BY <1>9 DEF ResolveFailure, StatusOf
  <2>2. \A m \in Nodes : status'[m] = "Pending" => status[m] = "Pending"
    BY <1>9, <2>1 DEF ResolveFailure, SetAll
  <2>3. \A m \in Nodes \ {n} : status[m] = "Running" => status'[m] = "Running"
    BY <1>9, <2>1 DEF ResolveFailure, SetAll, BlockedNodes
  <2>4. QED
    BY <1>9, <2>2, <2>3 DEF ResolveFailure
<1>10. ASSUME NEW n \in Nodes, ResolvePanic(n) PROVE Bookkeeping'
  BY <1>10 DEF ResolvePanic
<1>11. ASSUME NEW n \in Nodes, DrainJoin(n) PROVE Bookkeeping'
  BY <1>11 DEF DrainJoin, StatusOf, HandleFinished, Verdict
<1>12. ASSUME NEW n \in Nodes, DrainAbandon(n) PROVE Bookkeeping'
  BY <1>12 DEF DrainAbandon
<1>13. ASSUME UNCHANGED <<engineVars, specVars>> PROVE Bookkeeping'
  BY <1>13
<1>14. QED
  BY <1>1, <1>2, <1>3, <1>4, <1>5, <1>6, <1>7, <1>8, <1>9, <1>10, <1>11, <1>12, <1>13
  DEF Next, Engine, SubAgents, AgentFinish, WrapperReturn, FireCancel, vars

LEMMA BookkeepingHolds == Spec => []Bookkeeping
BY InitBookkeeping, NextBookkeeping, TypeCorrect, PTL DEF Spec

\* A verdict is final, and the spec the run was handed is remembered.
LEMMA VerdictsFinal ==
    ASSUME TypeOK, Bookkeeping, [Next]_vars
    PROVE  /\ given' = given
           /\ \A n \in Nodes :
                 status[n] \in {"Completed", "Failed", "Skipped"} => status'[n] = status[n]
<1> USE DEF TypeOK, Bookkeeping, engineVars, specVars, taskVars
<1>1. given' = given
  BY DEF Next, Engine, SubAgents, AgentFinish, WrapperReturn, FireCancel, vars,
         Scan, BatchDone, LookAtToken, NothingFinished, ObserveCancel, Finalize, MarkRunning, Spawn, SpawnRejected,
         ResolveCompleted, ResolveFailure, ResolvePanic, DrainJoin, DrainAbandon
<1> DEFINE Final == \A n \in Nodes :
               status[n] \in {"Completed", "Failed", "Skipped"} => status'[n] = status[n]
<1>2. CASE Finalize
  BY <1>2 DEF Finalize, SetAll
<1>3. ASSUME NEW n \in Nodes, MarkRunning(n) PROVE Final
  BY <1>3 DEF MarkRunning
<1>4. ASSUME NEW n \in Nodes, ResolveCompleted(n) PROVE Final
  BY <1>4 DEF ResolveCompleted
<1>5. ASSUME NEW n \in Nodes, ResolveFailure(n) PROVE Final
  BY <1>5 DEF ResolveFailure, SetAll, BlockedNodes
<1>6. ASSUME NEW n \in Nodes, DrainJoin(n) PROVE Final
  BY <1>6 DEF DrainJoin
<1>7. ASSUME UNCHANGED status PROVE Final
  BY <1>7
<1>8. Final
  BY <1>2, <1>3, <1>4, <1>5, <1>6, <1>7
  DEF Next, Engine, SubAgents, AgentFinish, WrapperReturn, FireCancel, vars,
      Scan, BatchDone, LookAtToken, NothingFinished, ObserveCancel, Spawn, SpawnRejected, ResolvePanic, DrainAbandon
<1>9. QED
  BY <1>1, <1>8

(***************************************************************************)
(* Dependencies: while the loop runs, nothing has been skipped by it, so a  *)
(* node found ready has parents that completed or came in skipped.          *)
(***************************************************************************)

InputsOf(n) ==
    \A p \in Parents(n) : status[p] = "Completed" \/ given[p] = "Skipped"

NoSkipInLoop ==
    pc \in LoopPc => \A n \in Nodes : status[n] = "Skipped" => given[n] = "Skipped"

InputInv ==
    /\ NoSkipInLoop
    /\ \A n \in batch \cup starting \cup inFlight : InputsOf(n)
    /\ \A n \in Nodes : agent[n] # "Idle" => InputsOf(n)

LEMMA InitInput == Init => InputInv
BY DEF Init, InputInv, NoSkipInLoop

LEMMA NextInput == TypeOK /\ Bookkeeping /\ InputInv /\ [Next]_vars => InputInv'
<1> SUFFICES ASSUME TypeOK, Bookkeeping, InputInv, [Next]_vars PROVE InputInv'
  OBVIOUS
<1>1. \A n \in Nodes : InputsOf(n) => InputsOf(n)'
  BY VerdictsFinal DEF InputsOf, Parents
<1>2. NoSkipInLoop'
  <2> USE DEF TypeOK, Bookkeeping, InputInv, NoSkipInLoop, LoopPc, engineVars, specVars, taskVars
  <2>1. ASSUME NEW n \in Nodes, MarkRunning(n) PROVE NoSkipInLoop'
    BY <2>1 DEF MarkRunning
  <2>2. ASSUME NEW n \in Nodes, ResolveCompleted(n) PROVE NoSkipInLoop'
    BY <2>2 DEF ResolveCompleted
  <2>3. ASSUME NEW n \in Nodes, ResolveFailure(n) PROVE NoSkipInLoop'
    BY <2>3 DEF ResolveFailure
  <2>4. ASSUME NEW n \in Nodes, DrainJoin(n) PROVE NoSkipInLoop'
    BY <2>4 DEF DrainJoin
  <2>5. CASE Finalize
    BY <2>5 DEF Finalize
  <2>6. ASSUME UNCHANGED <<given, status>>, pc' \in LoopPc => pc \in LoopPc
        PROVE  NoSkipInLoop'
    BY <2>6
  <2>7. QED
    BY <2>1, <2>2, <2>3, <2>4, <2>5, <2>6
    DEF Next, Engine, SubAgents, AgentFinish, WrapperReturn, FireCancel, vars,
        Scan, BatchDone, LookAtToken, NothingFinished, ObserveCancel, Spawn, SpawnRejected, ResolvePanic, DrainAbandon
<1>3. CASE Scan
  <2>1. \A n \in batch' : InputsOf(n)
    BY <1>3 DEF Scan, ReadyNodes, InputsOf, Parents, InputInv, NoSkipInLoop, LoopPc
  <2>2. /\ batch' \subseteq Nodes
        /\ starting' = starting /\ inFlight' = inFlight /\ agent' = agent
    BY <1>3 DEF Scan, ReadyNodes, taskVars
  <2>3. QED
    BY <1>1, <1>2, <2>1, <2>2 DEF InputInv, TypeOK
<1>4. ASSUME NEW n \in Nodes, Spawn(n) PROVE InputInv'
  BY <1>1, <1>2, <1>4 DEF Spawn, InputInv, TypeOK, Bookkeeping
<1>5. ASSUME NEW n \in Nodes, MarkRunning(n) PROVE InputInv'
  <2>1. /\ batch' \cup starting' \cup inFlight' \subseteq batch \cup starting \cup inFlight
        /\ agent' = agent
    BY <1>5 DEF MarkRunning, taskVars, Bookkeeping, TypeOK
  <2>2. QED
    BY <1>1, <1>2, <2>1 DEF InputInv, TypeOK
<1>6. ASSUME NEW n \in Nodes, NEW v \in Verdict, AgentFinish(n, v) PROVE InputInv'
  <2>1. \A m \in Nodes : agent'[m] # "Idle" => agent[m] # "Idle"
    BY <1>6 DEF AgentFinish, TypeOK
  <2>2. batch' = batch /\ starting' = starting /\ inFlight' = inFlight
    BY <1>6 DEF AgentFinish, engineVars
  <2>3. QED
    BY <1>1, <1>2, <2>1, <2>2 DEF InputInv, TypeOK
<1>7. ASSUME batch' \subseteq batch, starting' \subseteq starting,
             inFlight' \subseteq inFlight, agent' = agent
      PROVE  InputInv'
  BY <1>1, <1>2, <1>7 DEF InputInv, TypeOK
<1>8. QED
  BY <1>3, <1>4, <1>5, <1>6, <1>7
  DEF Next, Engine, SubAgents, WrapperReturn, FireCancel, vars, engineVars, taskVars,
      BatchDone, LookAtToken, NothingFinished, ObserveCancel, Finalize, SpawnRejected, ResolveCompleted,
      ResolveFailure, ResolvePanic, DrainJoin, DrainAbandon

\* A sub-agent is only ever started for a node whose parents all completed,
\* except those the caller's spec had already skipped.
THEOREM InputsAvailableHolds == Spec => []InputsAvailable
<1>1. InputInv => InputsAvailable
  BY DEF InputInv, InputsAvailable, InputsOf
<1>2. QED
  BY <1>1, InitInput, NextInput, TypeCorrect, BookkeepingHolds, PTL DEF Spec

(***************************************************************************)
(* Success is complete.  The loop is left without failure and without the   *)
(* token only when a snapshot was empty and nothing was in flight; in an    *)
(* acyclic graph that means nothing is left.                                *)
(***************************************************************************)

\* Every non-empty set of naturals has a least element.
LEMMA MinimumExists ==
    ASSUME NEW S \in SUBSET Nat, S # {}
    PROVE  \E x \in S : \A y \in S : x <= y
<1> DEFINE R == {ss \in Nat \X Nat : ss[1] < ss[2]}
<1>1. IsWellFoundedOn(R, Nat)
  <2>1. R = OpToRel(<, Nat)
    BY DEF OpToRel
  <2>2. QED
    BY <2>1, NatLessThanWellFounded
<1> HIDE DEF R
<1>2. PICK x \in S : \A y \in S : ~ (<<y, x>> \in R)
  BY <1>1, WFMin, Zenon
<1>3. ASSUME NEW y \in S, y < x PROVE FALSE
  <2>1. <<y, x>> \in R
    BY <1>3 DEF R
  <2>2. QED
    BY <1>2, <2>1
<1>4. QED
  BY <1>3

\* In an acyclic graph, pending nodes imply a ready node, unless some node
\* is neither pending nor completed.
LEMMA NothingReadyMeansAllDone ==
    ASSUME NEW f \in [Nodes -> {"Pending", "Completed"}], ReadyNodes(f) = {}
    PROVE  \A n \in Nodes : f[n] = "Completed"
<1>1. PICK rank \in [Nodes -> 1..Cardinality(Nodes)] :
          \A e \in Edges : rank[e[1]] < rank[e[2]]
  BY SpecAssumption DEF ValidSpec
<1> DEFINE T == {n \in Nodes : f[n] = "Pending"}
           S == {rank[n] : n \in T}
<1>2. SUFFICES ASSUME T # {} PROVE FALSE
  OBVIOUS
<1>3. Cardinality(Nodes) \in Nat
  BY FS_CardinalityType
<1>4. S \in SUBSET Nat /\ S # {}
  BY <1>1, <1>2, <1>3
<1>5. PICK r \in S : \A y \in S : r <= y
  BY <1>4, MinimumExists
<1>6. PICK n \in T : r = rank[n]
  BY <1>5
<1>7. ASSUME NEW p \in Parents(n) PROVE f[p] = "Completed"
  <2>1. p \in Nodes /\ rank[p] < rank[n]
    BY <1>1 DEF Parents
  <2>2. rank[p] \in Int /\ rank[n] \in Int
    BY <1>1, <1>3, <2>1
  <2>3. ~(rank[n] <= rank[p])
    BY <2>1, <2>2
  <2>4. rank[p] \notin S
    BY <1>5, <1>6, <2>3
  <2>5. QED
    BY <2>1, <2>4
<1>8. n \in ReadyNodes(f)
  BY <1>7 DEF ReadyNodes
<1>9. QED
  BY <1>8

FreshSpec == given = [n \in Nodes |-> "Pending"]

AllCompleted == \A n \in Nodes : status[n] = "Completed"

SuccessInv ==
    FreshSpec =>
        /\ pc \in LoopPc =>
               /\ ~hadFailure
               /\ \A n \in Nodes :
                      \/ status[n] \in {"Pending", "Completed"}
                      \/ status[n] = "Running" /\ n \in starting \cup inFlight
        /\ pc \in {"Dispatch", "Acquire"} => ReadyNodes(status) = batch
        /\ pc \in {"Wait", "Poll"} => inFlight # {}
        /\ (pc \in {"Drain", "Done"} /\ ~hadFailure /\ ~cancelled) =>
               AllCompleted /\ inFlight = {}

LEMMA InitSuccess == Init => SuccessInv
BY DEF Init, SuccessInv, FreshSpec, LoopPc

LEMMA NextSuccess == TypeOK /\ Bookkeeping /\ SuccessInv /\ [Next]_vars => SuccessInv'
<1> SUFFICES ASSUME TypeOK, Bookkeeping, SuccessInv, [Next]_vars PROVE SuccessInv'
  OBVIOUS
<1>0. FreshSpec' <=> FreshSpec
  BY VerdictsFinal DEF FreshSpec
<1> USE <1>0 DEF TypeOK, Bookkeeping, SuccessInv, AllCompleted, LoopPc, engineVars, specVars, taskVars
<1>1. CASE Scan
  BY <1>1 DEF Scan, ReadyNodes
<1>2. CASE BatchDone
  <2>1. SUFFICES ASSUME FreshSpec PROVE SuccessInv'
    BY <1>0
  <2>2. CASE inFlight = {}
    <3>1. status \in [Nodes -> {"Pending", "Completed"}]
      BY <1>2, <2>1, <2>2 DEF BatchDone
    <3>2. ReadyNodes(status) = {}
      BY <1>2, <2>1 DEF BatchDone
    <3>3. \A n \in Nodes : status[n] = "Completed"
      BY <3>1, <3>2, NothingReadyMeansAllDone
    <3>4. QED
      BY <1>2, <2>1, <2>2, <3>3 DEF BatchDone, NothingInFlight
  <2>3. CASE inFlight # {}
    BY <1>2, <2>1, <2>3 DEF BatchDone, NothingInFlight
  <2>4. QED
    BY <2>2, <2>3
<1>3. CASE LookAtToken \/ NothingFinished \/ ObserveCancel
  BY <1>3 DEF LookAtToken, NothingFinished, ObserveCancel, TokenSeen
<1>4. CASE Finalize
  BY <1>4 DEF Finalize, SetAll
<1>5. ASSUME NEW n \in Nodes, MarkRunning(n) PROVE SuccessInv'
  <2>1. \A m \in Nodes : status'[m] = IF m = n THEN "Running" ELSE status[m]
    BY <1>5 DEF MarkRunning
  <2>2. status[n] = "Pending"
    BY <1>5 DEF MarkRunning
  <2>3. ReadyNodes(status') = ReadyNodes(status) \ {n}
    BY <2>1, <2>2 DEF ReadyNodes, Parents
  <2>4. QED
    BY <1>5, <2>1, <2>3 DEF MarkRunning
<1>6. ASSUME NEW n \in Nodes, Spawn(n) PROVE SuccessInv'
  BY <1>6 DEF Spawn
<1>7. ASSUME NEW n \in Nodes, SpawnRejected(n) PROVE SuccessInv'
  BY <1>7 DEF SpawnRejected
<1>8. ASSUME NEW n \in Nodes, ResolveCompleted(n) PROVE SuccessInv'
  BY <1>8 DEF ResolveCompleted
<1>9. ASSUME NEW n \in Nodes, ResolveFailure(n) PROVE SuccessInv'
  BY <1>9 DEF ResolveFailure
<1>10. ASSUME NEW n \in Nodes, ResolvePanic(n) PROVE SuccessInv'
  BY <1>10 DEF ResolvePanic
<1>11. ASSUME NEW n \in Nodes, DrainJoin(n) PROVE SuccessInv'
  BY <1>11 DEF DrainJoin
<1>12. ASSUME NEW n \in Nodes, DrainAbandon(n) PROVE SuccessInv'
  BY <1>12 DEF DrainAbandon
<1>13. ASSUME UNCHANGED <<engineVars, specVars>>, cancelled => cancelled'
       PROVE  SuccessInv'
  BY <1>13
<1>14. QED
  BY <1>1, <1>2, <1>3, <1>4, <1>5, <1>6, <1>7, <1>8, <1>9, <1>10, <1>11, <1>12, <1>13
  DEF Next, Engine, SubAgents, AgentFinish, WrapperReturn, FireCancel, vars

\* A fresh run that reports success without having been cancelled completed
\* every node.
THEOREM SuccessIsCompleteHolds == Spec => []SuccessIsComplete
<1>1. SuccessInv => SuccessIsComplete
  BY DEF SuccessInv, SuccessIsComplete, FreshSpec, AllCompleted
<1>2. QED
  BY <1>1, InitSuccess, NextSuccess, TypeCorrect, BookkeepingHolds, PTL DEF Spec

(***************************************************************************)
(* The report.                                                              *)
(***************************************************************************)

Tally(f, k) == Cardinality({n \in Nodes : f[n] = k})

\* g is f with v written at n, or at every node of D.
Writes(f, g, n, v) == \A m \in Nodes : g[m] = IF m = n THEN v ELSE f[m]
Overwrites(f, g, D, v) == \A m \in Nodes : g[m] = IF m \in D THEN v ELSE f[m]
Avoids(f, D, k) == \A n \in D : f[n] # k

\* Writing a new entry adds one to the tally of its value.
LEMMA TallyOne ==
    ASSUME NEW f, NEW g, NEW n \in Nodes, NEW v, NEW k, f[n] # k,
           Writes(f, g, n, v)
    PROVE  Tally(g, k) = Tally(f, k) + (IF v = k THEN 1 ELSE 0)
<1> DEFINE S == {m \in Nodes : f[m] = k}
           S2 == {m \in Nodes : g[m] = k}
<1>1. IsFiniteSet(S) /\ Cardinality(S) \in Nat
  BY CardinalityIsNat
<1>a. Tally(f, k) = Cardinality(S) /\ Tally(g, k) = Cardinality(S2)
  BY DEF Tally
<1>2. CASE v = k
  <2>1. S2 = S \cup {n} /\ n \notin S
    BY <1>2 DEF Writes
  <2>2. Cardinality(S \cup {n}) = Cardinality(S) + 1
    <3> HIDE DEF S
    <3> QED BY <1>1, <2>1, FS_AddElement
  <2>3. QED
    <3> HIDE DEF S, S2
    <3> QED BY <1>2, <1>a, <2>1, <2>2
<1>3. CASE v # k
  <2>1. S2 = S
    BY <1>3 DEF Writes
  <2>2. QED
    <3> HIDE DEF S, S2
    <3> QED BY <1>1, <1>3, <1>a, <2>1
<1>4. QED
  BY <1>2, <1>3

\* Writing a set of new entries adds its size.
LEMMA TallySet ==
    ASSUME NEW f, NEW g, NEW D \in SUBSET Nodes, NEW v, NEW k, Avoids(f, D, k),
           Overwrites(f, g, D, v)
    PROVE  Tally(g, k) = Tally(f, k) + (IF v = k THEN Cardinality(D) ELSE 0)
<1> DEFINE S == {m \in Nodes : f[m] = k}
           S2 == {m \in Nodes : g[m] = k}
<1>1. IsFiniteSet(S) /\ Cardinality(S) \in Nat /\ IsFiniteSet(D) /\ Cardinality(D) \in Nat
  BY CardinalityIsNat
<1>a. Tally(f, k) = Cardinality(S) /\ Tally(g, k) = Cardinality(S2)
  BY DEF Tally
<1>2. CASE v = k
  <2>1. S2 = S \cup D /\ S \cap D = {}
    BY <1>2 DEF Overwrites, Avoids
  <2>2. Cardinality(S \cup D) = Cardinality(S) + Cardinality(D)
    <3> HIDE DEF S
    <3>1. Cardinality(S \cap D) = 0
      BY <2>1, FS_EmptySet
    <3>2. Cardinality(S \cup D) = Cardinality(S) + Cardinality(D) - Cardinality(S \cap D)
      BY <1>1, FS_Union
    <3>3. QED
      BY <1>1, <3>1, <3>2
  <2>3. QED
    <3> HIDE DEF S, S2
    <3> QED BY <1>2, <1>a, <2>1, <2>2
<1>3. CASE v # k
  <2>1. S2 = S
    BY <1>3 DEF Overwrites, Avoids
  <2>2. QED
    <3> HIDE DEF S, S2
    <3> QED BY <1>1, <1>3, <1>a, <2>1
<1>4. QED
  BY <1>2, <1>3

ReportInv ==
    /\ count["Completed"] = Tally(results, "Completed")
    /\ count["Failed"] = Tally(results, "Failed")
    /\ count["Cancelled"] + count["Skipped"] = Tally(results, "Skipped")
    /\ \A n \in Nodes : results[n] # "None" => results[n] = status[n]
    /\ \A n \in Nodes : results[n] = "None" <=>
           given[n] # "Pending" \/ status[n] \in {"Pending", "Running"}

LEMMA InitReport == Init => ReportInv
<1> SUFFICES ASSUME Init PROVE ReportInv
  OBVIOUS
<1>1. \A k : k # "None" => Tally(results, k) = 0
  BY FS_EmptySet DEF Init, Tally
<1>2. count["Completed"] = 0 /\ count["Failed"] = 0 /\ count["Cancelled"] = 0 /\ count["Skipped"] = 0
  BY DEF Init, NoCount
<1>3. QED
  BY <1>1, <1>2 DEF Init, ReportInv

LEMMA NextReport == TypeOK /\ Bookkeeping /\ ReportInv /\ [Next]_vars => ReportInv'
<1> SUFFICES ASSUME TypeOK, Bookkeeping, ReportInv, [Next]_vars PROVE ReportInv'
  OBVIOUS
<1> DEFINE Entry == {"Completed", "Failed", "Skipped"}
<1>1. given' = given
  BY VerdictsFinal
<1>2. \A n \in inFlight : n \in Nodes /\ results[n] = "None" /\ given[n] = "Pending"
  BY DEF TypeOK, Bookkeeping, ReportInv
<1>3. \A n \in Nodes : status[n] = "Pending" => results[n] = "None" /\ given[n] = "Pending"
  BY DEF Bookkeeping, ReportInv
<1>4. \A k : Tally(results, k) \in Nat
  BY CardinalityIsNat DEF Tally
<1>5. ASSUME NEW n \in Nodes, ResolveCompleted(n) PROVE ReportInv'
  <2>1. \A m \in Nodes : /\ results'[m] = IF m = n THEN "Completed" ELSE results[m]
                         /\ status'[m] = IF m = n THEN "Completed" ELSE status[m]
    BY <1>5 DEF ResolveCompleted, TypeOK
  <2>2. n \in inFlight /\ results[n] = "None"
    BY <1>2, <1>5 DEF ResolveCompleted
  <2>3. \A k \in Entry : Tally(results', k) = Tally(results, k) + (IF "Completed" = k THEN 1 ELSE 0)
    <3>1. Writes(results, results', n, "Completed")
      BY <2>1 DEF Writes
    <3>2. QED
      BY <2>2, <3>1, TallyOne
  <2>4. /\ count'["Completed"] = count["Completed"] + 1
        /\ \A k \in {"Failed", "Cancelled", "Skipped"} : count'[k] = count[k]
    BY <1>5 DEF ResolveCompleted, TypeOK
  <2>5. QED
    BY <1>1, <1>2, <1>4, <2>1, <2>2, <2>3, <2>4 DEF ReportInv, TypeOK
<1>6. ASSUME NEW n \in Nodes, DrainJoin(n) PROVE ReportInv'
  <2> DEFINE s == StatusOf(agent[n])
  <2>1. /\ n \in inFlight /\ results[n] = "None"
        /\ agent[n] \in {"Completed", "Failed", "Cancelled"}
        /\ s \in Entry
        /\ (s = "Completed") = (agent[n] = "Completed")
        /\ (s = "Failed") = (agent[n] = "Failed")
        /\ (s = "Skipped") = (agent[n] = "Cancelled")
    BY <1>2, <1>6 DEF DrainJoin, HandleFinished, Verdict, StatusOf
  <2>2. \A m \in Nodes : /\ results'[m] = IF m = n THEN s ELSE results[m]
                         /\ status'[m] = IF m = n THEN s ELSE status[m]
    BY <1>6 DEF DrainJoin, TypeOK
  <2>3. \A k \in {"Completed", "Failed", "Cancelled", "Skipped"} :
           count'[k] = count[k] + (IF agent[n] = k THEN 1 ELSE 0)
    BY <1>6 DEF DrainJoin, TypeOK
  <2> HIDE DEF s
  <2>4. \A k \in Entry : Tally(results', k) = Tally(results, k) + (IF s = k THEN 1 ELSE 0)
    <3>1. Writes(results, results', n, s)
      BY <2>2 DEF Writes
    <3>2. QED
      BY <2>1, <3>1, TallyOne
  <2>5. /\ count'["Completed"] = Tally(results', "Completed")
        /\ count'["Failed"] = Tally(results', "Failed")
        /\ count'["Cancelled"] + count'["Skipped"] = Tally(results', "Skipped")
    BY <1>4, <2>1, <2>3, <2>4 DEF ReportInv, TypeOK
  <2>6. QED
    BY <1>1, <1>2, <2>1, <2>2, <2>5 DEF ReportInv
<1>7. ASSUME NEW n \in Nodes, ResolveFailure(n) PROVE ReportInv'
  <2> DEFINE s == StatusOf(agent[n])
             settled == [status EXCEPT ![n] = s]
             one == [results EXCEPT ![n] = s]
             D == BlockedNodes(settled)
  <2>1. /\ n \in inFlight /\ results[n] = "None"
        /\ agent[n] \in {"Failed", "Cancelled"}
        /\ s \in {"Failed", "Skipped"}
        /\ (s = "Failed") = (agent[n] = "Failed")
        /\ (s = "Skipped") = (agent[n] = "Cancelled")
    BY <1>2, <1>7 DEF ResolveFailure, StatusOf
  <2>2. D \in SUBSET Nodes /\ Cardinality(D) \in Nat
    BY CardinalityIsNat DEF BlockedNodes
  <2>3. n \notin D /\ \A m \in D : status[m] = "Pending"
    BY <2>1 DEF BlockedNodes, TypeOK
  <2>4. /\ status' = SetAll(settled, D, "Skipped")
        /\ results' = SetAll(one, D, "Skipped")
        /\ count' = [count EXCEPT ![agent[n]] = @ + 1, !["Skipped"] = @ + Cardinality(D)]
    BY <1>7 DEF ResolveFailure
  <2>5. \A m \in Nodes : one[m] = IF m = n THEN s ELSE results[m]
    BY DEF TypeOK
  <2> HIDE DEF s, D
  <2>6. /\ \A m \in Nodes : results'[m] = IF m \in D THEN "Skipped" ELSE one[m]
        /\ \A m \in Nodes : status'[m] = IF m \in D THEN "Skipped" ELSE IF m = n THEN s ELSE status[m]
    BY <2>4 DEF SetAll, TypeOK
  <2> HIDE DEF one
  <2>7. \A k \in Entry : Tally(one, k) = Tally(results, k) + (IF s = k THEN 1 ELSE 0)
    <3>1. Writes(results, one, n, s)
      BY <2>5 DEF Writes
    <3>2. QED
      BY <2>1, <3>1, TallyOne
  <2>8. \A m \in D : m \in Nodes /\ one[m] = "None"
    BY <1>3, <2>2, <2>3, <2>5
  <2>9. \A k \in Entry :
           Tally(results', k) = Tally(one, k) + (IF "Skipped" = k THEN Cardinality(D) ELSE 0)
    <3> SUFFICES ASSUME NEW k \in Entry
                 PROVE  Tally(results', k)
                          = Tally(one, k) + (IF "Skipped" = k THEN Cardinality(D) ELSE 0)
      OBVIOUS
    <3>1. Avoids(one, D, k)
      BY <2>8 DEF Avoids
    <3>2. Overwrites(one, results', D, "Skipped")
      BY <2>6 DEF Overwrites
    <3>3. QED
      BY <2>2, <3>1, <3>2, TallySet
  <2>10. /\ count'["Completed"] = count["Completed"]
         /\ count'["Failed"] = count["Failed"] + (IF s = "Failed" THEN 1 ELSE 0)
         /\ count'["Cancelled"] = count["Cancelled"] + (IF s = "Skipped" THEN 1 ELSE 0)
         /\ count'["Skipped"] = count["Skipped"] + Cardinality(D)
    BY <2>1, <2>4 DEF TypeOK
  <2>11. /\ count'["Completed"] = Tally(results', "Completed")
         /\ count'["Failed"] = Tally(results', "Failed")
         /\ count'["Cancelled"] + count'["Skipped"] = Tally(results', "Skipped")
    BY <1>4, <2>1, <2>2, <2>7, <2>9, <2>10 DEF ReportInv, TypeOK
  <2>12. QED
    BY <1>1, <1>2, <1>3, <2>1, <2>2, <2>3, <2>5, <2>6, <2>11 DEF ReportInv
<1>8. CASE Finalize
  <2> DEFINE D == {n \in Nodes : status[n] = "Pending"}
  <2>1. D \in SUBSET Nodes /\ Cardinality(D) \in Nat
    BY CardinalityIsNat
  <2>2. \A m \in D : results[m] = "None" /\ given[m] = "Pending"
    BY <1>3
  <2>3. count' = [count EXCEPT !["Skipped"] = @ + Cardinality(D)]
    BY <1>8 DEF Finalize
  <2>4. \A m \in Nodes : /\ results'[m] = IF m \in D THEN "Skipped" ELSE results[m]
                         /\ status'[m] = IF m \in D THEN "Skipped" ELSE status[m]
    BY <1>8 DEF Finalize, SetAll
  <2>5. \A m \in Nodes : m \notin D => status[m] # "Pending"
    OBVIOUS
  <2> HIDE DEF D
  <2>6. \A k \in Entry :
           Tally(results', k) = Tally(results, k) + (IF "Skipped" = k THEN Cardinality(D) ELSE 0)
    <3> SUFFICES ASSUME NEW k \in Entry
                 PROVE  Tally(results', k)
                          = Tally(results, k) + (IF "Skipped" = k THEN Cardinality(D) ELSE 0)
      OBVIOUS
    <3>1. Avoids(results, D, k)
      BY <2>2 DEF Avoids
    <3>2. Overwrites(results, results', D, "Skipped")
      BY <2>4 DEF Overwrites
    <3>3. QED
      BY <2>1, <3>1, <3>2, TallySet
  <2>7. /\ count'["Skipped"] = count["Skipped"] + Cardinality(D)
        /\ \A k \in {"Completed", "Failed", "Cancelled"} : count'[k] = count[k]
    BY <2>3 DEF TypeOK
  <2>8. /\ count'["Completed"] = Tally(results', "Completed")
        /\ count'["Failed"] = Tally(results', "Failed")
        /\ count'["Cancelled"] + count'["Skipped"] = Tally(results', "Skipped")
    BY <1>4, <2>1, <2>6, <2>7 DEF ReportInv, TypeOK
  <2>9. QED
    BY <1>1, <2>1, <2>2, <2>4, <2>5, <2>8 DEF ReportInv
<1>9. ASSUME NEW n \in Nodes, MarkRunning(n) PROVE ReportInv'
  <2>1. status[n] = "Pending" /\ results' = results /\ count' = count
    BY <1>9 DEF MarkRunning, Bookkeeping
  <2>2. \A m \in Nodes : status'[m] = IF m = n THEN "Running" ELSE status[m]
    BY <1>9 DEF MarkRunning, TypeOK
  <2>3. QED
    BY <1>1, <1>3, <2>1, <2>2 DEF ReportInv
<1>10. ASSUME UNCHANGED specVars PROVE ReportInv'
  <2>1. status' = status /\ results' = results /\ count' = count
    BY <1>10 DEF specVars
  <2>2. \A k : Tally(results', k) = Tally(results, k)
    BY <2>1
  <2>3. QED
    BY <1>1, <2>1, <2>2 DEF ReportInv
<1>11. QED
  BY <1>5, <1>6, <1>7, <1>8, <1>9, <1>10
  DEF Next, Engine, SubAgents, AgentFinish, WrapperReturn, FireCancel, vars, engineVars, specVars,
      Scan, BatchDone, LookAtToken, NothingFinished, ObserveCancel, Spawn, SpawnRejected, ResolvePanic, DrainAbandon

\* The counters, the entries and the final statuses of a report agree, and
\* the nodes it does not mention are exactly those it never settled.
THEOREM ReportConsistentHolds == Spec => []ReportConsistent
<1>1. ReportInv => ReportConsistent
  BY DEF ReportInv, ReportConsistent, Tally
<1>2. QED
  BY <1>1, InitReport, NextReport, TypeCorrect, BookkeepingHolds, PTL DEF Spec

\* had_failure is set exactly when the report counts a failed or cancelled
\* sub-agent.
THEOREM OutcomeMatchesReportHolds == Spec => []OutcomeMatchesReport
<1>1. Init => OutcomeMatchesReport
  BY DEF Init, NoCount, OutcomeMatchesReport
<1>2. TypeOK /\ OutcomeMatchesReport /\ [Next]_vars => OutcomeMatchesReport'
  <2> SUFFICES ASSUME TypeOK, OutcomeMatchesReport, [Next]_vars PROVE OutcomeMatchesReport'
    OBVIOUS
  <2> USE DEF TypeOK, OutcomeMatchesReport
  <2>1. ASSUME NEW n \in Nodes, ResolveCompleted(n) PROVE OutcomeMatchesReport'
    BY <2>1 DEF ResolveCompleted
  <2>2. ASSUME NEW n \in Nodes, ResolveFailure(n) PROVE OutcomeMatchesReport'
    <3> DEFINE d == Cardinality(BlockedNodes([status EXCEPT ![n] = StatusOf(agent[n])]))
    <3>1. count' = [count EXCEPT ![agent[n]] = @ + 1, !["Skipped"] = @ + d]
      BY <2>2 DEF ResolveFailure
    <3> HIDE DEF d
    <3>2. hadFailure' /\ agent[n] \in {"Failed", "Cancelled"}
      BY <2>2 DEF ResolveFailure
    <3>3. QED
      BY <3>1, <3>2
  <2>3. ASSUME NEW n \in Nodes, DrainJoin(n) PROVE OutcomeMatchesReport'
    <3>1. agent[n] \in {"Completed", "Failed", "Cancelled"}
      BY <2>3 DEF DrainJoin, HandleFinished, Verdict
    <3>2. count' = [count EXCEPT ![agent[n]] = @ + 1]
      BY <2>3 DEF DrainJoin
    <3>3. hadFailure' <=> hadFailure \/ agent[n] # "Completed"
      BY <2>3, Zenon DEF DrainJoin, FailsTheRun
    <3>4. QED
      BY <3>1, <3>2, <3>3
  <2>4. CASE Finalize
    <3>1. count'["Failed"] = count["Failed"] /\ count'["Cancelled"] = count["Cancelled"]
      BY <2>4 DEF Finalize
    <3>2. QED
      BY <2>4, <3>1 DEF Finalize
  <2>5. ASSUME count' = count, hadFailure' = hadFailure PROVE OutcomeMatchesReport'
    BY <2>5
  <2>6. QED
    BY <2>1, <2>2, <2>3, <2>4, <2>5
    DEF Next, Engine, SubAgents, AgentFinish, WrapperReturn, FireCancel, vars, engineVars,
        specVars, Scan, BatchDone, LookAtToken, NothingFinished, ObserveCancel, MarkRunning, Spawn, SpawnRejected,
        ResolvePanic, DrainAbandon
<1>3. QED
  BY <1>1, <1>2, TypeCorrect, PTL DEF Spec

(***************************************************************************)
(* The engine implements the abstract run.                                  *)
(***************************************************************************)

AbsStatus == [n \in Nodes |-> AbstractState(status[n])]

LEMMA InitRefines == Init => Abstract!AbsInit
<1> SUFFICES ASSUME Init PROVE Abstract!AbsInit
  OBVIOUS
<1>1. AbsStatus \in [Nodes -> Abstract!TaskState]
  BY DEF AbsStatus, AbstractState, Abstract!TaskState
<1>2. {n \in Nodes : given[n] = "Skipped"} \in SUBSET {n \in Nodes : AbsStatus[n] = "dropped"}
  BY DEF Init, AbsStatus, AbstractState
<1>3. AbstractPhase = "open"
  BY DEF Init, AbstractPhase
<1>4. QED
  BY <1>1, <1>2, <1>3 DEF Abstract!AbsInit, AbsStatus

LEMMA StepRefines ==
    TypeOK /\ Bookkeeping /\ InputInv /\ [Next]_vars
        => [Abstract!AbsNext]_(Abstract!absVars)
<1> SUFFICES ASSUME TypeOK, Bookkeeping, InputInv, [Next]_vars
             PROVE  Abstract!AbsNext \/ UNCHANGED Abstract!absVars
  OBVIOUS
<1> DEFINE byp == {n \in Nodes : given[n] = "Skipped"}
<1>0. given' = given /\ byp' = byp
  BY VerdictsFinal
<1>1. ASSUME UNCHANGED status, AbstractPhase' = AbstractPhase
      PROVE  UNCHANGED Abstract!absVars
  BY <1>0, <1>1 DEF Abstract!absVars, AbsStatus
<1>2. ASSUME NEW n \in Nodes, MarkRunning(n) PROVE Abstract!Start(n)
  <2>1. status[n] = "Pending" /\ InputsOf(n)
    BY <1>2 DEF MarkRunning, Bookkeeping, InputInv
  <2>2. AbstractPhase = "open" /\ AbstractPhase' = "open"
    BY <1>2 DEF MarkRunning, AbstractPhase
  <2>3. \A p \in Abstract!Inputs(n) : AbsStatus[p] = "done" \/ p \in byp
    BY <2>1 DEF Abstract!Inputs, InputsOf, Parents, AbsStatus, AbstractState
  <2>4. AbsStatus' = [AbsStatus EXCEPT ![n] = "active"]
    BY <1>2 DEF MarkRunning, TypeOK, AbsStatus, AbstractState
  <2>5. AbsStatus[n] = "waiting"
    BY <2>1 DEF AbsStatus, AbstractState
  <2>6. QED
    BY <1>0, <2>2, <2>3, <2>4, <2>5 DEF Abstract!Start, AbsStatus
<1>3. ASSUME NEW n \in Nodes, ResolveCompleted(n) PROVE Abstract!Succeed(n)
  <2>1. AbsStatus[n] = "active" /\ AbsStatus' = [AbsStatus EXCEPT ![n] = "done"]
    BY <1>3 DEF ResolveCompleted, Bookkeeping, TypeOK, AbsStatus, AbstractState
  <2>2. AbstractPhase = "open" /\ AbstractPhase' = "open"
    BY <1>3 DEF ResolveCompleted, AbstractPhase
  <2>3. QED
    BY <1>0, <2>1, <2>2 DEF Abstract!Succeed, AbsStatus
<1>4. ASSUME NEW n \in Nodes, ResolveFailure(n)
      PROVE  \E given_up \in SUBSET Nodes : Abstract!Close(given_up)
  <2> DEFINE settled == [status EXCEPT ![n] = StatusOf(agent[n])]
             D == BlockedNodes(settled)
             U == D \cup {n}
  <2>1. status[n] = "Running" /\ StatusOf(agent[n]) \in {"Failed", "Skipped"}
    BY <1>4 DEF ResolveFailure, Bookkeeping, StatusOf
  <2>2. D \subseteq Nodes /\ \A m \in D : status[m] = "Pending"
    BY <2>1 DEF BlockedNodes, TypeOK
  <2>3. status' = SetAll(settled, D, "Skipped")
    BY <1>4 DEF ResolveFailure
  <2> HIDE DEF D
  <2>4. \A m \in Nodes : status'[m] = IF m \in D THEN "Skipped"
                                     ELSE IF m = n THEN StatusOf(agent[n]) ELSE status[m]
    BY <2>3 DEF SetAll, TypeOK
  <2>5. \A m \in U : AbsStatus[m] \in {"waiting", "active"}
    BY <2>1, <2>2 DEF AbsStatus, AbstractState
  <2>6. AbsStatus' = [m \in Nodes |-> IF m \in U THEN "dropped" ELSE AbsStatus[m]]
    BY <2>1, <2>4 DEF AbsStatus, AbstractState
  <2>7. AbstractPhase = "open" /\ AbstractPhase' = "closed"
    BY <1>4 DEF ResolveFailure, AbstractPhase
  <2>8. U \in SUBSET Nodes
    BY <2>2
  <2>9. Abstract!Close(U)
    BY <1>0, <2>5, <2>6, <2>7 DEF Abstract!Close, AbsStatus
  <2>10. QED
    BY <2>8, <2>9
<1>5. ASSUME AbstractPhase = "open", AbstractPhase' = "closed", UNCHANGED status
      PROVE  Abstract!Close({})
  <2>1. AbsStatus' = [m \in Nodes |-> IF m \in {} THEN "dropped" ELSE AbsStatus[m]]
    BY <1>5 DEF AbsStatus
  <2>2. QED
    BY <1>0, <1>5, <2>1 DEF Abstract!Close, AbsStatus
<1>6. ASSUME NEW n \in Nodes, DrainJoin(n)
      PROVE  \E verdict \in {"done", "dropped"} : Abstract!ReportLate(n, verdict)
  <2> DEFINE v == AbstractState(StatusOf(agent[n]))
  <2>1. v \in {"done", "dropped"} /\ AbsStatus[n] = "active"
    BY <1>6 DEF DrainJoin, HandleFinished, Verdict, StatusOf, Bookkeeping, AbsStatus, AbstractState
  <2>2. AbsStatus' = [AbsStatus EXCEPT ![n] = v]
    BY <1>6 DEF DrainJoin, TypeOK, AbsStatus
  <2>3. AbstractPhase = "closed" /\ AbstractPhase' = "closed"
    BY <1>6 DEF DrainJoin, AbstractPhase
  <2>4. QED
    BY <1>0, <2>1, <2>2, <2>3 DEF Abstract!ReportLate, AbsStatus
<1>7. CASE Finalize
  <2>1. AbsStatus' = [n \in Nodes |-> IF AbsStatus[n] = "waiting" THEN "dropped" ELSE AbsStatus[n]]
    BY <1>7 DEF Finalize, SetAll, AbsStatus, AbstractState
  <2>2. AbstractPhase = "closed" /\ AbstractPhase' = "over"
    BY <1>7 DEF Finalize, AbstractPhase
  <2>3. Abstract!Conclude
    BY <1>0, <2>1, <2>2 DEF Abstract!Conclude, AbsStatus
  <2>4. QED
    BY <2>3 DEF Abstract!AbsNext
<1>8. {} \in SUBSET Nodes
  OBVIOUS
<1>9. QED
  <2>1. \/ UNCHANGED status /\ AbstractPhase' = AbstractPhase
        \/ UNCHANGED status /\ AbstractPhase = "open" /\ AbstractPhase' = "closed"
        \/ Finalize
        \/ \E n \in Nodes : \/ MarkRunning(n) \/ ResolveCompleted(n)
                            \/ ResolveFailure(n) \/ DrainJoin(n)
    BY DEF Next, Engine, SubAgents, AgentFinish, WrapperReturn, FireCancel, vars, engineVars,
           specVars, AbstractPhase, Scan, BatchDone, LookAtToken, NothingFinished, ObserveCancel, Spawn, SpawnRejected,
           ResolvePanic, DrainAbandon
  <2>2. QED
    BY <1>1, <1>2, <1>3, <1>4, <1>5, <1>6, <1>7, <1>8, <2>1 DEF Abstract!AbsNext

\* Every run of the engine is a run of DagRun: forward only, inputs first,
\* nothing started once it is closed.
THEOREM EngineImplementsDagRun == Spec => ImplementsDagRun
<1>1. Spec => [](TypeOK /\ Bookkeeping /\ InputInv)
  BY InitInput, NextInput, TypeCorrect, BookkeepingHolds, PTL DEF Spec
<1>2. QED
  BY <1>1, InitRefines, StepRefines, PTL DEF Spec, ImplementsDagRun, Abstract!AbsSpec

(***************************************************************************)
(* Theorems about DagRecovery: runs, repairs and re-runs.                   *)
(***************************************************************************)

\* While an engine runs, its invariants hold; the caller decides between runs.
RStageInv ==
    /\ stage = "engine" => Bookkeeping
    /\ stage = "replan" => pc = "Done" /\ \A n \in todo : status[n] = "Failed"

\* A node that waits to be started has used no more attempts than retries.
RAttemptInv ==
    \A n \in Nodes :
        /\ starts[n] <= 1 + retries[n]
        /\ status[n] = "Pending" \/ (stage = "engine" /\ n \in starting)
             => starts[n] <= retries[n]

\* While the caller counts, the hard ceiling bounds retry_count.
RCountInv == counted => \A n \in Nodes : retries[n] <= MaxRetries

RFinishInv == \A n \in finished : status[n] = "Completed"

\* What failed, is in flight or is put back was started at least once.
RStartInv ==
    /\ \A n \in Nodes : agent[n] # "Idle" \/ status[n] = "Failed" => starts[n] > 0
    /\ stage = "engine" => \A n \in inFlight : starts[n] > 0
    /\ stage = "engine" /\ pc = "Done" => \A n \in Nodes : status[n] # "Pending"
    /\ stage = "replan" => \A n \in Nodes : status[n] = "Pending" => starts[n] > 0

\* No run is handed a Pending node below a Skipped one.
RInputInv ==
    /\ \A n \in Nodes : starts[n] > 0 => \A p \in Parents(n) : status[p] = "Completed"
    /\ stage = "engine" =>
         /\ InputInv
         /\ \A n \in Nodes : given[n] = "Pending" => \A p \in Parents(n) : given[p] # "Skipped"

\* What a step of the engine can do to the nodes, for those who count starts.
EngineEffects ==
    /\ \A n \in Nodes : agent'[n] # agent[n] => n \in starting /\ n \notin starting'
    /\ \A n \in Nodes : agent'[n] # agent[n] => agent'[n] = "Running"
    /\ \A n \in starting' : status[n] = "Pending" \/ n \in starting
    /\ \A n \in Nodes : status'[n] = "Pending" => status[n] = "Pending"
    /\ \A n \in Nodes : status'[n] = "Failed" => status[n] = "Failed" \/ n \in inFlight
    /\ \A n \in inFlight' : n \in inFlight \/ agent'[n] # "Idle"
    /\ pc' = "Done" => \A n \in Nodes : status'[n] # "Pending"

LEMMA EngineHasEffects ==
    ASSUME TypeOK, Bookkeeping, Engine PROVE EngineEffects
<1> USE DEF TypeOK, Bookkeeping, EngineEffects, engineVars, specVars, taskVars
<1>1. CASE Scan
  BY <1>1 DEF Scan
<1>2. CASE BatchDone
  BY <1>2 DEF BatchDone
<1>3. CASE LookAtToken \/ NothingFinished \/ ObserveCancel
  BY <1>3 DEF LookAtToken, NothingFinished, ObserveCancel
<1>4. CASE Finalize
  BY <1>4 DEF Finalize, SetAll
<1>5. ASSUME NEW n \in Nodes, MarkRunning(n) PROVE EngineEffects
  BY <1>5 DEF MarkRunning
<1>6. ASSUME NEW n \in Nodes, Spawn(n) PROVE EngineEffects
  BY <1>6 DEF Spawn
<1>7. ASSUME NEW n \in Nodes, SpawnRejected(n) \/ ResolvePanic(n) \/ DrainAbandon(n)
      PROVE  EngineEffects
  BY <1>7 DEF SpawnRejected, ResolvePanic, DrainAbandon
<1>8. ASSUME NEW n \in Nodes, ResolveCompleted(n) PROVE EngineEffects
  BY <1>8 DEF ResolveCompleted
<1>9. ASSUME NEW n \in Nodes, ResolveFailure(n) PROVE EngineEffects
  <2>1. StatusOf(agent[n]) \in {"Failed", "Skipped"}
    BY <1>9 DEF ResolveFailure, StatusOf
  <2>2. \A m \in Nodes : status'[m] \in {"Pending", "Failed"} => status'[m] = status[m] \/ m = n
    BY <1>9, <2>1 DEF ResolveFailure, SetAll
  <2>3. status'[n] # "Pending"
    BY <1>9, <2>1 DEF ResolveFailure, SetAll
  <2>4. UNCHANGED <<agent, starting>> /\ inFlight' = inFlight \ {n} /\ pc' = "Drain" /\ n \in inFlight
    BY <1>9 DEF ResolveFailure
  <2>5. QED
    BY <2>2, <2>3, <2>4
<1>10. ASSUME NEW n \in Nodes, DrainJoin(n) PROVE EngineEffects
  BY <1>10 DEF DrainJoin, StatusOf, HandleFinished, Verdict
<1>11. QED
  BY <1>1, <1>2, <1>3, <1>4, <1>5, <1>6, <1>7, <1>8, <1>9, <1>10 DEF Engine

USE RecoveryAssumption

LEMMA RInitType == RInit => RTypeOK
BY InitType DEF RInit, RTypeOK, TooOften

LEMMA RNextType == RTypeOK /\ RStageInv /\ [RNext]_rvars => RTypeOK'
<1> SUFFICES ASSUME RTypeOK, RStageInv, [RNext]_rvars PROVE RTypeOK'
  OBVIOUS
<1> USE DEF RTypeOK, recoveryVars, history
<1>1. CASE EngineRuns
  <2>1. TypeOK'
    BY <1>1, NextType DEF EngineRuns, Next
  <2>2. starts' \in [Nodes -> 0 .. TooOften]
    BY <1>1 DEF EngineRuns, TooOften
  <2>3. QED
    BY <1>1, <2>1, <2>2 DEF EngineRuns
<1>2. CASE BesideEngine
  BY <1>2, NextType DEF BesideEngine, Next
<1>3. CASE UNCHANGED rvars
  BY <1>3, NextType DEF rvars
<1>4. CASE Review
  <2>1. TypeOK'
    BY <1>4, NextType DEF Review
  <2>2. QED
    BY <1>4, <2>1 DEF Review
<1>5. CASE RunAgain
  <2>1. NoCount \in [{"Completed", "Failed", "Cancelled", "Skipped"} -> Nat]
    BY DEF NoCount
  <2>2. TypeOK'
    BY <1>5, <2>1 DEF RunAgain, TypeOK
  <2>3. QED
    BY <1>5, <2>2 DEF RunAgain
<1>6. CASE GiveUp
  <2>1. TypeOK'
    BY <1>6, NextType DEF GiveUp
  <2>2. QED
    BY <1>6, <2>1 DEF GiveUp
<1>7. ASSUME NEW n \in Nodes, NEW k \in 0 .. MaxRetries,
             Reset(n, k) \/ Escalate(n, k) \/ NoAction(n, k)
      PROVE RTypeOK'
  <2>1. TypeOK'
    BY <1>7 DEF Reset, Escalate, NoAction, Decided, PutBack, TypeOK, NodeStatus, taskVars
  <2>2. retries' \in [Nodes -> 0 .. MaxPutBacks]
    BY <1>7 DEF Reset, Escalate, NoAction, RetriesAfter
  <2>3. QED
    BY <1>7, <2>1, <2>2 DEF Reset, Escalate, NoAction, Decided, Counts
<1>8. QED
  BY <1>1, <1>2, <1>3, <1>4, <1>5, <1>6, <1>7 DEF RNext, Caller

\* Every engine starts from its own bookkeeping, and failed nodes stay failed
\* until they are decided about.
LEMMA RNextStage == RTypeOK /\ RStageInv /\ [RNext]_rvars => RStageInv'
<1> SUFFICES ASSUME RTypeOK, RStageInv, [RNext]_rvars PROVE RStageInv'
  OBVIOUS
<1> USE DEF RTypeOK, RStageInv, recoveryVars, history
<1>1. CASE EngineRuns
  BY <1>1, NextBookkeeping DEF EngineRuns, Next
<1>2. CASE BesideEngine
  <2>1. Bookkeeping => Bookkeeping'
    BY <1>2, NextBookkeeping DEF BesideEngine, Next
  <2>2. UNCHANGED <<pc, status>>
    BY <1>2 DEF BesideEngine, SubAgents, AgentFinish, WrapperReturn, FireCancel, engineVars, specVars
  <2>3. QED
    BY <1>2, <2>1, <2>2 DEF BesideEngine
<1>3. CASE UNCHANGED rvars
  <2>1. Bookkeeping => Bookkeeping'
    BY <1>3, NextBookkeeping DEF rvars
  <2>2. QED
    BY <1>3, <2>1 DEF rvars, vars
<1>4. CASE Review \/ GiveUp
  BY <1>4 DEF Review, GiveUp, vars
<1>5. CASE RunAgain
  BY <1>5 DEF RunAgain, Bookkeeping
<1>6. ASSUME NEW n \in Nodes, NEW k \in 0 .. MaxRetries,
             Reset(n, k) \/ Escalate(n, k) \/ NoAction(n, k)
      PROVE RStageInv'
  BY <1>6 DEF Reset, Escalate, NoAction, Decided, PutBack, TypeOK
<1>7. QED
  BY <1>1, <1>2, <1>3, <1>4, <1>5, <1>6 DEF RNext, Caller

\* A start uses the attempt its node had left, a repair gives it one more.
LEMMA RNextAttempt ==
    RTypeOK /\ RStageInv /\ RAttemptInv /\ [RNext]_rvars => RAttemptInv'
<1> SUFFICES ASSUME RTypeOK, RStageInv, RAttemptInv, [RNext]_rvars PROVE RAttemptInv'
  OBVIOUS
<1>0. /\ TypeOK /\ status \in [Nodes -> NodeStatus]
      /\ retries \in [Nodes -> Nat] /\ starts \in [Nodes -> Nat]
  BY DEF RTypeOK, TypeOK
<1> USE DEF RAttemptInv, recoveryVars, history
<1>1. CASE EngineRuns
  <2>1. EngineEffects
    BY <1>0, <1>1, EngineHasEffects DEF EngineRuns, RStageInv
  <2>2. retries' = retries /\ stage' = "engine" /\ stage = "engine"
    BY <1>1 DEF EngineRuns
  <2>3. ASSUME NEW n \in Nodes
        PROVE  /\ starts'[n] <= 1 + retries[n]
               /\ status'[n] = "Pending" \/ n \in starting' => starts'[n] <= retries[n]
    <3>1. CASE agent[n] = "Idle" /\ agent'[n] = "Running"
      <4>1. n \in starting /\ n \notin starting' /\ starts'[n] <= starts[n] + 1
        BY <1>0, <1>1, <2>1, <3>1 DEF EngineRuns, EngineEffects
      <4>2. status[n] = "Running" /\ starts[n] <= retries[n]
        BY <2>2, <4>1 DEF RStageInv, Bookkeeping
      <4>3. status'[n] # "Pending"
        BY <2>1, <4>2 DEF EngineEffects
      <4>4. starts'[n] \in Nat
        BY <1>0, <1>1 DEF EngineRuns
      <4>5. QED
        BY <1>0, <4>1, <4>2, <4>3, <4>4
    <3>2. CASE ~(agent[n] = "Idle" /\ agent'[n] = "Running")
      <4>1. starts'[n] = starts[n]
        BY <1>0, <1>1, <3>2 DEF EngineRuns
      <4>2. status'[n] = "Pending" \/ n \in starting' => status[n] = "Pending" \/ n \in starting
        BY <2>1 DEF EngineEffects
      <4>3. QED
        BY <2>2, <4>1, <4>2
    <3>3. QED
      BY <3>1, <3>2
  <2>4. QED
    BY <2>2, <2>3
<1>2. CASE BesideEngine
  BY <1>2 DEF BesideEngine, SubAgents, AgentFinish, WrapperReturn, FireCancel, engineVars, specVars
<1>3. CASE UNCHANGED rvars
  BY <1>3 DEF rvars, vars
<1>4. CASE Review \/ GiveUp
  BY <1>4 DEF Review, GiveUp, vars
<1>5. CASE RunAgain
  BY <1>5 DEF RunAgain
<1>6. ASSUME NEW n \in Nodes, NEW k \in 0 .. MaxRetries,
             Reset(n, k) \/ Escalate(n, k) \/ NoAction(n, k)
      PROVE RAttemptInv'
  <2>1. /\ UNCHANGED <<starts, starting>> /\ stage' = "replan" /\ stage = "replan"
        /\ \A m \in Nodes : m # n => status'[m] = status[m] /\ retries'[m] = retries[m]
    BY <1>0, <1>6 DEF Reset, Escalate, NoAction, Decided, PutBack, RetriesAfter
  <2>2. starts[n] <= 1 + retries[n]
    OBVIOUS
  <2>3. \/ retries'[n] = retries[n] + 1
        \/ retries'[n] = retries[n] /\ status'[n] # "Pending"
    <3>1. status[n] = "Failed"
      BY <1>6 DEF Reset, Escalate, NoAction, Decided, RStageInv
    <3>2. QED
      BY <1>0, <1>6, <3>1 DEF Reset, Escalate, NoAction, RetriesAfter
  <2>4. starts'[n] <= 1 + retries'[n] /\ (status'[n] = "Pending" => starts'[n] <= retries'[n])
    BY <1>0, <2>1, <2>2, <2>3
  <2>5. QED
    BY <2>1, <2>4
<1>7. QED
  BY <1>1, <1>2, <1>3, <1>4, <1>5, <1>6 DEF RNext, Caller

\* A put-back needs a count below the ceiling, and the count is the node's own.
LEMMA RNextCount == RTypeOK /\ RCountInv /\ [RNext]_rvars => RCountInv'
<1> SUFFICES ASSUME RTypeOK, RCountInv, [RNext]_rvars PROVE RCountInv'
  OBVIOUS
<1>0. retries \in [Nodes -> Nat]
  BY DEF RTypeOK
<1> USE DEF RCountInv, recoveryVars
<1>1. CASE EngineRuns \/ BesideEngine \/ UNCHANGED rvars
  BY <1>1 DEF EngineRuns, BesideEngine, rvars
<1>2. CASE Review \/ GiveUp \/ RunAgain
  BY <1>2 DEF Review, GiveUp, RunAgain
<1>3. ASSUME NEW n \in Nodes, NEW k \in 0 .. MaxRetries, Reset(n, k) PROVE RCountInv'
  <2>1. SUFFICES ASSUME counted', NEW m \in Nodes PROVE retries'[m] <= MaxRetries
    OBVIOUS
  <2>2. counted /\ k = retries[n] /\ ~(k >= MaxRetries)
    BY <1>3, <2>1 DEF Reset, Decided, Counts, Exhausted
  <2>3. retries'[m] = IF m = n THEN retries[m] + 1 ELSE retries[m]
    BY <1>0, <1>3 DEF Reset, RetriesAfter
  <2>4. retries[m] \in Nat /\ retries[m] <= MaxRetries
    BY <1>0, <2>2
  <2>5. QED
    BY <2>2, <2>3, <2>4
<1>4. ASSUME NEW n \in Nodes, NEW k \in 0 .. MaxRetries, Escalate(n, k) \/ NoAction(n, k)
      PROVE  RCountInv'
  BY <1>4 DEF Escalate, NoAction, Decided, Counts
<1>5. QED
  BY <1>1, <1>2, <1>3, <1>4 DEF RNext, Caller

\* Nothing takes Completed from a node, and no engine starts such a node.
LEMMA RStepKeepsFinished ==
    ASSUME RTypeOK, RStageInv, [RNext]_rvars, NEW n \in Nodes, status[n] = "Completed"
    PROVE  starts'[n] = starts[n] /\ status'[n] = "Completed"
<1>0. TypeOK /\ starts \in [Nodes -> Nat] /\ status \in [Nodes -> NodeStatus]
  BY DEF RTypeOK, TypeOK
<1> USE DEF recoveryVars, history
<1>1. CASE EngineRuns
  <2>1. Bookkeeping /\ [Next]_vars /\ EngineEffects
    BY <1>0, <1>1, EngineHasEffects DEF EngineRuns, RStageInv, Next
  <2>2. status'[n] = "Completed"
    BY <1>0, <2>1, VerdictsFinal
  <2>3. n \notin starting
    BY <2>1 DEF Bookkeeping
  <2>4. agent'[n] = agent[n]
    BY <2>1, <2>3 DEF EngineEffects
  <2>5. starts'[n] = starts[n]
    BY <1>0, <1>1, <2>4 DEF EngineRuns
  <2>6. QED
    BY <2>2, <2>5
<1>2. CASE BesideEngine
  BY <1>2 DEF BesideEngine, SubAgents, AgentFinish, WrapperReturn, FireCancel, specVars
<1>3. CASE UNCHANGED rvars
  BY <1>3 DEF rvars, vars
<1>4. CASE Review \/ GiveUp \/ RunAgain
  BY <1>4 DEF Review, GiveUp, RunAgain, vars
<1>5. ASSUME NEW m \in Nodes, NEW k \in 0 .. MaxRetries,
             Reset(m, k) \/ Escalate(m, k) \/ NoAction(m, k)
     
      PROVE  starts'[n] = starts[n] /\ status'[n] = "Completed"
  <2>1. status[m] = "Failed"
    BY <1>5 DEF Reset, Escalate, NoAction, Decided, RStageInv
  <2>2. QED
    BY <1>0, <1>5, <2>1 DEF Reset, Escalate, NoAction, Decided, PutBack
<1>6. QED
  BY <1>1, <1>2, <1>3, <1>4, <1>5 DEF RNext, Caller

LEMMA RNextFinish == RTypeOK /\ RStageInv /\ RFinishInv /\ [RNext]_rvars => RFinishInv'
<1> SUFFICES ASSUME RTypeOK, RStageInv, RFinishInv, [RNext]_rvars PROVE RFinishInv'
  OBVIOUS
<1>1. finished \subseteq Nodes
  BY DEF RTypeOK
<1>2. \A n \in finished : status'[n] = "Completed"
  BY <1>1, RStepKeepsFinished DEF RFinishInv
<1>3. \A n \in finished' : n \in finished \/ status'[n] = "Completed"
  BY DEF RNext, EngineRuns, BesideEngine, Caller, Review, RunAgain, GiveUp, Reset, Escalate, NoAction,
     Decided, rvars, history
<1>4. QED
  BY <1>2, <1>3 DEF RFinishInv

RInv == RTypeOK /\ RStageInv /\ RAttemptInv /\ RCountInv /\ RFinishInv

LEMMA RInitInv == RInit => RInv
<1> SUFFICES ASSUME RInit PROVE RInv
  OBVIOUS
<1>1. RTypeOK
  BY RInitType
<1>2. RStageInv
  BY InitBookkeeping DEF RInit, RStageInv
<1>3. RAttemptInv /\ RCountInv /\ RFinishInv
  BY DEF RInit, RAttemptInv, RCountInv, RFinishInv
<1>4. QED
  BY <1>1, <1>2, <1>3 DEF RInv

LEMMA RInvHolds == RSpec => []RInv
<1>1. RInv /\ [RNext]_rvars => RInv'
  BY RNextType, RNextStage, RNextAttempt, RNextCount, RNextFinish DEF RInv
<1>2. QED
  BY RInitInv, <1>1, PTL DEF RSpec

\* Over any number of runs, repairs and cancels and any initial statuses, the
\* retry_count of a node accounts for all its sub-agents; while the caller passes
\* it on, decide_and_apply's hard ceiling bounds them.
THEOREM AttemptsBoundedHolds == RSpec => []AttemptsBounded
<1>1. RInv => AttemptsBounded
  <2> SUFFICES ASSUME RInv, NEW n \in Nodes
               PROVE  starts[n] <= 1 + retries[n] /\ (counted => starts[n] <= 1 + MaxRetries)
    BY DEF AttemptsBounded
  <2>1. starts[n] \in Nat /\ retries[n] \in Nat /\ starts[n] <= 1 + retries[n]
    BY DEF RInv, RTypeOK, RAttemptInv
  <2>2. counted => retries[n] <= MaxRetries
    BY DEF RInv, RCountInv
  <2>3. QED
    BY <2>1, <2>2
<1>2. QED
  BY <1>1, RInvHolds, PTL

\* No later run of a repaired graph redoes or undoes completed work.
THEOREM FinishedWorkKeptHolds == RSpec => FinishedWorkKept
<1>1. RInv /\ [RNext]_rvars =>
        [\A n \in finished : starts'[n] = starts[n] /\ status'[n] = "Completed"]_rvars
  <2> SUFFICES ASSUME RInv, [RNext]_rvars, NEW n \in finished
               PROVE  starts'[n] = starts[n] /\ status'[n] = "Completed"
    OBVIOUS
  <2>1. n \in Nodes /\ status[n] = "Completed" /\ RTypeOK /\ RStageInv
    BY DEF RInv, RTypeOK, RFinishInv
  <2>2. QED
    BY <2>1, RStepKeepsFinished
<1>2. QED
  BY <1>1, RInvHolds, PTL DEF RSpec, FinishedWorkKept

(***************************************************************************)
(* Inputs across repairs.  The specs are handed in with no node Skipped or  *)
(* Failed: a caller that skips a node itself lets its children run without  *)
(* it (InputsAvailable has that exception).                                 *)
(***************************************************************************)

Startable == \A st \in InitialStatuses : \A n \in Nodes : st[n] \notin {"Skipped", "Failed"}

LEMMA RInitStart == Startable /\ RInit => RStartInv /\ RInputInv
<1> SUFFICES ASSUME Startable, RInit PROVE RStartInv /\ RInputInv
  OBVIOUS
<1>1. InputInv
  BY InitInput DEF RInit
<1>2. /\ \A n \in Nodes : status[n] \notin {"Skipped", "Failed"} /\ starts[n] = 0 /\ agent[n] = "Idle"
      /\ given = status /\ stage = "engine" /\ pc = "Scan" /\ inFlight = {}
  BY DEF RInit, Init, Startable
<1>3. RStartInv
  BY <1>2 DEF RStartInv
<1>4. RInputInv
  BY <1>1, <1>2 DEF RInputInv, Parents
<1>5. QED
  BY <1>3, <1>4

LEMMA RNextStart == RInv /\ RStartInv /\ [RNext]_rvars => RStartInv'
<1> SUFFICES ASSUME RInv, RStartInv, [RNext]_rvars PROVE RStartInv'
  OBVIOUS
<1>0. /\ TypeOK /\ RTypeOK /\ RStageInv
      /\ starts \in [Nodes -> Nat] /\ status \in [Nodes -> NodeStatus]
      /\ agent \in [Nodes -> {"Idle", "Running"} \cup Verdict]
      /\ inFlight \subseteq Nodes
  BY DEF RInv, RTypeOK, TypeOK
<1> USE DEF RStartInv, recoveryVars, history
<1>1. CASE EngineRuns
  <2>1. EngineEffects
    BY <1>0, <1>1, EngineHasEffects DEF EngineRuns, RStageInv
  <2>2. stage = "engine" /\ stage' = "engine"
    BY <1>1 DEF EngineRuns
  <2>3. \A n \in Nodes : starts[n] > 0 => starts'[n] > 0
    BY <1>0, <1>1 DEF EngineRuns
  <2>4. ASSUME NEW n \in Nodes, agent'[n] # "Idle" PROVE starts'[n] > 0
    <3>1. CASE agent[n] # "Idle"
      BY <2>3, <3>1
    <3>2. CASE agent[n] = "Idle"
      <4>1. agent'[n] = "Running"
        BY <2>1, <2>4, <3>2 DEF EngineEffects
      <4>2. starts'[n] = IF starts[n] < TooOften THEN starts[n] + 1 ELSE starts[n]
        BY <1>1, <3>2, <4>1 DEF EngineRuns
      <4>3. QED
        BY <1>0, <4>2 DEF TooOften
    <3>3. QED
      BY <3>1, <3>2
  <2>5. \A n \in Nodes : status'[n] = "Failed" => starts'[n] > 0
    BY <2>1, <2>2, <2>3 DEF EngineEffects
  <2>6. TypeOK'
    BY <1>0, <1>1, NextType DEF EngineRuns, Next
  <2>7. \A n \in inFlight' : starts'[n] > 0
    BY <1>0, <2>1, <2>2, <2>3, <2>4, <2>6 DEF EngineEffects, TypeOK
  <2>8. pc' = "Done" => \A n \in Nodes : status'[n] # "Pending"
    BY <2>1 DEF EngineEffects
  <2>9. QED
    BY <2>2, <2>4, <2>5, <2>7, <2>8
<1>2. CASE BesideEngine
  <2>1. UNCHANGED <<pc, status, inFlight, stage, starts>>
    BY <1>2 DEF BesideEngine, SubAgents, AgentFinish, WrapperReturn, FireCancel, engineVars, specVars
  <2>2. \A n \in Nodes : agent'[n] # "Idle" => agent[n] # "Idle"
    BY <1>0, <1>2 DEF BesideEngine, SubAgents, AgentFinish, WrapperReturn, FireCancel, taskVars
  <2>3. QED
    BY <2>1, <2>2
<1>3. CASE UNCHANGED rvars
  BY <1>3 DEF rvars, vars
<1>4. CASE Review
  <2>1. UNCHANGED <<pc, status, agent, starts>> /\ stage = "engine"
        /\ stage' = IF pc = "Done" /\ hadFailure THEN "replan" ELSE "over"
    BY <1>4 DEF Review, vars
  <2>2. QED
    BY <2>1
<1>5. CASE GiveUp
  BY <1>5 DEF GiveUp, vars
<1>6. CASE RunAgain
  BY <1>6 DEF RunAgain
<1>7. ASSUME NEW n \in Nodes, NEW k \in 0 .. MaxRetries,
             Reset(n, k) \/ Escalate(n, k) \/ NoAction(n, k)
      PROVE RStartInv'
  <2>1. /\ UNCHANGED <<starts, agent>> /\ stage = "replan" /\ stage' = "replan"
        /\ \A m \in Nodes : m # n => status'[m] = status[m]
        /\ status[n] = "Failed" /\ status' \in [Nodes -> {status[m] : m \in Nodes} \cup {"Pending", "Skipped"}]
    BY <1>0, <1>7 DEF Reset, Escalate, NoAction, Decided, PutBack, RStageInv, taskVars
  <2>2. starts[n] > 0
    BY <2>1
  <2>3. QED
    BY <2>1, <2>2
<1>8. QED
  BY <1>1, <1>2, <1>3, <1>4, <1>5, <1>6, <1>7 DEF RNext, Caller

\* A repaired node was started, so its parents had completed; every other node
\* of a re-run is settled.
LEMMA RNextInput == RInv /\ RStartInv /\ RInputInv /\ [RNext]_rvars => RInputInv'
<1> SUFFICES ASSUME RInv, RStartInv, RInputInv, [RNext]_rvars PROVE RInputInv'
  OBVIOUS
<1>0. /\ TypeOK /\ RTypeOK /\ RStageInv
      /\ starts \in [Nodes -> Nat] /\ status \in [Nodes -> NodeStatus]
      /\ agent \in [Nodes -> {"Idle", "Running"} \cup Verdict]
  BY DEF RInv, RTypeOK, TypeOK
<1>a. ASSUME NEW n \in Nodes, starts[n] > 0, NEW p \in Parents(n) PROVE status'[p] = "Completed"
  <2>1. p \in Nodes /\ status[p] = "Completed"
    BY <1>a DEF RInputInv, Parents
  <2>2. QED
    BY <1>0, <2>1, RStepKeepsFinished
<1> USE DEF recoveryVars, history
<1>1. CASE EngineRuns
  <2>1. Bookkeeping /\ [Next]_vars /\ EngineEffects /\ InputInv
    BY <1>0, <1>1, EngineHasEffects DEF EngineRuns, RStageInv, Next, RInputInv
  <2>2. stage = "engine" /\ InputInv' /\ given' = given
    BY <1>0, <1>1, <2>1, NextInput, VerdictsFinal DEF EngineRuns
  <2>3. ASSUME NEW n \in Nodes, starts'[n] > 0, NEW p \in Parents(n) PROVE status'[p] = "Completed"
    <3>1. CASE starts[n] > 0
      BY <1>a, <3>1
    <3>2. CASE ~(starts[n] > 0)
      <4>1. n \in starting
        <5>1. starts'[n] # starts[n]
          BY <1>0, <2>3, <3>2
        <5>2. agent'[n] # agent[n]
          BY <1>1, <5>1 DEF EngineRuns
        <5>3. QED
          BY <2>1, <5>2 DEF EngineEffects
      <4>2. given[n] = "Pending" /\ InputsOf(n)
        BY <2>1, <4>1 DEF Bookkeeping, InputInv
      <4>3. p \in Nodes /\ given[p] # "Skipped"
        BY <2>2, <4>2 DEF RInputInv, Parents
      <4>4. status[p] = "Completed"
        BY <4>2, <4>3 DEF InputsOf
      <4>5. QED
        BY <1>0, <4>3, <4>4, RStepKeepsFinished
    <3>3. QED
      BY <3>1, <3>2
  <2>4. QED
    BY <2>2, <2>3 DEF RInputInv, Parents
<1>2. CASE BesideEngine
  <2>1. UNCHANGED <<status, given, stage, starts>> /\ [Next]_vars
    BY <1>2 DEF BesideEngine, SubAgents, AgentFinish, WrapperReturn, FireCancel, engineVars, specVars, Next
  <2>2. stage = "engine" => InputInv'
    BY <1>0, <2>1, NextInput DEF RStageInv, RInputInv
  <2>3. QED
    BY <2>1, <2>2 DEF RInputInv, Parents
<1>3. CASE UNCHANGED rvars
  <2>1. UNCHANGED <<status, given, stage, starts>> /\ [Next]_vars
    BY <1>3 DEF rvars, vars
  <2>2. stage = "engine" => InputInv'
    BY <1>0, <2>1, NextInput DEF RStageInv, RInputInv
  <2>3. QED
    BY <2>1, <2>2 DEF RInputInv, Parents
<1>4. CASE Review \/ GiveUp
  <2>1. UNCHANGED <<status, starts>> /\ stage' # "engine"
    BY <1>4 DEF Review, GiveUp, vars
  <2>2. QED
    BY <2>1 DEF RInputInv, Parents
<1>5. CASE RunAgain
  <2>1. /\ UNCHANGED <<status, starts>> /\ given' = status /\ stage = "replan"
        /\ batch' = {} /\ starting' = {} /\ inFlight' = {}
        /\ \A n \in Nodes : agent'[n] # "Idle" => agent[n] # "Idle"
    BY <1>5 DEF RunAgain
  <2>2. \A n \in Nodes : agent'[n] # "Idle" => \A p \in Parents(n) : status'[p] = "Completed"
    BY <1>a, <2>1 DEF RStartInv
  <2>3. InputInv'
    BY <2>1, <2>2 DEF InputInv, NoSkipInLoop, InputsOf, Parents
  <2>4. \A n \in Nodes : given'[n] = "Pending" => \A p \in Parents(n) : given'[p] # "Skipped"
    BY <2>1 DEF RStartInv, RInputInv
  <2>5. QED
    BY <1>a, <2>1, <2>3, <2>4 DEF RInputInv, Parents
<1>6. ASSUME NEW n \in Nodes, NEW k \in 0 .. MaxRetries,
             Reset(n, k) \/ Escalate(n, k) \/ NoAction(n, k)
      PROVE RInputInv'
  <2>1. UNCHANGED starts /\ stage' = "replan"
    BY <1>6 DEF Reset, Escalate, NoAction, Decided
  <2>2. QED
    BY <1>a, <2>1 DEF RInputInv, Parents
<1>7. QED
  BY <1>1, <1>2, <1>3, <1>4, <1>5, <1>6 DEF RNext, Caller

\* Whatever the replanner puts back, a sub-agent runs only with the outputs of
\* all parents, if the caller handed in no node that was skipped or failed.
THEOREM InputsCompletedHolds == ASSUME Startable PROVE RSpec => []InputsCompleted
<1>1. RInit => RStartInv /\ RInputInv
  BY RInitStart
<1>2. RInputInv => InputsCompleted
  BY DEF RInputInv, InputsCompleted
<1>3. RInv /\ (RStartInv /\ RInputInv) /\ [RNext]_rvars => (RStartInv /\ RInputInv)'
  BY RNextStart, RNextInput
<1>4. QED
  BY <1>1, <1>2, <1>3, RInvHolds, PTL DEF RSpec
=============================================================================
