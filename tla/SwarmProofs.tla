---------------------------- MODULE SwarmProofs ----------------------------
(* Theorems about SwarmCoordinator and the sub-agents it runs, for any      *)
(* number of agents, tools and callers of await_all and every cap.          *)
EXTENDS SwarmCoordinator, FiniteSetTheorems, TLAPS

(* The semaphore counts the calls of spawn that are under way. *)
Inside == {a \in Agents : caller[a] = "inside"}

PermitInv ==
  /\ permits \in Nat
  /\ Cap = 0 => permits = 0
  /\ Cap # 0 => IsFiniteSet(Inside) /\ permits + Cardinality(Inside) = Cap

(* A step that has asked the model is not the last one's end. *)
AgentTypes ==
  /\ AgentTypeOK
  /\ \A a \in Agents : at[a] # "top" => step[a] < MaxSteps

Types ==
  /\ AgentTypes
  /\ caller \in [Agents -> {"idle", "inside", "returned"}]
  /\ live \subseteq Agents
  /\ recorded \subseteq Agents
  /\ task \in [Agents -> {"none", "running", "recorded", "ended"}]
  /\ waits \in [Awaiters -> Wait]

(* A tool that began after the flag was set is the last of its agent: the   *)
(* model is not asked again.                                                *)
ToolInv ==
  \A a \in Agents :
    /\ toolsAfter[a] <= 1
    /\ toolsAfter[a] > 0 => cancelled[a] /\ at[a] # "model"

(* A status that was recorded is that of an agent that has ended, and a     *)
(* task leaves the live list only after it was recorded.                    *)
TaskInv ==
  \A a \in Agents :
    /\ task[a] \in {"recorded", "ended"} => a \in recorded
    /\ a \in recorded => state[a] \in Verdicts

(* Once spawn has returned, an agent is on the live list, was taken off it  *)
(* by a call of await_all, or is over.                                      *)
ListInv == \A a \in Returned : a \in live \/ a \in Taken \/ task[a] = "ended"

HasEnded(a) == a \in recorded \/ state[a] = "Panicked"

(* Who does not hold it knows its end, or has passed its deadline.          *)
HeldInv ==
  \A a \in Returned : a \in live \/ Awaited(a) \/ DroppedAtDeadline(a) \/ HasEnded(a)

(* What a call of await_all owes is in its handles until it is collected.   *)
WaitInv ==
  \A w \in Awaiters :
    /\ waits[w].pc = "idle" => waits[w] = NoWait
    /\ waits[w].pc # "timeout" => waits[w].dropped = {}
    /\ \A a \in waits[w].collected : HasEnded(a)
    /\ waits[w].pc = "taken" => waits[w].owed \subseteq waits[w].handles \cup recorded
    /\ waits[w].pc = "joining" => waits[w].owed \subseteq waits[w].handles \cup waits[w].collected
    /\ waits[w].pc = "ok" => waits[w].owed \subseteq waits[w].collected

SwarmInv == Types /\ PermitInv /\ ToolInv /\ TaskInv /\ ListInv /\ HeldInv /\ WaitInv
-----------------------------------------------------------------------------
LEMMA InitSwarmInv == Init => SwarmInv
  <1> SUFFICES ASSUME Init PROVE SwarmInv
    OBVIOUS
  <1>1. Types
    BY SubAgentAssumption DEF Init, AgentInit, Types, AgentTypes, AgentTypeOK, Wait, NoWait
  <1>2. PermitInv
    <2>1. Inside = {}
      BY DEF Init, Inside
    <2> QED BY <2>1, FS_EmptySet, CoordinatorAssumption DEF Init, PermitInv
  <1>3. ToolInv /\ TaskInv /\ ListInv /\ HeldInv
    BY DEF Init, AgentInit, ToolInv, TaskInv, ListInv, HeldInv, Returned
  <1>4. WaitInv
    BY DEF Init, WaitInv, NoWait
  <1> QED BY <1>1, <1>2, <1>3, <1>4 DEF SwarmInv

(* What the steps of an agent's loop do, for the proofs about the           *)
(* coordinator: they move a running agent, and end it with a verdict or a   *)
(* panic.                                                                   *)
LEMMA AgentStepEffect ==
  ASSUME NEW a \in Agents, AgentTypeOK, AgentStep(a)
  PROVE  /\ state[a] = "Running"
         /\ state' \in [Agents -> {"New", "Running", "Panicked"} \cup Verdicts]
         /\ \A b \in Agents : b # a => state'[b] = state[b]
  <1>1. state[a] = "Running"
    BY DEF AgentStep, SeeCancel, LimitReached, AskModel, StepsExhausted, ModelEnds,
           DenyTool, InvokeTool, ToolReturns, SummaryPanics, Running
  <1>2. \/ UNCHANGED state
        \/ \E v \in Verdicts \cup {"Panicked"} : state' = [state EXCEPT ![a] = v]
    BY DEF AgentStep, SeeCancel, LimitReached, AskModel, StepsExhausted, ModelEnds,
           DenyTool, InvokeTool, ToolReturns, SummaryPanics, End, Goto, Verdicts
  <1> QED BY <1>1, <1>2 DEF AgentTypeOK, Verdicts

LEMMA AgentStepTypes ==
  ASSUME NEW a \in Agents, AgentTypes, AgentStep(a)
  PROVE  AgentTypes'
  <1> USE SubAgentAssumption DEF AgentTypeOK
  <1>0. AgentTypeOK /\ \A b \in Agents : at[b] # "top" => step[b] < MaxSteps
    BY DEF AgentTypes
  <1>1. state' \in [Agents -> {"New", "Running", "Panicked"} \cup Verdicts]
    BY <1>0, AgentStepEffect
  <1>2. at' \in [Agents -> {"top", "model", "tool"}] /\ cancelled' \in [Agents -> BOOLEAN]
    BY <1>0 DEF AgentStep, SeeCancel, LimitReached, AskModel, StepsExhausted, ModelEnds,
           DenyTool, InvokeTool, ToolReturns, SummaryPanics, End, Goto
  <1>3. toolsAfter' \in [Agents -> Nat]
    BY <1>0 DEF AgentStep, SeeCancel, LimitReached, AskModel, StepsExhausted, ModelEnds,
           DenyTool, InvokeTool, ToolReturns, SummaryPanics, End
  <1>4. /\ step' \in [Agents -> 0 .. MaxSteps]
        /\ \A b \in Agents : at'[b] # "top" => step'[b] < MaxSteps
    <2>1. CASE \E v \in Verdicts \cup {"Panicked"} : End(a, v)
      BY <1>0, <2>1 DEF End
    <2>2. CASE AskModel(a)
      BY <1>0, <2>2 DEF AskModel, Running, Goto
    <2>3. CASE DenyTool(a) \/ ToolReturns(a)
      <3>1. step[a] < MaxSteps
        BY <1>0, <2>3 DEF DenyTool, ToolReturns, Running
      <3> QED BY <1>0, <2>3, <3>1 DEF DenyTool, ToolReturns, Goto
    <2>4. CASE InvokeTool(a)
      BY <1>0, <2>4 DEF InvokeTool, Running, Goto
    <2> QED
      BY <2>1, <2>2, <2>3, <2>4 DEF AgentStep, SeeCancel, LimitReached, StepsExhausted,
        ModelEnds, SummaryPanics, Verdicts
  <1> QED BY <1>1, <1>2, <1>3, <1>4 DEF AgentTypes

(* A tool begins from the model's answer, and the model is asked only while *)
(* the flag is not set.                                                     *)
LEMMA AgentStepTools ==
  ASSUME NEW a \in Agents, AgentTypeOK, ToolInv, AgentStep(a)
  PROVE  ToolInv'
  <1> SUFFICES ASSUME NEW b \in Agents
               PROVE  /\ toolsAfter'[b] <= 1
                      /\ toolsAfter'[b] > 0 => cancelled'[b] /\ at'[b] # "model"
    BY DEF ToolInv
  <1>1. /\ toolsAfter[b] <= 1 /\ toolsAfter[b] \in Nat
        /\ toolsAfter[b] > 0 => cancelled[b] /\ at[b] # "model"
    BY DEF ToolInv, AgentTypeOK
  <1>2. CASE \E v \in Verdicts \cup {"Panicked"} : End(a, v)
    BY <1>1, <1>2 DEF End, AgentTypeOK
  <1>3. CASE AskModel(a)
    BY <1>1, <1>3 DEF AskModel, FlagSeen, Goto, AgentTypeOK
  <1>4. CASE DenyTool(a) \/ ToolReturns(a)
    BY <1>1, <1>4 DEF DenyTool, ToolReturns, Goto, AgentTypeOK
  <1>5. CASE InvokeTool(a)
    BY <1>1, <1>5 DEF InvokeTool, Running, Goto, AgentTypeOK
  <1> QED
    BY <1>2, <1>3, <1>4, <1>5 DEF AgentStep, SeeCancel, LimitReached, StepsExhausted,
      ModelEnds, SummaryPanics, Verdicts
-----------------------------------------------------------------------------
(* A step of the agents, or a cancel, leaves the coordinator as it is.      *)
LEMMA AgentsKeep ==
  ASSUME SwarmInv, AgentTypes', ToolInv', UNCHANGED coordVars,
         \A a \in Agents : state'[a] = state[a] \/ state[a] = "Running"
  PROVE  SwarmInv'
  <1>1. Types'
    BY DEF SwarmInv, Types, coordVars
  <1>2. PermitInv'
    BY DEF SwarmInv, PermitInv, Inside, coordVars
  <1>3. TaskInv'
    BY DEF SwarmInv, TaskInv, coordVars, Verdicts
  <1>4. ListInv'
    BY DEF SwarmInv, ListInv, Returned, Taken, coordVars
  <1>5. \A a \in Agents : HasEnded(a) => HasEnded(a)'
    BY DEF HasEnded, coordVars
  <1>6. WaitInv'
    BY <1>5 DEF SwarmInv, WaitInv, coordVars, Types, Wait
  <1>7. HeldInv'
    BY <1>5 DEF SwarmInv, HeldInv, Returned, Awaited, DroppedAtDeadline, coordVars
  <1> QED BY <1>1, <1>2, <1>3, <1>4, <1>6, <1>7 DEF SwarmInv

LEMMA FlagKeeps ==
  ASSUME SwarmInv, NEW S, Flag(S), UNCHANGED coordVars
  PROVE  SwarmInv'
  <1>1. AgentTypes'
    BY DEF SwarmInv, Types, AgentTypes, AgentTypeOK, Flag
  <1>2. ToolInv'
    BY DEF SwarmInv, Types, AgentTypes, AgentTypeOK, ToolInv, Flag
  <1>3. UNCHANGED state
    BY DEF Flag
  <1> QED BY <1>1, <1>2, <1>3, AgentsKeep

LEMMA SpawnTaskKeeps ==
  ASSUME SwarmInv, NEW a \in Agents, SpawnTask(a)
  PROVE  SwarmInv'
  <1>0. /\ Types /\ PermitInv /\ ToolInv /\ TaskInv /\ ListInv /\ HeldInv /\ WaitInv
        /\ state[a] = "New" /\ caller[a] = "idle"
    BY DEF SwarmInv, SpawnTask, StartAgent
  <1>1. Types'
    BY <1>0 DEF Types, AgentTypes, AgentTypeOK, SpawnTask, StartAgent, coordVars
  <1>2. PermitInv'
    <2>1. Inside' = Inside \cup {a} /\ a \notin Inside
      BY <1>0 DEF Inside, SpawnTask, Types
    <2>2. CASE Cap = 0
      BY <1>0, <2>2 DEF PermitInv, SpawnTask, PermitTaken
    <2>3. CASE Cap # 0
      <3>1. permits > 0 /\ permits' = permits - 1
        BY <2>3 DEF SpawnTask, PermitTaken
      <3>2. IsFiniteSet(Inside') /\ Cardinality(Inside') = Cardinality(Inside) + 1
        BY <1>0, <2>1, <2>3, FS_AddElement DEF PermitInv
      <3>3. Cardinality(Inside) \in Nat
        BY <1>0, <2>3, FS_CardinalityType DEF PermitInv
      <3> QED
        BY <1>0, <2>3, <3>1, <3>2, <3>3 DEF PermitInv
    <2> QED BY <2>2, <2>3
  <1>3. ToolInv'
    BY <1>0 DEF ToolInv, SpawnTask, StartAgent
  <1>4. TaskInv'
    BY <1>0 DEF TaskInv, SpawnTask, StartAgent, Types, AgentTypes, AgentTypeOK, Verdicts
  <1>5. ListInv'
    BY <1>0 DEF ListInv, Returned, Taken, SpawnTask, Types
  <1>6. WaitInv' /\ HeldInv'
    <2>1. \A b \in Agents : HasEnded(b) => HasEnded(b)'
      BY <1>0 DEF HasEnded, SpawnTask, StartAgent, Types, AgentTypes, AgentTypeOK
    <2>2. WaitInv'
      BY <1>0, <2>1 DEF WaitInv, SpawnTask, Types, Wait
    <2>3. HeldInv'
      BY <1>0, <2>1 DEF HeldInv, Returned, Awaited, DroppedAtDeadline, SpawnTask, Types
    <2> QED BY <2>2, <2>3
  <1> QED BY <1>1, <1>2, <1>3, <1>4, <1>5, <1>6 DEF SwarmInv

LEMMA SpawnReturnsKeeps ==
  ASSUME SwarmInv, NEW a \in Agents, SpawnReturns(a)
  PROVE  SwarmInv'
  <1>0. Types /\ PermitInv /\ ToolInv /\ TaskInv /\ ListInv /\ HeldInv /\ WaitInv
    BY DEF SwarmInv
  <1>1. Types'
    BY <1>0 DEF Types, AgentTypes, AgentTypeOK, SpawnReturns, agentVars
  <1>2. PermitInv'
    <2>1. Inside' = Inside \ {a} /\ a \in Inside
      BY <1>0 DEF Inside, SpawnReturns, Types
    <2>2. CASE Cap = 0
      BY <1>0, <2>2 DEF PermitInv, SpawnReturns, PermitBack
    <2>3. CASE Cap # 0
      <3>1. permits' = permits + 1
        BY <2>3 DEF SpawnReturns, PermitBack
      <3>2. IsFiniteSet(Inside') /\ Cardinality(Inside') = Cardinality(Inside) - 1
        BY <1>0, <2>1, <2>3, FS_RemoveElement DEF PermitInv
      <3>3. Cardinality(Inside) \in Nat
        BY <1>0, <2>3, FS_CardinalityType DEF PermitInv
      <3> QED
        BY <1>0, <2>3, <3>1, <3>2, <3>3 DEF PermitInv
    <2> QED BY <2>2, <2>3
  <1>3. ToolInv' /\ TaskInv'
    BY <1>0 DEF ToolInv, TaskInv, SpawnReturns, agentVars
  <1>4. ListInv'
    BY <1>0 DEF ListInv, Returned, Taken, SpawnReturns, Types
  <1>5. WaitInv' /\ HeldInv'
    BY <1>0 DEF WaitInv, HeldInv, HasEnded, Returned, Awaited, DroppedAtDeadline,
                SpawnReturns, agentVars, Types
  <1> QED BY <1>1, <1>2, <1>3, <1>4, <1>5 DEF SwarmInv

LEMMA TaskEndKeeps ==
  ASSUME SwarmInv, NEW a \in Agents, TaskRecords(a) \/ TaskLeavesLive(a)
  PROVE  SwarmInv'
  <1>0. Types /\ PermitInv /\ ToolInv /\ TaskInv /\ ListInv /\ HeldInv /\ WaitInv
    BY DEF SwarmInv
  <1>1. Types'
    BY <1>0 DEF Types, AgentTypes, AgentTypeOK, TaskRecords, TaskLeavesLive, WithoutEntryOf, agentVars
  <1>2. PermitInv'
    BY <1>0 DEF PermitInv, Inside, TaskRecords, TaskLeavesLive
  <1>3. ToolInv' /\ TaskInv'
    BY <1>0 DEF ToolInv, TaskInv, TaskRecords, TaskLeavesLive, agentVars, Types
  <1>4. ListInv'
    BY <1>0 DEF ListInv, Returned, Taken, TaskRecords, TaskLeavesLive, WithoutEntryOf, Types
  <1>5. WaitInv'
    <2>1. recorded \subseteq recorded' /\ UNCHANGED <<waits, state>>
      BY DEF TaskRecords, TaskLeavesLive, agentVars
    <2> QED BY <1>0, <2>1 DEF WaitInv, HasEnded
  <1>6. HeldInv'
    <2>1. \A b \in Returned' : b \in Returned /\ (b \in live /\ b \notin live' => b \in recorded)
      BY <1>0 DEF Returned, TaskRecords, TaskLeavesLive, WithoutEntryOf, TaskInv
    <2>2. recorded \subseteq recorded' /\ UNCHANGED <<waits, state>>
      BY DEF TaskRecords, TaskLeavesLive, agentVars
    <2> QED BY <1>0, <2>1, <2>2 DEF HeldInv, HasEnded, Awaited, DroppedAtDeadline
  <1> QED BY <1>1, <1>2, <1>3, <1>4, <1>5, <1>6 DEF SwarmInv
-----------------------------------------------------------------------------
(* Steps of one call of await_all.  AwaitTakes is the one that moves what   *)
(* the call owes; the others leave the live list alone.                     *)
LEMMA AwaitTakesKeeps ==
  ASSUME SwarmInv, NEW w \in Awaiters, AwaitTakes(w)
  PROVE  SwarmInv'
  <1>0. /\ Types /\ PermitInv /\ ToolInv /\ TaskInv /\ ListInv /\ HeldInv /\ WaitInv
        /\ UNCHANGED <<agentVars, permits, caller, recorded, task>>
    BY DEF SwarmInv, AwaitTakes
  <1> DEFINE owes == Returned \ Taken
             new == [NoWait EXCEPT !.pc = "taken", !.handles = live, !.owed = owes]
  <1>1. waits' = [waits EXCEPT ![w] = new] /\ live' = {} /\ waits[w].owed = {}
    BY <1>0 DEF AwaitTakes, SetWait, NoWait, WaitInv
  <1>2. /\ new \in Wait
        /\ new.pc = "taken" /\ new.handles = live /\ new.collected = {} /\ new.owed = owes
    <2>1. live \in SUBSET Agents /\ owes \in SUBSET Agents
      BY <1>0 DEF Types, Returned
    <2> HIDE DEF owes
    <2> QED BY <2>1 DEF Wait, NoWait
  <1>3. new.owed \subseteq new.handles \cup recorded
    BY <1>0, <1>2 DEF ListInv, TaskInv, Returned
  <1>4. /\ new.owed = Returned \ Taken /\ new.collected = {} /\ new.pc = "taken"
        /\ new.handles = live /\ new.dropped = {}
    BY <1>2 DEF NoWait
  <1> HIDE DEF new
  <1>5. Types'
    BY <1>0, <1>1, <1>2 DEF Types, AgentTypes, AgentTypeOK, agentVars
  <1>6. PermitInv' /\ ToolInv' /\ TaskInv'
    BY <1>0 DEF PermitInv, Inside, ToolInv, TaskInv, agentVars
  <1>7. Taken' = Taken \cup Returned
    <2>1. \A v \in Awaiters : waits'[v].owed = IF v = w THEN Returned \ Taken ELSE waits[v].owed
      BY <1>0, <1>1, <1>4 DEF Types
    <2>2. \A x : x \in Taken' <=> \E v \in Awaiters : x \in waits'[v].owed
      BY DEF Taken
    <2>3. \A x : x \in Taken <=> \E v \in Awaiters : x \in waits[v].owed
      BY DEF Taken
    <2> QED BY <1>1, <2>1, <2>2, <2>3
  <1>8. ListInv'
    BY <1>0, <1>7 DEF ListInv, Returned
  <1>9. WaitInv'
    BY <1>0, <1>1, <1>3, <1>4 DEF WaitInv, HasEnded, agentVars, Types
  <1>10. HeldInv'
    <2>1. \A v \in Awaiters : waits[v].handles \subseteq waits'[v].handles
      BY <1>0, <1>1, <1>4 DEF Types, WaitInv, AwaitTakes, NoWait
    <2>2. \A v \in Awaiters : waits[v].dropped \subseteq waits'[v].dropped
      BY <1>0, <1>1, <1>4 DEF Types, WaitInv, AwaitTakes, NoWait
    <2>3. live \subseteq waits'[w].handles
      BY <1>0, <1>1, <1>4 DEF Types
    <2>4. \A a \in Returned : Awaited(a) \/ a \in live => Awaited(a)'
      BY <2>1, <2>3 DEF Awaited
    <2>5. \A a \in Returned : DroppedAtDeadline(a) => DroppedAtDeadline(a)'
      BY <2>2 DEF DroppedAtDeadline
    <2> QED BY <1>0, <2>4, <2>5 DEF HeldInv, HasEnded, Returned, agentVars
  <1> QED BY <1>5, <1>6, <1>8, <1>9, <1>10 DEF SwarmInv

LEMMA AwaitKeeps ==
  ASSUME SwarmInv, NEW w \in Awaiters, NEW new \in Wait,
         waits[w].pc # "idle", new.owed = waits[w].owed, new.pc \notin {"idle", "taken"},
         waits' = [waits EXCEPT ![w] = new],
         UNCHANGED <<agentVars, permits, caller, live, recorded, task>>,
         \A a \in new.collected : HasEnded(a),
         new.pc = "joining" => new.owed \subseteq new.handles \cup new.collected,
         new.pc = "ok" => new.owed \subseteq new.collected,
         new.pc # "timeout" => new.dropped = {},
         \A a \in waits[w].handles : a \in new.handles \cup new.dropped \/ HasEnded(a),
         waits[w].dropped \subseteq new.dropped
  PROVE  SwarmInv'
  <1>0. Types /\ PermitInv /\ ToolInv /\ TaskInv /\ ListInv /\ HeldInv /\ WaitInv
    BY DEF SwarmInv
  <1>1. Types'
    BY <1>0 DEF Types, AgentTypes, AgentTypeOK, agentVars
  <1>2. PermitInv' /\ ToolInv' /\ TaskInv'
    BY <1>0 DEF PermitInv, Inside, ToolInv, TaskInv, agentVars
  <1>3. Taken' = Taken
    <2>1. \A v \in Awaiters : waits'[v].owed = waits[v].owed
      BY <1>0 DEF Types
    <2> QED BY <2>1 DEF Taken
  <1>4. ListInv'
    BY <1>0, <1>3 DEF ListInv, Returned
  <1>5. WaitInv'
    BY <1>0 DEF WaitInv, HasEnded, agentVars, Types
  <1>6. HeldInv'
    <2>1. waits'[w] = new /\ \A v \in Awaiters : v # w => waits'[v] = waits[v]
      BY <1>0 DEF Types
    <2>2. \A a \in Returned : Awaited(a) => Awaited(a)' \/ DroppedAtDeadline(a)' \/ HasEnded(a)
      BY <2>1 DEF Awaited, DroppedAtDeadline
    <2>3. \A a \in Returned : DroppedAtDeadline(a) => DroppedAtDeadline(a)'
      BY <2>1 DEF DroppedAtDeadline
    <2> QED BY <1>0, <2>2, <2>3 DEF HeldInv, HasEnded, Returned, agentVars
  <1> QED BY <1>1, <1>2, <1>4, <1>5, <1>6 DEF SwarmInv

LEMMA AwaitStepKeeps ==
  ASSUME SwarmInv, NEW w \in Awaiters, AwaitProgress(w) \/ AwaitTimesOut(w)
  PROVE  SwarmInv'
  <1>0. /\ waits[w] \in Wait /\ WaitInv /\ TaskInv /\ recorded \subseteq Agents
        /\ UNCHANGED <<agentVars, permits, caller, live, recorded, task>>
    BY DEF SwarmInv, Types, AwaitProgress, AwaitSeeds, AwaitReturns, AwaitJoins, AwaitTimesOut
  <1>1. CASE AwaitSeeds(w)
    <2> DEFINE new == [waits[w] EXCEPT !.pc = "joining", !.collected = recorded]
    <2>1. /\ new \in Wait /\ waits[w].pc = "taken" /\ waits' = [waits EXCEPT ![w] = new]
          /\ new.owed = waits[w].owed /\ new.pc = "joining" /\ new.collected = recorded
          /\ new.handles = waits[w].handles /\ new.dropped = waits[w].dropped
      BY <1>0, <1>1 DEF AwaitSeeds, SetWait, Seed, Wait
    <2> HIDE DEF new
    <2>2. new.owed \subseteq new.handles \cup new.collected /\ new.dropped = {}
      BY <1>0, <2>1 DEF WaitInv
    <2>3. \A a \in new.collected : HasEnded(a)
      BY <2>1 DEF HasEnded
    <2> QED BY <1>0, <2>1, <2>2, <2>3, AwaitKeeps
  <1>2. ASSUME NEW a \in Agents, AwaitJoins(w, a)
        PROVE  SwarmInv'
    <2> DEFINE new == [waits[w] EXCEPT !.handles = @ \ {a}, !.collected = @ \cup {a}]
    <2>1. /\ new \in Wait /\ waits[w].pc = "joining" /\ waits' = [waits EXCEPT ![w] = new]
          /\ new.owed = waits[w].owed /\ new.pc = "joining"
          /\ new.collected = waits[w].collected \cup {a}
          /\ new.handles = waits[w].handles \ {a} /\ new.dropped = waits[w].dropped
      BY <1>0, <1>2 DEF AwaitJoins, SetWait, Wait
    <2> HIDE DEF new
    <2>2. new.owed \subseteq new.handles \cup new.collected /\ new.dropped = {}
      BY <1>0, <2>1 DEF WaitInv
    <2>3. HasEnded(a)
      BY <1>0, <1>2 DEF AwaitJoins, TaskOver, TaskInv, HasEnded
    <2>4. \A b \in new.collected : HasEnded(b)
      BY <1>0, <2>1, <2>3 DEF WaitInv
    <2> QED BY <1>0, <2>1, <2>2, <2>3, <2>4, AwaitKeeps
  <1>3. CASE AwaitReturns(w)
    <2> DEFINE new == [waits[w] EXCEPT !.pc = "ok"]
    <2>1. /\ new \in Wait /\ waits[w].pc = "joining" /\ waits[w].handles = {}
          /\ waits' = [waits EXCEPT ![w] = new]
          /\ new.owed = waits[w].owed /\ new.pc = "ok" /\ new.collected = waits[w].collected
          /\ new.dropped = waits[w].dropped
      BY <1>0, <1>3 DEF AwaitReturns, SetWait, Wait
    <2> HIDE DEF new
    <2>2. new.owed \subseteq new.collected /\ new.dropped = {} /\ \A b \in new.collected : HasEnded(b)
      BY <1>0, <2>1 DEF WaitInv
    <2> QED BY <1>0, <2>1, <2>2, AwaitKeeps
  <1>4. CASE AwaitTimesOut(w)
    <2> DEFINE new == [waits[w] EXCEPT !.pc = "timeout", !.handles = {}, !.collected = {},
                                         !.dropped = waits[w].handles]
    <2>1. /\ new \in Wait /\ waits[w].pc = "joining" /\ waits' = [waits EXCEPT ![w] = new]
          /\ new.owed = waits[w].owed /\ new.pc = "timeout" /\ new.collected = {}
          /\ new.dropped = waits[w].handles
      BY <1>0, <1>4 DEF AwaitTimesOut, SetWait, Wait
    <2>2. waits[w].dropped = {}
      BY <1>0, <2>1 DEF WaitInv
    <2> HIDE DEF new
    <2> QED BY <1>0, <2>1, <2>2, AwaitKeeps
  <1> QED BY <1>1, <1>2, <1>3, <1>4 DEF AwaitProgress

LEMMA StepSwarmInv ==
  ASSUME SwarmInv, [Next]_vars
  PROVE  SwarmInv'
  <1>0. AgentTypes /\ AgentTypeOK /\ ToolInv
    BY DEF SwarmInv, Types, AgentTypes
  <1>1. ASSUME NEW a \in Agents, SpawnTask(a)
        PROVE  SwarmInv'
    BY <1>1, SpawnTaskKeeps
  <1>2. ASSUME NEW a \in Agents, SpawnReturns(a)
        PROVE  SwarmInv'
    BY <1>2, SpawnReturnsKeeps
  <1>3. ASSUME NEW a \in Agents, AgentRuns(a)
        PROVE  SwarmInv'
    <2>1. AgentStep(a) /\ UNCHANGED coordVars
      BY <1>3 DEF AgentRuns
    <2>2. AgentTypes' /\ ToolInv'
      BY <1>0, <2>1, AgentStepTypes, AgentStepTools
    <2>3. \A b \in Agents : state'[b] = state[b] \/ state[b] = "Running"
      BY <1>0, <2>1, AgentStepEffect
    <2> QED BY <2>1, <2>2, <2>3, AgentsKeep
  <1>4. ASSUME NEW a \in Agents, TaskRecords(a) \/ TaskLeavesLive(a)
        PROVE  SwarmInv'
    BY <1>4, TaskEndKeeps
  <1>5. ASSUME NEW a \in Agents, Cancel(a)
        PROVE  SwarmInv'
    BY <1>5, FlagKeeps DEF Cancel
  <1>6. CASE CancelAll
    BY <1>6, FlagKeeps DEF CancelAll
  <1>7. ASSUME NEW w \in Awaiters, AwaitTakes(w)
        PROVE  SwarmInv'
    BY <1>7, AwaitTakesKeeps
  <1>8. ASSUME NEW w \in Awaiters, AwaitProgress(w) \/ AwaitTimesOut(w)
        PROVE  SwarmInv'
    BY <1>8, AwaitStepKeeps
  <1>9. CASE UNCHANGED vars
    <2>1. AgentTypes' /\ ToolInv' /\ UNCHANGED state
      BY <1>0, <1>9 DEF AgentTypes, AgentTypeOK, ToolInv, vars, agentVars
    <2> QED BY <1>9, <2>1, AgentsKeep DEF vars
  <1> QED
    BY <1>1, <1>2, <1>3, <1>4, <1>5, <1>6, <1>7, <1>8, <1>9 DEF Next, TaskStep

LEMMA SwarmInvHolds == Spec => []SwarmInv
  BY InitSwarmInv, StepSwarmInv, PTL DEF Spec
-----------------------------------------------------------------------------
(* Every variable of the coordinator and of the agents' loops keeps its     *)
(* type; permits are never negative nor more than the cap.                  *)
THEOREM TypeCorrect == Spec => []TypeOK
  <1>1. SwarmInv => TypeOK
    <2> SUFFICES ASSUME SwarmInv PROVE TypeOK
      OBVIOUS
    <2>1. permits \in 0 .. Cap
      BY FS_CardinalityType, CoordinatorAssumption DEF SwarmInv, PermitInv
    <2> QED BY <2>1 DEF SwarmInv, Types, AgentTypes, TypeOK
  <1> QED BY <1>1, SwarmInvHolds, PTL

(* await_all returns a status of every agent registered before it, except   *)
(* those that an earlier call took, although a task is recorded, taken off  *)
(* the live list and entered into it in any order.                          *)
THEOREM AwaitCompleteHolds == Spec => []AwaitComplete
  <1>1. SwarmInv => AwaitComplete
    BY DEF SwarmInv, WaitInv, AwaitComplete
  <1> QED BY <1>1, SwarmInvHolds, PTL

(* await_all never reports an agent that still runs.                        *)
THEOREM CollectedHaveEndedHolds == Spec => []CollectedHaveEnded
  <1>1. SwarmInv => CollectedHaveEnded
    BY DEF SwarmInv, Types, Wait, WaitInv, TaskInv, HasEnded, CollectedHaveEnded
  <1> QED BY <1>1, SwarmInvHolds, PTL

(* At most one tool begins after the cancel flag of its agent was set.      *)
THEOREM OneToolAfterCancelHolds == Spec => []OneToolAfterCancel
  <1>1. SwarmInv => OneToolAfterCancel
    BY DEF SwarmInv, ToolInv, OneToolAfterCancel
  <1> QED BY <1>1, SwarmInvHolds, PTL

(* Only a deadline of await_all lets go of an agent that runs on: any other *)
(* running agent can be cancelled through the live list, or is awaited.     *)
THEOREM RunningIsHeldHolds == Spec => []RunningIsHeld
  <1>1. SwarmInv => RunningIsHeld
    BY DEF SwarmInv, HeldInv, HasEnded, TaskInv, Returned, Verdicts, RunningIsHeld
  <1> QED BY <1>1, SwarmInvHolds, PTL
=============================================================================
