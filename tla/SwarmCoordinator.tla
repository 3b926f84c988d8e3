-------------------------- MODULE SwarmCoordinator --------------------------
(* SwarmCoordinator of hydragent-swarm: agents are spawned through a         *)
(* semaphore, each runs in a task that records its status and takes itself   *)
(* off the live list, while callers cancel and await.                        *)
(*                                                                           *)
(* An action ends where the code awaits a permit, a lock or a handle, so the *)
(* callers of spawn, the tasks and the callers of await_all interleave at    *)
(* exactly those points.  Lists whose order no operation observes are sets.  *)
EXTENDS SubAgent, FiniteSets

CONSTANTS
  Cap,          \* max_concurrency; 0 means no bound
  Awaiters      \* callers of await_all, at any time, one call each

ASSUME CoordinatorAssumption == Cap \in Nat

VARIABLES
  permits,      \* free permits of the semaphore (unused when Cap = 0)
  caller,       \* where the call spawn(a) is: "idle", "inside", "returned"
  live,         \* agents with an entry in the live list
  recorded,     \* agents with a status in the completed list
  task,         \* the task of agent a: "none", "running", "recorded", "ended"
  waits         \* waits[w]: the call of await_all by w

coordVars == <<permits, caller, live, recorded, task, waits>>
vars == <<agentVars, coordVars>>

(* handles: the join handles the call took with the live list, as long as    *)
(* they are not joined.  owed and dropped are history: the agents whose      *)
(* spawn had returned when the list was taken, but for those an earlier call *)
(* took; and those whose handles the call still had at its deadline.         *)
Wait == [pc : {"idle", "taken", "joining", "ok", "timeout"},
         handles : SUBSET Agents, collected : SUBSET Agents,
         owed : SUBSET Agents, dropped : SUBSET Agents]

NoWait == [pc |-> "idle", handles |-> {}, collected |-> {}, owed |-> {}, dropped |-> {}]

TypeOK ==
  /\ AgentTypeOK
  /\ permits \in 0 .. Cap
  /\ caller \in [Agents -> {"idle", "inside", "returned"}]
  /\ live \subseteq Agents
  /\ recorded \subseteq Agents
  /\ task \in [Agents -> {"none", "running", "recorded", "ended"}]
  /\ waits \in [Awaiters -> Wait]

Init ==
  /\ AgentInit
  /\ permits = Cap
  /\ caller = [a \in Agents |-> "idle"]
  /\ live = {}
  /\ recorded = {}
  /\ task = [a \in Agents |-> "none"]
  /\ waits = [w \in Awaiters |-> NoWait]

Returned == {a \in Agents : caller[a] = "returned"}

(* Mistakes, for the mutation runs: a handle is always ready, or a panic     *)
(* does not resolve it; await_all starts from nothing; retain keeps the      *)
(* wrong entries.                                                            *)
TaskOverAlways(a) == TRUE
TaskOverByReturn(a) == task[a] = "ended"
SeedNothing == {}
OnlyEntryOf(a) == live \cap {a}

(* A handle resolves when its task is over, by a return or by a panic. *)
TaskOver(a) == task[a] = "ended" \/ state[a] = "Panicked"

PermitTaken == IF Cap = 0 THEN permits ELSE permits - 1
PermitBack == IF Cap = 0 THEN permits ELSE permits + 1
Seed == recorded
WithoutEntryOf(a) == live \ {a}
-----------------------------------------------------------------------------
(* spawn waits for a permit and starts the task; nothing is awaited between. *)
SpawnTask(a) ==
  /\ caller[a] = "idle"
  /\ Cap # 0 => permits > 0
  /\ permits' = PermitTaken
  /\ caller' = [caller EXCEPT ![a] = "inside"]
  /\ task' = [task EXCEPT ![a] = "running"]
  /\ StartAgent(a)
  /\ UNCHANGED <<live, recorded, waits>>

(* spawn stores the entry and returns, which drops its permit. *)
SpawnReturns(a) ==
  /\ caller[a] = "inside"
  /\ live' = live \cup {a}
  /\ permits' = PermitBack
  /\ caller' = [caller EXCEPT ![a] = "returned"]
  /\ UNCHANGED <<agentVars, recorded, task, waits>>

AgentRuns(a) ==
  /\ AgentStep(a)
  /\ UNCHANGED coordVars

(* The task records the status under one lock ... *)
TaskRecords(a) ==
  /\ task[a] = "running"
  /\ state[a] \in Verdicts
  /\ recorded' = recorded \cup {a}
  /\ task' = [task EXCEPT ![a] = "recorded"]
  /\ UNCHANGED <<agentVars, permits, caller, live, waits>>

(* ... and removes its live entry, if there is one yet, under another. *)
TaskLeavesLive(a) ==
  /\ task[a] = "recorded"
  /\ live' = WithoutEntryOf(a)
  /\ task' = [task EXCEPT ![a] = "ended"]
  /\ UNCHANGED <<agentVars, permits, caller, recorded, waits>>

Cancel(a) ==
  /\ a \in live
  /\ Flag({a})
  /\ UNCHANGED coordVars

CancelAll ==
  /\ live # {}
  /\ Flag(live)
  /\ UNCHANGED coordVars
-----------------------------------------------------------------------------
SetWait(w, value) == waits' = [waits EXCEPT ![w] = value]

Taken == UNION {waits[w].owed : w \in Awaiters}

(* await_all takes the live list, *)
AwaitTakes(w) ==
  /\ waits[w].pc = "idle"
  /\ SetWait(w, [NoWait EXCEPT !.pc = "taken", !.handles = live,
                               !.owed = Returned \ Taken])
  /\ live' = {}
  /\ UNCHANGED <<agentVars, permits, caller, recorded, task>>

(* copies the completed list, *)
AwaitSeeds(w) ==
  /\ waits[w].pc = "taken"
  /\ SetWait(w, [waits[w] EXCEPT !.pc = "joining", !.collected = Seed])
  /\ UNCHANGED <<agentVars, permits, caller, live, recorded, task>>

(* adds the status behind each handle unless it has it already, where a      *)
(* panic counts as a Failed status,                                          *)
AwaitJoins(w, a) ==
  /\ waits[w].pc = "joining"
  /\ a \in waits[w].handles /\ TaskOver(a)
  /\ SetWait(w, [waits[w] EXCEPT !.handles = @ \ {a}, !.collected = @ \cup {a}])
  /\ UNCHANGED <<agentVars, permits, caller, live, recorded, task>>

AwaitReturns(w) ==
  /\ waits[w].pc = "joining" /\ waits[w].handles = {}
  /\ SetWait(w, [waits[w] EXCEPT !.pc = "ok"])
  /\ UNCHANGED <<agentVars, permits, caller, live, recorded, task>>

(* or gives up at its deadline, dropping the handles it still holds.  A call *)
(* without a deadline is one that never takes this step.                     *)
AwaitTimesOut(w) ==
  /\ waits[w].pc = "joining" /\ waits[w].handles # {}
  /\ SetWait(w, [waits[w] EXCEPT !.pc = "timeout", !.handles = {}, !.collected = {},
                                   !.dropped = waits[w].handles])
  /\ UNCHANGED <<agentVars, permits, caller, live, recorded, task>>
-----------------------------------------------------------------------------
TaskStep(a) == AgentRuns(a) \/ TaskRecords(a) \/ TaskLeavesLive(a)

AwaitProgress(w) ==
  \/ AwaitSeeds(w) \/ AwaitReturns(w) \/ \E a \in Agents : AwaitJoins(w, a)

Next ==
  \/ \E a \in Agents : SpawnTask(a) \/ SpawnReturns(a) \/ TaskStep(a) \/ Cancel(a)
  \/ CancelAll
  \/ \E w \in Awaiters : AwaitTakes(w) \/ AwaitProgress(w) \/ AwaitTimesOut(w)

(* Every task that can run is polled: the agents' and the callers'.  A model *)
(* and a tool answer sooner or later.  Nothing makes a caller spawn, cancel, *)
(* await or give up.                                                         *)
Spec ==
  /\ Init /\ [][Next]_vars
  /\ \A a \in Agents : WF_vars(TaskStep(a)) /\ WF_vars(SpawnReturns(a))
  /\ \A w \in Awaiters : WF_vars(AwaitProgress(w))
-----------------------------------------------------------------------------
(* A call of await_all that succeeds returns a status of every agent that    *)
(* had been registered before it, except those an earlier call took: an      *)
(* agent is on the live list until its status is on the other list.          *)
AwaitComplete ==
  \A w \in Awaiters : waits[w].pc = "ok" => waits[w].owed \subseteq waits[w].collected

(* What is collected has really ended: no status is made up for an agent     *)
(* that runs, and only an agent whose task is over was joined.               *)
CollectedHaveEnded ==
  \A w \in Awaiters : \A a \in waits[w].collected : state[a] \in Verdicts \cup {"Panicked"}

(* The work of a cancelled agent: its flag is looked at before each request  *)
(* to the model but not between the answer and the tool, so at most one tool *)
(* still begins.                                                             *)
OneToolAfterCancel == \A a \in Agents : toolsAfter[a] <= 1

Awaited(a) == \E w \in Awaiters : a \in waits[w].handles
DroppedAtDeadline(a) == \E w \in Awaiters : a \in waits[w].dropped

(* Somebody holds a running agent from the moment spawn returned: it is on   *)
(* the live list, where it can be cancelled, or in the hands of a call of    *)
(* await_all that waits for it.  Only the deadline of such a call lets go of *)
(* agents that run on.                                                       *)
RunningIsHeld ==
  \A a \in Returned :
    state[a] = "Running" => a \in live \/ Awaited(a) \/ DroppedAtDeadline(a)

(* "`cancel` (signal one or every running agent to stop)" (coordinator.rs:38)*)
(* Not so: cancel and cancel_all only know the live list, which await_all    *)
(* takes and does not give back at its deadline.                             *)
CancelReaches == \A a \in Returned : state[a] = "Running" => a \in live

(* A caller of await_all gets its answer if the agents end. *)
AwaitEnds ==
  \A w \in Awaiters : waits[w].pc = "taken" ~> waits[w].pc \in {"ok", "timeout"}

(* The semaphore "caps how many run at once" (coordinator.rs:34), "the       *)
(* permit is held for the lifetime of this task" (coordinator.rs:125).       *)
CapHolds == Cap # 0 => Cardinality({a \in Agents : state[a] = "Running"}) <= Cap
=============================================================================
