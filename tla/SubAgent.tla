------------------------------ MODULE SubAgent ------------------------------
(* The tool loop of a sub-agent, SubAgent::run of hydragent-swarm.           *)
(*                                                                           *)
(* A sub-agent asks its model for a tool call or an answer, at most MaxSteps *)
(* times.  The cancel flag, the wall clock and the token budget are looked   *)
(* at only at the top of a step; the model and the tool are awaited between. *)
EXTENDS Naturals

CONSTANTS
  Agents,       \* the sub-agents
  Tools,        \* the tools a model may name
  Allowed,      \* Allowed[a]: the tools agent a may call (allowlist and tier)
  MaxSteps      \* MAX_LOOP_STEPS, 5 in the code

ASSUME SubAgentAssumption ==
  /\ Allowed \in [Agents -> SUBSET Tools]
  /\ MaxSteps \in Nat \ {0}

VARIABLES
  state,        \* "New" before run, "Panicked" if run unwound, else as SubAgentStatus
  at,           \* where run is: "top" of the loop, awaiting "model" or "tool"
  step,         \* the loop counter
  cancelled,    \* the shared cancel flag
  toolsAfter    \* history: tools begun since the flag was set

agentVars == <<state, at, step, cancelled, toolsAfter>>

(* Failed and Cancelled are both "Stopped": nothing here tells them apart. *)
Verdicts == {"Completed", "Stopped"}

AgentTypeOK ==
  /\ state \in [Agents -> {"New", "Running", "Panicked"} \cup Verdicts]
  /\ at \in [Agents -> {"top", "model", "tool"}]
  /\ step \in [Agents -> 0 .. MaxSteps]
  /\ cancelled \in [Agents -> BOOLEAN]
  /\ toolsAfter \in [Agents -> Nat]

AgentInit ==
  /\ state = [a \in Agents |-> "New"]
  /\ at = [a \in Agents |-> "top"]
  /\ step = [a \in Agents |-> 0]
  /\ cancelled = [a \in Agents |-> FALSE]
  /\ toolsAfter = [a \in Agents |-> 0]

Running(a, place) == state[a] = "Running" /\ at[a] = place

(* run returns, or unwinds, and its locals go. *)
End(a, verdict) ==
  /\ state' = [state EXCEPT ![a] = verdict]
  /\ at' = [at EXCEPT ![a] = "top"]
  /\ step' = [step EXCEPT ![a] = 0]
  /\ UNCHANGED <<cancelled, toolsAfter>>

Goto(a, place) ==
  /\ at' = [at EXCEPT ![a] = place]
  /\ UNCHANGED <<state, cancelled>>

(* Mistake, for the mutation runs: the flag is only looked at before the first step. *)
FlagSeenAtFirst(a) == cancelled[a] /\ step[a] = 0

FlagSeen(a) == cancelled[a]

(* The flag is seen at the top of a step. *)
SeeCancel(a) ==
  /\ Running(a, "top") /\ step[a] < MaxSteps
  /\ FlagSeen(a)
  /\ End(a, "Stopped")

(* Wall clock or token budget used up, whatever the model did so far. *)
LimitReached(a) ==
  /\ Running(a, "top") /\ step[a] < MaxSteps
  /\ ~FlagSeen(a)
  /\ End(a, "Stopped")

AskModel(a) ==
  /\ Running(a, "top") /\ step[a] < MaxSteps
  /\ ~FlagSeen(a)
  /\ Goto(a, "model")
  /\ UNCHANGED <<step, toolsAfter>>

(* The loop is over without an answer; the flag is not looked at again. *)
StepsExhausted(a) ==
  /\ Running(a, "top") /\ step[a] = MaxSteps
  /\ End(a, "Stopped")

(* An error, or an answer: JSON with an answer, JSON without, or prose. *)
ModelEnds(a) ==
  /\ Running(a, "model")
  /\ \E verdict \in Verdicts : End(a, verdict)

(* A tool call outside the allowlist, or of a denied tier, is only noted. *)
DenyTool(a) ==
  /\ Running(a, "model")
  /\ Tools \ Allowed[a] # {}
  /\ Goto(a, "top")
  /\ step' = [step EXCEPT ![a] = @ + 1]
  /\ UNCHANGED toolsAfter

InvokeTool(a) ==
  /\ Running(a, "model")
  /\ Allowed[a] # {}
  /\ Goto(a, "tool")
  /\ toolsAfter' = [toolsAfter EXCEPT ![a] = IF cancelled[a] THEN @ + 1 ELSE @]
  /\ UNCHANGED step

ToolReturns(a) ==
  /\ Running(a, "tool")
  /\ Goto(a, "top")
  /\ step' = [step EXCEPT ![a] = @ + 1]
  /\ UNCHANGED toolsAfter

(* truncate cuts the output at byte 500; inside a character it panics. *)
SummaryPanics(a) ==
  /\ Running(a, "tool")
  /\ End(a, "Panicked")

AgentStep(a) ==
  \/ SeeCancel(a) \/ LimitReached(a) \/ AskModel(a) \/ StepsExhausted(a)
  \/ ModelEnds(a) \/ DenyTool(a) \/ InvokeTool(a)
  \/ ToolReturns(a) \/ SummaryPanics(a)

(* A task is made that runs the agent. *)
StartAgent(a) ==
  /\ state[a] = "New"
  /\ state' = [state EXCEPT ![a] = "Running"]
  /\ UNCHANGED <<at, step, cancelled, toolsAfter>>

Flag(S) ==
  /\ cancelled' = [a \in Agents |-> cancelled[a] \/ a \in S]
  /\ UNCHANGED <<state, at, step, toolsAfter>>
=============================================================================
