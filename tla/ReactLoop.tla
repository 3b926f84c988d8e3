----------------------------- MODULE ReactLoop -----------------------------
(***************************************************************************)
(* run_react_loop (hydragent-core, react_loop.rs) and the permission gate   *)
(* it shares with PermissionRespondHandler (orchestrator.rs).               *)
(*                                                                         *)
(* The event bus runs every request in a task of its own, so several turns  *)
(* (intent.submit requests) and any number of permission.respond requests   *)
(* are in progress at once.  They meet in ActivePermissions.pending, the    *)
(* map from a request id to the sending half of a oneshot channel.  A turn  *)
(* asks for a permission in two steps: it first sends the request to the    *)
(* client and only then enters it in the map.                               *)
(*                                                                         *)
(* What a turn tells its client goes through the bounded channel of the     *)
(* connection, on which a send waits for room.  The language model, the     *)
(* tools and the client are the environment.                                *)
(***************************************************************************)
EXTENDS Integers, Sequences

CONSTANTS Turns,      \* the turns that may be in progress at once
          Calls,      \* the (tool, params) pairs the model may ask for
          TierOf,     \* the PermissionTier of the tool of each call
          MaxSteps,   \* max_steps
          Conns,      \* the connections of the clients ...
          ConnOf      \* ... and the one each turn came over

Tier == {"AutoApprove", "Prompt", "Deny"}

ASSUME TierAssumption == TierOf \in [Calls -> Tier]
ASSUME MaxStepsAssumption == MaxSteps \in Nat
ASSUME ConnAssumption == ConnOf \in [Turns -> Conns]

\* A permission request of a turn: its uuid is fresh, and a step asks at
\* most once.
Requests == Turns \X (1..MaxSteps)

VARIABLES
    pc,       \* where each turn is (see TypeOK)
    step,     \* its step counter
    seen,     \* seen_calls
    call,     \* the tool call it is handling: a singleton, or empty
    log,      \* executed_tools: step, call and fate of each call in order
    pending,  \* the requests whose sender is in ActivePermissions.pending
    slot,     \* the oneshot channel of a request: "empty", "yes" or "no"
    asked,    \* the requests that were sent to the client
    said,     \* the answers the client has given to each of them
    full      \* the connections whose outbound channel is full

loopVars == <<pc, step, seen, call, log>>
gateVars == <<pending, slot>>
clientVars == <<asked, said, full>>
vars == <<pc, step, seen, call, log, pending, slot, asked, said, full>>

Request(t) == <<t, step[t]>>

\* What becomes of a tool call; the first two only if the tool ran.
Fate == {"Succeeded", "Failed", "Denied"}

Init ==
    /\ pc = [t \in Turns |-> "Loop"]
    /\ step = [t \in Turns |-> 0]
    /\ seen = [t \in Turns |-> {}]
    /\ call = [t \in Turns |-> {}]
    /\ log = [t \in Turns |-> <<>>]
    /\ pending = {}
    /\ slot = [r \in Requests |-> "empty"]
    /\ asked = {}
    /\ said = [r \in Requests |-> {}]
    /\ full = {}

Goto(t, place) == pc' = [pc EXCEPT ![t] = place]

\* response_tx.send(..).await of a turn can go on.
Sends(t) == ConnOf[t] \notin full
-----------------------------------------------------------------------------
(* One turn.                                                                *)

\* A mistake, for the mutation runs: a step that called no tool is not counted.
NextStepUncounted(t) == IF call[t] = {} THEN 1 ELSE step[t] + 1

\* The loop's condition and its counter.
StepsLeft(t) == step[t] < MaxSteps
NextStep(t) == step[t] + 1

\* The next step asks the model.
BeginStep(t) ==
    /\ pc[t] = "Loop"
    /\ StepsLeft(t)
    /\ Sends(t)
    /\ step' = [step EXCEPT ![t] = NextStep(t)]
    /\ call' = [call EXCEPT ![t] = {}]
    /\ Goto(t, "Model")
    /\ UNCHANGED <<seen, log, gateVars, clientVars>>

\* The step limit is reached: one last model call has to answer.
BeginSynthesis(t) ==
    /\ pc[t] = "Loop"
    /\ ~StepsLeft(t)
    /\ Sends(t)
    /\ Goto(t, "Synthesis")
    /\ UNCHANGED <<step, seen, call, log, gateVars, clientVars>>

\* The model gives its answer, or text without a brace, which counts as one.
Answer(t) ==
    /\ pc[t] = "Model"
    /\ Sends(t)
    /\ Goto(t, "Done")
    /\ UNCHANGED <<step, seen, call, log, gateVars, clientVars>>

\* The model call fails, its task panics, or its reply is empty.
ModelFails(t) ==
    /\ pc[t] = "Model"
    /\ Goto(t, "Failed")
    /\ UNCHANGED <<step, seen, call, log, gateVars, clientVars>>

\* The reply is malformed, or has neither a tool nor an answer: ask again.
AskAgain(t) ==
    /\ pc[t] = "Model"
    /\ Goto(t, "Loop")
    /\ UNCHANGED <<step, seen, call, log, gateVars, clientVars>>

\* Mistake: only a call that succeeded counts as executed.
RepeatedIfSucceeded(t, c) ==
    \E i \in 1..Len(log[t]) : log[t][i].call = c /\ log[t][i].fate = "Succeeded"

\* seen_calls.insert finds the call there already.
Repeated(t, c) == c \in seen[t]

\* The model repeats a call of this turn: it is told so and nothing runs.
SkipRepeated(t, c) ==
    /\ pc[t] = "Model"
    /\ Repeated(t, c)
    /\ Sends(t)
    /\ Goto(t, "Loop")
    /\ UNCHANGED <<step, seen, call, log, gateVars, clientVars>>

\* What the tier of a call's tool leads to.
Route(tier) ==
    CASE tier = "AutoApprove" -> "Invoke"
      [] tier = "Prompt" -> "Ask"
      [] OTHER -> "Refuse"

\* The model makes a new call: it is remembered and goes the way of its tier.
TakeCall(t, c) ==
    /\ pc[t] = "Model"
    /\ ~Repeated(t, c)
    /\ Sends(t)
    /\ seen' = [seen EXCEPT ![t] = @ \cup {c}]
    /\ call' = [call EXCEPT ![t] = {c}]
    /\ Goto(t, Route(TierOf[c]))
    /\ UNCHANGED <<step, log, gateVars, clientVars>>

\* The result joins executed_tools and the conversation with the model.
Record(t, fate) ==
    \E c \in call[t] :
        log' = [log EXCEPT ![t] =
                    Append(@, [step |-> step[t], call |-> c, fate |-> fate])]

\* The call is denied: by policy, by the client or by the time limit.  The
\* client is told of a result before it is recorded.
Refuse(t) ==
    /\ pc[t] = "Refuse"
    /\ Sends(t)
    /\ Record(t, "Denied")
    /\ Goto(t, "Loop")
    /\ UNCHANGED <<step, seen, call, gateVars, clientVars>>

\* registry.invoke: the tool runs and reports.
Invoke(t, fate) ==
    /\ pc[t] = "Invoke"
    /\ Sends(t)
    /\ Record(t, fate)
    /\ Goto(t, "Loop")
    /\ UNCHANGED <<step, seen, call, gateVars, clientVars>>

\* The tool panics, and the turn's task with it.
ToolPanics(t) ==
    /\ pc[t] = "Invoke"
    /\ Record(t, "Failed")
    /\ Goto(t, "Failed")
    /\ UNCHANGED <<step, seen, call, gateVars, clientVars>>

\* The last model call answers, in whatever form, or fails.
Synthesize(t) ==
    /\ pc[t] = "Synthesis"
    /\ \/ Sends(t) /\ Goto(t, "Done")
       \/ Goto(t, "Failed")
    /\ UNCHANGED <<step, seen, call, log, gateVars, clientVars>>
-----------------------------------------------------------------------------
(* The permission gate.                                                     *)

\* The request goes out to the client (a client that is gone gets nothing,
\* and the loop does not notice) ...
SendRequest(t) ==
    /\ pc[t] = "Ask"
    /\ Sends(t)
    /\ asked' = asked \cup {Request(t)}
    /\ Goto(t, "Register")
    /\ UNCHANGED <<step, seen, call, log, gateVars, said, full>>

\* ... and is then entered in the map.
Register(t) ==
    /\ pc[t] = "Register"
    /\ pending' = pending \cup {Request(t)}
    /\ Goto(t, "Await")
    /\ UNCHANGED <<step, seen, call, log, slot, clientVars>>

\* Mistake: any answer lets the call through.
GrantedByAnyAnswer(t) == slot[Request(t)] # "empty"

\* The value the oneshot delivers.
Granted(t) == slot[Request(t)] = "yes"

\* The client's decision arrives.
Decide(t) ==
    /\ pc[t] = "Await"
    /\ slot[Request(t)] # "empty"
    /\ Goto(t, IF Granted(t) THEN "Invoke" ELSE "Refuse")
    /\ UNCHANGED <<step, seen, call, log, gateVars, clientVars>>

\* Thirty seconds pass without one ...
TimeOut(t) ==
    /\ pc[t] = "Await"
    /\ slot[Request(t)] = "empty"
    /\ Goto(t, "Expired")
    /\ UNCHANGED <<step, seen, call, log, gateVars, clientVars>>

\* Mistake: the entry stays in the map.
WithdrawnNever(t) == {}

\* The entry the turn removes when its time is up.
Withdrawn(t) == {Request(t)}

\* ... then the entry goes, and the call is denied.  An answer that takes
\* the entry in between is sent to a receiver that is gone.
Withdraw(t) ==
    /\ pc[t] = "Expired"
    /\ pending' = pending \ Withdrawn(t)
    /\ Goto(t, "Refuse")
    /\ UNCHANGED <<step, seen, call, log, slot, clientVars>>

\* permission.respond: the client answers a request it was shown, perhaps
\* late, perhaps twice.  The handler removes the entry and sends the answer
\* under the map's lock; it reports "ok" whether or not it found an entry.
Respond(r, approved) ==
    /\ r \in asked
    /\ said' = [said EXCEPT ![r] = @ \cup {approved}]
    /\ pending' = pending \ {r}
    /\ slot' = IF r \in pending
               THEN [slot EXCEPT ![r] = IF approved THEN "yes" ELSE "no"]
               ELSE slot
    /\ UNCHANGED <<loopVars, asked, full>>

\* Messages of the connection's handlers pile up until nothing more fits ...
FillUp(k) ==
    /\ full' = full \cup {k}
    /\ UNCHANGED <<loopVars, gateVars, asked, said>>

\* ... and the client reads, so that the writer thread takes one off, or it
\* leaves, and sends fail without waiting.
ClientReads(k) ==
    /\ full' = full \ {k}
    /\ UNCHANGED <<loopVars, gateVars, asked, said>>
-----------------------------------------------------------------------------
TurnStep(t) ==
    \/ BeginStep(t) \/ BeginSynthesis(t) \/ Answer(t) \/ ModelFails(t) \/ AskAgain(t)
    \/ \E c \in Calls : SkipRepeated(t, c) \/ TakeCall(t, c)
    \/ Refuse(t) \/ ToolPanics(t) \/ Synthesize(t)
    \/ \E fate \in {"Succeeded", "Failed"} : Invoke(t, fate)
    \/ SendRequest(t) \/ Register(t) \/ Decide(t) \/ TimeOut(t) \/ Withdraw(t)

Next ==
    \/ \E t \in Turns : TurnStep(t)
    \/ \E k \in Conns : FillUp(k) \/ ClientReads(k)
    \/ \E r \in Requests, approved \in BOOLEAN : Respond(r, approved)

Spec == Init /\ [][Next]_vars

\* The runtime polls every turn's task, model and tool calls return, the timer
\* fires, and a channel serves the senders that wait for it in their order
\* (hence SF: it may fill up again and again).  The client need not answer, but
\* it reads what it is sent, or leaves: one that stays and does not read holds
\* up its turns without limit.
FairSpec ==
    /\ Spec
    /\ \A t \in Turns : SF_vars(TurnStep(t))
    /\ \A k \in Conns : WF_vars(ClientReads(k))
-----------------------------------------------------------------------------
(* Properties.                                                              *)

Entry == [step : 1..MaxSteps, call : Calls, fate : Fate]

\* Every variable keeps its type; the step counter never passes its limit.
TypeOK ==
    /\ pc \in [Turns -> {"Loop", "Model", "Ask", "Register", "Await", "Expired",
                         "Refuse", "Invoke", "Synthesis", "Done", "Failed"}]
    /\ step \in [Turns -> 0..MaxSteps]
    /\ seen \in [Turns -> SUBSET Calls]
    /\ call \in [Turns -> SUBSET Calls]
    /\ log \in [Turns -> Seq(Entry)]
    /\ pending \in SUBSET Requests
    /\ slot \in [Requests -> {"empty", "yes", "no"}]
    /\ asked \in SUBSET Requests
    /\ said \in [Requests -> SUBSET BOOLEAN]
    /\ full \in SUBSET Conns

\* A tool runs only if its tier approves it by itself, or if the client
\* approved this very request: not another turn's, not an earlier one of the
\* same turn, and never by a refusal or by the passing of time.
OnlyPermittedCallsRun ==
    \A t \in Turns : \A i \in 1..Len(log[t]) :
        log[t][i].fate # "Denied" =>
            \/ TierOf[log[t][i].call] = "AutoApprove"
            \/ /\ TierOf[log[t][i].call] = "Prompt"
               /\ TRUE \in said[<<t, log[t][i].step>>]

\* "Skip identical calls already executed in this turn": a turn puts a call
\* to its tier's gate at most once, whatever became of it.
NoCallTwice ==
    \A t \in Turns : \A i, j \in 1..Len(log[t]) :
        log[t][i].call = log[t][j].call => i = j

\* The map holds an entry only for a turn that is waiting at the gate for
\* this very request, and no decision is in an entry's channel yet: nothing
\* is left behind when turns end, time out or are answered.
EntriesHaveWaiters ==
    \A r \in pending :
        /\ pc[r[1]] \in {"Await", "Expired"}
        /\ r = Request(r[1])
        /\ slot[r] = "empty"

\* Every turn ends, even if the client never answers and reads slowly.
EveryTurnEnds == \A t \in Turns : <>(pc[t] \in {"Done", "Failed"})

\* "Permission approve -> tool runs": the gate times out only on a request
\* that nobody has answered.
AnswersCount ==
    [][\A t \in Turns : pc[t] = "Await" /\ pc'[t] = "Expired" => said[Request(t)] = {}]_vars
=============================================================================
