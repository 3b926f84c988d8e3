-------------------------- MODULE ReactLoopProofs --------------------------
(***************************************************************************)
(* Theorems about ReactLoop, for every set of turns and of calls, every     *)
(* assignment of tiers and every step limit.                                *)
(***************************************************************************)
EXTENDS ReactLoop, SequenceTheorems, TLAPS

USE TierAssumption, MaxStepsAssumption

\* The places of a turn that is at the permission gate, that handles a call,
\* and that has begun a step.
Gate == {"Ask", "Register", "Await", "Expired"}
Handling == Gate \cup {"Refuse", "Invoke"}
InStep == Handling \cup {"Model"}

(***************************************************************************)
(* Types.  A turn that has begun a step has a positive step number, so that *)
(* its permission request is one of Requests.                               *)
(***************************************************************************)

StepsBegun == \A t \in Turns : pc[t] \in InStep => step[t] >= 1

\* A turn that handles a call handles exactly one.
OneCall == \A t \in Turns : pc[t] \in Handling => \E c \in Calls : call[t] = {c}

TypeInv == TypeOK /\ StepsBegun /\ OneCall

LEMMA RequestType ==
    ASSUME TypeInv, NEW t \in Turns, pc[t] \in InStep
    PROVE  Request(t) \in Requests /\ step[t] \in 1..MaxSteps
BY DEF TypeInv, TypeOK, StepsBegun, Request, Requests

\* What Record does to the log: one entry more for its turn, nothing else.
LEMMA Recorded ==
    ASSUME TypeInv, NEW t \in Turns, pc[t] \in Handling, NEW fate \in Fate,
           Record(t, fate)
    PROVE  \E c \in Calls :
             /\ call[t] = {c}
             /\ log' \in [Turns -> Seq(Entry)]
             /\ \A u \in Turns \ {t} : log'[u] = log[u]
             /\ Len(log'[t]) = Len(log[t]) + 1
             /\ \A i \in 1..Len(log[t]) : log'[t][i] = log[t][i]
             /\ log'[t][Len(log[t]) + 1] = [step |-> step[t], call |-> c, fate |-> fate]
<1>1. PICK c \in Calls : call[t] = {c}
  BY DEF TypeInv, OneCall
<1> DEFINE e == [step |-> step[t], call |-> c, fate |-> fate]
<1>2. e \in Entry
  BY RequestType DEF Entry, InStep
<1>3. log' = [log EXCEPT ![t] = Append(@, e)]
  BY <1>1 DEF Record
<1>4. log \in [Turns -> Seq(Entry)]
  BY DEF TypeInv, TypeOK
<1>5. log[t] \in Seq(Entry)
  BY <1>4
<1> HIDE DEF e
<1>6. /\ Append(log[t], e) \in Seq(Entry)
      /\ Len(Append(log[t], e)) = Len(log[t]) + 1
      /\ \A i \in 1..Len(log[t]) : Append(log[t], e)[i] = log[t][i]
      /\ Append(log[t], e)[Len(log[t]) + 1] = e
  BY <1>2, <1>5, AppendProperties
<1>7. log'[t] = Append(log[t], e) /\ \A u \in Turns \ {t} : log'[u] = log[u]
  BY <1>3, <1>4
<1>8. log' \in [Turns -> Seq(Entry)]
  BY <1>3, <1>4, <1>6
<1>9. QED
  BY <1>1, <1>6, <1>7, <1>8 DEF e

LEMMA InitType == Init => TypeInv
BY DEF Init, TypeInv, TypeOK, StepsBegun, OneCall, InStep, Handling, Gate

LEMMA NextType == TypeInv /\ [Next]_vars => TypeInv'
<1> SUFFICES ASSUME TypeInv, [Next]_vars PROVE TypeInv'
  OBVIOUS
<1> USE DEF TypeInv, TypeOK, StepsBegun, OneCall, Goto, gateVars, clientVars, loopVars,
            InStep, Handling, Gate
<1>1. ASSUME NEW t \in Turns, BeginStep(t) PROVE TypeInv'
  BY <1>1 DEF BeginStep, StepsLeft, NextStep
<1>2. ASSUME NEW t \in Turns, BeginSynthesis(t) PROVE TypeInv'
  BY <1>2 DEF BeginSynthesis
<1>3. ASSUME NEW t \in Turns, Answer(t) PROVE TypeInv'
  BY <1>3 DEF Answer
<1>4. ASSUME NEW t \in Turns, ModelFails(t) PROVE TypeInv'
  BY <1>4 DEF ModelFails
<1>5. ASSUME NEW t \in Turns, AskAgain(t) PROVE TypeInv'
  BY <1>5 DEF AskAgain
<1>6. ASSUME NEW t \in Turns, NEW c \in Calls, SkipRepeated(t, c) PROVE TypeInv'
  BY <1>6 DEF SkipRepeated
<1>7. ASSUME NEW t \in Turns, NEW c \in Calls, TakeCall(t, c) PROVE TypeInv'
  <2>1. Route(TierOf[c]) \in {"Invoke", "Ask", "Refuse"}
    BY DEF Route, Tier
  <2>2. TypeOK'
    BY <1>7, <2>1 DEF TakeCall
  <2>3. StepsBegun'
    BY <1>7, <2>1 DEF TakeCall
  <2>4. OneCall'
    BY <1>7, <2>1 DEF TakeCall
  <2>5. QED
    BY <2>2, <2>3, <2>4
<1>8. ASSUME NEW t \in Turns, Refuse(t) PROVE TypeInv'
  <2>1. log' \in [Turns -> Seq(Entry)]
    BY <1>8, Recorded DEF Refuse, Fate
  <2>2. QED
    BY <1>8, <2>1 DEF Refuse
<1>9. ASSUME NEW t \in Turns, ToolPanics(t) PROVE TypeInv'
  <2>1. log' \in [Turns -> Seq(Entry)]
    BY <1>9, Recorded DEF ToolPanics, Fate
  <2>2. QED
    BY <1>9, <2>1 DEF ToolPanics
<1>10. ASSUME NEW t \in Turns, NEW fate \in {"Succeeded", "Failed"}, Invoke(t, fate)
       PROVE  TypeInv'
  <2>1. log' \in [Turns -> Seq(Entry)]
    BY <1>10, Recorded DEF Invoke, Fate
  <2>2. QED
    BY <1>10, <2>1 DEF Invoke
<1>11. ASSUME NEW t \in Turns, Synthesize(t) PROVE TypeInv'
  BY <1>11 DEF Synthesize
<1>12. ASSUME NEW t \in Turns, SendRequest(t) PROVE TypeInv'
  BY <1>12, RequestType DEF SendRequest
<1>13. ASSUME NEW t \in Turns, Register(t) PROVE TypeInv'
  BY <1>13, RequestType DEF Register
<1>14. ASSUME NEW t \in Turns, Decide(t) PROVE TypeInv'
  BY <1>14 DEF Decide
<1>15. ASSUME NEW t \in Turns, TimeOut(t) PROVE TypeInv'
  BY <1>15 DEF TimeOut
<1>16. ASSUME NEW t \in Turns, Withdraw(t) PROVE TypeInv'
  BY <1>16 DEF Withdraw
<1>17. ASSUME NEW r \in Requests, NEW approved \in BOOLEAN, Respond(r, approved)
       PROVE  TypeInv'
  BY <1>17 DEF Respond
<1>18. ASSUME NEW k \in Conns, FillUp(k) \/ ClientReads(k) PROVE TypeInv'
  BY <1>18 DEF FillUp, ClientReads
<1>19. CASE UNCHANGED vars
  BY <1>19 DEF vars
<1>20. QED
  BY <1>1, <1>2, <1>3, <1>4, <1>5, <1>6, <1>7, <1>8, <1>9, <1>10, <1>11, <1>12,
     <1>13, <1>14, <1>15, <1>16, <1>17, <1>18, <1>19 DEF Next, TurnStep

LEMMA TypeInvHolds == Spec => []TypeInv
BY InitType, NextType, PTL DEF Spec

\* The type invariant of the turns and of the gate they share
\* (run_react_loop, PermissionRespondHandler).
THEOREM TypeCorrect == Spec => []TypeOK
<1>1. TypeInv => TypeOK
  BY DEF TypeInv
<1>2. QED
  BY <1>1, TypeInvHolds, PTL

(***************************************************************************)
(* The permission gate.  The entry invariant is inductive together with the *)
(* fact that the channel of a request not yet entered in the map is empty.  *)
(***************************************************************************)

\* The requests a turn has not yet entered in the map.
Ahead(t, k) == k > step[t] \/ (k = step[t] /\ pc[t] \in {"Model", "Ask", "Register"})

ChannelsFresh ==
    \A t \in Turns : \A k \in 1..MaxSteps : Ahead(t, k) => slot[<<t, k>>] = "empty"

GateInv == EntriesHaveWaiters /\ ChannelsFresh

LEMMA InitGate == Init => GateInv
BY DEF Init, GateInv, EntriesHaveWaiters, ChannelsFresh, Requests

\* A turn that goes to another place leaves the channels ahead of it fresh.
LEMMA FreshKept ==
    ASSUME TypeInv, ChannelsFresh, NEW t \in Turns, NEW place,
           UNCHANGED <<step, slot>>, Goto(t, place),
           place \in {"Model", "Ask", "Register"} => pc[t] \in {"Model", "Ask", "Register"}
    PROVE  ChannelsFresh'
<1>1. \A u \in Turns : pc'[u] = IF u = t THEN place ELSE pc[u]
  BY DEF Goto, TypeInv, TypeOK
<1>2. \A u \in Turns, k \in 1..MaxSteps : Ahead(u, k)' => Ahead(u, k)
  BY <1>1 DEF Ahead
<1>3. QED
  BY <1>2 DEF ChannelsFresh

\* A step of one turn that leaves the gate and the step number alone.
LEMMA TurnKeepsGate ==
    ASSUME TypeInv, GateInv, NEW t \in Turns, NEW place,
           UNCHANGED <<step, gateVars>>, Goto(t, place),
           pc[t] \in {"Await", "Expired"} =>
               place \in {"Await", "Expired"} \/ Request(t) \notin pending,
           place \in {"Model", "Ask", "Register"} => pc[t] \in {"Model", "Ask", "Register"}
    PROVE  GateInv'
<1>1. \A u \in Turns : pc'[u] = IF u = t THEN place ELSE pc[u]
  BY DEF Goto, TypeInv, TypeOK
<1>2. EntriesHaveWaiters'
  <2> SUFFICES ASSUME NEW r \in pending
               PROVE  pc'[r[1]] \in {"Await", "Expired"} /\ r = Request(r[1])' /\ slot'[r] = "empty"
    BY DEF EntriesHaveWaiters, gateVars
  <2>1. pc[r[1]] \in {"Await", "Expired"} /\ r = Request(r[1]) /\ slot[r] = "empty"
    BY DEF GateInv, EntriesHaveWaiters
  <2>2. r[1] \in Turns
    BY DEF TypeInv, TypeOK, Requests
  <2>3. r = Request(r[1])' /\ slot'[r] = "empty"
    BY <2>1 DEF Request, gateVars
  <2>4. QED
    BY <1>1, <2>1, <2>2, <2>3
<1>3. ChannelsFresh'
  BY FreshKept DEF GateInv, gateVars
<1>4. QED
  BY <1>2, <1>3 DEF GateInv

LEMMA NextGate == TypeInv /\ GateInv /\ [Next]_vars => GateInv'
<1> SUFFICES ASSUME TypeInv, GateInv, [Next]_vars PROVE GateInv'
  OBVIOUS
<1> USE DEF gateVars, clientVars, loopVars
<1>1. ASSUME NEW t \in Turns, BeginStep(t) PROVE GateInv'
  <2> USE <1>1 DEF BeginStep, Goto, NextStep, TypeInv, TypeOK, Request
  <2>1. EntriesHaveWaiters'
    <3> SUFFICES ASSUME NEW r \in pending
                 PROVE  pc'[r[1]] \in {"Await", "Expired"} /\ r = Request(r[1])' /\ slot'[r] = "empty"
      BY DEF EntriesHaveWaiters
    <3>1. pc[r[1]] \in {"Await", "Expired"} /\ r = Request(r[1]) /\ slot[r] = "empty"
      BY DEF GateInv, EntriesHaveWaiters
    <3>2. r[1] \in Turns /\ r[1] # t
      BY <3>1 DEF Requests
    <3>3. QED
      BY <3>1, <3>2
  <2>2. ChannelsFresh'
    BY DEF GateInv, ChannelsFresh, Ahead
  <2>3. QED
    BY <2>1, <2>2 DEF GateInv
<1>2. ASSUME NEW t \in Turns, BeginSynthesis(t) PROVE GateInv'
  BY <1>2, TurnKeepsGate DEF BeginSynthesis
<1>3. ASSUME NEW t \in Turns, Answer(t) PROVE GateInv'
  BY <1>3, TurnKeepsGate DEF Answer
<1>4. ASSUME NEW t \in Turns, ModelFails(t) PROVE GateInv'
  BY <1>4, TurnKeepsGate DEF ModelFails
<1>5. ASSUME NEW t \in Turns, AskAgain(t) PROVE GateInv'
  BY <1>5, TurnKeepsGate DEF AskAgain
<1>6. ASSUME NEW t \in Turns, NEW c \in Calls, SkipRepeated(t, c) PROVE GateInv'
  BY <1>6, TurnKeepsGate DEF SkipRepeated
<1>7. ASSUME NEW t \in Turns, NEW c \in Calls, TakeCall(t, c) PROVE GateInv'
  BY <1>7, TurnKeepsGate DEF TakeCall
<1>8. ASSUME NEW t \in Turns, Refuse(t) PROVE GateInv'
  BY <1>8, TurnKeepsGate DEF Refuse
<1>9. ASSUME NEW t \in Turns, ToolPanics(t) PROVE GateInv'
  BY <1>9, TurnKeepsGate DEF ToolPanics
<1>10. ASSUME NEW t \in Turns, NEW fate, Invoke(t, fate) PROVE GateInv'
  BY <1>10, TurnKeepsGate DEF Invoke
<1>11. ASSUME NEW t \in Turns, Synthesize(t) PROVE GateInv'
  BY <1>11, TurnKeepsGate DEF Synthesize
<1>12. ASSUME NEW t \in Turns, SendRequest(t) PROVE GateInv'
  BY <1>12, TurnKeepsGate DEF SendRequest
\* The entry is new, its turn starts to wait and its channel is still empty.
<1>13. ASSUME NEW t \in Turns, Register(t) PROVE GateInv'
  <2> USE <1>13 DEF Register, Goto
  <2>1. \A u \in Turns : pc'[u] = IF u = t THEN "Await" ELSE pc[u]
    BY DEF TypeInv, TypeOK
  <2>2. EntriesHaveWaiters'
    <3> SUFFICES ASSUME NEW r \in pending \cup {Request(t)}
                 PROVE  pc'[r[1]] \in {"Await", "Expired"} /\ r = Request(r[1])' /\ slot'[r] = "empty"
      BY DEF EntriesHaveWaiters
    <3>1. CASE r \in pending
      <4>1. pc[r[1]] \in {"Await", "Expired"} /\ r = Request(r[1]) /\ slot[r] = "empty"
        BY <3>1 DEF GateInv, EntriesHaveWaiters
      <4>2. r[1] \in Turns
        BY <3>1 DEF TypeInv, TypeOK, Requests
      <4>3. QED
        BY <2>1, <4>1, <4>2 DEF Request
    <3>2. CASE r = Request(t)
      <4>1. step[t] \in 1..MaxSteps
        BY RequestType DEF InStep, Handling, Gate
      <4>2. slot[<<t, step[t]>>] = "empty"
        BY <4>1 DEF GateInv, ChannelsFresh, Ahead
      <4>3. QED
        BY <2>1, <3>2, <4>2 DEF Request
    <3>3. QED
      BY <3>1, <3>2
  <2>3. ChannelsFresh'
    BY FreshKept DEF GateInv
  <2>4. QED
    BY <2>2, <2>3 DEF GateInv
\* The decision that arrives has taken the entry out of the map.
<1>14. ASSUME NEW t \in Turns, Decide(t) PROVE GateInv'
  <2>1. Request(t) \notin pending
    BY <1>14 DEF Decide, GateInv, EntriesHaveWaiters
  <2>2. QED
    BY <1>14, <2>1, TurnKeepsGate DEF Decide
<1>15. ASSUME NEW t \in Turns, TimeOut(t) PROVE GateInv'
  BY <1>15, TurnKeepsGate DEF TimeOut
<1>16. ASSUME NEW t \in Turns, Withdraw(t) PROVE GateInv'
  <2> USE <1>16 DEF Withdraw, Withdrawn, Goto
  <2>1. \A u \in Turns : pc'[u] = IF u = t THEN "Refuse" ELSE pc[u]
    BY DEF TypeInv, TypeOK
  <2>2. EntriesHaveWaiters'
    <3> SUFFICES ASSUME NEW r \in pending, r # Request(t)
                 PROVE  pc'[r[1]] \in {"Await", "Expired"} /\ r = Request(r[1])' /\ slot'[r] = "empty"
      BY DEF EntriesHaveWaiters
    <3>1. pc[r[1]] \in {"Await", "Expired"} /\ r = Request(r[1]) /\ slot[r] = "empty"
      BY DEF GateInv, EntriesHaveWaiters
    <3>2. r[1] \in Turns
      BY DEF TypeInv, TypeOK, Requests
    <3>3. QED
      BY <2>1, <3>1, <3>2 DEF Request
  <2>3. ChannelsFresh'
    BY FreshKept DEF GateInv
  <2>4. QED
    BY <2>2, <2>3 DEF GateInv
\* An answer that finds its entry removes it; another one changes nothing.
<1>17. ASSUME NEW r \in Requests, NEW approved \in BOOLEAN, Respond(r, approved)
       PROVE  GateInv'
  <2> USE <1>17 DEF Respond
  <2>1. slot \in [Requests -> {"empty", "yes", "no"}]
    BY DEF TypeInv, TypeOK
  <2>2. EntriesHaveWaiters'
    <3> SUFFICES ASSUME NEW q \in pending \ {r}
                 PROVE  pc[q[1]] \in {"Await", "Expired"} /\ q = Request(q[1]) /\ slot'[q] = "empty"
      BY DEF EntriesHaveWaiters, Request
    <3>1. pc[q[1]] \in {"Await", "Expired"} /\ q = Request(q[1]) /\ slot[q] = "empty"
      BY DEF GateInv, EntriesHaveWaiters
    <3>2. q \in Requests
      BY DEF TypeInv, TypeOK
    <3>3. QED
      BY <2>1, <3>1, <3>2
  <2>3. ChannelsFresh'
    <3>1. CASE r \notin pending
      BY <3>1 DEF GateInv, ChannelsFresh, Ahead
    <3>2. CASE r \in pending
      <4>1. r[1] \in Turns /\ r = <<r[1], step[r[1]]>> /\ pc[r[1]] \in {"Await", "Expired"}
        BY <3>2 DEF GateInv, EntriesHaveWaiters, Request, Requests
      <4>2. ASSUME NEW t \in Turns, NEW k \in 1..MaxSteps, Ahead(t, k)
            PROVE  slot'[<<t, k>>] = "empty"
        <5>1. step[t] \in Int
          BY DEF TypeInv, TypeOK
        <5>2. <<t, k>> # r
          BY <4>1, <4>2, <5>1 DEF Ahead
        <5>3. slot[<<t, k>>] = "empty" /\ <<t, k>> \in Requests
          BY <4>2 DEF GateInv, ChannelsFresh, Requests
        <5>4. QED
          BY <2>1, <5>2, <5>3
      <4>3. QED
        BY <4>2 DEF ChannelsFresh, Ahead
    <3>3. QED
      BY <3>1, <3>2
  <2>4. QED
    BY <2>2, <2>3 DEF GateInv
<1>18. CASE UNCHANGED <<loopVars, gateVars, asked, said>>
  BY <1>18 DEF loopVars, gateVars, GateInv, EntriesHaveWaiters, ChannelsFresh, Ahead, Request
<1>19. QED
  BY <1>1, <1>2, <1>3, <1>4, <1>5, <1>6, <1>7, <1>8, <1>9, <1>10, <1>11, <1>12,
     <1>13, <1>14, <1>15, <1>16, <1>17, <1>18
  DEF Next, TurnStep, FillUp, ClientReads, vars, loopVars, gateVars

LEMMA GateInvHolds == Spec => []GateInv
BY InitGate, NextGate, TypeInvHolds, PTL DEF Spec

\* Every entry of ActivePermissions.pending belongs to a turn that still waits
\* for it: neither a timeout racing an answer nor an answer to a request that
\* is gone leaves an entry behind.
THEOREM EntriesHaveWaitersHolds == Spec => []EntriesHaveWaiters
<1>1. GateInv => EntriesHaveWaiters
  BY DEF GateInv
<1>2. QED
  BY <1>1, GateInvHolds, PTL

(***************************************************************************)
(* What may run.  The client's approval is followed from its answer over    *)
(* the channel and the place "Invoke" to the log.                           *)
(***************************************************************************)

\* Whether call c of the step k of turn t may run.
Permitted(t, k, c) ==
    \/ TierOf[c] = "AutoApprove"
    \/ TierOf[c] = "Prompt" /\ TRUE \in said[<<t, k>>]

\* A channel delivers an approval only if the client gave one.
ApprovalsSaid == \A r \in Requests : slot[r] = "yes" => TRUE \in said[r]

\* Only calls of the tier Prompt are at the gate, and a call about to be
\* invoked is permitted.
CallsPermitted ==
    \A t \in Turns : \A c \in call[t] :
        /\ pc[t] \in Gate => TierOf[c] = "Prompt"
        /\ pc[t] = "Invoke" => Permitted(t, step[t], c)

PermitInv == ApprovalsSaid /\ CallsPermitted /\ OnlyPermittedCallsRun

LEMMA LogEntry ==
    ASSUME TypeInv, NEW t \in Turns, NEW i \in 1..Len(log[t])
    PROVE  log[t][i] \in Entry
BY ElementOfSeq DEF TypeInv, TypeOK

LEMMA LogLength == TypeInv => \A t \in Turns : Len(log[t]) \in Nat
BY LenProperties DEF TypeInv, TypeOK

\* The log stays right while it is not written to: answers are only added.
LEMMA LogKept ==
    ASSUME TypeInv, OnlyPermittedCallsRun, UNCHANGED log,
           \A r \in Requests : said[r] \subseteq said'[r]
    PROVE  OnlyPermittedCallsRun'
<1> SUFFICES ASSUME NEW t \in Turns, NEW i \in 1..Len(log[t]), log[t][i].fate # "Denied"
             PROVE  \/ TierOf[log[t][i].call] = "AutoApprove"
                    \/ /\ TierOf[log[t][i].call] = "Prompt"
                       /\ TRUE \in said'[<<t, log[t][i].step>>]
  BY DEF OnlyPermittedCallsRun
<1>1. <<t, log[t][i].step>> \in Requests
  BY LogEntry DEF Entry, Requests
<1>2. QED
  BY <1>1 DEF OnlyPermittedCallsRun

\* A new entry is right if the call was denied or was permitted.
LEMMA LogExtended ==
    ASSUME TypeInv, OnlyPermittedCallsRun, UNCHANGED said,
           NEW t \in Turns, pc[t] \in Handling, NEW fate \in Fate, Record(t, fate),
           fate # "Denied" => \A c \in call[t] : Permitted(t, step[t], c)
    PROVE  OnlyPermittedCallsRun'
<1>1. PICK c \in Calls :
             /\ call[t] = {c}
             /\ \A u \in Turns \ {t} : log'[u] = log[u]
             /\ Len(log'[t]) = Len(log[t]) + 1
             /\ \A i \in 1..Len(log[t]) : log'[t][i] = log[t][i]
             /\ log'[t][Len(log[t]) + 1] = [step |-> step[t], call |-> c, fate |-> fate]
  BY Recorded
<1>2. SUFFICES ASSUME NEW u \in Turns, NEW i \in 1..Len(log'[u]), log'[u][i].fate # "Denied"
               PROVE  Permitted(u, log'[u][i].step, log'[u][i].call)
  BY DEF OnlyPermittedCallsRun, Permitted
<1>3. CASE u # t \/ i \in 1..Len(log[t])
  <2>1. i \in 1..Len(log[u]) /\ log'[u][i] = log[u][i]
    BY <1>1, <1>3
  <2>2. QED
    BY <1>2, <2>1 DEF OnlyPermittedCallsRun, Permitted
<1>4. CASE u = t /\ i \notin 1..Len(log[t])
  <2>1. i = Len(log[t]) + 1
    BY <1>1, <1>4, LogLength
  <2>2. QED
    BY <1>1, <1>2, <1>4, <2>1
<1>5. QED
  BY <1>3, <1>4

LEMMA InitPermit == Init => PermitInv
<1> SUFFICES ASSUME Init PROVE PermitInv
  OBVIOUS
<1>1. ApprovalsSaid /\ CallsPermitted
  BY DEF Init, ApprovalsSaid, CallsPermitted, Gate
<1>2. \A t \in Turns : Len(log[t]) = 0
  BY EmptySeq DEF Init
<1>3. OnlyPermittedCallsRun
  BY <1>2 DEF OnlyPermittedCallsRun
<1>4. QED
  BY <1>1, <1>3 DEF PermitInv

\* A step that goes neither to the gate nor to the tool, and writes nothing
\* that the invariant looks at.
LEMMA TurnKeepsPermits ==
    ASSUME TypeInv, PermitInv, NEW t \in Turns, NEW place,
           UNCHANGED <<step, call, log, slot, said>>, Goto(t, place),
           place \notin Gate \cup {"Invoke"}
    PROVE  PermitInv'
<1>1. \A u \in Turns : pc'[u] = IF u = t THEN place ELSE pc[u]
  BY DEF Goto, TypeInv, TypeOK
<1>2. CallsPermitted'
  BY <1>1 DEF PermitInv, CallsPermitted, Permitted
<1>3. OnlyPermittedCallsRun'
  BY LogKept DEF PermitInv
<1>4. QED
  BY <1>2, <1>3 DEF PermitInv, ApprovalsSaid

\* A step that stays at the gate.
LEMMA GateKeepsPermits ==
    ASSUME TypeInv, PermitInv, NEW t \in Turns, NEW place \in Gate,
           UNCHANGED <<step, call, log, slot, said>>, Goto(t, place), pc[t] \in Gate
    PROVE  PermitInv'
<1>1. \A u \in Turns : pc'[u] = IF u = t THEN place ELSE pc[u]
  BY DEF Goto, TypeInv, TypeOK
<1>2. CallsPermitted'
  BY <1>1 DEF PermitInv, CallsPermitted, Permitted, Gate
<1>3. OnlyPermittedCallsRun'
  BY LogKept DEF PermitInv
<1>4. QED
  BY <1>2, <1>3 DEF PermitInv, ApprovalsSaid

LEMMA NextPermit == TypeInv /\ PermitInv /\ [Next]_vars => PermitInv'
<1> SUFFICES ASSUME TypeInv, PermitInv, [Next]_vars PROVE PermitInv'
  OBVIOUS
<1> USE DEF gateVars, clientVars, loopVars, Gate
<1>1. ASSUME NEW t \in Turns, BeginStep(t) PROVE PermitInv'
  <2>1. \A u \in Turns \ {t} : pc'[u] = pc[u] /\ call'[u] = call[u] /\ step'[u] = step[u]
    BY <1>1 DEF BeginStep, Goto, TypeInv, TypeOK
  <2>2. call'[t] = {} /\ pc'[t] = "Model"
    BY <1>1 DEF BeginStep, Goto, TypeInv, TypeOK
  <2>3. CallsPermitted'
    BY <1>1, <2>1, <2>2 DEF BeginStep, PermitInv, CallsPermitted, Permitted
  <2>4. OnlyPermittedCallsRun'
    BY <1>1, LogKept DEF BeginStep, PermitInv
  <2>5. QED
    BY <1>1, <2>3, <2>4 DEF BeginStep, PermitInv, ApprovalsSaid
<1>2. ASSUME NEW t \in Turns, BeginSynthesis(t) PROVE PermitInv'
  BY <1>2, TurnKeepsPermits DEF BeginSynthesis
<1>3. ASSUME NEW t \in Turns, Answer(t) PROVE PermitInv'
  BY <1>3, TurnKeepsPermits DEF Answer
<1>4. ASSUME NEW t \in Turns, ModelFails(t) PROVE PermitInv'
  BY <1>4, TurnKeepsPermits DEF ModelFails
<1>5. ASSUME NEW t \in Turns, AskAgain(t) PROVE PermitInv'
  BY <1>5, TurnKeepsPermits DEF AskAgain
<1>6. ASSUME NEW t \in Turns, NEW c \in Calls, SkipRepeated(t, c) PROVE PermitInv'
  BY <1>6, TurnKeepsPermits DEF SkipRepeated
\* The call goes the way of its tier.
<1>7. ASSUME NEW t \in Turns, NEW c \in Calls, TakeCall(t, c) PROVE PermitInv'
  <2>1. /\ Route(TierOf[c]) = "Invoke" => TierOf[c] = "AutoApprove"
        /\ Route(TierOf[c]) \in Gate => TierOf[c] = "Prompt"
    <3>1. CASE TierOf[c] = "AutoApprove"
      BY <3>1, Zenon DEF Route
    <3>2. CASE TierOf[c] = "Prompt"
      <4>1. Route(TierOf[c]) = "Ask"
        BY <3>2 DEF Route
      <4>2. QED
        BY <3>2, <4>1
    <3>3. CASE TierOf[c] = "Deny"
      <4>1. Route(TierOf[c]) = "Refuse"
        BY <3>3 DEF Route
      <4>2. QED
        BY <4>1
    <3>4. QED
      BY <3>1, <3>2, <3>3 DEF Tier
  <2>2. /\ \A u \in Turns \ {t} : pc'[u] = pc[u] /\ call'[u] = call[u]
        /\ call'[t] = {c} /\ pc'[t] = Route(TierOf[c])
    BY <1>7 DEF TakeCall, Goto, TypeInv, TypeOK
  <2>3. CallsPermitted'
    BY <1>7, <2>1, <2>2 DEF TakeCall, PermitInv, CallsPermitted, Permitted
  <2>4. OnlyPermittedCallsRun'
    BY <1>7, LogKept DEF TakeCall, PermitInv
  <2>5. QED
    BY <1>7, <2>3, <2>4 DEF TakeCall, PermitInv, ApprovalsSaid
<1>8. ASSUME NEW t \in Turns, Refuse(t) PROVE PermitInv'
  <2>1. OnlyPermittedCallsRun'
    BY <1>8, LogExtended DEF Refuse, PermitInv, Handling, Fate
  <2>2. CallsPermitted'
    BY <1>8 DEF Refuse, PermitInv, CallsPermitted, Permitted, Goto, TypeInv, TypeOK
  <2>3. QED
    BY <1>8, <2>1, <2>2 DEF Refuse, PermitInv, ApprovalsSaid
<1>9. ASSUME NEW t \in Turns, ToolPanics(t) PROVE PermitInv'
  <2>1. OnlyPermittedCallsRun'
    BY <1>9, LogExtended DEF ToolPanics, PermitInv, CallsPermitted, Handling, Fate
  <2>2. CallsPermitted'
    BY <1>9 DEF ToolPanics, PermitInv, CallsPermitted, Permitted, Goto, TypeInv, TypeOK
  <2>3. QED
    BY <1>9, <2>1, <2>2 DEF ToolPanics, PermitInv, ApprovalsSaid
<1>10. ASSUME NEW t \in Turns, NEW fate \in {"Succeeded", "Failed"}, Invoke(t, fate)
       PROVE  PermitInv'
  <2>1. OnlyPermittedCallsRun'
    BY <1>10, LogExtended DEF Invoke, PermitInv, CallsPermitted, Handling, Fate
  <2>2. CallsPermitted'
    BY <1>10 DEF Invoke, PermitInv, CallsPermitted, Permitted, Goto, TypeInv, TypeOK
  <2>3. QED
    BY <1>10, <2>1, <2>2 DEF Invoke, PermitInv, ApprovalsSaid
<1>11. ASSUME NEW t \in Turns, Synthesize(t) PROVE PermitInv'
  BY <1>11, TurnKeepsPermits DEF Synthesize
<1>12. ASSUME NEW t \in Turns, SendRequest(t) PROVE PermitInv'
  BY <1>12, GateKeepsPermits DEF SendRequest
<1>13. ASSUME NEW t \in Turns, Register(t) PROVE PermitInv'
  BY <1>13, GateKeepsPermits DEF Register
\* The call is invoked only if the channel delivered an approval.
<1>14. ASSUME NEW t \in Turns, Decide(t) PROVE PermitInv'
  <2>1. Request(t) \in Requests
    BY <1>14, RequestType DEF Decide, InStep, Handling
  <2>2. Granted(t) => \A c \in call[t] : Permitted(t, step[t], c)
    BY <1>14, <2>1 DEF Decide, Granted, PermitInv, ApprovalsSaid, CallsPermitted,
       Permitted, Request
  <2>3. \A u \in Turns : pc'[u] = IF u = t THEN IF Granted(t) THEN "Invoke" ELSE "Refuse"
                                          ELSE pc[u]
    BY <1>14 DEF Decide, Goto, TypeInv, TypeOK
  <2>4. CallsPermitted'
    BY <1>14, <2>2, <2>3 DEF Decide, PermitInv, CallsPermitted, Permitted
  <2>5. OnlyPermittedCallsRun'
    BY <1>14, LogKept DEF Decide, PermitInv
  <2>6. QED
    BY <1>14, <2>4, <2>5 DEF Decide, PermitInv, ApprovalsSaid
<1>15. ASSUME NEW t \in Turns, TimeOut(t) PROVE PermitInv'
  BY <1>15, GateKeepsPermits DEF TimeOut
<1>16. ASSUME NEW t \in Turns, Withdraw(t) PROVE PermitInv'
  BY <1>16, TurnKeepsPermits DEF Withdraw
<1>17. ASSUME NEW r \in Requests, NEW approved \in BOOLEAN, Respond(r, approved)
       PROVE  PermitInv'
  <2>1. said' = [said EXCEPT ![r] = @ \cup {approved}] /\ said \in [Requests -> SUBSET BOOLEAN]
    BY <1>17 DEF Respond, TypeInv, TypeOK
  <2>2. \A q \in Requests : said[q] \subseteq said'[q]
    BY <2>1
  <2>3. ApprovalsSaid'
    BY <1>17, <2>1 DEF Respond, PermitInv, ApprovalsSaid, TypeInv, TypeOK
  <2>4. CallsPermitted'
    <3> SUFFICES ASSUME NEW t \in Turns, NEW c \in call[t], pc[t] = "Invoke"
                 PROVE  Permitted(t, step[t], c)'
      BY <1>17 DEF Respond, PermitInv, CallsPermitted
    <3>1. <<t, step[t]>> \in Requests
      BY RequestType DEF InStep, Handling, Request
    <3>2. QED
      BY <1>17, <2>2, <3>1 DEF Respond, PermitInv, CallsPermitted, Permitted
  <2>5. OnlyPermittedCallsRun'
    BY <1>17, <2>2, LogKept DEF Respond, PermitInv
  <2>6. QED
    BY <2>3, <2>4, <2>5 DEF PermitInv
<1>18. CASE UNCHANGED <<loopVars, gateVars, asked, said>>
  <2>1. OnlyPermittedCallsRun'
    BY <1>18, LogKept DEF loopVars, gateVars, PermitInv
  <2>2. QED
    BY <1>18, <2>1 DEF loopVars, gateVars, PermitInv, ApprovalsSaid, CallsPermitted, Permitted
<1>19. QED
  BY <1>1, <1>2, <1>3, <1>4, <1>5, <1>6, <1>7, <1>8, <1>9, <1>10, <1>11, <1>12,
     <1>13, <1>14, <1>15, <1>16, <1>17, <1>18
  DEF Next, TurnStep, FillUp, ClientReads, vars, loopVars, gateVars

LEMMA PermitInvHolds == Spec => []PermitInv
BY InitPermit, NextPermit, TypeInvHolds, PTL DEF Spec

\* A tool runs only if its tier approves it by itself or if the client
\* approved this very request: never by a timeout, a refusal or the answer to
\* another request.
THEOREM OnlyPermittedCallsRunHolds == Spec => []OnlyPermittedCallsRun
<1>1. PermitInv => OnlyPermittedCallsRun
  BY DEF PermitInv
<1>2. QED
  BY <1>1, PermitInvHolds, PTL

(***************************************************************************)
(* No call twice.  A call is remembered before it is handled, and handled   *)
(* before it is logged.                                                     *)
(***************************************************************************)

LogRemembered == \A t \in Turns : \A i \in 1..Len(log[t]) : log[t][i].call \in seen[t]

CallUnlogged ==
    \A t \in Turns : \A c \in call[t] : pc[t] \in Handling =>
        c \in seen[t] /\ \A i \in 1..Len(log[t]) : log[t][i].call # c

OnceInv == LogRemembered /\ CallUnlogged /\ NoCallTwice

LEMMA InitOnce == Init => OnceInv
<1> SUFFICES ASSUME Init PROVE OnceInv
  OBVIOUS
<1>1. \A t \in Turns : Len(log[t]) = 0
  BY EmptySeq DEF Init
<1>2. LogRemembered /\ NoCallTwice
  BY <1>1 DEF LogRemembered, NoCallTwice
<1>3. CallUnlogged
  BY DEF Init, CallUnlogged, Handling, Gate
<1>4. QED
  BY <1>2, <1>3 DEF OnceInv

\* A step that neither takes nor records a call.
LEMMA TurnKeepsOnce ==
    ASSUME TypeInv, OnceInv, NEW t \in Turns, NEW place,
           UNCHANGED <<seen, call, log>>, Goto(t, place),
           place \in Handling => pc[t] \in Handling
    PROVE  OnceInv'
<1>1. \A u \in Turns : pc'[u] = IF u = t THEN place ELSE pc[u]
  BY DEF Goto, TypeInv, TypeOK
<1>2. CallUnlogged'
  BY <1>1 DEF OnceInv, CallUnlogged
<1>3. QED
  BY <1>2 DEF OnceInv, LogRemembered, NoCallTwice

\* A step that records the call the turn handles, and leaves it.
LEMMA RecordKeepsOnce ==
    ASSUME TypeInv, OnceInv, NEW t \in Turns, NEW place, NEW fate \in Fate,
           UNCHANGED <<seen, call>>, Goto(t, place), Record(t, fate),
           pc[t] \in Handling, place \notin Handling
    PROVE  OnceInv'
<1>1. \A u \in Turns : pc'[u] = IF u = t THEN place ELSE pc[u]
  BY DEF Goto, TypeInv, TypeOK
<1>2. PICK c \in Calls :
             /\ call[t] = {c}
             /\ \A u \in Turns \ {t} : log'[u] = log[u]
             /\ Len(log'[t]) = Len(log[t]) + 1
             /\ \A i \in 1..Len(log[t]) : log'[t][i] = log[t][i]
             /\ log'[t][Len(log[t]) + 1] = [step |-> step[t], call |-> c, fate |-> fate]
  BY Recorded
<1>3. c \in seen[t] /\ \A i \in 1..Len(log[t]) : log[t][i].call # c
  BY <1>2 DEF OnceInv, CallUnlogged
<1>4. Len(log[t]) \in Nat
  BY LogLength
<1>5. ASSUME NEW i \in 1..Len(log'[t])
      PROVE  \/ i \in 1..Len(log[t]) /\ log'[t][i].call = log[t][i].call
             \/ i = Len(log[t]) + 1 /\ log'[t][i].call = c
  BY <1>2, <1>4
<1>6. LogRemembered'
  <2> SUFFICES ASSUME NEW u \in Turns, NEW i \in 1..Len(log'[u])
               PROVE  log'[u][i].call \in seen[u]
    BY DEF LogRemembered
  <2>1. CASE u = t
    BY <1>3, <1>5, <2>1 DEF OnceInv, LogRemembered
  <2>2. CASE u # t
    BY <1>2, <2>2 DEF OnceInv, LogRemembered
  <2>3. QED
    BY <2>1, <2>2
<1>7. CallUnlogged'
  BY <1>1, <1>2 DEF OnceInv, CallUnlogged
<1>8. NoCallTwice'
  <2> SUFFICES ASSUME NEW u \in Turns, NEW i \in 1..Len(log'[u]), NEW j \in 1..Len(log'[u]),
                      log'[u][i].call = log'[u][j].call
               PROVE  i = j
    BY DEF NoCallTwice
  <2>1. CASE u = t
    <3>1. /\ \/ i \in 1..Len(log[t]) /\ log'[t][i].call = log[t][i].call
             \/ i = Len(log[t]) + 1 /\ log'[t][i].call = c
          /\ \/ j \in 1..Len(log[t]) /\ log'[t][j].call = log[t][j].call
             \/ j = Len(log[t]) + 1 /\ log'[t][j].call = c
      BY <1>5, <2>1
    <3>2. QED
      BY <1>3, <2>1, <3>1 DEF OnceInv, NoCallTwice
  <2>2. CASE u # t
    BY <1>2, <2>2 DEF OnceInv, NoCallTwice
  <2>3. QED
    BY <2>1, <2>2
<1>9. QED
  BY <1>6, <1>7, <1>8 DEF OnceInv

LEMMA NextOnce == TypeInv /\ OnceInv /\ [Next]_vars => OnceInv'
<1> SUFFICES ASSUME TypeInv, OnceInv, [Next]_vars PROVE OnceInv'
  OBVIOUS
<1> USE DEF Handling, Gate
<1>1. ASSUME NEW t \in Turns, BeginStep(t) PROVE OnceInv'
  <2>1. CallUnlogged'
    BY <1>1 DEF BeginStep, Goto, TypeInv, TypeOK, OnceInv, CallUnlogged
  <2>2. QED
    BY <1>1, <2>1 DEF BeginStep, OnceInv, LogRemembered, NoCallTwice
<1>2. ASSUME NEW t \in Turns, BeginSynthesis(t) PROVE OnceInv'
  BY <1>2, TurnKeepsOnce DEF BeginSynthesis
<1>3. ASSUME NEW t \in Turns, Answer(t) PROVE OnceInv'
  BY <1>3, TurnKeepsOnce DEF Answer
<1>4. ASSUME NEW t \in Turns, ModelFails(t) PROVE OnceInv'
  BY <1>4, TurnKeepsOnce DEF ModelFails
<1>5. ASSUME NEW t \in Turns, AskAgain(t) PROVE OnceInv'
  BY <1>5, TurnKeepsOnce DEF AskAgain
<1>6. ASSUME NEW t \in Turns, NEW c \in Calls, SkipRepeated(t, c) PROVE OnceInv'
  BY <1>6, TurnKeepsOnce DEF SkipRepeated
\* A new call is in no entry, since every entry's call is remembered.
<1>7. ASSUME NEW t \in Turns, NEW c \in Calls, TakeCall(t, c) PROVE OnceInv'
  <2>1. /\ \A u \in Turns \ {t} : pc'[u] = pc[u] /\ call'[u] = call[u] /\ seen'[u] = seen[u]
        /\ call'[t] = {c} /\ seen'[t] = seen[t] \cup {c}
    BY <1>7 DEF TakeCall, Goto, TypeInv, TypeOK
  <2>2. \A i \in 1..Len(log[t]) : log[t][i].call # c
    BY <1>7 DEF TakeCall, Repeated, OnceInv, LogRemembered
  <2>3. CallUnlogged'
    BY <1>7, <2>1, <2>2 DEF TakeCall, OnceInv, CallUnlogged
  <2>4. LogRemembered'
    BY <1>7, <2>1 DEF TakeCall, OnceInv, LogRemembered
  <2>5. QED
    BY <1>7, <2>3, <2>4 DEF TakeCall, OnceInv, NoCallTwice
<1>8. ASSUME NEW t \in Turns, Refuse(t) PROVE OnceInv'
  BY <1>8, RecordKeepsOnce DEF Refuse, Fate
<1>9. ASSUME NEW t \in Turns, ToolPanics(t) PROVE OnceInv'
  BY <1>9, RecordKeepsOnce DEF ToolPanics, Fate
<1>10. ASSUME NEW t \in Turns, NEW fate \in {"Succeeded", "Failed"}, Invoke(t, fate)
       PROVE  OnceInv'
  BY <1>10, RecordKeepsOnce DEF Invoke, Fate
<1>11. ASSUME NEW t \in Turns, Synthesize(t) PROVE OnceInv'
  BY <1>11, TurnKeepsOnce DEF Synthesize
<1>12. ASSUME NEW t \in Turns, SendRequest(t) PROVE OnceInv'
  BY <1>12, TurnKeepsOnce DEF SendRequest
<1>13. ASSUME NEW t \in Turns, Register(t) PROVE OnceInv'
  BY <1>13, TurnKeepsOnce DEF Register
<1>14. ASSUME NEW t \in Turns, Decide(t) PROVE OnceInv'
  BY <1>14, TurnKeepsOnce DEF Decide
<1>15. ASSUME NEW t \in Turns, TimeOut(t) PROVE OnceInv'
  BY <1>15, TurnKeepsOnce DEF TimeOut
<1>16. ASSUME NEW t \in Turns, Withdraw(t) PROVE OnceInv'
  BY <1>16, TurnKeepsOnce DEF Withdraw
<1>17. ASSUME NEW r \in Requests, NEW approved \in BOOLEAN, Respond(r, approved)
       PROVE  OnceInv'
  BY <1>17 DEF Respond, loopVars, OnceInv, LogRemembered, CallUnlogged, NoCallTwice
<1>18. CASE UNCHANGED <<loopVars, gateVars, asked, said>>
  BY <1>18 DEF loopVars, gateVars, OnceInv, LogRemembered, CallUnlogged, NoCallTwice
<1>19. QED
  BY <1>1, <1>2, <1>3, <1>4, <1>5, <1>6, <1>7, <1>8, <1>9, <1>10, <1>11, <1>12,
     <1>13, <1>14, <1>15, <1>16, <1>17, <1>18
  DEF Next, TurnStep, FillUp, ClientReads, vars, loopVars, gateVars

\* "Skip identical calls already executed in this turn": no call is put to
\* its tier's gate twice in a turn, even after it failed or was denied.
THEOREM NoCallTwiceHolds == Spec => []NoCallTwice
<1>1. OnceInv => NoCallTwice
  BY DEF OnceInv
<1>2. QED
  BY <1>1, InitOnce, NextOnce, TypeInvHolds, PTL DEF Spec
=============================================================================
