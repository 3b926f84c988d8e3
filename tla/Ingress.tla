------------------------------ MODULE Ingress ------------------------------
(* From the socket of a client to the end of a turn and back: the event bus, *)
(* the gateway's checks and the clarifications of the intent handler.        *)
(*                                                                           *)
(* Every request runs in a task of its own and sends its messages and its    *)
(* response through the bounded channel of its connection.  An action ends   *)
(* where the handler awaits: a send, the lock of the pending clarifications. *)
(* The reasoning loop is one step here (module ReactLoop has its inside) and *)
(* the text it streams is left out.  The clock of the gateway stands still   *)
(* and nobody registers: its run on its own has both.                        *)
EXTENDS Gateway

CONSTANTS
  Requests,     \* intent.submit frames; a client may repeat a frame
  KeyOf,        \* KeyOf[r]: what the duplicate check hashes
  ChannelOf,    \* ChannelOf[r]: the channel named in the intent
  PageOf,       \* PageOf[r]
  ConnOf,       \* ConnOf[r]: the connection the frame arrives on
  OutCap        \* capacity of a connection's outbound channel (100)

ASSUME IngressAssumption ==
  /\ KeyOf \in [Requests -> Keys]
  /\ ChannelOf \in [Requests -> Channels]
  /\ ConnOf \in [Requests -> Conns]
  /\ None \notin Requests
  /\ OutCap \in Nat \ {0}

Pages == {PageOf[r] : r \in Requests}

VARIABLES
  stage,        \* stage[r]: how far the handler of r is
  pending,      \* pending[p]: the turn whose question waits on page p, or None
  holder,       \* the turn that holds the lock of pending, or None
  used,         \* used[r]: the question r took off its page, or None
  replaced,     \* history: questions another one overwrote
  conn,         \* conn[c]: "open" or "closed"
  out,          \* out[c]: the outbound channel
  got           \* history: the turns whose question the client has read

turnVars == <<stage, pending, holder, used, replaced>>
busVars == <<conn, out, got>>
vars == <<gatewayVars, turnVars, busVars>>

Stages ==
  {"idle", "admitted", "notice", "popped", "react", "ask", "asked",
   "finish", "persist", "refused", "done"}
Kinds == {"notice", "strategy", "question", "complete", "response"}
Messages == Requests \X Kinds

TypeOK ==
  /\ GatewayTypeOK
  /\ stage \in [Requests -> Stages]
  /\ pending \in [Pages -> Requests \cup {None}]
  /\ holder \in Requests \cup {None}
  /\ used \in [Requests -> Requests \cup {None}]
  /\ replaced \subseteq Requests
  /\ conn \in [Conns -> {"open", "closed"}]
  /\ out \in [Conns -> Seq(Messages)] /\ \A c \in Conns : Len(out[c]) <= OutCap
  /\ got \subseteq Requests

Init ==
  /\ GatewayInit
  /\ stage = [r \in Requests |-> "idle"]
  /\ pending = [p \in Pages |-> None]
  /\ holder = None
  /\ used = [r \in Requests |-> None]
  /\ replaced = {}
  /\ conn = [c \in Conns |-> "open"]
  /\ out = [c \in Conns |-> <<>>]
  /\ got = {}

Goes(r, s) == stage' = [stage EXCEPT ![r] = s]

(* Mistakes, for the mutation runs: the question is left on its page; the    *)
(* lock is not given back.                                                   *)
TakenOffKept(p) == pending
UnlockedNever == holder

(* A send waits for room; once the writer is gone it fails, which no caller  *)
(* looks at.                                                                 *)
Send(c, message) ==
  /\ conn[c] = "open" => Len(out[c]) < OutCap
  /\ out' = IF conn[c] = "open" THEN [out EXCEPT ![c] = Append(@, message)] ELSE out
  /\ UNCHANGED <<conn, got>>

Says(r, kind) == Send(ConnOf[r], <<r, kind>>)

TakenOff(p) == [pending EXCEPT ![p] = None]
Unlocked == None
-----------------------------------------------------------------------------
(* inbound_check: the cache, which records the frame even if the limiter     *)
(* then refuses it, and the limiter.                                         *)
Submit(r) ==
  /\ stage[r] = "idle" /\ conn[ConnOf[r]] = "open"
  /\ InboundCheck(KeyOf[r], ChannelOf[r])
  /\ Goes(r, IF Passes(KeyOf[r], ChannelOf[r]) THEN "admitted" ELSE "refused")
  /\ UNCHANGED <<pending, holder, used, replaced, busVars>>

Refuse(r) ==
  /\ stage[r] = "refused"
  /\ Says(r, "response") /\ Goes(r, "done")
  /\ UNCHANGED <<gatewayVars, pending, holder, used, replaced>>

(* A turn takes the question of its page, if there is one, ... *)
PopNothing(r) ==
  /\ stage[r] = "admitted" /\ holder = None /\ pending[PageOf[r]] = None
  /\ Goes(r, "popped")
  /\ UNCHANGED <<gatewayVars, pending, holder, used, replaced, busVars>>

Pop(r) ==
  /\ stage[r] = "admitted" /\ holder = None /\ pending[PageOf[r]] # None
  /\ pending' = TakenOff(PageOf[r])
  /\ used' = [used EXCEPT ![r] = pending[PageOf[r]]]
  /\ holder' = r
  /\ Goes(r, "notice")
  /\ UNCHANGED <<gatewayVars, replaced, busVars>>

(* ... and tells the client, still holding the lock, whether it answers the  *)
(* question or drops it.                                                     *)
Notice(r) ==
  /\ stage[r] = "notice"
  /\ Says(r, "notice") /\ Goes(r, "popped")
  /\ holder' = Unlocked
  /\ UNCHANGED <<gatewayVars, pending, used, replaced>>

Choose(r) ==
  /\ stage[r] = "popped"
  /\ Says(r, "strategy")
  /\ \E strategy \in {"react", "ask"} : Goes(r, strategy)
  /\ UNCHANGED <<gatewayVars, pending, holder, used, replaced>>

(* The turn works out a reply, by the loop or the swarm, ... *)
Work(r) ==
  /\ stage[r] = "react"
  /\ Goes(r, "finish")
  /\ UNCHANGED <<gatewayVars, pending, holder, used, replaced, busVars>>

(* ... or asks the user back: it stores the question, then shows it. *)
Ask(r) ==
  /\ stage[r] = "ask" /\ holder = None
  /\ pending' = [pending EXCEPT ![PageOf[r]] = r]
  /\ replaced' = replaced \cup ({pending[PageOf[r]]} \ {None})
  /\ Goes(r, "asked")
  /\ UNCHANGED <<gatewayVars, holder, used, busVars>>

Question(r) ==
  /\ stage[r] = "asked"
  /\ Says(r, "question") /\ Goes(r, "finish")
  /\ UNCHANGED <<gatewayVars, pending, holder, used, replaced>>

Complete(r) ==
  /\ stage[r] = "finish"
  /\ Says(r, "complete") /\ Goes(r, "persist")
  /\ UNCHANGED <<gatewayVars, pending, holder, used, replaced>>

Respond(r) ==
  /\ stage[r] = "persist"
  /\ Says(r, "response") /\ Goes(r, "done")
  /\ UNCHANGED <<gatewayVars, pending, holder, used, replaced>>
-----------------------------------------------------------------------------
ClientReads(c) ==
  /\ conn[c] = "open" /\ out[c] # <<>>
  /\ out' = [out EXCEPT ![c] = Tail(@)]
  /\ got' = got \cup {r \in Requests : Head(out[c]) = <<r, "question">>}
  /\ UNCHANGED <<gatewayVars, turnVars, conn>>

(* The writer fails with the next message and drops the channel; what it     *)
(* still accepts before is lost as well.                                     *)
ClientLeaves(c) ==
  /\ conn[c] = "open"
  /\ conn' = [conn EXCEPT ![c] = "closed"]
  /\ out' = [out EXCEPT ![c] = <<>>]
  /\ UNCHANGED <<gatewayVars, turnVars, got>>

TurnStep(r) ==
  \/ Refuse(r) \/ PopNothing(r) \/ Pop(r) \/ Notice(r)
  \/ Choose(r) \/ Work(r) \/ Ask(r) \/ Question(r) \/ Complete(r) \/ Respond(r)

Next ==
  \/ \E r \in Requests : Submit(r) \/ TurnStep(r)
  \/ \E c \in Conns : ClientReads(c) \/ ClientLeaves(c)

(* Tasks are polled, and the lock and the channels of tokio are fair to      *)
(* those who wait, hence SF for a turn.  That clients read what they are     *)
(* sent, or leave, is an assumption about them; nothing makes a client send  *)
(* or leave.                                                                 *)
Spec ==
  /\ Init /\ [][Next]_vars
  /\ \A r \in Requests : SF_vars(TurnStep(r))
  /\ \A c \in Conns : WF_vars(ClientReads(c))
-----------------------------------------------------------------------------
(* A question the user has read waits on its page, was taken by exactly one  *)
(* turn, or was overwritten by the question of another turn on the page; and *)
(* no turn takes one that is still pending.                                  *)
QuestionsMeetAnswers ==
  LET Takers(q) == {r \in Requests : used[r] = q} IN
  \A q \in Requests :
    /\ q \in got =>
         pending[PageOf[q]] = q \/ Takers(q) # {} \/ q \in replaced
    /\ Cardinality(Takers(q)) <= 1
    /\ pending[PageOf[q]] = q => Takers(q) = {}

(* A frame the bus has dispatched ends with its response, as long as the     *)
(* clients read: a send that blocks inside the lock is let go in the end.    *)
TurnsEnd == \A r \in Requests : stage[r] # "idle" ~> stage[r] = "done"
=============================================================================
