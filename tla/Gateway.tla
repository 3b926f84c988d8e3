------------------------------ MODULE Gateway ------------------------------
(* GatewayRouter of hydragent-gateway: the duplicate check and the rate     *)
(* limit every intent passes, and the adapters pushes go to.                *)
(*                                                                          *)
(* Time is counted in ticks, a tick being what a limiter takes to earn one  *)
(* token; fractions of a token are not kept.                                *)
EXTENDS Integers, Sequences, FiniteSets

CONSTANTS
  Keys,         \* hashes of (channel, user, content, request id)
  Channels,     \* channel ids
  Conns,        \* connections of the event bus, the adapters' other ends
  None,         \* no adapter
  SeenCap,      \* entries of the LRU cache (1000 in the code)
  Window,       \* ticks in which a repetition counts as a replay (30 s)
  Burst,        \* capacity of the channel's limiter
  MaxTime,      \* bound on the clock
  MaxLooks      \* bound on the look-ups, for the gateway on its own

ASSUME GatewayAssumption ==
  /\ SeenCap \in Nat \ {0}
  /\ Window \in Nat /\ MaxTime \in Nat /\ MaxLooks \in Nat
  /\ Burst \in [Channels -> Nat \ {0}]
  /\ None \notin Conns

VARIABLES
  now,          \* the clock
  seen,         \* the LRU cache, most recently used first
  limiter,      \* limiter[ch]: its tokens and the time it was last asked
  adapters,     \* adapters[ch]: the connection it writes to, or None
  looked,       \* history: every look-up in the cache
  admitted      \* history: admitted[ch], the times the limiter said yes

gatewayVars == <<now, seen, limiter, adapters, looked, admitted>>

Times == 0 .. MaxTime

(* The histories have no bound of their own: they grow with the intents. *)
GatewayTypeOK ==
  /\ now \in Times
  /\ seen \in Seq([key : Keys, at : Times]) /\ Len(seen) <= SeenCap
  /\ limiter \in [Channels -> [tokens : Nat, last : Times]]
  /\ \A ch \in Channels : limiter[ch].tokens <= Burst[ch]
  /\ adapters \in [Channels -> Conns \cup {None}]
  /\ looked \in Seq([key : Keys, at : Times, new : BOOLEAN])
  /\ admitted \in [Channels -> Seq(Times)]

Full(ch) == [tokens |-> Burst[ch], last |-> now]

GatewayInit ==
  /\ now = 0
  /\ seen = <<>>
  /\ limiter = [ch \in Channels |-> Full(ch)]
  /\ adapters = [ch \in Channels |-> None]
  /\ looked = <<>>
  /\ admitted = [ch \in Channels |-> <<>>]
-----------------------------------------------------------------------------
Cached(k) == \E i \in DOMAIN seen : seen[i].key = k
Entry(k) == CHOOSE i \in DOMAIN seen : seen[i].key = k

NotOf(k) ==
  IF Cached(k) THEN SubSeq(seen, 1, Entry(k) - 1) \o SubSeq(seen, Entry(k) + 1, Len(seen))
  ELSE seen

Replay(k) == Cached(k) /\ now - seen[Entry(k)].at < Window

Smaller(x, y) == IF x < y THEN x ELSE y
Trim(s) == SubSeq(s, 1, Smaller(SeenCap, Len(s)))

(* Mistakes, for the mutation runs: the cache evicts what it has just stored; *)
(* tokens pile up while a channel is idle.                                   *)
RefreshedOld(k) == Trim(NotOf(k) \o <<[key |-> k, at |-> now]>>)
EarnedUnbounded(ch) == limiter[ch].tokens + (now - limiter[ch].last)

(* A replay keeps its time and moves to the front; another key is stored in  *)
(* front, and the least recently used entry leaves a full cache.             *)
Refreshed(k) == Trim(<<[key |-> k, at |-> now]>> \o NotOf(k))

Earned(ch) == Smaller(limiter[ch].tokens + (now - limiter[ch].last), Burst[ch])

Allowed(ch) == Earned(ch) >= 1

Passes(k, ch) == ~Replay(k) /\ Allowed(ch)

LookUp(k) ==
  /\ seen' = IF Replay(k) THEN <<seen[Entry(k)]>> \o NotOf(k) ELSE Refreshed(k)
  /\ looked' = Append(looked, [key |-> k, at |-> now, new |-> ~Replay(k)])

(* try_acquire adds what was earned and takes one token if there is one. *)
TryAcquire(ch) ==
  /\ limiter' = [limiter EXCEPT ![ch] =
       [tokens |-> IF Allowed(ch) THEN Earned(ch) - 1 ELSE Earned(ch), last |-> now]]
  /\ admitted' = IF Allowed(ch) THEN [admitted EXCEPT ![ch] = Append(@, now)] ELSE admitted

(* A replay is dropped before the limiter is asked.  The cache and the       *)
(* limiters share no state: their two locks are taken in one step.           *)
InboundCheck(k, ch) ==
  /\ LookUp(k)
  /\ IF Replay(k) THEN UNCHANGED <<limiter, admitted>> ELSE TryAcquire(ch)
  /\ UNCHANGED <<now, adapters>>

(* A registration replaces the channel's adapter and its limiter. *)
RegisterAdapter(ch, c) ==
  /\ adapters' = [adapters EXCEPT ![ch] = c]
  /\ limiter' = [limiter EXCEPT ![ch] = Full(ch)]
  /\ admitted' = [admitted EXCEPT ![ch] = <<>>]
  /\ UNCHANGED <<now, seen, looked>>

Tick ==
  /\ now < MaxTime
  /\ now' = now + 1
  /\ UNCHANGED <<seen, limiter, adapters, looked, admitted>>
-----------------------------------------------------------------------------
(* The gateway on its own, asked at any time about any intent.  The          *)
(* histories stop at MaxLooks look-ups.                                      *)
GatewayNext ==
  \/ \E k \in Keys, ch \in Channels : Len(looked) < MaxLooks /\ InboundCheck(k, ch)
  \/ \E ch \in Channels, c \in Conns : RegisterAdapter(ch, c)
  \/ Tick

GatewaySpec == GatewayInit /\ [][GatewayNext]_gatewayVars
-----------------------------------------------------------------------------
KeysBetween(i, j) == {looked[n].key : n \in i + 1 .. j - 1}

(* The cache forgets: one key passes twice within the window only when as    *)
(* many other keys as the cache holds were looked up in between.             *)
ReplayRefused ==
  \A i, j \in DOMAIN looked :
    /\ i < j /\ looked[i].key = looked[j].key
    /\ looked[i].new /\ looked[j].new
    /\ looked[j].at - looked[i].at < Window
    => Cardinality(KeysBetween(i, j) \ {looked[i].key}) >= SeenCap

(* Between any two intents the limiter admitted since the channel was last   *)
(* registered there are no more than a burst and what was earned meanwhile.  *)
RateBound ==
  \A ch \in Channels : \A i, j \in DOMAIN admitted[ch] :
    i <= j => j - i + 1 <= Burst[ch] + (admitted[ch][j] - admitted[ch][i])
=============================================================================
