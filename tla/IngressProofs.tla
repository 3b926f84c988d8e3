--------------------------- MODULE IngressProofs ---------------------------
(* Theorems about Gateway and Ingress, for every number of keys, channels,  *)
(* connections and requests, every cache and every burst.                   *)
EXTENDS Ingress, FiniteSetTheorems, SequenceTheorems, TLAPS

Entries == [key : Keys, at : Times]
Looks == [key : Keys, at : Times, new : BOOLEAN]

(* A channel's tokens and the intents admitted since any of them are paid   *)
(* for by the burst and the time that has passed.                           *)
Paid(ch) ==
  /\ limiter[ch].last <= now
  /\ \A i \in DOMAIN admitted[ch] :
       /\ admitted[ch][i] <= limiter[ch].last
       /\ Len(admitted[ch]) - i + 1 + limiter[ch].tokens
            <= Burst[ch] + (limiter[ch].last - admitted[ch][i])

BucketInv == \A ch \in Channels : Paid(ch)

(* The other keys looked up since the i-th look-up. *)
Since(i) == {looked[n].key : n \in i + 1 .. Len(looked)} \ {looked[i].key}

(* A key that passed is remembered, in front of all but what was looked up  *)
(* since, until as many others were looked up as the cache holds.           *)
CacheInv ==
  /\ \A i, j \in DOMAIN seen : seen[i].key = seen[j].key => i = j
  /\ \A i \in DOMAIN looked : looked[i].at <= now
  /\ \A i \in DOMAIN looked :
       looked[i].new /\ Cardinality(Since(i)) < SeenCap =>
         \E q \in DOMAIN seen :
           /\ seen[q].key = looked[i].key /\ seen[q].at >= looked[i].at
           /\ \A x \in 1 .. q - 1 : seen[x].key \in Since(i)

GatewayInv == GatewayTypeOK /\ BucketInv /\ RateBound /\ CacheInv /\ ReplayRefused

(* A turn that may have asked a question. *)
HasAsked == {"asked", "finish", "persist", "done"}

(* A question that was asked is where somebody can meet it. *)
Met(q) == pending[PageOf[q]] = q \/ (\E r \in Requests : used[r] = q) \/ q \in replaced

QuestionInv ==
  /\ \A r \in Requests : pending[PageOf[r]] # None =>
       /\ PageOf[pending[PageOf[r]]] = PageOf[r]
       /\ stage[pending[PageOf[r]]] \in HasAsked
  /\ \A r \in Requests : used[r] # None => stage[used[r]] \in HasAsked
  /\ \A r \in Requests : stage[r] \in {"idle", "admitted", "refused"} => used[r] = None
  /\ \A r, t \in Requests : used[r] = used[t] /\ used[r] # None => r = t
  /\ \A q \in Requests : pending[PageOf[q]] = q => \A r \in Requests : used[r] # q
  /\ \A q \in Requests : stage[q] = "asked" \/ q \in got => Met(q)
  /\ \A q \in Requests, c \in Conns : \A i \in DOMAIN out[c] :
       out[c][i] = <<q, "question">> => Met(q)

IngressInv == TypeOK /\ GatewayInv /\ QuestionInv
-----------------------------------------------------------------------------
(* The cache.                                                               *)

\* Where the entry of a key is, or just past the cache.
Place(k) == IF Cached(k) THEN Entry(k) ELSE Len(seen) + 1

LEMMA PlaceOfKey ==
  ASSUME GatewayTypeOK, NEW k \in Keys
  PROVE  /\ Place(k) \in 1 .. Len(seen) + 1 /\ Len(seen) \in Nat
         /\ Cached(k) => Place(k) \in DOMAIN seen /\ seen[Place(k)].key = k
         /\ ~Cached(k) => Place(k) = Len(seen) + 1
         /\ \A i \in DOMAIN seen : seen[i].key = k => Cached(k)
<1>1. seen \in Seq(Entries) /\ DOMAIN seen = 1 .. Len(seen) /\ Len(seen) \in Nat
  BY DEF GatewayTypeOK, Entries
<1>2. CASE Cached(k)
  <2>1. Entry(k) \in DOMAIN seen /\ seen[Entry(k)].key = k
    BY <1>2 DEF Cached, Entry
  <2>2. QED
    BY <1>1, <1>2, <2>1 DEF Place
<1>3. CASE ~Cached(k)
  BY <1>1, <1>3 DEF Place, Cached
<1>4. QED
  BY <1>2, <1>3

\* NotOf leaves out that place and moves what is behind it up by one.
LEMMA NotOfIsTheRest ==
  ASSUME GatewayTypeOK, NEW k \in Keys
  PROVE  /\ NotOf(k) \in Seq(Entries)
         /\ Len(NotOf(k)) = IF Cached(k) THEN Len(seen) - 1 ELSE Len(seen)
         /\ \A x \in 1 .. Len(NotOf(k)) :
              NotOf(k)[x] = IF x < Place(k) THEN seen[x] ELSE seen[x + 1]
<1>1. seen \in Seq(Entries) /\ DOMAIN seen = 1 .. Len(seen) /\ Len(seen) \in Nat
  BY DEF GatewayTypeOK, Entries
<1>2. CASE Cached(k)
  <2> DEFINE e == Entry(k)
             front == SubSeq(seen, 1, e - 1)
             back == SubSeq(seen, e + 1, Len(seen))
  <2>1. Place(k) = e /\ e \in 1 .. Len(seen)
    BY <1>1, <1>2, PlaceOfKey DEF Place
  <2>2. NotOf(k) = front \o back
    BY <1>2 DEF NotOf
  <2> HIDE DEF e
  <2>3. \A i \in 1 .. Len(seen) : seen[i] \in Entries
    BY <1>1
  <2>4. /\ front \in Seq(Entries) /\ Len(front) = e - 1
        /\ \A i \in 1 .. e - 1 : front[i] = seen[i]
    <3>1. \A i \in 1 .. e - 1 : seen[i] \in Entries
      BY <1>1, <2>1, <2>3
    <3>2. /\ front \in Seq(Entries)
          /\ Len(front) = IF 1 <= e - 1 THEN (e - 1) - 1 + 1 ELSE 0
          /\ \A i \in 1 .. (e - 1) - 1 + 1 : front[i] = seen[1 + i - 1]
      BY <2>1, <3>1, SubSeqProperties
    <3>3. QED
      BY <1>1, <2>1, <3>2
  <2>5. /\ back \in Seq(Entries) /\ Len(back) = Len(seen) - e
        /\ \A i \in 1 .. Len(seen) - e : back[i] = seen[e + i]
    <3>1. \A i \in e + 1 .. Len(seen) : seen[i] \in Entries
      BY <1>1, <2>1, <2>3
    <3>2. /\ back \in Seq(Entries)
          /\ Len(back) = IF e + 1 <= Len(seen) THEN Len(seen) - (e + 1) + 1 ELSE 0
          /\ \A i \in 1 .. Len(seen) - (e + 1) + 1 : back[i] = seen[(e + 1) + i - 1]
      BY <1>1, <2>1, <3>1, SubSeqProperties
    <3>3. QED
      BY <1>1, <2>1, <3>2
  <2> HIDE DEF front, back
  <2>6. /\ front \o back \in Seq(Entries)
        /\ Len(front \o back) = Len(front) + Len(back)
        /\ \A i \in 1 .. Len(front) + Len(back) :
             (front \o back)[i] = IF i <= Len(front) THEN front[i] ELSE back[i - Len(front)]
    BY <2>4, <2>5, ConcatProperties
  <2>7. ASSUME NEW x \in 1 .. Len(seen) - 1
        PROVE  NotOf(k)[x] = IF x < Place(k) THEN seen[x] ELSE seen[x + 1]
    <3>1. CASE x < e
      BY <1>1, <2>1, <2>2, <2>4, <2>5, <2>6, <3>1
    <3>2. CASE ~(x < e)
      <4>1. (front \o back)[x] = back[x - (e - 1)]
        BY <1>1, <2>1, <2>4, <2>5, <2>6, <3>2
      <4>2. x - (e - 1) \in 1 .. Len(seen) - e /\ e + (x - (e - 1)) = x + 1
        BY <1>1, <2>1, <3>2
      <4>3. QED
        BY <2>1, <2>2, <2>5, <3>2, <4>1, <4>2
    <3>3. QED
      BY <3>1, <3>2
  <2>8. QED
    BY <1>1, <1>2, <2>1, <2>2, <2>4, <2>5, <2>6, <2>7
<1>3. CASE ~Cached(k)
  <2>1. NotOf(k) = seen /\ Place(k) = Len(seen) + 1
    BY <1>3 DEF NotOf, Place
  <2>2. QED
    BY <1>1, <1>3, <2>1
<1>4. QED
  BY <1>2, <1>3

\* Trim keeps the front of the cache.
LEMMA TrimIsFront ==
  ASSUME NEW s \in Seq(Entries)
  PROVE  /\ Trim(s) \in Seq(Entries) /\ Len(Trim(s)) = Smaller(SeenCap, Len(s))
         /\ \A x \in 1 .. Len(Trim(s)) : Trim(s)[x] = s[x]
<1> DEFINE n == Smaller(SeenCap, Len(s))
<1>1. n \in Nat /\ n <= Len(s) /\ Len(s) \in Nat
  BY GatewayAssumption DEF Smaller
<1>2. \A x \in 1 .. n : s[x] \in Entries
  BY <1>1
<1>3. Trim(s) = SubSeq(s, 1, n)
  BY DEF Trim
<1> HIDE DEF n
<1>4. /\ SubSeq(s, 1, n) \in Seq(Entries)
      /\ Len(SubSeq(s, 1, n)) = IF 1 <= n THEN n - 1 + 1 ELSE 0
      /\ \A i \in 1 .. n - 1 + 1 : SubSeq(s, 1, n)[i] = s[1 + i - 1]
  BY <1>1, <1>2, SubSeqProperties
<1>5. Len(Trim(s)) = n
  BY <1>1, <1>3, <1>4
<1>6. QED
  BY <1>1, <1>3, <1>4, <1>5 DEF n

\* A look-up brings its key to the front; the entries before the key's old
\* place move down by one, the others stay, and a full cache drops its last.
LEMMA LookUpEffect ==
  ASSUME GatewayTypeOK, NEW k \in Keys, LookUp(k)
  PROVE  /\ seen' \in Seq(Entries)
         /\ Len(seen') = IF Cached(k) THEN Len(seen) ELSE Smaller(SeenCap, Len(seen) + 1)
         /\ seen'[1].key = k
         /\ Replay(k) => seen'[1] = seen[Place(k)]
         /\ ~Replay(k) => seen'[1].at = now
         /\ \A x \in 2 .. Len(seen') :
              seen'[x] = IF x <= Place(k) THEN seen[x - 1] ELSE seen[x]
<1>1. seen \in Seq(Entries) /\ DOMAIN seen = 1 .. Len(seen) /\ Len(seen) \in Nat
      /\ Len(seen) <= SeenCap /\ SeenCap \in Nat \ {0}
  BY GatewayAssumption DEF GatewayTypeOK, Entries
<1> DEFINE head == IF Replay(k) THEN seen[Place(k)] ELSE [key |-> k, at |-> now]
           full == <<head>> \o NotOf(k)
<1>2. head \in Entries /\ head.key = k
  <2>1. CASE Replay(k)
    BY <1>1, <2>1, PlaceOfKey DEF Replay
  <2>2. CASE ~Replay(k)
    BY <2>2 DEF Entries, GatewayTypeOK
  <2>3. QED
    BY <2>1, <2>2
<1>3. seen' = IF Replay(k) THEN full ELSE Trim(full)
  BY DEF LookUp, Refreshed, Place, Replay
<1>3a. ~Replay(k) => head.at = now
  OBVIOUS
<1>3b. Replay(k) => head = seen[Place(k)]
  OBVIOUS
<1> HIDE DEF head
<1>4. /\ full \in Seq(Entries) /\ Len(full) = Len(NotOf(k)) + 1 /\ Len(NotOf(k)) \in Nat
      /\ full[1] = head
      /\ \A x \in 2 .. Len(NotOf(k)) + 1 : full[x] = NotOf(k)[x - 1]
  <2>1. <<head>> \in Seq(Entries) /\ Len(<<head>>) = 1 /\ <<head>>[1] = head
    BY <1>2
  <2>2. NotOf(k) \in Seq(Entries)
    BY NotOfIsTheRest
  <2>3. Len(NotOf(k)) \in Nat
    BY <2>2
  <2>4. /\ full \in Seq(Entries)
        /\ Len(full) = Len(<<head>>) + Len(NotOf(k))
        /\ \A i \in 1 .. Len(<<head>>) + Len(NotOf(k)) :
             full[i] = IF i <= Len(<<head>>) THEN <<head>>[i] ELSE NotOf(k)[i - Len(<<head>>)]
    BY <2>1, <2>2, ConcatProperties
  <2> HIDE DEF full
  <2>5. QED
    BY <2>1, <2>3, <2>4
<1> HIDE DEF full
<1>5. /\ Trim(full) \in Seq(Entries) /\ Len(Trim(full)) = Smaller(SeenCap, Len(full))
      /\ \A x \in 1 .. Len(Trim(full)) : Trim(full)[x] = full[x]
  BY <1>4, TrimIsFront
<1>6. Replay(k) => Cached(k)
  BY DEF Replay
<1>7. Len(NotOf(k)) = IF Cached(k) THEN Len(seen) - 1 ELSE Len(seen)
  BY NotOfIsTheRest
<1>8. /\ seen' \in Seq(Entries)
      /\ Len(seen') = IF Cached(k) THEN Len(seen) ELSE Smaller(SeenCap, Len(seen) + 1)
      /\ Len(seen') \in 1 .. Len(full)
      /\ \A x \in 1 .. Len(seen') : seen'[x] = full[x]
  <2>1. CASE Replay(k)
    BY <1>1, <1>3, <1>4, <1>6, <1>7, <2>1
  <2>2. CASE ~Replay(k)
    <3>1. Len(full) = IF Cached(k) THEN Len(seen) ELSE Len(seen) + 1
      <4>1. CASE Cached(k)
        BY <1>1, <1>4, <1>7, <4>1
      <4>2. CASE ~Cached(k)
        BY <1>1, <1>4, <1>7, <4>2
      <4>3. QED
        BY <4>1, <4>2
    <3>2. Len(full) >= 1
      BY <1>4
    <3>3. Smaller(SeenCap, Len(full)) = IF Cached(k) THEN Len(full) ELSE Smaller(SeenCap, Len(seen) + 1)
      BY <1>1, <3>1 DEF Smaller
    <3>4. Smaller(SeenCap, Len(full)) \in 1 .. Len(full)
      BY <1>1, <1>4, <3>2 DEF Smaller
    <3>5. QED
      BY <1>3, <1>5, <2>2, <3>1, <3>3, <3>4
  <2>3. QED
    BY <2>1, <2>2
<1>9. seen'[1] = head
  BY <1>4, <1>8
<1>10. ASSUME NEW x \in 2 .. Len(seen')
       PROVE  seen'[x] = IF x <= Place(k) THEN seen[x - 1] ELSE seen[x]
  <2>1. seen'[x] = full[x] /\ x \in 2 .. Len(NotOf(k)) + 1
    BY <1>4, <1>8
  <2>2. full[x] = NotOf(k)[x - 1] /\ x - 1 \in 1 .. Len(NotOf(k)) /\ (x - 1) + 1 = x
    BY <1>4, <2>1
  <2>3. NotOf(k)[x - 1] = IF x - 1 < Place(k) THEN seen[x - 1] ELSE seen[(x - 1) + 1]
    BY <2>2, NotOfIsTheRest
  <2>4. x - 1 < Place(k) <=> x <= Place(k)
    BY <2>1, <1>4, PlaceOfKey
  <2>5. QED
    BY <2>1, <2>2, <2>3, <2>4
<1>11. QED
  BY <1>2, <1>3a, <1>3b, <1>8, <1>9, <1>10
-----------------------------------------------------------------------------
(* The gateway, on its own and inside Ingress.                              *)

GatewayStep ==
  \/ \E k \in Keys, ch \in Channels : InboundCheck(k, ch)
  \/ \E ch \in Channels, c \in Conns : RegisterAdapter(ch, c)
  \/ Tick
  \/ UNCHANGED gatewayVars

LEMMA InitGateway == GatewayInit => GatewayInv
<1> SUFFICES ASSUME GatewayInit PROVE GatewayInv
  OBVIOUS
<1> USE GatewayAssumption DEF GatewayInit
<1>1. GatewayTypeOK
  BY DEF GatewayTypeOK, Times, Full
<1>2. BucketInv
  BY DEF Paid, BucketInv, Full
<1>3. RateBound
  BY DEF RateBound
<1>4. CacheInv /\ ReplayRefused
  BY DEF CacheInv, ReplayRefused
<1>5. QED
  BY <1>1, <1>2, <1>3, <1>4 DEF GatewayInv

\* What is earned is a number of tokens up to the burst, and no more than time
\* has given.
LEMMA EarnedBounds ==
  ASSUME GatewayTypeOK, BucketInv, NEW ch \in Channels
  PROVE  /\ Earned(ch) \in Nat /\ Earned(ch) <= Burst[ch]
         /\ Earned(ch) <= limiter[ch].tokens + (now - limiter[ch].last)
         /\ limiter[ch].tokens \in Nat /\ limiter[ch].last \in Nat /\ now \in Nat
         /\ Burst[ch] \in Nat
<1>1. limiter[ch] \in [tokens : Nat, last : Times] /\ limiter[ch].last <= now
  BY DEF GatewayTypeOK, Paid, BucketInv
<1>2. now \in Nat /\ limiter[ch].last \in Nat /\ limiter[ch].tokens \in Nat
  BY <1>1, GatewayAssumption DEF GatewayTypeOK, Times
<1>3. Burst[ch] \in Nat
  BY GatewayAssumption
<1>4. QED
  BY <1>1, <1>2, <1>3 DEF Earned, Smaller

LEMMA AcquireTypes ==
  ASSUME GatewayTypeOK, BucketInv, NEW ch \in Channels, TryAcquire(ch)
  PROVE  /\ limiter' \in [Channels -> [tokens : Nat, last : Times]]
         /\ \A c \in Channels : limiter'[c].tokens <= Burst[c]
         /\ admitted' \in [Channels -> Seq(Times)]
<1> DEFINE t == IF Allowed(ch) THEN Earned(ch) - 1 ELSE Earned(ch)
<1>1. t \in Nat /\ t <= Burst[ch]
  BY EarnedBounds DEF Allowed
<1>2. limiter' = [limiter EXCEPT ![ch] = [tokens |-> t, last |-> now]]
  BY DEF TryAcquire
<1> HIDE DEF t
<1>3. now \in Times
  BY DEF GatewayTypeOK
<1>4. [tokens |-> t, last |-> now] \in [tokens : Nat, last : Times]
  BY <1>1, <1>3
<1>5. \A c \in Channels : limiter'[c].tokens <= Burst[c]
  BY <1>1, <1>2 DEF GatewayTypeOK
<1>6. admitted' \in [Channels -> Seq(Times)]
  BY <1>3, AppendProperties DEF TryAcquire, GatewayTypeOK
<1>7. QED
  BY <1>2, <1>4, <1>5, <1>6 DEF GatewayTypeOK

LEMMA GatewayTypes == GatewayTypeOK /\ BucketInv /\ GatewayStep => GatewayTypeOK'
<1> SUFFICES ASSUME GatewayTypeOK, BucketInv, GatewayStep PROVE GatewayTypeOK'
  OBVIOUS
<1>1. ASSUME NEW k \in Keys, NEW ch \in Channels, InboundCheck(k, ch) PROVE GatewayTypeOK'
  <2>1. LookUp(k) /\ UNCHANGED <<now, adapters>>
    BY <1>1 DEF InboundCheck
  <2>2. seen' \in Seq(Entries) /\ Len(seen') <= SeenCap
    <3>1. Len(seen') = IF Cached(k) THEN Len(seen) ELSE Smaller(SeenCap, Len(seen) + 1)
      BY <2>1, LookUpEffect
    <3>2. Len(seen) \in Nat /\ Len(seen) <= SeenCap
      BY DEF GatewayTypeOK
    <3>3. QED
      BY <2>1, <3>1, <3>2, LookUpEffect, GatewayAssumption DEF Smaller
  <2>3. looked' \in Seq(Looks)
    <3>1. [key |-> k, at |-> now, new |-> ~Replay(k)] \in Looks
      BY DEF Looks, GatewayTypeOK
    <3>2. looked \in Seq(Looks)
      BY DEF Looks, GatewayTypeOK
    <3>3. QED
      BY <2>1, <3>1, <3>2, AppendProperties DEF LookUp
  <2>4. CASE Replay(k)
    BY <1>1, <2>1, <2>2, <2>3, <2>4 DEF InboundCheck, GatewayTypeOK, Entries, Looks
  <2>5. CASE ~Replay(k)
    <3>1. TryAcquire(ch)
      BY <1>1, <2>5 DEF InboundCheck
    <3>2. QED
      BY <2>1, <2>2, <2>3, <3>1, AcquireTypes DEF GatewayTypeOK, Entries, Looks
  <2>6. QED
    BY <2>4, <2>5
<1>2. ASSUME NEW ch \in Channels, NEW c \in Conns, RegisterAdapter(ch, c) PROVE GatewayTypeOK'
  <2>1. adapters' \in [Channels -> Conns \cup {None}]
    BY <1>2 DEF RegisterAdapter, GatewayTypeOK
  <2>2. Full(ch) \in [tokens : Nat, last : Times] /\ Full(ch).tokens = Burst[ch] /\ Burst[ch] \in Nat
    BY GatewayAssumption DEF Full, GatewayTypeOK
  <2>3. limiter' \in [Channels -> [tokens : Nat, last : Times]]
        /\ \A d \in Channels : limiter'[d].tokens <= Burst[d]
    BY <1>2, <2>2 DEF RegisterAdapter, GatewayTypeOK
  <2>4. admitted' \in [Channels -> Seq(Times)]
    BY <1>2 DEF RegisterAdapter, GatewayTypeOK
  <2>5. QED
    BY <1>2, <2>1, <2>3, <2>4 DEF RegisterAdapter, GatewayTypeOK
<1>3. CASE Tick
  BY <1>3, GatewayAssumption DEF Tick, GatewayTypeOK, Times
<1>4. CASE UNCHANGED gatewayVars
  BY <1>4 DEF gatewayVars, GatewayTypeOK
<1>5. QED
  BY <1>1, <1>2, <1>3, <1>4 DEF GatewayStep

\* An admission takes a token that the burst or the time since has paid for.
LEMMA AcquireBucket ==
  ASSUME GatewayTypeOK, BucketInv, RateBound, NEW ch \in Channels, TryAcquire(ch), now' = now
  PROVE  BucketInv' /\ RateBound'
<1> DEFINE old == admitted[ch]
           e == Earned(ch)
           t == IF Allowed(ch) THEN e - 1 ELSE e
<1>1. /\ limiter'[ch].tokens = t /\ limiter'[ch].last = now
      /\ \A c \in Channels : c # ch => limiter'[c] = limiter[c] /\ admitted'[c] = admitted[c]
      /\ admitted'[ch] = IF Allowed(ch) THEN Append(old, now) ELSE old
      /\ Allowed(ch) <=> e >= 1
  BY DEF TryAcquire, GatewayTypeOK, Allowed
<1>2. old \in Seq(Times) /\ Times \subseteq Nat
  BY GatewayAssumption DEF GatewayTypeOK, Times
<1>3. /\ e \in Nat /\ e <= Burst[ch]
      /\ e <= limiter[ch].tokens + (now - limiter[ch].last)
      /\ limiter[ch].tokens \in Nat /\ limiter[ch].last \in Nat /\ now \in Nat /\ Burst[ch] \in Nat
  BY EarnedBounds
<1>4. \A i \in DOMAIN old :
        /\ old[i] <= limiter[ch].last
        /\ Len(old) - i + 1 + limiter[ch].tokens <= Burst[ch] + (limiter[ch].last - old[i])
  BY DEF Paid, BucketInv
<1>5. limiter[ch].last <= now
  BY DEF Paid, BucketInv
<1>6. \A i, j \in DOMAIN old : i <= j => j - i + 1 <= Burst[ch] + (old[j] - old[i])
  BY DEF RateBound
<1> HIDE DEF old, e
<1>7. DOMAIN old = 1 .. Len(old) /\ Len(old) \in Nat
  BY <1>2
<1>8. \A i \in 1 .. Len(old) : old[i] \in Nat
  <2>1. \A i \in 1 .. Len(old) : old[i] \in Times
    BY <1>2, <1>7
  <2>2. QED
    BY <1>2, <2>1
<1>9. \A i \in 1 .. Len(old) :
        Len(old) - i + 1 + e <= Burst[ch] + (now - old[i]) /\ old[i] <= now
  <2> SUFFICES ASSUME NEW i \in 1 .. Len(old)
               PROVE  Len(old) - i + 1 + e <= Burst[ch] + (now - old[i]) /\ old[i] <= now
    OBVIOUS
  <2>1. Len(old) - i + 1 \in Nat /\ old[i] \in Nat
    BY <1>7, <1>8
  <2>2. Len(old) - i + 1 + limiter[ch].tokens <= Burst[ch] + (limiter[ch].last - old[i])
        /\ old[i] <= limiter[ch].last
    BY <1>4, <1>7
  <2> DEFINE n == Len(old) - i + 1
             x == old[i]
             tokens == limiter[ch].tokens
             last == limiter[ch].last
             burst == Burst[ch]
  <2>3. /\ n + tokens <= burst + (last - x) /\ x <= last /\ last <= now
        /\ e <= tokens + (now - last)
        /\ n \in Nat /\ x \in Nat /\ tokens \in Nat /\ last \in Nat
        /\ burst \in Nat /\ now \in Nat /\ e \in Nat
    BY <1>3, <1>5, <2>1, <2>2
  <2> HIDE DEF n, x, tokens, last, burst
  <2>4. n + e <= burst + (now - x) /\ x <= now
    BY <2>3
  <2>5. QED
    BY <2>4 DEF n, x, burst
<1>10. CASE Allowed(ch)
  <2> DEFINE new == Append(old, now)
  <2>1. now \in Times /\ admitted'[ch] = new
    BY <1>1, <1>10 DEF GatewayTypeOK
  <2>2. /\ Len(new) = Len(old) + 1 /\ DOMAIN new = 1 .. Len(old) + 1
        /\ \A i \in 1 .. Len(old) : new[i] = old[i]
        /\ new[Len(old) + 1] = now
    BY <1>2, <1>7, <2>1, AppendProperties
  <2> HIDE DEF new
  <2>3. /\ limiter'[ch].tokens = e - 1 /\ e >= 1
    BY <1>1, <1>10
  <2>4. ASSUME NEW i \in DOMAIN new
        PROVE  /\ new[i] \in Nat /\ new[i] <= now
               /\ Len(new) - i + 1 + (e - 1) <= Burst[ch] + (now - new[i])
    <3>1. CASE i \in 1 .. Len(old)
      <4>1. Len(old) - i + 1 + e <= Burst[ch] + (now - old[i]) /\ old[i] <= now /\ old[i] \in Nat
        BY <1>8, <1>9, <3>1
      <4>2. new[i] = old[i]
        BY <2>2, <3>1
      <4>3. QED
        BY <1>3, <1>7, <2>2, <3>1, <4>1, <4>2
    <3>2. CASE i = Len(old) + 1
      BY <1>3, <1>7, <2>2, <3>2
    <3>3. QED
      BY <1>7, <2>2, <3>1, <3>2
  <2>5. ASSUME NEW i \in DOMAIN new, NEW j \in DOMAIN new, i <= j
        PROVE  j - i + 1 <= Burst[ch] + (new[j] - new[i])
    <3>1. CASE j \in 1 .. Len(old)
      <4>1. i \in 1 .. Len(old)
        BY <1>7, <2>2, <2>5, <3>1
      <4>2. QED
        BY <1>6, <1>7, <2>2, <2>5, <3>1, <4>1
    <3>2. CASE j = Len(old) + 1
      <4>1. Len(new) - i + 1 + (e - 1) <= Burst[ch] + (now - new[i])
        BY <2>4
      <4>2. new[j] = now /\ Len(new) = j /\ i \in Int /\ j \in Int /\ new[i] \in Nat
        BY <1>7, <2>2, <2>4, <3>2
      <4>3. QED
        BY <1>3, <2>3, <4>1, <4>2
    <3>3. QED
      BY <1>7, <2>2, <3>1, <3>2
  <2>6. BucketInv'
    <3>1. ASSUME NEW c \in Channels, c # ch PROVE Paid(c)'
      BY <1>1, <3>1 DEF Paid, BucketInv
    <3>2. limiter'[ch].last = now /\ now <= now
      BY <1>1, <1>3
    <3>3. Paid(ch)'
      BY <2>1, <2>3, <2>4, <3>2 DEF Paid
    <3>4. QED
      BY <3>1, <3>3 DEF BucketInv
  <2>7. RateBound'
    BY <1>1, <2>1, <2>5 DEF RateBound
  <2>8. QED
    BY <2>6, <2>7
<1>11. CASE ~Allowed(ch)
  <2>1. admitted'[ch] = old /\ limiter'[ch].tokens = e
    BY <1>1, <1>11
  <2>2. BucketInv'
    <3>1. ASSUME NEW c \in Channels, c # ch PROVE Paid(c)'
      BY <1>1, <3>1 DEF Paid, BucketInv
    <3>2. limiter'[ch].last = now /\ now <= now
      BY <1>1, <1>3
    <3>3. Paid(ch)'
      BY <1>7, <1>9, <2>1, <3>2 DEF Paid
    <3>4. QED
      BY <3>1, <3>3 DEF BucketInv
  <2>3. RateBound'
    BY <1>1, <1>6, <2>1 DEF RateBound
  <2>4. QED
    BY <2>2, <2>3
<1>12. QED
  BY <1>10, <1>11

LEMMA BucketStep ==
  GatewayTypeOK /\ BucketInv /\ RateBound /\ GatewayStep => BucketInv' /\ RateBound'
<1> SUFFICES ASSUME GatewayTypeOK, BucketInv, RateBound, GatewayStep PROVE BucketInv' /\ RateBound'
  OBVIOUS
<1>1. ASSUME NEW k \in Keys, NEW ch \in Channels, InboundCheck(k, ch)
      PROVE  BucketInv' /\ RateBound'
  <2>1. CASE Replay(k)
    BY <1>1, <2>1 DEF InboundCheck, Paid, BucketInv, RateBound
  <2>2. CASE ~Replay(k)
    BY <1>1, <2>2, AcquireBucket DEF InboundCheck
  <2>3. QED
    BY <2>1, <2>2
<1>2. ASSUME NEW ch \in Channels, NEW c \in Conns, RegisterAdapter(ch, c)
      PROVE  BucketInv' /\ RateBound'
  <2>1. /\ limiter'[ch].last = now /\ admitted'[ch] = <<>> /\ now' = now
        /\ \A d \in Channels : d # ch => limiter'[d] = limiter[d] /\ admitted'[d] = admitted[d]
    BY <1>2 DEF RegisterAdapter, Full, GatewayTypeOK
  <2>2. now \in Nat /\ DOMAIN admitted'[ch] = {}
    BY <2>1, GatewayAssumption DEF GatewayTypeOK, Times
  <2>3. QED
    BY <2>1, <2>2 DEF Paid, BucketInv, RateBound
<1>3. CASE Tick
  <2>1. now' = now + 1 /\ UNCHANGED <<limiter, admitted>>
    BY <1>3 DEF Tick
  <2>2. \A ch \in Channels : limiter[ch].last \in Nat /\ now \in Nat
    BY EarnedBounds
  <2>3. QED
    BY <2>1, <2>2 DEF Paid, BucketInv, RateBound
<1>4. CASE UNCHANGED gatewayVars
  BY <1>4 DEF gatewayVars, Paid, BucketInv, RateBound
<1>5. QED
  BY <1>1, <1>2, <1>3, <1>4 DEF GatewayStep
-----------------------------------------------------------------------------
(* What a look-up does to the cache and to the history.                     *)

\* Only finitely many keys were looked up since.
LEMMA SinceIsFinite ==
  ASSUME GatewayTypeOK, NEW i \in DOMAIN looked
  PROVE  IsFiniteSet(Since(i)) /\ Cardinality(Since(i)) \in Nat
<1> DEFINE places == i + 1 .. Len(looked)
           keys == {looked[n].key : n \in places}
           f == [n \in places |-> looked[n].key]
<1>1. DOMAIN looked = 1 .. Len(looked) /\ Len(looked) \in Nat
  BY DEF GatewayTypeOK
<1>2. IsFiniteSet(places)
  BY <1>1, FS_Interval
<1>3. f \in Surjection(places, keys)
  BY DEF Surjection
<1> HIDE DEF f
<1>4. IsFiniteSet(keys)
  BY <1>2, <1>3, FS_Surjection
<1>5. Since(i) \in SUBSET keys
  BY DEF Since
<1> HIDE DEF keys
<1>6. QED
  BY <1>4, <1>5, FS_Subset, FS_CardinalityType

\* Times are numbers, whoever keeps them.
LEMMA TimesAreNumbers ==
  ASSUME GatewayTypeOK
  PROVE  /\ now \in Nat
         /\ \A i \in DOMAIN seen : seen[i].at \in Nat
         /\ \A i \in DOMAIN looked : looked[i].at \in Nat
<1>1. Times \subseteq Nat
  BY GatewayAssumption DEF Times
<1>2. /\ seen \in Seq(Entries) /\ looked \in Seq(Looks) /\ now \in Times
  BY DEF GatewayTypeOK, Entries, Looks
<1>3. /\ \A i \in DOMAIN seen : seen[i] \in Entries
      /\ \A i \in DOMAIN looked : looked[i] \in Looks
  BY <1>2
<1>4. QED
  BY <1>1, <1>2, <1>3 DEF Entries, Looks

\* The history gets the look-up at its end, and the keys looked up since an
\* older one get its key.
LEMMA LookUpHistory ==
  ASSUME GatewayTypeOK, NEW k \in Keys, LookUp(k)
  PROVE  /\ looked' \in Seq(Looks) /\ Len(looked') = Len(looked) + 1 /\ Len(looked) \in Nat
         /\ DOMAIN looked = 1 .. Len(looked) /\ DOMAIN looked' = 1 .. Len(looked) + 1
         /\ \A i \in 1 .. Len(looked) : looked'[i] = looked[i]
         /\ looked'[Len(looked) + 1].key = k /\ looked'[Len(looked) + 1].at = now
         /\ looked'[Len(looked) + 1].new => ~Replay(k)
         /\ \A i \in 1 .. Len(looked) : Since(i)' = Since(i) \cup ({k} \ {looked[i].key})
<1> DEFINE entry == [key |-> k, at |-> now, new |-> ~Replay(k)]
<1>1. entry \in Looks /\ entry.key = k /\ entry.at = now /\ looked \in Seq(Looks)
  BY DEF GatewayTypeOK, Looks
<1>1a. entry.new => ~Replay(k)
  BY Zenon
<1>2. looked' = Append(looked, entry)
  BY DEF LookUp
<1> HIDE DEF entry
<1>3. /\ looked' \in Seq(Looks) /\ Len(looked') = Len(looked) + 1 /\ Len(looked) \in Nat
      /\ DOMAIN looked = 1 .. Len(looked) /\ DOMAIN looked' = 1 .. Len(looked) + 1
      /\ \A i \in 1 .. Len(looked) : looked'[i] = looked[i]
      /\ looked'[Len(looked) + 1] = entry
  BY <1>1, <1>2, AppendProperties
<1>4. ASSUME NEW i \in 1 .. Len(looked)
      PROVE  Since(i)' = Since(i) \cup ({k} \ {looked[i].key})
  <2>1. looked'[i] = looked[i]
    BY <1>3
  <2>2. i + 1 .. Len(looked) + 1 = (i + 1 .. Len(looked)) \cup {Len(looked) + 1}
    BY <1>3
  <2>3. \A n \in i + 1 .. Len(looked) : looked'[n] = looked[n]
    BY <1>3
  <2>4. Since(i)' = {looked'[n].key : n \in i + 1 .. Len(looked) + 1} \ {looked[i].key}
    BY <1>3, <2>1 DEF Since
  <2>5. {looked'[n].key : n \in i + 1 .. Len(looked) + 1}
          = {looked[n].key : n \in i + 1 .. Len(looked)} \cup {k}
    BY <1>1, <1>3, <2>2, <2>3
  <2>6. QED
    BY <2>4, <2>5 DEF Since
<1>5. QED
  BY <1>1, <1>1a, <1>3, <1>4

\* Where an entry of the cache was before the look-up.
Source(k, x) == IF x <= Place(k) THEN x - 1 ELSE x

LEMMA OthersMove ==
  ASSUME GatewayTypeOK, CacheInv, NEW k \in Keys, LookUp(k)
  PROVE  /\ \A x \in 2 .. Len(seen') :
              /\ Source(k, x) \in DOMAIN seen /\ seen'[x] = seen[Source(k, x)]
              /\ seen[Source(k, x)].key # k
         /\ Len(seen') \in Nat /\ Len(seen') >= 1
         /\ DOMAIN seen' = 1 .. Len(seen') /\ DOMAIN seen = 1 .. Len(seen)
<1>1. /\ seen' \in Seq(Entries)
      /\ Len(seen') = IF Cached(k) THEN Len(seen) ELSE Smaller(SeenCap, Len(seen) + 1)
  BY LookUpEffect
<1>2. /\ Place(k) \in 1 .. Len(seen) + 1 /\ Len(seen) \in Nat
      /\ Cached(k) => Place(k) \in DOMAIN seen /\ seen[Place(k)].key = k
      /\ ~Cached(k) => Place(k) = Len(seen) + 1
      /\ \A i \in DOMAIN seen : seen[i].key = k => Cached(k)
  BY PlaceOfKey
<1>3. DOMAIN seen' = 1 .. Len(seen') /\ Len(seen') \in Nat /\ DOMAIN seen = 1 .. Len(seen)
  BY <1>1 DEF GatewayTypeOK
<1>4. Len(seen') >= 1 /\ (Cached(k) => Len(seen') = Len(seen))
      /\ (~Cached(k) => Len(seen') <= Len(seen) + 1)
  <2>1. CASE Cached(k)
    BY <1>1, <1>2, <1>3, <2>1
  <2>2. CASE ~Cached(k)
    <3>1. Len(seen') = Smaller(SeenCap, Len(seen) + 1) /\ SeenCap \in Nat /\ SeenCap >= 1
      BY <1>1, <2>2, GatewayAssumption
    <3>2. QED
      BY <1>2, <2>2, <3>1 DEF Smaller
  <2>3. QED
    BY <2>1, <2>2
<1>5. ASSUME NEW x \in 2 .. Len(seen')
      PROVE  /\ Source(k, x) \in DOMAIN seen /\ seen'[x] = seen[Source(k, x)]
             /\ seen[Source(k, x)].key # k
  <2>1. Source(k, x) \in 1 .. Len(seen) /\ Source(k, x) # Place(k)
    <3>1. CASE Cached(k)
      BY <1>2, <1>3, <1>4, <3>1 DEF Source
    <3>2. CASE ~Cached(k)
      <4>1. Place(k) = Len(seen) + 1 /\ Len(seen') <= Len(seen) + 1
        BY <1>2, <1>4, <3>2
      <4>2. x <= Place(k)
        BY <1>2, <1>3, <4>1
      <4>3. QED
        BY <1>2, <1>3, <4>1, <4>2 DEF Source
    <3>3. QED
      BY <3>1, <3>2
  <2>2. seen'[x] = seen[Source(k, x)]
    BY LookUpEffect DEF Source
  <2>3. seen[Source(k, x)].key # k
    BY <1>2, <1>3, <2>1 DEF CacheInv
  <2>4. QED
    BY <1>3, <2>1, <2>2, <2>3
<1>6. QED
  BY <1>3, <1>4, <1>5

\* A key stays cached once, in front of all but what was looked up since.
LEMMA RememberedStays ==
  ASSUME GatewayTypeOK, CacheInv, NEW k \in Keys, LookUp(k),
         NEW i \in 1 .. Len(looked), looked[i].new, Cardinality(Since(i)') < SeenCap
  PROVE  \E q \in DOMAIN seen' :
           /\ seen'[q].key = looked[i].key /\ seen'[q].at >= looked[i].at
           /\ \A x \in 1 .. q - 1 : seen'[x].key \in Since(i)'
<1>1. /\ Place(k) \in 1 .. Len(seen) + 1 /\ Len(seen) \in Nat
      /\ Cached(k) => Place(k) \in DOMAIN seen /\ seen[Place(k)].key = k
      /\ ~Cached(k) => Place(k) = Len(seen) + 1
      /\ \A j \in DOMAIN seen : seen[j].key = k => Cached(k)
  BY PlaceOfKey
<1>2. /\ Len(seen') \in Nat /\ Len(seen') >= 1
      /\ DOMAIN seen' = 1 .. Len(seen') /\ DOMAIN seen = 1 .. Len(seen)
  BY OthersMove
<1>3. /\ Since(i)' = Since(i) \cup ({k} \ {looked[i].key})
      /\ DOMAIN looked = 1 .. Len(looked) /\ DOMAIN looked' = 1 .. Len(looked) + 1
      /\ Len(looked) \in Nat
  BY LookUpHistory
<1>4. IsFiniteSet(Since(i)') /\ Cardinality(Since(i)) < SeenCap
  <2>1. IsFiniteSet(Since(i)) /\ Cardinality(Since(i)) \in Nat
    BY <1>3, SinceIsFinite
  <2>2. IsFiniteSet(Since(i)')
    <3>1. CASE k = looked[i].key
      BY <1>3, <2>1, <3>1
    <3>2. CASE k # looked[i].key
      <4>1. Since(i)' = Since(i) \cup {k}
        BY <1>3, <3>2
      <4>2. QED
        BY <2>1, <4>1, FS_AddElement
    <3>3. QED
      BY <3>1, <3>2
  <2>3. Cardinality(Since(i)) <= Cardinality(Since(i)') /\ Cardinality(Since(i)') \in Nat
    BY <1>3, <2>2, FS_Subset, FS_CardinalityType
  <2>4. QED
    BY <2>1, <2>2, <2>3, GatewayAssumption
<1>5. PICK q \in DOMAIN seen :
        /\ seen[q].key = looked[i].key /\ seen[q].at >= looked[i].at
        /\ \A x \in 1 .. q - 1 : seen[x].key \in Since(i)
  BY <1>3, <1>4 DEF CacheInv
<1>6. CASE looked[i].key = k
  <2>1. Cached(k) /\ q = Place(k)
    BY <1>1, <1>5, <1>6 DEF CacheInv
  <2>2. seen'[1].key = looked[i].key /\ seen'[1].at >= looked[i].at
    <3>1. CASE Replay(k)
      BY <1>5, <1>6, <2>1, <3>1, LookUpEffect
    <3>2. CASE ~Replay(k)
      <4>1. looked[i].at <= now
        BY <1>3 DEF CacheInv
      <4>2. seen'[1].at = now /\ seen'[1].key = k
        BY <3>2, LookUpEffect
      <4>3. QED
        BY <1>6, <4>1, <4>2
    <3>3. QED
      BY <3>1, <3>2
  <2>3. 1 \in DOMAIN seen' /\ 1 .. 1 - 1 = {}
    BY <1>2
  <2>4. QED
    BY <2>2, <2>3
<1>7. CASE looked[i].key # k
  <2>1. k \in Since(i)' /\ Since(i) \subseteq Since(i)'
    BY <1>3, <1>7
  <2>2. q # Place(k) /\ q \in Nat /\ q >= 1
    BY <1>1, <1>2, <1>5, <1>7
  <2>3. CASE q < Place(k)
    <3>1. q + 1 \in DOMAIN seen'
      <4>1. CASE Cached(k)
        <5>1. Len(seen') = Len(seen)
          BY <4>1, LookUpEffect
        <5>2. QED
          BY <1>1, <1>2, <2>2, <2>3, <4>1, <5>1
      <4>2. CASE ~Cached(k)
        <5>1. Len(seen') = Smaller(SeenCap, Len(seen) + 1)
          BY <4>2, LookUpEffect
        <5>2. q <= Cardinality(Since(i)')
          <6> DEFINE f == [x \in 1 .. q |-> IF x = q THEN k ELSE seen[x].key]
          <6>1. SUFFICES ASSUME Cardinality(Since(i)') < q PROVE FALSE
            BY <1>4, <2>2, FS_CardinalityType
          <6>2. f \in [1 .. q -> Since(i)']
            BY <1>5, <2>1, <2>2
          <6>3. IsFiniteSet(1 .. q) /\ Cardinality(1 .. q) = q
            BY <2>2, FS_Interval
          <6> HIDE DEF f
          <6>4. PICK x \in 1 .. q, y \in 1 .. q : x # y /\ f[x] = f[y]
            BY <1>4, <6>1, <6>2, <6>3, FS_PigeonHole
          <6>5. x \in DOMAIN seen /\ y \in DOMAIN seen
            BY <1>2, <1>5
          <6>6. QED
            BY <1>1, <4>2, <6>4, <6>5 DEF f, CacheInv
        <5>3. Cardinality(Since(i)') \in Nat
          BY <1>4, FS_CardinalityType
        <5>4. QED
          BY <1>2, <1>5, <2>2, <5>1, <5>2, <5>3, GatewayAssumption DEF Smaller
      <4>3. QED
        BY <4>1, <4>2
    <3>2. \A x \in 2 .. q + 1 : seen'[x] = seen[x - 1]
      <4> SUFFICES ASSUME NEW x \in 2 .. q + 1 PROVE seen'[x] = seen[x - 1]
        OBVIOUS
      <4>1. x \in 2 .. Len(seen') /\ x <= Place(k)
        BY <1>1, <1>2, <2>2, <2>3, <3>1
      <4>2. QED
        BY <4>1, LookUpEffect
    <3>3. seen'[q + 1] = seen[q]
      BY <2>2, <3>2
    <3>4. ASSUME NEW x \in 1 .. (q + 1) - 1 PROVE seen'[x].key \in Since(i)'
      <4>1. CASE x = 1
        BY <2>1, <4>1, LookUpEffect
      <4>2. CASE x # 1
        <5>1. x - 1 \in 1 .. q - 1 /\ x \in 2 .. q + 1
          BY <2>2, <4>2
        <5>2. QED
          BY <1>5, <2>1, <3>2, <5>1
      <4>3. QED
        BY <4>1, <4>2
    <3>5. QED
      BY <1>5, <3>1, <3>3, <3>4
  <2>4. CASE Place(k) < q
    <3>1. Cached(k) /\ Len(seen') = Len(seen)
      <4>1. Cached(k)
        BY <1>1, <1>2, <2>2, <2>4
      <4>2. QED
        BY <4>1, LookUpEffect
    <3>2. q \in DOMAIN seen' /\ q \in 2 .. Len(seen')
      BY <1>1, <1>2, <1>5, <2>2, <2>4, <3>1
    <3>3. seen'[q] = seen[q]
      <4>1. ~(q <= Place(k))
        BY <1>1, <2>2, <2>4
      <4>2. QED
        BY <3>2, <4>1, LookUpEffect
    <3>4. ASSUME NEW x \in 1 .. q - 1 PROVE seen'[x].key \in Since(i)'
      <4>1. CASE x = 1
        BY <2>1, <4>1, LookUpEffect
      <4>2. CASE x # 1
        <5>1. x \in 2 .. Len(seen') /\ Source(k, x) \in 1 .. q - 1
          BY <1>1, <2>2, <2>4, <3>2, <4>2 DEF Source
        <5>2. seen'[x] = seen[Source(k, x)]
          BY <5>1, OthersMove
        <5>3. QED
          BY <1>5, <2>1, <5>1, <5>2
      <4>3. QED
        BY <4>1, <4>2
    <3>5. QED
      BY <1>5, <3>2, <3>3, <3>4
  <2>5. QED
    BY <1>1, <2>2, <2>3, <2>4
<1>8. QED
  BY <1>6, <1>7

LEMMA CacheLookUp ==
  ASSUME GatewayTypeOK, CacheInv, NEW k \in Keys, LookUp(k), now' = now
  PROVE  CacheInv'
<1>1. /\ Len(looked') = Len(looked) + 1 /\ Len(looked) \in Nat
      /\ DOMAIN looked = 1 .. Len(looked) /\ DOMAIN looked' = 1 .. Len(looked) + 1
      /\ \A i \in 1 .. Len(looked) : looked'[i] = looked[i]
      /\ looked'[Len(looked) + 1].key = k /\ looked'[Len(looked) + 1].at = now
      /\ looked'[Len(looked) + 1].new => ~Replay(k)
  BY LookUpHistory
<1>2. /\ Len(seen') \in Nat /\ Len(seen') >= 1
      /\ DOMAIN seen' = 1 .. Len(seen') /\ DOMAIN seen = 1 .. Len(seen)
      /\ seen'[1].key = k /\ (~Replay(k) => seen'[1].at = now)
  BY OthersMove, LookUpEffect
<1>3. now \in Nat
  BY GatewayAssumption DEF GatewayTypeOK, Times
<1>4. ASSUME NEW x \in DOMAIN seen', NEW y \in DOMAIN seen', seen'[x].key = seen'[y].key
      PROVE  x = y
  <2>1. CASE x = 1 \/ y = 1
    <3>1. \A z \in DOMAIN seen' : z # 1 => seen'[z].key # k
      <4> SUFFICES ASSUME NEW z \in DOMAIN seen', z # 1 PROVE seen'[z].key # k
        OBVIOUS
      <4>1. z \in 2 .. Len(seen')
        BY <1>2
      <4>2. QED
        BY <4>1, OthersMove
    <3>2. QED
      BY <1>2, <1>4, <2>1, <3>1
  <2>2. CASE x # 1 /\ y # 1
    <3>1. x \in 2 .. Len(seen') /\ y \in 2 .. Len(seen')
      BY <1>2, <2>2
    <3>2. /\ Source(k, x) \in DOMAIN seen /\ seen'[x] = seen[Source(k, x)]
          /\ Source(k, y) \in DOMAIN seen /\ seen'[y] = seen[Source(k, y)]
      BY <3>1, OthersMove
    <3>3. Source(k, x) = Source(k, y) /\ Source(k, x) # Place(k)
      <4>1. Source(k, x) = Source(k, y)
        BY <1>4, <3>2 DEF CacheInv
      <4>2. Place(k) \in Nat
        BY PlaceOfKey
      <4>3. QED
        BY <3>1, <4>1, <4>2 DEF Source
    <3>4. Place(k) \in Nat
      BY PlaceOfKey
    <3>5. QED
      BY <3>1, <3>3, <3>4 DEF Source
  <2>3. QED
    BY <2>1, <2>2
<1>5. \A i \in DOMAIN looked' : looked'[i].at <= now
  <2> SUFFICES ASSUME NEW i \in DOMAIN looked' PROVE looked'[i].at <= now
    OBVIOUS
  <2>1. CASE i \in 1 .. Len(looked)
    BY <1>1, <2>1 DEF CacheInv
  <2>2. CASE i = Len(looked) + 1
    BY <1>1, <1>3, <2>2
  <2>3. QED
    BY <1>1, <2>1, <2>2
<1>6. ASSUME NEW i \in DOMAIN looked', looked'[i].new, Cardinality(Since(i)') < SeenCap
      PROVE  \E q \in DOMAIN seen' :
               /\ seen'[q].key = looked'[i].key /\ seen'[q].at >= looked'[i].at
               /\ \A x \in 1 .. q - 1 : seen'[x].key \in Since(i)'
  <2>1. CASE i \in 1 .. Len(looked)
    <3>1. looked'[i] = looked[i]
      BY <1>1, <2>1
    <3>2. looked[i].new
      BY <1>6, <3>1
    <3>3. QED
      BY <1>6, <2>1, <3>1, <3>2, RememberedStays
  <2>2. CASE i = Len(looked) + 1
    <3>1. seen'[1].key = looked'[i].key /\ seen'[1].at >= looked'[i].at
      BY <1>1, <1>2, <1>3, <1>6, <2>2
    <3>2. 1 \in DOMAIN seen' /\ 1 .. 1 - 1 = {}
      BY <1>2
    <3>3. QED
      BY <3>1, <3>2
  <2>3. QED
    BY <1>1, <2>1, <2>2
<1>7. QED
  BY <1>4, <1>5, <1>6 DEF CacheInv

\* A key that passes again was not cached as fresh, so as many others were
\* looked up as the cache holds.
LEMMA ReplayLookUp ==
  ASSUME GatewayTypeOK, CacheInv, ReplayRefused, NEW k \in Keys, LookUp(k)
  PROVE  ReplayRefused'
<1>1. /\ Len(looked') = Len(looked) + 1 /\ Len(looked) \in Nat
      /\ DOMAIN looked = 1 .. Len(looked) /\ DOMAIN looked' = 1 .. Len(looked) + 1
      /\ \A i \in 1 .. Len(looked) : looked'[i] = looked[i]
      /\ looked'[Len(looked) + 1].key = k /\ looked'[Len(looked) + 1].at = now
      /\ looked'[Len(looked) + 1].new => ~Replay(k)
  BY LookUpHistory
<1>2. SUFFICES ASSUME NEW i \in 1 .. Len(looked) + 1, NEW j \in 1 .. Len(looked) + 1,
                      i < j, looked'[i].key = looked'[j].key,
                      looked'[i].new, looked'[j].new, looked'[j].at - looked'[i].at < Window
               PROVE  Cardinality(KeysBetween(i, j)' \ {looked'[i].key}) >= SeenCap
  BY <1>1 DEF ReplayRefused
<1>3. i \in 1 .. Len(looked) /\ looked'[i] = looked[i]
  BY <1>1, <1>2
<1>4. KeysBetween(i, j)' = KeysBetween(i, j)
  <2>1. \A n \in i + 1 .. j - 1 : looked'[n] = looked[n]
    BY <1>1, <1>2, <1>3
  <2>2. QED
    BY <2>1 DEF KeysBetween
<1>5. CASE j \in 1 .. Len(looked)
  <2>1. looked'[j] = looked[j]
    BY <1>1, <1>5
  <2>2. QED
    BY <1>1, <1>2, <1>3, <1>4, <1>5, <2>1 DEF ReplayRefused
<1>6. CASE j = Len(looked) + 1
  <2>1. looked[i].key = k /\ ~Replay(k) /\ looked[i].new /\ now - looked[i].at < Window
    BY <1>1, <1>2, <1>3, <1>6
  <2>2. KeysBetween(i, j) \ {looked[i].key} = Since(i)
    <3>1. j - 1 = Len(looked)
      BY <1>1, <1>6
    <3>2. QED
      BY <3>1 DEF KeysBetween, Since
  <2>3. Cardinality(Since(i)) \in Nat
    BY <1>1, <1>3, SinceIsFinite
  <2>4. ASSUME Cardinality(Since(i)) < SeenCap PROVE FALSE
    <3>1. PICK q \in DOMAIN seen : seen[q].key = k /\ seen[q].at >= looked[i].at
      BY <1>1, <1>3, <2>1, <2>4 DEF CacheInv
    <3>2. Cached(k) /\ Place(k) \in DOMAIN seen /\ seen[Place(k)].key = k
      BY <3>1, PlaceOfKey
    <3>3. q = Entry(k)
      BY <3>1, <3>2 DEF CacheInv, Place
    <3>4. seen[q].at \in Nat /\ looked[i].at \in Nat /\ now \in Nat
      BY <1>1, <1>3, <3>1, TimesAreNumbers
    <3>5. now - seen[q].at < Window
      BY <2>1, <3>1, <3>4, GatewayAssumption
    <3>6. QED
      BY <2>1, <3>2, <3>3, <3>5 DEF Replay
  <2>5. Cardinality(Since(i)) >= SeenCap
    BY <2>3, <2>4, GatewayAssumption
  <2>6. KeysBetween(i, j)' \ {looked'[i].key} = Since(i)
    BY <1>3, <1>4, <2>2
  <2>7. QED
    BY <2>5, <2>6
<1>7. QED
  BY <1>1, <1>5, <1>6

LEMMA CacheStep ==
  GatewayTypeOK /\ CacheInv /\ ReplayRefused /\ GatewayStep => CacheInv' /\ ReplayRefused'
<1> SUFFICES ASSUME GatewayTypeOK, CacheInv, ReplayRefused, GatewayStep
             PROVE  CacheInv' /\ ReplayRefused'
  OBVIOUS
<1>1. ASSUME NEW k \in Keys, NEW ch \in Channels, InboundCheck(k, ch)
      PROVE  CacheInv' /\ ReplayRefused'
  BY <1>1, CacheLookUp, ReplayLookUp DEF InboundCheck
<1>2. ASSUME UNCHANGED <<seen, looked>>, now' = now \/ now' = now + 1 PROVE CacheInv' /\ ReplayRefused'
  <2>1. \A i \in DOMAIN looked : now' >= looked[i].at
    BY <1>2, TimesAreNumbers DEF CacheInv
  <2>2. \A i : Since(i)' = Since(i)
    BY <1>2 DEF Since
  <2>3. \A i, j : KeysBetween(i, j)' = KeysBetween(i, j)
    BY <1>2 DEF KeysBetween
  <2>4. CacheInv'
    BY <1>2, <2>1, <2>2 DEF CacheInv
  <2>5. ReplayRefused'
    BY <1>2, <2>3 DEF ReplayRefused
  <2>6. QED
    BY <2>4, <2>5
<1>3. now \in Nat
  BY GatewayAssumption DEF GatewayTypeOK, Times
<1>4. CASE \E ch \in Channels, c \in Conns : RegisterAdapter(ch, c)
  BY <1>2, <1>3, <1>4 DEF RegisterAdapter
<1>5. CASE Tick
  BY <1>2, <1>3, <1>5 DEF Tick
<1>6. CASE UNCHANGED gatewayVars
  BY <1>2, <1>3, <1>6 DEF gatewayVars
<1>7. QED
  BY <1>1, <1>4, <1>5, <1>6 DEF GatewayStep

LEMMA GatewayStepKeeps == GatewayInv /\ GatewayStep => GatewayInv'
BY GatewayTypes, BucketStep, CacheStep DEF GatewayInv

LEMMA GatewayInvariant == GatewaySpec => []GatewayInv
<1>1. [GatewayNext]_gatewayVars => GatewayStep
  BY DEF GatewayNext, GatewayStep
<1>2. QED
  BY <1>1, InitGateway, GatewayStepKeeps, PTL DEF GatewaySpec

(* The gateway's state is what GatewayRouter can hold: the cache within its  *)
(* capacity, every limiter within its burst.                                 *)
THEOREM GatewayTypeCorrect == GatewaySpec => []GatewayTypeOK
<1>1. GatewayInv => GatewayTypeOK
  BY DEF GatewayInv
<1>2. QED
  BY <1>1, GatewayInvariant, PTL

(* Between any two intents try_acquire admits on a channel, there are no     *)
(* more than a burst and what was earned meanwhile.                          *)
THEOREM RateBoundHolds == GatewaySpec => []RateBound
<1>1. GatewayInv => RateBound
  BY DEF GatewayInv
<1>2. QED
  BY <1>1, GatewayInvariant, PTL

(* A key passes inbound_check twice within the window only when as many      *)
(* other keys as the cache holds were looked up in between.                  *)
THEOREM ReplayRefusedHolds == GatewaySpec => []ReplayRefused
<1>1. GatewayInv => ReplayRefused
  BY DEF GatewayInv
<1>2. QED
  BY <1>1, GatewayInvariant, PTL
-----------------------------------------------------------------------------
(* The turns.                                                               *)

LEMMA IngressStepsTheGateway == [Next]_vars => GatewayStep
<1> SUFFICES ASSUME [Next]_vars PROVE GatewayStep
  OBVIOUS
<1>1. ASSUME NEW r \in Requests, Submit(r) PROVE GatewayStep
  <2>1. KeyOf[r] \in Keys /\ ChannelOf[r] \in Channels
    BY IngressAssumption
  <2>2. QED
    BY <1>1, <2>1 DEF Submit, GatewayStep
<1>2. ASSUME NEW r \in Requests, TurnStep(r) PROVE UNCHANGED gatewayVars
  BY <1>2 DEF TurnStep, Refuse, PopNothing, Pop, Notice, Choose, Work, Ask, Question, Complete, Respond
<1>3. ASSUME NEW c \in Conns, ClientReads(c) \/ ClientLeaves(c) PROVE UNCHANGED gatewayVars
  BY <1>3 DEF ClientReads, ClientLeaves
<1>4. CASE UNCHANGED vars
  BY <1>4 DEF vars, GatewayStep
<1>5. QED
  BY <1>1, <1>2, <1>3, <1>4 DEF Next, GatewayStep

\* A turn says nothing new, or one message of its own.
Posted(r, kind) ==
  \A c \in Conns : \A i \in DOMAIN out'[c] :
    \/ i \in DOMAIN out[c] /\ out'[c][i] = out[c][i]
    \/ out'[c][i] = <<r, kind>>

LEMMA SaysPosts ==
  ASSUME TypeOK, NEW r \in Requests, NEW kind \in Kinds, Says(r, kind)
  PROVE  /\ Posted(r, kind)
         /\ out' \in [Conns -> Seq(Messages)]
         /\ \A c \in Conns : Len(out'[c]) <= OutCap
<1> DEFINE to == ConnOf[r]
           m == <<r, kind>>
<1>1. to \in Conns /\ m \in Messages /\ OutCap \in Nat
  BY IngressAssumption DEF Messages
<1>2. /\ conn[to] = "open" => Len(out[to]) < OutCap
      /\ out' = IF conn[to] = "open" THEN [out EXCEPT ![to] = Append(@, m)] ELSE out
  BY DEF Says, Send
<1>3. out \in [Conns -> Seq(Messages)] /\ \A c \in Conns : Len(out[c]) <= OutCap
  BY DEF TypeOK
<1>4. CASE conn[to] = "open"
  <2> DEFINE s == out[to]
             new == Append(s, m)
  <2>1. s \in Seq(Messages) /\ Len(s) < OutCap
    BY <1>1, <1>2, <1>3, <1>4
  <2>2. out' = [out EXCEPT ![to] = new]
    BY <1>2, <1>4
  <2> HIDE DEF m, s, to
  <2>3. /\ new \in Seq(Messages) /\ Len(new) = Len(s) + 1 /\ Len(s) \in Nat
        /\ \A i \in 1 .. Len(s) : new[i] = s[i]
        /\ new[Len(s) + 1] = m
        /\ DOMAIN new = 1 .. Len(s) + 1 /\ DOMAIN s = 1 .. Len(s)
    BY <1>1, <2>1, AppendProperties
  <2> HIDE DEF new
  <2>4. \A i \in DOMAIN new : (i \in DOMAIN s /\ new[i] = s[i]) \/ new[i] = m
    BY <2>3
  <2>5. out' \in [Conns -> Seq(Messages)]
    BY <1>3, <2>2, <2>3
  <2>6. \A c \in Conns : Len(out'[c]) <= OutCap
    BY <1>1, <1>3, <2>1, <2>2, <2>3
  <2>7. /\ \A c \in Conns : c # to => out'[c] = out[c]
        /\ out'[to] = new
    BY <1>1, <1>3, <2>2
  <2>8. Posted(r, kind)
    BY <2>4, <2>7 DEF Posted, m, s
  <2>9. QED
    BY <2>5, <2>6, <2>8
<1>5. CASE conn[to] # "open"
  BY <1>2, <1>3, <1>5 DEF Posted
<1>6. QED
  BY <1>4, <1>5

\* A step of a turn that leaves questions and pages alone.
TurnGoesOn(r, s, kind) ==
  /\ Goes(r, s) /\ Posted(r, kind)
  /\ UNCHANGED <<pending, used, replaced, got>>
  /\ s \in Stages \ {"asked"}
  /\ stage[r] \in HasAsked => s \in HasAsked
  /\ s \in {"idle", "admitted", "refused"} => used[r] = None
  /\ kind = "question" => stage[r] = "asked"

LEMMA TurnGoesOnKeeps ==
  ASSUME TypeOK, QuestionInv, NEW r \in Requests, NEW s, NEW kind \in Kinds, TurnGoesOn(r, s, kind)
  PROVE  QuestionInv'
<1>1. /\ stage'[r] = s
      /\ \A q \in Requests : q # r => stage'[q] = stage[q]
      /\ UNCHANGED <<pending, used, replaced, got>>
      /\ s # "asked"
  BY DEF TurnGoesOn, Goes, TypeOK
<1>2. \A q \in Requests : stage[q] \in HasAsked => stage'[q] \in HasAsked
  BY <1>1 DEF TurnGoesOn
<1>3. \A q : Met(q)' <=> Met(q)
  BY <1>1 DEF Met
<1>4. \A t \in Requests : pending'[PageOf[t]] # None =>
        /\ PageOf[pending'[PageOf[t]]] = PageOf[t]
        /\ stage'[pending'[PageOf[t]]] \in HasAsked
  <2>1. \A t \in Requests : pending[PageOf[t]] # None => pending[PageOf[t]] \in Requests
    BY DEF TypeOK, Pages
  <2>2. QED
    BY <1>1, <1>2, <2>1 DEF QuestionInv
<1>5. \A t \in Requests : used'[t] # None => stage'[used'[t]] \in HasAsked
  <2>1. \A t \in Requests : used[t] # None => used[t] \in Requests
    BY DEF TypeOK
  <2>2. QED
    BY <1>1, <1>2, <2>1 DEF QuestionInv
<1>6. \A t \in Requests : stage'[t] \in {"idle", "admitted", "refused"} => used'[t] = None
  BY <1>1 DEF QuestionInv, TurnGoesOn
<1>7. \A q, t \in Requests : used'[q] = used'[t] /\ used'[q] # None => q = t
  BY <1>1 DEF QuestionInv
<1>8. \A q \in Requests : pending'[PageOf[q]] = q => \A t \in Requests : used'[t] # q
  BY <1>1 DEF QuestionInv
<1>9. \A q \in Requests : stage'[q] = "asked" \/ q \in got' => Met(q)'
  BY <1>1, <1>3 DEF QuestionInv
<1>10. \A q \in Requests, c \in Conns : \A i \in DOMAIN out'[c] :
         out'[c][i] = <<q, "question">> => Met(q)'
  <2> SUFFICES ASSUME NEW q \in Requests, NEW c \in Conns, NEW i \in DOMAIN out'[c],
                      out'[c][i] = <<q, "question">>
               PROVE  Met(q)
    BY <1>3
  <2>1. CASE i \in DOMAIN out[c] /\ out'[c][i] = out[c][i]
    BY <2>1 DEF QuestionInv
  <2>2. CASE out'[c][i] = <<r, kind>>
    <3>1. q = r /\ kind = "question"
      BY <2>2
    <3>2. QED
      BY <3>1 DEF TurnGoesOn, QuestionInv
  <2>3. QED
    BY <2>1, <2>2 DEF TurnGoesOn, Posted
<1>11. QED
  BY <1>4, <1>5, <1>6, <1>7, <1>8, <1>9, <1>10 DEF QuestionInv

\* A turn takes the question of its page off it: it was nobody's.
LEMMA PopKeeps ==
  ASSUME TypeOK, QuestionInv, NEW r \in Requests, Pop(r)
  PROVE  QuestionInv'
<1> DEFINE p == PageOf[r]
           q == pending[p]
<1>1. q \in Requests /\ q # None /\ p \in Pages /\ None \notin Requests
  BY IngressAssumption DEF Pop, TypeOK, Pages
<1>2. PageOf[q] = p /\ stage[q] \in HasAsked /\ stage[r] = "admitted" /\ used[r] = None
  BY <1>1 DEF QuestionInv, Pop
<1>3. \A t \in Requests : used[t] # q
  BY <1>1, <1>2 DEF QuestionInv
<1>4. /\ \A x \in Pages : pending'[x] = IF x = p THEN None ELSE pending[x]
      /\ \A t \in Requests : used'[t] = IF t = r THEN q ELSE used[t]
      /\ \A t \in Requests : stage'[t] = IF t = r THEN "notice" ELSE stage[t]
      /\ UNCHANGED <<replaced, got, out>>
  BY <1>1 DEF Pop, TakenOff, Goes, TypeOK, busVars
<1>5. \A t \in Requests : PageOf[t] \in Pages /\ pending[PageOf[t]] \in Requests \cup {None}
        /\ used[t] \in Requests \cup {None}
  BY DEF TypeOK, Pages
<1> HIDE DEF p, q
<1>6. \A t \in Requests : stage[t] \in HasAsked => stage'[t] \in HasAsked
  BY <1>2, <1>4 DEF HasAsked
<1>7. ASSUME NEW x \in Requests, Met(x) PROVE Met(x)'
  <2>1. CASE pending[PageOf[x]] = x /\ PageOf[x] = p
    <3>1. x = q
      BY <2>1 DEF q
    <3>2. used'[r] = x
      BY <1>4, <3>1
    <3>3. QED
      BY <3>2 DEF Met
  <2>2. CASE pending[PageOf[x]] = x /\ PageOf[x] # p
    BY <1>4, <1>5, <2>2 DEF Met
  <2>3. ASSUME NEW t \in Requests, used[t] = x PROVE Met(x)'
    <3>1. t # r
      BY <1>1, <1>2, <2>3
    <3>2. QED
      BY <1>4, <2>3, <3>1 DEF Met
  <2>4. CASE x \in replaced
    BY <1>4, <2>4 DEF Met
  <2>5. QED
    BY <1>7, <2>1, <2>2, <2>3, <2>4 DEF Met
<1>8. \A t \in Requests : pending'[PageOf[t]] # None =>
        /\ PageOf[pending'[PageOf[t]]] = PageOf[t]
        /\ stage'[pending'[PageOf[t]]] \in HasAsked
  BY <1>4, <1>5, <1>6 DEF QuestionInv
<1>9. \A t \in Requests : used'[t] # None => stage'[used'[t]] \in HasAsked
  BY <1>1, <1>2, <1>4, <1>5, <1>6 DEF QuestionInv
<1>10. \A t \in Requests : stage'[t] \in {"idle", "admitted", "refused"} => used'[t] = None
  BY <1>4 DEF QuestionInv
<1>11. \A x, t \in Requests : used'[x] = used'[t] /\ used'[x] # None => x = t
  BY <1>3, <1>4 DEF QuestionInv
<1>12. \A x \in Requests : pending'[PageOf[x]] = x => \A t \in Requests : used'[t] # x
  BY <1>1, <1>2, <1>4, <1>5 DEF QuestionInv
<1>13. \A x \in Requests : stage'[x] = "asked" \/ x \in got' => Met(x)'
  BY <1>4, <1>7 DEF QuestionInv
<1>14. \A x \in Requests, c \in Conns : \A i \in DOMAIN out'[c] :
         out'[c][i] = <<x, "question">> => Met(x)'
  BY <1>4, <1>7 DEF QuestionInv
<1>15. QED
  BY <1>8, <1>9, <1>10, <1>11, <1>12, <1>13, <1>14 DEF QuestionInv

\* A turn leaves its question on its page: one it overwrites is recorded.
LEMMA AskKeeps ==
  ASSUME TypeOK, QuestionInv, NEW r \in Requests, Ask(r)
  PROVE  QuestionInv'
<1> DEFINE p == PageOf[r]
           q == pending[p]
<1>1. p \in Pages /\ None \notin Requests /\ stage[r] \notin HasAsked
  BY IngressAssumption DEF Ask, Pages, HasAsked
<1>2. /\ \A x \in Pages : pending'[x] = IF x = p THEN r ELSE pending[x]
      /\ \A t \in Requests : stage'[t] = IF t = r THEN "asked" ELSE stage[t]
      /\ replaced' = replaced \cup ({q} \ {None})
      /\ UNCHANGED <<used, got, out>>
  BY <1>1 DEF Ask, Goes, TypeOK, busVars
<1>3. \A t \in Requests : PageOf[t] \in Pages /\ pending[PageOf[t]] \in Requests \cup {None}
        /\ used[t] \in Requests \cup {None}
  BY DEF TypeOK, Pages
<1>4. \A t \in Requests : used[t] # r
  BY <1>1 DEF QuestionInv
<1>5. ASSUME NEW x \in Requests, pending[PageOf[x]] = x, PageOf[x] = p PROVE x = q
  BY <1>5
<1> HIDE DEF p, q
<1>6. \A t \in Requests : stage[t] \in HasAsked => stage'[t] \in HasAsked
  BY <1>2 DEF HasAsked
<1>7. ASSUME NEW x \in Requests, Met(x) PROVE Met(x)'
  <2>1. CASE pending[PageOf[x]] = x /\ PageOf[x] = p
    BY <1>1, <1>2, <1>5, <2>1 DEF Met
  <2>2. CASE pending[PageOf[x]] = x /\ PageOf[x] # p
    BY <1>2, <1>3, <2>2 DEF Met
  <2>3. CASE (\E t \in Requests : used[t] = x) \/ x \in replaced
    BY <1>2, <2>3 DEF Met
  <2>4. QED
    BY <1>7, <2>1, <2>2, <2>3 DEF Met
<1>8. Met(r)'
  BY <1>1, <1>2 DEF Met, p
<1>9. \A t \in Requests : pending'[PageOf[t]] # None =>
        /\ PageOf[pending'[PageOf[t]]] = PageOf[t]
        /\ stage'[pending'[PageOf[t]]] \in HasAsked
  <2> SUFFICES ASSUME NEW t \in Requests, pending'[PageOf[t]] # None
               PROVE  /\ PageOf[pending'[PageOf[t]]] = PageOf[t]
                      /\ stage'[pending'[PageOf[t]]] \in HasAsked
    OBVIOUS
  <2>1. CASE PageOf[t] = p
    <3>1. pending'[PageOf[t]] = r
      BY <1>1, <1>2, <2>1
    <3>2. QED
      BY <1>2, <2>1, <3>1 DEF p, HasAsked
  <2>2. CASE PageOf[t] # p
    BY <1>2, <1>3, <1>6, <2>2 DEF QuestionInv
  <2>3. QED
    BY <2>1, <2>2
<1>10. \A t \in Requests : used'[t] # None => stage'[used'[t]] \in HasAsked
  BY <1>2, <1>3, <1>6 DEF QuestionInv
<1>11. \A t \in Requests : stage'[t] \in {"idle", "admitted", "refused"} => used'[t] = None
  BY <1>2 DEF QuestionInv
<1>12. \A x, t \in Requests : used'[x] = used'[t] /\ used'[x] # None => x = t
  BY <1>2 DEF QuestionInv
<1>13. \A x \in Requests : pending'[PageOf[x]] = x => \A t \in Requests : used'[t] # x
  BY <1>2, <1>3, <1>4 DEF QuestionInv
<1>14. \A x \in Requests : stage'[x] = "asked" \/ x \in got' => Met(x)'
  BY <1>2, <1>7, <1>8 DEF QuestionInv
<1>15. \A x \in Requests, c \in Conns : \A i \in DOMAIN out'[c] :
         out'[c][i] = <<x, "question">> => Met(x)'
  BY <1>2, <1>7 DEF QuestionInv
<1>16. QED
  BY <1>9, <1>10, <1>11, <1>12, <1>13, <1>14, <1>15 DEF QuestionInv

\* What a client reads was sent to it, and what it leaves is lost.
LEMMA ClientTakes ==
  ASSUME TypeOK, QuestionInv, NEW c \in Conns, ClientReads(c) \/ ClientLeaves(c)
  PROVE  /\ QuestionInv'
         /\ out' \in [Conns -> Seq(Messages)] /\ \A d \in Conns : Len(out'[d]) <= OutCap
         /\ got' \subseteq Requests
<1>1. UNCHANGED <<stage, pending, used, replaced>>
  BY DEF ClientReads, ClientLeaves, turnVars
<1>2. \A q : Met(q)' <=> Met(q)
  BY <1>1 DEF Met
<1>3. /\ out \in [Conns -> Seq(Messages)] /\ \A d \in Conns : Len(out[d]) <= OutCap
      /\ got \subseteq Requests /\ OutCap \in Nat
  BY IngressAssumption DEF TypeOK
<1>4. /\ out' \in [Conns -> Seq(Messages)] /\ \A d \in Conns : Len(out'[d]) <= OutCap
      /\ \A d \in Conns : \A i \in DOMAIN out'[d] :
           \E j \in DOMAIN out[d] : out'[d][i] = out[d][j]
      /\ got' \subseteq Requests
      /\ \A q \in got' : q \in got \/ \E j \in DOMAIN out[c] : out[c][j] = <<q, "question">>
  <2>1. CASE ClientReads(c)
    <3> DEFINE s == out[c]
               rest == Tail(s)
    <3>1. s \in Seq(Messages) /\ s # <<>> /\ out' = [out EXCEPT ![c] = rest]
          /\ got' = got \cup {r \in Requests : Head(s) = <<r, "question">>}
          /\ Len(s) <= OutCap
      BY <1>3, <2>1 DEF ClientReads
    <3> HIDE DEF s
    <3>2. /\ rest \in Seq(Messages) /\ Len(rest) = Len(s) - 1
          /\ \A i \in 1 .. Len(rest) : rest[i] = s[i + 1]
      BY <3>1, HeadTailProperties
    <3>3. Len(s) \in Nat /\ Len(s) >= 1 /\ DOMAIN s = 1 .. Len(s) /\ Head(s) = s[1]
      BY <3>1
    <3>4. DOMAIN rest = 1 .. Len(rest)
      BY <3>2
    <3> HIDE DEF rest
    <3>5. \A i \in DOMAIN rest : i + 1 \in DOMAIN s /\ rest[i] = s[i + 1]
      BY <3>2, <3>3, <3>4
    <3>6. out'[c] = rest /\ \A d \in Conns : d # c => out'[d] = out[d]
      BY <1>3, <3>1
    <3>7. out' \in [Conns -> Seq(Messages)]
      BY <1>3, <3>1, <3>2
    <3>8. \A d \in Conns : Len(out'[d]) <= OutCap
      BY <1>3, <3>1, <3>2, <3>3, <3>6
    <3>9. \A d \in Conns : \A i \in DOMAIN out'[d] : \E j \in DOMAIN out[d] : out'[d][i] = out[d][j]
      BY <3>5, <3>6 DEF s
    <3>10. \A q \in got' : q \in got \/ \E j \in DOMAIN out[c] : out[c][j] = <<q, "question">>
      <4>1. 1 \in DOMAIN s
        BY <3>3
      <4>2. \A q \in got' : q \in got \/ s[1] = <<q, "question">>
        BY <3>1, <3>3
      <4>3. QED
        BY <4>1, <4>2 DEF s
    <3>11. got' \subseteq Requests
      BY <1>3, <3>1
    <3>12. QED
      BY <3>7, <3>8, <3>9, <3>10, <3>11
  <2>2. CASE ClientLeaves(c)
    <3>1. out' = [out EXCEPT ![c] = <<>>] /\ got' = got
      BY <2>2 DEF ClientLeaves
    <3>2. <<>> \in Seq(Messages) /\ Len(<<>>) = 0 /\ DOMAIN <<>> = {}
      OBVIOUS
    <3>3. out'[c] = <<>> /\ \A d \in Conns : d # c => out'[d] = out[d]
      BY <1>3, <3>1
    <3>4. out' \in [Conns -> Seq(Messages)]
      BY <1>3, <3>1, <3>2
    <3>5. \A d \in Conns : Len(out'[d]) <= OutCap
      BY <1>3, <3>2, <3>3
    <3>6. QED
      BY <1>3, <3>1, <3>2, <3>3, <3>4, <3>5
  <2>3. QED
    BY <2>1, <2>2
<1>5. \A q \in Requests : stage'[q] = "asked" \/ q \in got' => Met(q)'
  BY <1>1, <1>2, <1>4 DEF QuestionInv
<1>6. \A q \in Requests, d \in Conns : \A i \in DOMAIN out'[d] :
        out'[d][i] = <<q, "question">> => Met(q)'
  <2> SUFFICES ASSUME NEW q \in Requests, NEW d \in Conns, NEW i \in DOMAIN out'[d],
                      out'[d][i] = <<q, "question">>
               PROVE  Met(q)
    BY <1>2
  <2>1. PICK j \in DOMAIN out[d] : out[d][j] = <<q, "question">>
    BY <1>4
  <2>2. QED
    BY <2>1 DEF QuestionInv
<1>7. QuestionInv'
  BY <1>1, <1>5, <1>6 DEF QuestionInv
<1>8. QED
  BY <1>4, <1>7
-----------------------------------------------------------------------------
(* The invariant.                                                           *)

LEMMA InitIngress == Init => IngressInv
<1> SUFFICES ASSUME Init PROVE IngressInv
  OBVIOUS
<1>1. GatewayInv
  BY InitGateway DEF Init
<1>2. TypeOK
  <2>1. out \in [Conns -> Seq(Messages)] /\ \A c \in Conns : Len(out[c]) <= OutCap
    <3>1. <<>> \in Seq(Messages) /\ Len(<<>>) = 0
      OBVIOUS
    <3>2. QED
      BY <3>1, IngressAssumption DEF Init
  <2>2. QED
    BY <1>1, <2>1 DEF Init, TypeOK, GatewayInv, Stages
<1>3. QuestionInv
  <2>1. \A r \in Requests : PageOf[r] \in Pages
    BY DEF Pages
  <2>2. \A q \in Requests : ~Met(q) /\ pending[PageOf[q]] = None /\ used[q] = None /\ q # None
    BY <2>1, IngressAssumption DEF Init, Met
  <2>3. \A c \in Conns : DOMAIN out[c] = {}
    BY DEF Init
  <2>4. \A q \in Requests : stage[q] = "idle" /\ q \notin got
    BY DEF Init
  <2>5. QED
    BY <2>2, <2>3, <2>4 DEF QuestionInv
<1>4. QED
  BY <1>1, <1>2, <1>3 DEF IngressInv

\* The part of the types that the gateway does not keep.
Types ==
  /\ stage \in [Requests -> Stages]
  /\ pending \in [Pages -> Requests \cup {None}]
  /\ holder \in Requests \cup {None}
  /\ used \in [Requests -> Requests \cup {None}]
  /\ replaced \subseteq Requests
  /\ conn \in [Conns -> {"open", "closed"}]
  /\ out \in [Conns -> Seq(Messages)] /\ \A c \in Conns : Len(out[c]) <= OutCap
  /\ got \subseteq Requests

LEMMA SubmitKeeps ==
  ASSUME TypeOK, QuestionInv, NEW r \in Requests, Submit(r)
  PROVE  Types' /\ QuestionInv'
<1> DEFINE s == IF Passes(KeyOf[r], ChannelOf[r]) THEN "admitted" ELSE "refused"
<1>1. Goes(r, s) /\ UNCHANGED <<pending, holder, used, replaced, conn, out, got>>
      /\ stage[r] = "idle"
  BY DEF Submit, busVars
<1>2. s \in {"admitted", "refused"}
  OBVIOUS
<1> HIDE DEF s
<1>3. Types'
  BY <1>1, <1>2 DEF TypeOK, Types, Goes, Stages
<1>4. TurnGoesOn(r, s, "notice")
  BY <1>1, <1>2 DEF TurnGoesOn, Posted, Stages, HasAsked, QuestionInv
<1>5. QED
  BY <1>3, <1>4, TurnGoesOnKeeps DEF Kinds

LEMMA TurnKeeps ==
  ASSUME TypeOK, QuestionInv, NEW r \in Requests, TurnStep(r)
  PROVE  Types' /\ QuestionInv'
<1>1. ASSUME NEW s \in {"popped", "react", "ask", "finish", "persist", "done"}, NEW kind \in Kinds,
             Says(r, kind), Goes(r, s), UNCHANGED <<pending, used, replaced>>,
             holder' \in {holder, None},
             stage[r] \in HasAsked => s \in HasAsked,
             kind = "question" => stage[r] = "asked"
      PROVE  Types' /\ QuestionInv'
  <2>1. UNCHANGED <<conn, got>>
    BY <1>1 DEF Says, Send
  <2>2. Posted(r, kind) /\ out' \in [Conns -> Seq(Messages)]
        /\ \A c \in Conns : Len(out'[c]) <= OutCap
    BY <1>1, SaysPosts
  <2>3. stage' \in [Requests -> Stages]
    BY <1>1 DEF Goes, TypeOK, Stages
  <2>4. Types'
    BY <1>1, <2>1, <2>2, <2>3 DEF TypeOK, Types
  <2>5. TurnGoesOn(r, s, kind)
    BY <1>1, <2>1, <2>2 DEF TurnGoesOn, Stages
  <2>6. QED
    BY <2>4, <2>5, TurnGoesOnKeeps
<1>2. ASSUME NEW s \in {"popped", "finish"}, Goes(r, s),
             UNCHANGED <<pending, holder, used, replaced, conn, out, got>>,
             stage[r] \notin HasAsked
      PROVE  Types' /\ QuestionInv'
  <2>1. TurnGoesOn(r, s, "notice")
    BY <1>2 DEF TurnGoesOn, Posted, Stages
  <2>2. Types'
    BY <1>2 DEF TypeOK, Types, Goes, Stages
  <2>3. QED
    BY <2>1, <2>2, TurnGoesOnKeeps DEF Kinds
<1>3. CASE Refuse(r)
  BY <1>1, <1>3 DEF Refuse, Kinds, HasAsked
<1>4. CASE PopNothing(r)
  BY <1>2, <1>4 DEF PopNothing, HasAsked, busVars
<1>5. CASE Pop(r)
  <2>1. Types'
    <3>1. PageOf[r] \in Pages /\ pending[PageOf[r]] \in Requests \cup {None}
      BY DEF TypeOK, Pages
    <3>2. QED
      BY <1>5, <3>1 DEF Pop, TakenOff, Goes, TypeOK, Types, Stages, busVars
  <2>2. QED
    BY <1>5, <2>1, PopKeeps
<1>6. CASE Notice(r)
  BY <1>1, <1>6 DEF Notice, Kinds, HasAsked, Unlocked
<1>7. CASE Choose(r)
  <2>1. PICK s \in {"react", "ask"} : Goes(r, s)
    BY <1>7 DEF Choose
  <2>2. QED
    BY <1>1, <1>7, <2>1 DEF Choose, Kinds, HasAsked
<1>8. CASE Work(r)
  BY <1>2, <1>8 DEF Work, HasAsked, busVars
<1>9. CASE Ask(r)
  <2>1. Types'
    <3>1. PageOf[r] \in Pages /\ pending[PageOf[r]] \in Requests \cup {None}
      BY DEF TypeOK, Pages
    <3>2. QED
      BY <1>9, <3>1 DEF Ask, Goes, TypeOK, Types, Stages, busVars
  <2>2. QED
    BY <1>9, <2>1, AskKeeps
<1>10. CASE Question(r)
  BY <1>1, <1>10 DEF Question, Kinds, HasAsked
<1>11. CASE Complete(r)
  BY <1>1, <1>11 DEF Complete, Kinds, HasAsked
<1>12. CASE Respond(r)
  BY <1>1, <1>12 DEF Respond, Kinds, HasAsked
<1>13. QED
  BY <1>3, <1>4, <1>5, <1>6, <1>7, <1>8, <1>9, <1>10, <1>11, <1>12 DEF TurnStep

LEMMA IngressStepKeeps == IngressInv /\ [Next]_vars => IngressInv'
<1> SUFFICES ASSUME IngressInv, [Next]_vars PROVE IngressInv'
  OBVIOUS
<1>1. TypeOK /\ GatewayInv /\ QuestionInv
  BY DEF IngressInv
<1>2. GatewayInv'
  BY <1>1, IngressStepsTheGateway, GatewayStepKeeps
<1>3. Types' /\ QuestionInv'
  <2>1. ASSUME NEW r \in Requests, Submit(r) \/ TurnStep(r) PROVE Types' /\ QuestionInv'
    BY <1>1, <2>1, SubmitKeeps, TurnKeeps
  <2>2. ASSUME NEW c \in Conns, ClientReads(c) \/ ClientLeaves(c) PROVE Types' /\ QuestionInv'
    <3>1. /\ QuestionInv'
          /\ out' \in [Conns -> Seq(Messages)] /\ \A d \in Conns : Len(out'[d]) <= OutCap
          /\ got' \subseteq Requests
      BY <1>1, <2>2, ClientTakes
    <3>2. /\ UNCHANGED <<stage, pending, holder, used, replaced>>
          /\ conn' \in [Conns -> {"open", "closed"}]
      BY <1>1, <2>2 DEF ClientReads, ClientLeaves, turnVars, TypeOK
    <3>3. QED
      BY <1>1, <3>1, <3>2 DEF TypeOK, Types
  <2>3. CASE UNCHANGED vars
    <3>1. UNCHANGED <<stage, pending, holder, used, replaced, conn, out, got>>
      BY <2>3 DEF vars, turnVars, busVars
    <3>2. \A q : Met(q)' <=> Met(q)
      BY <3>1 DEF Met
    <3>3. QED
      BY <1>1, <3>1, <3>2 DEF TypeOK, Types, QuestionInv
  <2>4. QED
    BY <2>1, <2>2, <2>3 DEF Next
<1>4. TypeOK'
  BY <1>2, <1>3 DEF TypeOK, Types, GatewayInv
<1>5. QED
  BY <1>2, <1>3, <1>4 DEF IngressInv

LEMMA IngressInvariant == Spec => []IngressInv
BY InitIngress, IngressStepKeeps, PTL DEF Spec

LEMMA InvariantMeetsAnswers == IngressInv => QuestionsMeetAnswers
<1> SUFFICES ASSUME IngressInv, NEW q \in Requests
             PROVE  /\ q \in got => \/ pending[PageOf[q]] = q
                                    \/ {r \in Requests : used[r] = q} # {}
                                    \/ q \in replaced
                    /\ Cardinality({r \in Requests : used[r] = q}) <= 1
                    /\ pending[PageOf[q]] = q => {r \in Requests : used[r] = q} = {}
  BY DEF QuestionsMeetAnswers
<1> DEFINE takers == {r \in Requests : used[r] = q}
<1>1. QuestionInv /\ q # None
  BY IngressAssumption DEF IngressInv
<1>2. q \in got => pending[PageOf[q]] = q \/ takers # {} \/ q \in replaced
  BY <1>1 DEF QuestionInv, Met
<1>3. Cardinality(takers) <= 1
  <2>1. CASE takers = {}
    BY <2>1, FS_EmptySet
  <2>2. CASE takers # {}
    <3>1. PICK r \in takers : TRUE
      BY <2>2
    <3>2. takers = {r}
      BY <1>1, <3>1 DEF QuestionInv
    <3>3. QED
      BY <3>2, FS_Singleton
  <2>3. QED
    BY <2>1, <2>2
<1>4. pending[PageOf[q]] = q => takers = {}
  BY <1>1 DEF QuestionInv
<1>5. QED
  BY <1>2, <1>3, <1>4

(* The types: no outbound channel holds more than its capacity, and what     *)
(* waits on a page or was taken off it is a request.                         *)
THEOREM TypeCorrect == Spec => []TypeOK
<1>1. IngressInv => TypeOK
  BY DEF IngressInv
<1>2. QED
  BY <1>1, IngressInvariant, PTL

(* A question the user has read waits on its page, was taken by exactly one  *)
(* turn or overwritten, whatever turns, clients and closed connections do    *)
(* between the locks and the sends of handle_intent.                         *)
THEOREM QuestionsMeetAnswersHolds == Spec => []QuestionsMeetAnswers
BY InvariantMeetsAnswers, IngressInvariant, PTL

(* The gateway's promises hold for the intents of concurrent turns as well.  *)
THEOREM IngressKeepsTheGateway == Spec => [](RateBound /\ ReplayRefused)
<1>1. IngressInv => RateBound /\ ReplayRefused
  BY DEF IngressInv, GatewayInv
<1>2. QED
  BY <1>1, IngressInvariant, PTL
=============================================================================
