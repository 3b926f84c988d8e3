-------------------------- MODULE PageStoreProofs --------------------------
(***************************************************************************)
(* Theorems about PageStore, for every finite set of turns, every set of    *)
(* compaction requests and every choice of the limits.                      *)
(***************************************************************************)
EXTENDS PageStore, FiniteSetTheorems, WellFoundedInduction, TLAPS

USE TurnsAssumption, JobsAssumption, LimitsAssumption DEF Limits

LEMMA MessagesFinite == IsFiniteSet(Messages)
<1>1. IsFiniteSet(Role)
  <2>1. IsFiniteSet({} \cup {"user"})
    BY FS_EmptySet, FS_AddElement
  <2>2. IsFiniteSet(({} \cup {"user"}) \cup {"assistant"})
    BY <2>1, FS_AddElement
  <2>3. Role = ({} \cup {"user"}) \cup {"assistant"}
    BY DEF Role
  <2>4. QED
    BY <2>2, <2>3
<1>2. QED
  BY <1>1, FS_Product, Zenon DEF Messages

LEMMA SubsetCardinality ==
    ASSUME NEW S \in SUBSET Messages, NEW T \in SUBSET S
    PROVE  /\ IsFiniteSet(S) /\ IsFiniteSet(T)
           /\ Cardinality(S) \in Nat /\ Cardinality(T) \in Nat
           /\ Cardinality(T) <= Cardinality(S)
<1>1. IsFiniteSet(S)
  BY MessagesFinite, FS_Subset
<1>2. IsFiniteSet(T) /\ Cardinality(T) <= Cardinality(S)
  BY <1>1, FS_Subset
<1>3. QED
  BY <1>1, <1>2, FS_CardinalityType

(***************************************************************************)
(* Types.                                                                   *)
(***************************************************************************)

LEMMA InitType == Init => TypeOK
<1> SUFFICES ASSUME Init PROVE TypeOK
  OBVIOUS
<1>1. clock = 0 /\ stamp = [m \in Messages |-> 0]
  BY DEF Init
<1>2. stamp \in [Messages -> 0..clock]
  BY <1>1
<1>3. writing \in [Turns -> Role]
  BY DEF Init, Role
<1>4. meta \in BOOLEAN /\ up \in BOOLEAN
  BY DEF Init
<1>5. /\ history \in [Turns -> SUBSET Messages] /\ batch \in [Jobs -> SUBSET Messages]
      /\ rows \in SUBSET Messages /\ summary \in SUBSET Messages
      /\ committed \in SUBSET Messages /\ dropped \in SUBSET Messages
  BY DEF Init
<1>6. QED
  BY <1>1, <1>2, <1>3, <1>4, <1>5 DEF Init, TypeOK

LEMMA NextType == TypeOK /\ [Next]_vars => TypeOK'
<1> SUFFICES ASSUME TypeOK, [Next]_vars PROVE TypeOK'
  OBVIOUS
<1> USE DEF TypeOK, turnVars, jobVars, ghosts, Goto, JobGoto, Jobs
<1>1. ASSUME NEW t \in Turns, CreatePage(t) PROVE TypeOK'
  BY <1>1 DEF CreatePage
<1>2. ASSUME NEW t \in Turns, LoadHistory(t) PROVE TypeOK'
  <2>1. Oldest(HistoryLimit, rows) \subseteq Messages
    BY DEF Oldest
  <2>2. QED
    BY <1>2, <2>1 DEF LoadHistory
<1>3. ASSUME NEW t \in Turns, Reply(t) PROVE TypeOK'
  BY <1>3 DEF Reply
<1>4. ASSUME NEW t \in Turns, Stamp(t) PROVE TypeOK'
  <2>1. clock' \in Nat /\ clock' = clock + 1
    BY <1>4 DEF Stamp
  <2>2. stamp' = [stamp EXCEPT ![<<t, writing[t]>>] = clock + 1]
    BY <1>4 DEF Stamp, Timestamp
  <2>3. \A m \in Messages : stamp[m] \in 0..clock' /\ clock + 1 \in 0..clock'
    BY <2>1
  <2>4. stamp' \in [Messages -> 0..clock']
    BY <2>2, <2>3
  <2>5. QED
    BY <1>4, <2>1, <2>4 DEF Stamp
<1>5. ASSUME NEW t \in Turns, Insert(t) PROVE TypeOK'
  <2>1. <<t, writing[t]>> \in Messages
    BY DEF Messages
  <2>2. QED
    BY <1>5, <2>1 DEF Insert
<1>6. ASSUME NEW t \in Turns, AppendFails(t) PROVE TypeOK'
  BY <1>6 DEF AppendFails, AfterAppend, Role
<1>7. ASSUME NEW t \in Turns, Upsert(t) PROVE TypeOK'
  BY <1>7 DEF Upsert, AfterAppend, Role
<1>8. ASSUME NEW t \in Turns, CheckCount(t) PROVE TypeOK'
  BY <1>8 DEF CheckCount
<1>9. ASSUME NEW j \in Jobs, RequestCompaction(j) PROVE TypeOK'
  BY <1>9 DEF RequestCompaction
<1>10. ASSUME NEW j \in Jobs, ReadBatch(j) PROVE TypeOK'
  <2>1. Oldest(CompactionReads, rows) \subseteq Messages
    BY DEF Oldest
  <2>2. QED
    BY <1>10, <2>1 DEF ReadBatch
<1>11. ASSUME NEW j \in Jobs, CompactionFails(j) PROVE TypeOK'
  BY <1>11 DEF CompactionFails
<1>12. ASSUME NEW j \in Jobs, SaveSummary(j) PROVE TypeOK'
  BY <1>12 DEF SaveSummary
<1>13. ASSUME NEW j \in Jobs, Truncate(j) PROVE TypeOK'
  BY <1>13 DEF Truncate, Kept, Newest
<1>14. CASE DeleteMessages
  BY <1>14 DEF DeleteMessages
<1>15. CASE DeleteMeta
  BY <1>15 DEF DeleteMeta
<1>16. CASE Crash
  BY <1>16 DEF Crash
<1>17. CASE UNCHANGED vars
  BY <1>17 DEF vars
<1>18. QED
  BY <1>1, <1>2, <1>3, <1>4, <1>5, <1>6, <1>7, <1>8, <1>9, <1>10, <1>11, <1>12,
     <1>13, <1>14, <1>15, <1>16, <1>17 DEF Next

\* The type invariant of a page, its turns and its compactions
\* (IntentSubmitHandler, run_compaction, SessionStore).
THEOREM TypeCorrect == Spec => []TypeOK
BY InitType, NextType, PTL DEF Spec

(***************************************************************************)
(* A page within its limit.  What a compaction keeps is no more than Keep   *)
(* messages, because no two messages have the same timestamp.               *)
(***************************************************************************)

Distinct(S) == \A m, n \in S : stamp[m] = stamp[n] => m = n

\* Every non-empty set of naturals has a least element.
LEMMA MinimumExists ==
    ASSUME NEW S \in SUBSET Nat, S # {}
    PROVE  \E x \in S : \A y \in S : x <= y
<1> DEFINE R == {ss \in Nat \X Nat : ss[1] < ss[2]}
<1>1. IsWellFoundedOn(R, Nat)
  <2>1. R = OpToRel(<, Nat)
    BY DEF OpToRel
  <2>2. QED
    BY <2>1, NatLessThanWellFounded
<1> HIDE DEF R
<1>2. PICK x \in S : \A y \in S : ~ (<<y, x>> \in R)
  BY <1>1, WFMin, Zenon
<1>3. ASSUME NEW y \in S, y < x PROVE FALSE
  <2>1. <<y, x>> \in R
    BY <1>3 DEF R
  <2>2. QED
    BY <1>2, <2>1
<1>4. QED
  BY <1>3

LEMMA NewestBound ==
    ASSUME TypeOK, NEW S \in SUBSET Messages, NEW n \in Nat, Distinct(S)
    PROVE  Cardinality(Newest(n, S)) <= n
<1> DEFINE N == Newest(n, S)
<1>1. N \in SUBSET S /\ IsFiniteSet(N) /\ Cardinality(N) \in Nat
  BY SubsetCardinality DEF Newest
<1>2. CASE N = {}
  BY <1>2, FS_EmptySet
<1>3. CASE N # {}
  <2> DEFINE T == {stamp[m] : m \in N}
  <2>1. T \in SUBSET Nat /\ T # {}
    BY <1>1, <1>3 DEF TypeOK
  <2> HIDE DEF T
  <2>2. PICK x \in T : \A y \in T : x <= y
    BY <2>1, MinimumExists
  <2>3. PICK m \in N : x = stamp[m]
    BY DEF T
  <2>4. \A k \in N : stamp[m] <= stamp[k]
    BY <2>2, <2>3 DEF T
  <2> DEFINE later == {k \in S : stamp[k] > stamp[m]}
  <2>5. \A k \in N \ {m} : stamp[k] # stamp[m]
    BY <1>1, <2>3 DEF Distinct
  <2>6. N \ {m} \subseteq later
    BY <1>1, <2>4, <2>5 DEF TypeOK
  <2>7. Cardinality(N \ {m}) <= Cardinality(later) /\ Cardinality(later) \in Nat
    <3>1. later \in SUBSET Messages /\ N \ {m} \in SUBSET later
      BY <2>6
    <3> HIDE DEF later, N
    <3>2. QED
      BY <3>1, SubsetCardinality
  <2>8. Cardinality(later) < n
    BY DEF Newest
  <2>9. Cardinality(N \ {m}) = Cardinality(N) - 1
    <3> HIDE DEF N
    <3>1. QED
      BY <1>1, FS_RemoveElement
  <2>10. QED
    BY <1>1, <2>7, <2>8, <2>9
<1>4. QED
  BY <1>2, <1>3

(***************************************************************************)
(* The order of messages.  A message is stamped before it is inserted, each *)
(* stamp is new, and a reply is stamped after the query it answers.         *)
(***************************************************************************)

\* What a turn has inserted it has passed.
Written ==
    \A t \in Turns :
        /\ <<t, "user">> \in committed =>
              writing[t] = "assistant" \/ pc[t] \in {"Upsert", "Failed"}
        /\ <<t, "assistant">> \in committed =>
              writing[t] = "assistant" /\ pc[t] \in {"Upsert", "Done", "Failed"}

Ordered ==
    /\ \A m \in committed : stamp[m] > 0
    /\ \A t \in Turns : pc[t] = "Insert" => stamp[<<t, writing[t]>>] > 0
    /\ \A t \in Turns : stamp[<<t, "assistant">>] > 0 =>
          writing[t] = "assistant" /\ stamp[<<t, "user">>] < stamp[<<t, "assistant">>]

StampsDistinct ==
    \A m, n \in Messages : stamp[m] > 0 /\ stamp[m] = stamp[n] => m = n

Tables == rows \subseteq committed /\ dropped \subseteq committed

OrderInv == Written /\ Ordered /\ StampsDistinct /\ Tables

LEMMA InitOrder == Init => OrderInv
BY DEF Init, OrderInv, Written, Ordered, StampsDistinct, Tables, Messages, Role

\* A step that neither stamps nor inserts, and moves a turn only forward.
LEMMA OrderKept ==
    ASSUME TypeOK, OrderInv, UNCHANGED <<stamp, committed, writing>>,
           rows' \subseteq rows, dropped' \subseteq dropped \cup rows,
           \A t \in Turns : \/ pc'[t] \in {pc[t], "Failed"}
                            \/ pc[t] \in {"New", "Load", "Work"} /\ pc'[t] # "Insert"
    PROVE  OrderInv'
<1>1. \A t \in Turns : <<t, "user">> \in Messages /\ <<t, "assistant">> \in Messages
  BY DEF Messages, Role
<1>2. Written'
  BY DEF OrderInv, Written
<1>3. Ordered'
  BY DEF OrderInv, Ordered
<1>4. StampsDistinct' /\ Tables'
  BY DEF OrderInv, StampsDistinct, Tables
<1>5. QED
  BY <1>2, <1>3, <1>4 DEF OrderInv

\* The end of an append: the turn goes on to its reply or is done.
LEMMA OrderAfterAppend ==
    ASSUME TypeOK, OrderInv, NEW t \in Turns, pc[t] \in {"Insert", "Upsert"},
           AfterAppend(t), UNCHANGED <<stamp, rows, committed, dropped>>
    PROVE  OrderInv'
<1>1. \A u \in Turns \ {t} : pc'[u] = pc[u] /\ writing'[u] = writing[u]
  BY DEF AfterAppend, Goto, TypeOK
<1>2. writing'[t] = "assistant" /\ pc'[t] \in {"Stamp", "Done"}
      /\ (writing[t] = "assistant" => pc'[t] = "Done")
      /\ (writing[t] = "user" => pc'[t] = "Stamp")
  BY DEF AfterAppend, Goto, TypeOK, Role
<1>3. <<t, "assistant">> \in committed => writing[t] = "assistant"
  BY DEF OrderInv, Written
<1>4. Written'
  BY <1>1, <1>2, <1>3 DEF OrderInv, Written
<1>5. Ordered'
  BY <1>1, <1>2 DEF OrderInv, Ordered
<1>6. QED
  BY <1>4, <1>5 DEF OrderInv, StampsDistinct, Tables

LEMMA NextOrder == TypeOK /\ OrderInv /\ [Next]_vars => OrderInv'
<1> SUFFICES ASSUME TypeOK, OrderInv, [Next]_vars PROVE OrderInv'
  OBVIOUS
<1> USE DEF turnVars, ghosts
<1>1. ASSUME NEW t \in Turns, CreatePage(t) PROVE OrderInv'
  BY <1>1, OrderKept DEF CreatePage, Goto, TypeOK
<1>2. ASSUME NEW t \in Turns, LoadHistory(t) PROVE OrderInv'
  BY <1>2, OrderKept DEF LoadHistory, Goto, TypeOK
<1>3. ASSUME NEW t \in Turns, Reply(t) PROVE OrderInv'
  BY <1>3, OrderKept DEF Reply, Goto, TypeOK
\* The new stamp is later than every other; the message has not been inserted.
<1>4. ASSUME NEW t \in Turns, Stamp(t) PROVE OrderInv'
  <2> DEFINE m == <<t, writing[t]>>
  <2>1. /\ m \in Messages /\ m \notin committed
        /\ pc[t] = "Stamp" /\ writing[t] \in {"user", "assistant"}
    BY <1>4 DEF Stamp, OrderInv, Written, TypeOK, Messages, Role
  <2>2. /\ stamp'[m] = clock + 1 /\ \A k \in Messages \ {m} : stamp'[k] = stamp[k]
        /\ \A k \in Messages : stamp[k] \in Nat /\ stamp[k] <= clock
    BY <1>4, <2>1 DEF Stamp, Timestamp, TypeOK
  <2>3. /\ \A u \in Turns \ {t} : pc'[u] = pc[u]
        /\ pc'[t] = "Insert" /\ UNCHANGED <<writing, committed, rows, dropped>>
    BY <1>4 DEF Stamp, Goto, TypeOK
  <2>4. Written'
    BY <1>4, <2>1, <2>3 DEF Stamp, OrderInv, Written, Messages
  <2>5. \A k \in committed : stamp[k] > 0 /\ k \in Messages
    BY DEF OrderInv, Ordered, TypeOK
  <2>6. \A k \in committed : stamp'[k] > 0
    BY <2>1, <2>2, <2>5
  <2>7. \A u \in Turns : <<u, writing[u]>> \in Messages
    BY DEF TypeOK, Messages
  <2>8. \A u \in Turns : pc'[u] = "Insert" => stamp'[<<u, writing[u]>>] > 0
    BY <2>2, <2>3, <2>7, Zenon, SMT DEF OrderInv, Ordered, TypeOK
  <2>9. ASSUME NEW u \in Turns, stamp'[<<u, "assistant">>] > 0
        PROVE  writing[u] = "assistant" /\ stamp'[<<u, "user">>] < stamp'[<<u, "assistant">>]
    <3>1. <<u, "user">> \in Messages /\ <<u, "assistant">> \in Messages
      BY DEF Messages, Role
    <3>2. CASE m = <<u, "assistant">>
      <4>1. writing[u] = "assistant" /\ <<u, "user">> # m
        BY <3>2
      <4>2. stamp'[<<u, "user">>] = stamp[<<u, "user">>] /\ stamp[<<u, "user">>] <= clock
        BY <2>2, <3>1, <4>1
      <4>3. stamp'[<<u, "assistant">>] = clock + 1
        BY <2>2, <3>2
      <4>4. stamp[<<u, "user">>] \in Nat /\ clock \in Nat
        BY <2>2, <3>1 DEF TypeOK
      <4>5. QED
        BY <4>1, <4>2, <4>3, <4>4
    <3>3. CASE m # <<u, "assistant">>
      <4>1. stamp'[<<u, "assistant">>] = stamp[<<u, "assistant">>]
        BY <2>2, <3>1, <3>3
      <4>2. writing[u] = "assistant" /\ stamp[<<u, "user">>] < stamp[<<u, "assistant">>]
        BY <2>9, <4>1 DEF OrderInv, Ordered
      <4>3. m # <<u, "user">>
        BY <4>2
      <4>4. QED
        BY <2>2, <3>1, <4>1, <4>2, <4>3
    <3>4. QED
      BY <3>2, <3>3
  <2>10. Ordered'
    BY <2>3, <2>6, <2>8, <2>9 DEF Ordered
  <2>11. StampsDistinct'
    <3> SUFFICES ASSUME NEW k \in Messages, NEW n \in Messages,
                        stamp'[k] > 0, stamp'[k] = stamp'[n]
                 PROVE  k = n
      BY DEF StampsDistinct
    <3>1. CASE k = m \/ n = m
      <4>1. \A l \in Messages \ {m} : stamp'[l] # stamp'[m]
        <5> HIDE DEF m
        <5>1. clock \in Nat
          BY DEF TypeOK
        <5>2. QED
          BY <2>2, <5>1
      <4>2. QED
        BY <3>1, <4>1
    <3>2. CASE k # m /\ n # m
      BY <2>2, <3>2 DEF OrderInv, StampsDistinct
    <3>3. QED
      BY <3>1, <3>2
  <2>12. QED
    BY <2>3, <2>4, <2>10, <2>11 DEF OrderInv, Tables
<1>5. ASSUME NEW t \in Turns, Insert(t) PROVE OrderInv'
  <2> DEFINE m == <<t, writing[t]>>
  <2>1. /\ \A u \in Turns \ {t} : pc'[u] = pc[u]
        /\ pc'[t] = "Upsert" /\ committed' = committed \cup {m}
        /\ UNCHANGED <<writing, stamp, dropped>> /\ rows' = rows \cup {m}
    BY <1>5 DEF Insert, Goto, TypeOK
  <2>2. Written'
    BY <1>5, <2>1 DEF Insert, OrderInv, Written
  <2>3. Ordered'
    BY <1>5, <2>1 DEF Insert, OrderInv, Ordered
  <2>4. QED
    BY <2>1, <2>2, <2>3 DEF OrderInv, StampsDistinct, Tables
<1>6. ASSUME NEW t \in Turns, AppendFails(t) PROVE OrderInv'
  BY <1>6, OrderAfterAppend DEF AppendFails
<1>7. ASSUME NEW t \in Turns, Upsert(t) PROVE OrderInv'
  BY <1>7, OrderAfterAppend DEF Upsert
<1>8. ASSUME NEW t \in Turns, CheckCount(t) PROVE OrderInv'
  BY <1>8, OrderKept DEF CheckCount
<1>9. ASSUME NEW j \in Jobs, RequestCompaction(j) PROVE OrderInv'
  BY <1>9, OrderKept DEF RequestCompaction
<1>10. ASSUME NEW j \in Jobs, ReadBatch(j) PROVE OrderInv'
  BY <1>10, OrderKept DEF ReadBatch
<1>11. ASSUME NEW j \in Jobs, CompactionFails(j) PROVE OrderInv'
  BY <1>11, OrderKept DEF CompactionFails
<1>12. ASSUME NEW j \in Jobs, SaveSummary(j) PROVE OrderInv'
  BY <1>12, OrderKept DEF SaveSummary
<1>13. ASSUME NEW j \in Jobs, Truncate(j) PROVE OrderInv'
  BY <1>13, OrderKept DEF Truncate, Kept, Newest
<1>14. CASE DeleteMessages
  BY <1>14, OrderKept DEF DeleteMessages
<1>15. CASE DeleteMeta
  BY <1>15, OrderKept DEF DeleteMeta
<1>16. CASE Crash
  BY <1>16, OrderKept DEF Crash
<1>17. CASE UNCHANGED vars
  BY <1>17, OrderKept DEF vars
<1>18. QED
  BY <1>1, <1>2, <1>3, <1>4, <1>5, <1>6, <1>7, <1>8, <1>9, <1>10, <1>11, <1>12,
     <1>13, <1>14, <1>15, <1>16, <1>17 DEF Next

LEMMA OrderInvHolds == Spec => []OrderInv
BY InitOrder, NextOrder, TypeCorrect, PTL DEF Spec

(***************************************************************************)
(* What a compaction leaves.                                                *)
(***************************************************************************)

\* With a message, the newer ones are kept.
LEMMA NewestUpward ==
    ASSUME TypeOK, NEW S \in SUBSET Messages, NEW n \in Nat,
           NEW m \in Newest(n, S), NEW k \in S, stamp[k] > stamp[m]
    PROVE  k \in Newest(n, S)
<1> DEFINE afterK == {l \in S : stamp[l] > stamp[k]}
           afterM == {l \in S : stamp[l] > stamp[m]}
<1>1. m \in S /\ Cardinality(afterM) < n
  BY DEF Newest
<1>2. afterM \in SUBSET Messages /\ afterK \in SUBSET afterM
  BY <1>1 DEF TypeOK
<1>3. Cardinality(afterK) <= Cardinality(afterM) /\ Cardinality(afterK) \in Nat
      /\ Cardinality(afterM) \in Nat
  <2> HIDE DEF afterK, afterM
  <2>1. QED
    BY <1>2, SubsetCardinality
<1>4. Cardinality(afterK) < n
  BY <1>1, <1>3
<1>5. QED
  BY <1>4 DEF Newest

LEMMA InitReplies == Init => RepliesStay
BY DEF Init, RepliesStay

LEMMA NextReplies == TypeOK /\ OrderInv /\ RepliesStay /\ [Next]_vars => RepliesStay'
<1> SUFFICES ASSUME TypeOK, OrderInv, RepliesStay, [Next]_vars PROVE RepliesStay'
  OBVIOUS
<1> USE DEF ghosts
\* The query is inserted before its reply, and the reply beside it.
<1>1. ASSUME NEW t \in Turns, Insert(t) PROVE RepliesStay'
  <2>1. <<t, "assistant">> \in committed => writing[t] = "assistant" /\ pc[t] # "Insert"
    BY DEF OrderInv, Written
  <2>2. writing[t] \in {"user", "assistant"}
    BY DEF TypeOK, Role
  <2>3. QED
    BY <1>1, <2>1, <2>2 DEF Insert, RepliesStay
\* A query that is kept was stamped before its reply.
<1>2. ASSUME NEW j \in Jobs, Truncate(j) PROVE RepliesStay'
  <2> SUFFICES ASSUME NEW t \in Turns, <<t, "user">> \in Newest(Keep, rows),
                      <<t, "assistant">> \in committed
               PROVE  <<t, "assistant">> \in Newest(Keep, rows)
    BY <1>2 DEF Truncate, Kept, RepliesStay
  <2>1. <<t, "user">> \in rows /\ <<t, "assistant">> \in rows
    BY DEF RepliesStay, Newest
  <2>2. stamp[<<t, "assistant">>] > stamp[<<t, "user">>]
    <3>1. stamp[<<t, "user">>] < stamp[<<t, "assistant">>]
      BY DEF OrderInv, Ordered
    <3>2. stamp[<<t, "user">>] \in Nat /\ stamp[<<t, "assistant">>] \in Nat
      BY DEF TypeOK, Messages, Role
    <3>3. QED
      BY <3>1, <3>2
  <2>3. QED
    BY <2>1, <2>2, NewestUpward DEF TypeOK
<1>3. CASE DeleteMessages
  BY <1>3 DEF DeleteMessages, RepliesStay
<1>4. ASSUME UNCHANGED <<rows, committed>> PROVE RepliesStay'
  BY <1>4 DEF RepliesStay
<1>5. QED
  BY <1>1, <1>2, <1>3, <1>4 DEF Next, vars, CreatePage, LoadHistory, Reply, Stamp,
     AppendFails, Upsert, CheckCount, RequestCompaction, ReadBatch, CompactionFails,
     SaveSummary, DeleteMeta, Crash

\* No query that is still on the page loses a reply that was stored
\* (append_message, truncate_page_messages, delete_node).
THEOREM RepliesStayHolds == Spec => []RepliesStay
BY InitReplies, NextReplies, TypeCorrect, OrderInvHolds, PTL DEF Spec

\* More messages, more of them newer.
LEMMA NewerGrow ==
    ASSUME TypeOK, TypeOK', committed \subseteq committed', NEW d \in Messages,
           \A m \in committed : stamp'[m] = stamp[m], stamp'[d] = stamp[d]
    PROVE  Cardinality({m \in committed : stamp[m] > stamp[d]})
             <= Cardinality({m \in committed' : stamp'[m] > stamp'[d]})
<1> DEFINE before == {m \in committed : stamp[m] > stamp[d]}
           after == {m \in committed' : stamp'[m] > stamp'[d]}
<1>1. after \in SUBSET Messages /\ before \in SUBSET after
  BY DEF TypeOK
<1> HIDE DEF before, after
<1>2. Cardinality(before) <= Cardinality(after)
  BY <1>1, SubsetCardinality
<1>3. QED
  BY <1>2 DEF before, after

LEMMA InitNewest == Init => NewestKept
BY DEF Init, NewestKept

LEMMA NextNewest == TypeOK /\ TypeOK' /\ OrderInv /\ NewestKept /\ [Next]_vars => NewestKept'
<1> SUFFICES ASSUME TypeOK, TypeOK', OrderInv, NewestKept, [Next]_vars PROVE NewestKept'
  OBVIOUS
<1>1. committed \subseteq committed' /\ \A m \in committed : stamp'[m] = stamp[m]
  <2>1. ASSUME NEW t \in Turns, Stamp(t)
        PROVE  committed' = committed /\ \A m \in committed : stamp'[m] = stamp[m]
    <3>1. <<t, writing[t]>> \notin committed
      BY <2>1 DEF Stamp, OrderInv, Written, TypeOK, Role
    <3>2. QED
      BY <2>1, <3>1 DEF Stamp, TypeOK, ghosts
  <2>2. ASSUME NEW t \in Turns, Insert(t) PROVE UNCHANGED stamp /\ committed \subseteq committed'
    BY <2>2 DEF Insert
  <2>3. QED
    BY <2>1, <2>2 DEF Next, vars, ghosts, CreatePage, LoadHistory, Reply,
       AppendFails, Upsert, CheckCount, RequestCompaction, ReadBatch, CompactionFails,
       SaveSummary, Truncate, DeleteMessages, DeleteMeta, Crash
<1>2. dropped \subseteq committed /\ rows \subseteq committed /\ committed \subseteq Messages
  BY DEF OrderInv, Tables, TypeOK
<1>3. ASSUME NEW d \in dropped
      PROVE  Cardinality({m \in committed' : stamp'[m] > stamp'[d]}) >= Keep
  <2> DEFINE before == {m \in committed : stamp[m] > stamp[d]}
             after == {m \in committed' : stamp'[m] > stamp'[d]}
  <2>1. Cardinality(before) >= Keep
    BY DEF NewestKept
  <2>2. d \in Messages /\ stamp'[d] = stamp[d]
    BY <1>1, <1>2
  <2>3. Cardinality(before) <= Cardinality(after)
    BY <1>1, <2>2, NewerGrow
  <2>4. before \in SUBSET Messages /\ after \in SUBSET Messages
    BY DEF TypeOK
  <2> HIDE DEF before, after
  <2>5. Cardinality(before) \in Nat /\ Cardinality(after) \in Nat
    BY <2>4, SubsetCardinality
  <2>6. Cardinality(after) >= Keep
    BY <2>1, <2>3, <2>5
  <2>7. QED
    BY <2>6 DEF after
\* A message that is removed now has Keep newer rows.
<1>4. ASSUME NEW j \in Jobs, Truncate(j), NEW d \in rows \ Kept
      PROVE  Cardinality({m \in committed' : stamp'[m] > stamp'[d]}) >= Keep
  <2> DEFINE newer == {k \in rows : stamp[k] > stamp[d]}
             after == {m \in committed : stamp[m] > stamp[d]}
  <2>1. ~ (Cardinality(newer) < Keep)
    BY <1>4 DEF Kept, Newest
  <2>2. after \in SUBSET Messages /\ newer \in SUBSET after
    BY <1>2
  <2> HIDE DEF newer, after
  <2>3. Cardinality(newer) <= Cardinality(after) /\ Cardinality(newer) \in Nat
        /\ Cardinality(after) \in Nat
    BY <2>2, SubsetCardinality
  <2>4. Cardinality(after) >= Keep
    BY <2>1, <2>3
  <2>5. QED
    BY <1>4, <2>4 DEF Truncate, after
<1>5. CASE dropped' = dropped
  BY <1>3, <1>5 DEF NewestKept
<1>6. ASSUME NEW j \in Jobs, Truncate(j) PROVE NewestKept'
  BY <1>3, <1>4, <1>6 DEF Truncate, NewestKept
<1>7. QED
  BY <1>5, <1>6 DEF Next, vars, ghosts, CreatePage, LoadHistory, Reply, Stamp, Insert,
     AppendFails, Upsert, CheckCount, RequestCompaction, ReadBatch, CompactionFails,
     SaveSummary, DeleteMessages, DeleteMeta, Crash

\* A compaction never removes one of the Keep newest messages of the page
\* (truncate_page_messages), whatever is appended while it runs.
THEOREM NewestKeptHolds == Spec => []NewestKept
BY InitNewest, NextNewest, TypeCorrect, OrderInvHolds, PTL DEF Spec

LEMMA InitBounded == Init => BoundedWhenQuiet
<1>1. Cardinality({}) = 0
  BY FS_EmptySet
<1>2. QED
  BY <1>1 DEF Init, BoundedWhenQuiet

LEMMA NextBounded ==
    TypeOK /\ OrderInv /\ BoundedWhenQuiet /\ [Next]_vars => BoundedWhenQuiet'
<1> SUFFICES ASSUME TypeOK, OrderInv, BoundedWhenQuiet, [Next]_vars PROVE BoundedWhenQuiet'
  OBVIOUS
<1> USE DEF Goto, JobGoto, turnVars, jobVars, ghosts, TypeOK, Jobs
\* A turn on its way makes the page restless.
<1>1. ASSUME NEW t \in Turns, pc'[t] \notin {"New", "Done"} PROVE BoundedWhenQuiet'
  BY <1>1 DEF BoundedWhenQuiet, Quiet
<1>2. ASSUME NEW j \in Jobs, job'[j] \notin {"Idle", "Over"} PROVE BoundedWhenQuiet'
  BY <1>2 DEF BoundedWhenQuiet, Quiet
<1>3. ASSUME NEW t \in Turns,
             CreatePage(t) \/ LoadHistory(t) \/ Reply(t) \/ Stamp(t) \/ Insert(t)
      PROVE  BoundedWhenQuiet'
  BY <1>1, <1>3 DEF CreatePage, LoadHistory, Reply, Stamp, Insert
\* The last append of a turn leaves its check behind.
<1>4. ASSUME NEW t \in Turns, AfterAppend(t) PROVE BoundedWhenQuiet'
  <2>1. pc'[t] = "Stamp" \/ job'[t] = "Check"
    BY <1>4 DEF AfterAppend
  <2>2. QED
    BY <1>1, <1>2, <2>1
<1>5. ASSUME NEW t \in Turns, AppendFails(t) \/ Upsert(t) PROVE BoundedWhenQuiet'
  BY <1>4, <1>5 DEF AppendFails, Upsert
\* A check that ends the matter has found the page within its limit.
<1>6. ASSUME NEW t \in Turns, CheckCount(t) PROVE BoundedWhenQuiet'
  <2>1. CASE TooMany
    BY <1>2, <1>6, <2>1 DEF CheckCount
  <2>2. CASE ~TooMany
    <3>1. Cardinality(rows) \in Nat /\ rows' = rows
      BY <1>6, SubsetCardinality DEF CheckCount
    <3>2. Cardinality(rows) <= PageLimit
      BY <2>2, <3>1 DEF TooMany
    <3>3. QED
      BY <3>1, <3>2 DEF BoundedWhenQuiet
  <2>3. QED
    BY <2>1, <2>2
<1>7. ASSUME NEW j \in Jobs, RequestCompaction(j) \/ CompactionFails(j) \/ SaveSummary(j)
      PROVE  BoundedWhenQuiet'
  BY <1>2, <1>7 DEF RequestCompaction, CompactionFails, SaveSummary
<1>8. ASSUME NEW j \in Jobs, ReadBatch(j) PROVE BoundedWhenQuiet'
  <2>1. CASE rows = {}
    BY <1>8, <2>1, FS_EmptySet DEF ReadBatch, BoundedWhenQuiet
  <2>2. CASE rows # {}
    BY <1>2, <1>8, <2>2 DEF ReadBatch
  <2>3. QED
    BY <2>1, <2>2
\* What a compaction leaves is at most Keep messages.
<1>9. ASSUME NEW j \in Jobs, Truncate(j) PROVE BoundedWhenQuiet'
  <2>1. Distinct(rows)
    BY DEF Distinct, OrderInv, StampsDistinct, Ordered, Tables
  <2>2. Cardinality(Newest(Keep, rows)) <= Keep
    BY <2>1, NewestBound
  <2>3. Newest(Keep, rows) \in SUBSET Messages
    BY DEF Newest
  <2>4. Cardinality(Newest(Keep, rows)) \in Nat
    BY <2>3, SubsetCardinality
  <2>5. Cardinality(Newest(Keep, rows)) <= PageLimit
    BY <2>2, <2>4
  <2>6. QED
    BY <1>9, <2>5 DEF Truncate, Kept, BoundedWhenQuiet
<1>10. CASE DeleteMessages
  BY <1>10, FS_EmptySet DEF DeleteMessages, BoundedWhenQuiet
<1>11. CASE DeleteMeta
  BY <1>11 DEF DeleteMeta, BoundedWhenQuiet, Quiet
\* A crash disturbs no page that is quiet, and quietens none.
<1>12. CASE Crash
  <2>1. Quiet' => Quiet
    BY <1>12 DEF Crash, Quiet
  <2>2. rows' = rows
    BY <1>12 DEF Crash
  <2>3. QED
    BY <2>1, <2>2 DEF BoundedWhenQuiet
<1>13. CASE UNCHANGED vars
  BY <1>13 DEF vars, BoundedWhenQuiet, Quiet
<1>14. QED
  BY <1>3, <1>5, <1>6, <1>7, <1>8, <1>9, <1>10, <1>11, <1>12, <1>13 DEF Next

\* Once every task has ended undisturbed, the page is within its limit: no
\* interleaving of appends and compaction checks lets it stay above.
THEOREM BoundedWhenQuietHolds == Spec => []BoundedWhenQuiet
BY InitBounded, NextBounded, TypeCorrect, OrderInvHolds, PTL DEF Spec
=============================================================================
