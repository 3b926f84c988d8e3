---------------------------- MODULE DreamProofs ----------------------------
(* Theorems about DreamCycle, for any finite number of workers and cycles   *)
(* on request and every set of messages, pages and facts.                   *)
EXTENDS DreamCycle, FiniteSetTheorems, TLAPS

Types ==
  /\ state \in [Messages -> {"none", "pending", "done", "dropped"}]
  /\ copies \in [Facts -> Nat]
  /\ failures \in Nat /\ free \in BOOLEAN
  /\ cycle \in [Cycles -> Cycle]
  /\ \A c \in Cycles : cycle[c].fresh # {} <=> cycle[c].pc = "storing"
  /\ learned \subseteq Messages /\ cut \subseteq Messages

(* A cycle that is past the extraction has made a log of its batch.         *)
Logged == learned \cup cut

LearnInv ==
  /\ \A m \in Messages : state[m] = "done" => m \in Logged
  /\ \A c \in Cycles : cycle[c].pc \in {"facts", "storing"} => cycle[c].batch \subseteq Logged

(* A fact that was looked up without success is owed one copy.              *)
Storing(f) == {c \in Cycles : f \in cycle[c].fresh}

CopyInv ==
  \A f \in Searchable \cap Facts : copies[f] + Cardinality(Storing(f)) <= Cardinality(Cycles)

(* A cycle under way may still add one failure.                             *)
UnderWay == {c \in Cycles : cycle[c].pc \notin {"idle", "dead"}}

FailInv == failures + Cardinality(UnderWay) <= MaxFailures - 1 + Cardinality(Cycles)

DreamInv == Types /\ LearnInv /\ CopyInv /\ FailInv
-----------------------------------------------------------------------------
\* A query with a LIMIT returns rows of what it selects from.
LEMMA LimitIsSubset ==
  ASSUME NEW S, NEW n, NEW T \in Limit(n, S) PROVE T \subseteq S
BY DEF Limit

\* The cycles, and so every set of them, are finitely many.
LEMMA FiniteCycles ==
  /\ IsFiniteSet(Cycles) /\ Cardinality(Cycles) \in Nat
  /\ \A S \in SUBSET Cycles : IsFiniteSet(S) /\ Cardinality(S) \in Nat
<1>1. IsFiniteSet(Cycles)
  BY DreamAssumption DEF Cycles
<1>2. \A S \in SUBSET Cycles : IsFiniteSet(S)
  BY <1>1, FS_Subset
<1>3. QED
  BY <1>1, <1>2, FS_CardinalityType

\* Fewer cycles in a set count no more.
LEMMA FewerCycles ==
  ASSUME NEW S \in SUBSET Cycles, NEW T \in SUBSET S
  PROVE  Cardinality(T) <= Cardinality(S)
BY FiniteCycles, FS_Subset

\* A set that loses a cycle counts one less.
LEMMA OneCycleLess ==
  ASSUME NEW S \in SUBSET Cycles, NEW c \in S, NEW T \in SUBSET (S \ {c})
  PROVE  Cardinality(T) + 1 <= Cardinality(S)
<1>1. Cardinality(S \ {c}) = Cardinality(S) - 1
  BY FiniteCycles, FS_RemoveElement
<1>2. Cardinality(T) <= Cardinality(S \ {c})
  BY FewerCycles
<1>3. QED
  BY <1>1, <1>2, FiniteCycles

\* Nothing is read, stored or under way at first.
LEMMA InitDreamInv == Init => DreamInv
<1> SUFFICES ASSUME Init PROVE DreamInv
  OBVIOUS
<1>1. Types
  BY DEF Init, Types, Cycle, Asleep
<1>2. LearnInv
  BY DEF Init, LearnInv, Asleep
<1>3. CopyInv
  <2>1. \A f \in Facts : Storing(f) = {} /\ copies[f] = 0
    BY DEF Init, Storing, Asleep
  <2>2. QED
    BY <2>1, FS_EmptySet, FiniteCycles DEF CopyInv
<1>4. FailInv
  <2>1. UnderWay = {} /\ failures = 0
    BY DEF Init, UnderWay, Asleep
  <2>2. QED
    BY <2>1, FS_EmptySet, FiniteCycles, DreamAssumption DEF FailInv
<1>5. QED
  BY <1>1, <1>2, <1>3, <1>4 DEF DreamInv

\* Every step writes values of the right kind, and a cycle holds a fresh fact
\* exactly while it stores one.
LEMMA TypesStep == DreamInv /\ [Next]_vars => Types'
<1> SUFFICES ASSUME DreamInv, [Next]_vars PROVE Types'
  OBVIOUS
<1> USE DEF DreamInv, Types
<1>a. ASSUME NEW c \in Cycles, NEW v \in Cycle, Moves(c, v), v.fresh # {} <=> v.pc = "storing"
      PROVE  /\ cycle' \in [Cycles -> Cycle]
             /\ \A d \in Cycles : cycle'[d].fresh # {} <=> cycle'[d].pc = "storing"
  BY <1>a DEF Moves
<1>b. Asleep \in Cycle /\ Asleep.fresh = {} /\ Asleep.pc = "idle"
  BY DEF Asleep, Cycle
<1>1. ASSUME NEW c \in Cycles, BeginBackground(c) \/ BeginManual(c) PROVE Types'
  <2> DEFINE v == [Asleep EXCEPT !.pc = "woken"]
  <2>1. v \in Cycle /\ v.fresh = {} /\ v.pc = "woken"
    BY DEF Asleep, Cycle
  <2>2. Moves(c, v)
    BY <1>1 DEF BeginBackground, BeginManual, Wakes
  <2> HIDE DEF v
  <2>3. failures' \in Nat
    BY <1>1 DEF BeginBackground, BeginManual
  <2>4. QED
    BY <1>1, <1>a, <2>1, <2>2, <2>3 DEF BeginBackground, BeginManual, Wakes
<1>2. ASSUME NEW c \in Cycles, ChoosePages(c) PROVE Types'
  <2>1. PICK chosen \in Limit(MaxPages, PendingPages) :
          Moves(c, [cycle[c] EXCEPT !.pc = "next", !.pages = chosen])
    BY <1>2 DEF ChoosePages
  <2> DEFINE v == [cycle[c] EXCEPT !.pc = "next", !.pages = chosen]
  <2>2. chosen \subseteq Pages
    BY LimitIsSubset DEF PendingPages
  <2>3. v \in Cycle /\ v.fresh = {} /\ v.pc = "next"
    BY <1>2, <2>2 DEF Cycle, ChoosePages
  <2> HIDE DEF v
  <2>4. QED
    BY <1>2, <1>a, <2>1, <2>3 DEF ChoosePages, v
<1>f. ASSUME NEW c \in Cycles, ChoosingFails(c) PROVE Types'
  BY <1>f, <1>a, <1>b DEF ChoosingFails
<1>g. ASSUME NEW c \in Cycles, NEW p \in Pages, ReadFails(c, p) PROVE Types'
  <2> DEFINE v == [cycle[c] EXCEPT !.pages = @ \ {p}, !.bad = TRUE]
  <2>1. Moves(c, v) /\ v \in Cycle /\ v.fresh = {} /\ v.pc = "next"
    BY <1>g DEF ReadFails, Cycle
  <2> HIDE DEF v
  <2>2. QED
    BY <1>g, <1>a, <2>1 DEF ReadFails
<1>3. ASSUME NEW c \in Cycles, NEW p \in Pages, ReadPage(c, p) PROVE Types'
  <2> DEFINE rest == [cycle[c] EXCEPT !.pages = @ \ {p}]
             v(read) == IF read = {} THEN [rest EXCEPT !.good = TRUE]
                        ELSE [rest EXCEPT !.batch = read, !.pc = "asking"]
  <2>1. PICK read \in Limit(BatchSize, Pending(p)) : Moves(c, v(read))
    BY <1>3 DEF ReadPage
  <2>2. read \subseteq Messages
    BY LimitIsSubset DEF Pending
  <2>3. rest \in Cycle /\ rest.fresh = {} /\ rest.pc = "next"
    BY <1>3 DEF Cycle, ReadPage
  <2>4. v(read) \in Cycle /\ v(read).fresh = {} /\ v(read).pc # "storing"
    <3> HIDE DEF rest
    <3> QED BY <2>2, <2>3 DEF Cycle
  <2> HIDE DEF v
  <2>5. QED
    BY <1>3, <1>a, <2>1, <2>4 DEF ReadPage
<1>4. ASSUME NEW c \in Cycles, Extract(c) PROVE Types'
  <2>a. PICK log \in Logs(cycle[c].batch) :
          /\ \E found \in SUBSET {FactOf[m] : m \in log} :
               Moves(c, [cycle[c] EXCEPT !.pc = "facts", !.facts = found])
          /\ learned' = learned \cup log /\ cut' = cut \cup (cycle[c].batch \ log)
    BY <1>4 DEF Extract
  <2>1. PICK found \in SUBSET {FactOf[m] : m \in log} :
          Moves(c, [cycle[c] EXCEPT !.pc = "facts", !.facts = found])
    BY <2>a
  <2>2. cycle[c].batch \subseteq Messages
    BY DEF Cycle
  <2>b. log \subseteq Messages
    BY <2>2 DEF Logs
  <2>3. found \subseteq Facts
    BY <2>b DEF Facts
  <2> DEFINE v == [cycle[c] EXCEPT !.pc = "facts", !.facts = found]
  <2>4. v \in Cycle /\ v.fresh = {} /\ v.pc = "facts"
    BY <1>4, <2>3 DEF Cycle, Extract
  <2> HIDE DEF v
  <2>5. QED
    BY <1>4, <1>a, <2>a, <2>b, <2>1, <2>2, <2>4 DEF Extract, v
<1>5. ASSUME NEW c \in Cycles, NEW f \in Facts, LookUp(c, f) PROVE Types'
  <2> DEFINE rest == [cycle[c] EXCEPT !.facts = @ \ {f}]
             v == IF Known(f) THEN rest ELSE [rest EXCEPT !.fresh = {f}, !.pc = "storing"]
  <2>1. Moves(c, v)
    BY <1>5 DEF LookUp
  <2>2. rest \in Cycle /\ rest.fresh = {} /\ rest.pc = "facts"
    BY <1>5 DEF Cycle, LookUp
  <2>3. v \in Cycle /\ (v.fresh # {} <=> v.pc = "storing")
    <3> HIDE DEF rest
    <3> QED BY <2>2 DEF Cycle
  <2> HIDE DEF v
  <2>4. QED
    BY <1>5, <1>a, <2>1, <2>3 DEF LookUp
<1>6. ASSUME NEW c \in Cycles, Store(c) PROVE Types'
  <2> DEFINE v == [cycle[c] EXCEPT !.pc = "facts", !.fresh = {}]
  <2>1. Moves(c, v) /\ v \in Cycle /\ v.fresh = {} /\ v.pc = "facts"
    BY <1>6 DEF Store, Cycle
  <2> HIDE DEF v
  <2>2. copies' \in [Facts -> Nat]
    BY <1>6 DEF Store
  <2>3. QED
    BY <1>6, <1>a, <2>1, <2>2 DEF Store
<1>7. ASSUME NEW c \in Cycles, Mark(c) PROVE Types'
  <2> DEFINE v == [cycle[c] EXCEPT !.pc = "next", !.batch = {}, !.good = TRUE]
  <2>1. Moves(c, v) /\ v \in Cycle /\ v.fresh = {} /\ v.pc = "next"
    BY <1>7 DEF Mark, FactsDone, Cycle
  <2> HIDE DEF v
  <2>2. state' \in [Messages -> {"none", "pending", "done", "dropped"}]
    BY <1>7 DEF Mark
  <2>3. QED
    BY <1>7, <1>a, <2>1, <2>2 DEF Mark
<1>8. ASSUME NEW c \in Cycles, PageFails(c) PROVE Types'
  <2> DEFINE v == [cycle[c] EXCEPT !.pc = "next", !.batch = {}, !.bad = TRUE]
  <2>1. Moves(c, v) /\ v \in Cycle /\ v.fresh = {} /\ v.pc = "next"
    BY <1>8 DEF PageFails, FactsDone, Cycle
  <2> HIDE DEF v
  <2>2. QED
    BY <1>8, <1>a, <2>1 DEF PageFails
<1>9. ASSUME NEW c \in Cycles, TitlePanics(c) PROVE Types'
  <2> DEFINE v == IF c \in Workers THEN [Asleep EXCEPT !.pc = "dead"] ELSE Asleep
  <2>1. Moves(c, v)
    BY <1>9 DEF TitlePanics
  <2>2. v \in Cycle /\ v.fresh = {} /\ v.pc # "storing"
    BY DEF Asleep, Cycle
  <2> HIDE DEF v
  <2>3. QED
    BY <1>9, <1>a, <2>1, <2>2 DEF TitlePanics
<1>10. ASSUME NEW c \in Cycles, EndCycle(c) PROVE Types'
  <2>1. failures' \in Nat
    BY <1>10 DEF EndCycle
  <2>2. QED
    BY <1>10, <1>a, <1>b, <2>1 DEF EndCycle
<1>11. ASSUME NEW m \in Messages, NewMessage(m) \/ DropMessage(m) PROVE Types'
  BY <1>11 DEF NewMessage, DropMessage
<1>12. ASSUME NEW f \in Facts, DeleteFact(f) PROVE Types'
  <2>1. copies' \in [Facts -> Nat]
    BY <1>12 DEF DeleteFact
  <2>2. QED
    BY <1>12, <2>1 DEF DeleteFact
<1>h. CASE SwitchModel
  BY <1>h DEF SwitchModel
<1>13. CASE Crash
  BY <1>13, <1>b DEF Crash
<1>14. CASE UNCHANGED vars
  BY <1>14 DEF vars
<1>15. QED
  BY <1>1, <1>f, <1>g, <1>h, <1>2, <1>3, <1>4, <1>5, <1>6, <1>7, <1>8, <1>9, <1>10, <1>11, <1>12, <1>13, <1>14
  DEF Next, CycleStep

\* Only Extract lets a batch pass to the facts, and it has made a log of the
\* batch in the same step; Mark marks that batch and nothing else.
LEMMA LearnStep == DreamInv /\ [Next]_vars => LearnInv'
<1> SUFFICES ASSUME DreamInv, [Next]_vars PROVE LearnInv'
  OBVIOUS
<1> USE DEF DreamInv, Types, Logged
<1>1. ASSUME NEW c \in Cycles, BeginBackground(c) \/ BeginManual(c) PROVE LearnInv'
  BY <1>1 DEF BeginBackground, BeginManual, Wakes, Moves, Asleep, LearnInv
<1>2. ASSUME NEW c \in Cycles, ChoosePages(c) PROVE LearnInv'
  <2>1. PICK chosen : Moves(c, [cycle[c] EXCEPT !.pc = "next", !.pages = chosen])
    BY <1>2 DEF ChoosePages
  <2>2. QED
    BY <1>2, <2>1 DEF ChoosePages, Moves, LearnInv, Cycle
<1>f. ASSUME NEW c \in Cycles, ChoosingFails(c) PROVE LearnInv'
  BY <1>f DEF ChoosingFails, Moves, LearnInv, Asleep
<1>g. ASSUME NEW c \in Cycles, NEW p \in Pages, ReadFails(c, p) PROVE LearnInv'
  BY <1>g DEF ReadFails, Moves, LearnInv, Cycle
<1>3. ASSUME NEW c \in Cycles, NEW p \in Pages, ReadPage(c, p) PROVE LearnInv'
  <2>1. \A d \in Cycles : cycle'[d].pc \in {"facts", "storing"} => cycle'[d] = cycle[d]
    BY <1>3 DEF ReadPage, Moves, Cycle
  <2>2. QED
    BY <1>3, <2>1 DEF ReadPage, LearnInv
<1>4. ASSUME NEW c \in Cycles, Extract(c) PROVE LearnInv'
  <2>1. PICK found : Moves(c, [cycle[c] EXCEPT !.pc = "facts", !.facts = found])
    BY <1>4 DEF Extract
  <2>a. Logged \subseteq Logged' /\ cycle[c].batch \subseteq Logged'
    BY <1>4 DEF Extract
  <2>2. \A d \in Cycles : d # c => cycle'[d] = cycle[d]
    BY <2>1 DEF Moves
  <2>3. cycle'[c].batch = cycle[c].batch
    BY <2>1 DEF Moves, Cycle
  <2>4. QED
    BY <1>4, <2>a, <2>2, <2>3 DEF Extract, LearnInv
<1>5. ASSUME NEW c \in Cycles, NEW f \in Facts, LookUp(c, f) PROVE LearnInv'
  <2>1. \A d \in Cycles : d # c => cycle'[d] = cycle[d]
    BY <1>5 DEF LookUp, Moves
  <2>2. cycle'[c].batch = cycle[c].batch
    BY <1>5 DEF LookUp, Moves, Cycle
  <2>3. QED
    BY <1>5, <2>1, <2>2 DEF LookUp, LearnInv
<1>6. ASSUME NEW c \in Cycles, Store(c) PROVE LearnInv'
  BY <1>6 DEF Store, Moves, LearnInv, Cycle
<1>7. ASSUME NEW c \in Cycles, Mark(c) PROVE LearnInv'
  <2>1. cycle[c].batch \subseteq Logged
    BY <1>7 DEF Mark, FactsDone, LearnInv
  <2>2. \A m \in Messages : state'[m] = "done" => m \in Logged
    BY <1>7, <2>1 DEF Mark, ToMark, LearnInv
  <2>3. \A d \in Cycles : cycle'[d].pc \in {"facts", "storing"} => cycle'[d] = cycle[d]
    BY <1>7 DEF Mark, Moves, Cycle
  <2>4. QED
    BY <1>7, <2>2, <2>3 DEF Mark, LearnInv
<1>8. ASSUME NEW c \in Cycles, PageFails(c) PROVE LearnInv'
  BY <1>8 DEF PageFails, Moves, LearnInv, Cycle
<1>9. ASSUME NEW c \in Cycles, TitlePanics(c) PROVE LearnInv'
  BY <1>9 DEF TitlePanics, Moves, LearnInv, Cycle, Asleep
<1>10. ASSUME NEW c \in Cycles, EndCycle(c) PROVE LearnInv'
  BY <1>10 DEF EndCycle, Moves, LearnInv, Asleep
<1>11. ASSUME NEW m \in Messages, NewMessage(m) \/ DropMessage(m) PROVE LearnInv'
  BY <1>11 DEF NewMessage, DropMessage, LearnInv
<1>12. ASSUME NEW f \in Facts, DeleteFact(f) PROVE LearnInv'
  BY <1>12 DEF DeleteFact, LearnInv
<1>h. CASE SwitchModel
  BY <1>h DEF SwitchModel, LearnInv
<1>13. CASE Crash
  BY <1>13 DEF Crash, LearnInv, Asleep
<1>14. CASE UNCHANGED vars
  BY <1>14 DEF vars, LearnInv
<1>15. QED
  BY <1>1, <1>f, <1>g, <1>h, <1>2, <1>3, <1>4, <1>5, <1>6, <1>7, <1>8, <1>9, <1>10, <1>11, <1>12, <1>13, <1>14
  DEF Next, CycleStep

\* A step that finds no new fact and adds no copy keeps the bound on copies.
LEMMA CopiesKept ==
  ASSUME DreamInv, Types',
         \A d \in Cycles : cycle'[d].fresh \subseteq cycle[d].fresh,
         \A f \in Facts : copies'[f] <= copies[f]
  PROVE  CopyInv'
<1> SUFFICES ASSUME NEW f \in Searchable \cap Facts
             PROVE  copies'[f] + Cardinality(Storing(f)') <= Cardinality(Cycles)
  BY DEF CopyInv
<1>1. Storing(f)' \subseteq Storing(f) /\ Storing(f) \subseteq Cycles
  BY DEF Storing
<1>2. Cardinality(Storing(f)') <= Cardinality(Storing(f))
  BY <1>1, FewerCycles
<1>3. copies[f] + Cardinality(Storing(f)) <= Cardinality(Cycles)
  BY DEF DreamInv, CopyInv
<1>4. copies[f] \in Nat /\ copies'[f] \in Nat /\ copies'[f] <= copies[f]
  BY DEF DreamInv, Types
<1>5. Cardinality(Storing(f)') \in Nat /\ Cardinality(Storing(f)) \in Nat
  BY <1>1, FiniteCycles
<1>6. QED
  BY <1>2, <1>3, <1>4, <1>5, FiniteCycles

\* A fact enters "storing" only when it has no copy at all, so the copies owed
\* are at most one a cycle; storing one turns what is owed into a copy.
LEMMA CopyStep == DreamInv /\ [Next]_vars => CopyInv'
<1> SUFFICES ASSUME DreamInv, [Next]_vars PROVE CopyInv'
  OBVIOUS
<1>0. Types /\ Types'
  BY TypesStep DEF DreamInv
<1>a. ASSUME UNCHANGED copies, \A d \in Cycles : cycle'[d].fresh \subseteq cycle[d].fresh
      PROVE  CopyInv'
  <2>1. \A f \in Facts : copies'[f] <= copies[f]
    BY <1>0, <1>a DEF Types
  <2>2. QED
    BY <1>0, <1>a, <2>1, CopiesKept
<1>1. ASSUME NEW c \in Cycles, BeginBackground(c) \/ BeginManual(c) PROVE CopyInv'
  <2>1. \A d \in Cycles : cycle'[d].fresh \subseteq cycle[d].fresh
    BY <1>0, <1>1 DEF BeginBackground, BeginManual, Wakes, Moves, Asleep, Types
  <2>2. QED
    BY <1>1, <1>a, <2>1 DEF BeginBackground, BeginManual, Wakes
<1>2. ASSUME NEW c \in Cycles, ChoosePages(c) PROVE CopyInv'
  <2>1. \A d \in Cycles : cycle'[d].fresh \subseteq cycle[d].fresh
    BY <1>0, <1>2 DEF ChoosePages, Moves, Types, Cycle
  <2>2. QED
    BY <1>2, <1>a, <2>1 DEF ChoosePages
<1>f. ASSUME NEW c \in Cycles, ChoosingFails(c) PROVE CopyInv'
  <2>1. \A d \in Cycles : cycle'[d].fresh \subseteq cycle[d].fresh
    BY <1>0, <1>f DEF ChoosingFails, Moves, Types, Asleep
  <2>2. QED
    BY <1>f, <1>a, <2>1 DEF ChoosingFails
<1>g. ASSUME NEW c \in Cycles, NEW p \in Pages, ReadFails(c, p) PROVE CopyInv'
  <2>1. \A d \in Cycles : cycle'[d].fresh \subseteq cycle[d].fresh
    BY <1>0, <1>g DEF ReadFails, Moves, Types, Cycle
  <2>2. QED
    BY <1>g, <1>a, <2>1 DEF ReadFails
<1>3. ASSUME NEW c \in Cycles, NEW p \in Pages, ReadPage(c, p) PROVE CopyInv'
  <2>1. \A d \in Cycles : cycle'[d].fresh \subseteq cycle[d].fresh
    BY <1>0, <1>3 DEF ReadPage, Moves, Types, Cycle
  <2>2. QED
    BY <1>3, <1>a, <2>1 DEF ReadPage
<1>4. ASSUME NEW c \in Cycles, Extract(c) PROVE CopyInv'
  <2>1. \A d \in Cycles : cycle'[d].fresh \subseteq cycle[d].fresh
    BY <1>0, <1>4 DEF Extract, Moves, Types, Cycle
  <2>2. QED
    BY <1>4, <1>a, <2>1 DEF Extract
<1>5. ASSUME NEW c \in Cycles, NEW f \in Facts, LookUp(c, f) PROVE CopyInv'
  <2>1. CASE Known(f)
    <3>1. \A d \in Cycles : cycle'[d].fresh \subseteq cycle[d].fresh
      BY <1>0, <1>5, <2>1 DEF LookUp, Moves, Types, Cycle
    <3>2. QED
      BY <1>5, <1>a, <3>1 DEF LookUp
  <2>2. CASE ~Known(f)
    <3> SUFFICES ASSUME NEW g \in Searchable \cap Facts
                 PROVE  copies'[g] + Cardinality(Storing(g)') <= Cardinality(Cycles)
      BY DEF CopyInv
    <3>1. copies' = copies
      BY <1>5 DEF LookUp
    <3>2. CASE g = f
      <4>1. copies[f] = 0
        BY <1>0, <2>2, <3>2 DEF Known, Types
      <4>2. Cardinality(Storing(g)') <= Cardinality(Cycles)
        <5>1. Storing(g)' \subseteq Cycles
          BY DEF Storing
        <5>2. QED
          BY <5>1, FewerCycles
      <4>3. QED
        <5>1. Cardinality(Storing(g)') \in Nat
          <6>1. Storing(g)' \subseteq Cycles
            BY DEF Storing
          <6>2. QED
            BY <6>1, FiniteCycles
        <5>2. QED
          BY <3>1, <3>2, <4>1, <4>2, <5>1
    <3>3. CASE g # f
      <4>1. \A d \in Cycles : g \in cycle'[d].fresh => g \in cycle[d].fresh
        BY <1>0, <1>5, <2>2, <3>3 DEF LookUp, Moves, Types, Cycle
      <4>2. Storing(g)' \subseteq Storing(g) /\ Storing(g) \subseteq Cycles
        BY <4>1 DEF Storing
      <4>3. Cardinality(Storing(g)') <= Cardinality(Storing(g))
        BY <4>2, FewerCycles
      <4>4. copies[g] + Cardinality(Storing(g)) <= Cardinality(Cycles)
        BY DEF DreamInv, CopyInv
      <4>5. copies[g] \in Nat /\ Cardinality(Storing(g)') \in Nat /\ Cardinality(Storing(g)) \in Nat
        BY <1>0, <4>2, FiniteCycles DEF Types
      <4>6. QED
        BY <3>1, <4>3, <4>4, <4>5, FiniteCycles
    <3>4. QED
      BY <3>2, <3>3
  <2>3. QED
    BY <2>1, <2>2
<1>6. ASSUME NEW c \in Cycles, Store(c) PROVE CopyInv'
  <2> SUFFICES ASSUME NEW g \in Searchable \cap Facts
               PROVE  copies'[g] + Cardinality(Storing(g)') <= Cardinality(Cycles)
    BY DEF CopyInv
  <2>1. copies[g] + Cardinality(Storing(g)) <= Cardinality(Cycles)
    BY DEF DreamInv, CopyInv
  <2>2. Storing(g)' = Storing(g) \ {c}
    BY <1>0, <1>6 DEF Store, Moves, Storing, Types, Cycle
  <2>3. copies[g] \in Nat /\ copies'[g] \in Nat
    BY <1>0 DEF Types
  <2>4. Storing(g) \subseteq Cycles /\ Storing(g)' \subseteq Cycles
    BY <2>2 DEF Storing
  <2>5. Cardinality(Storing(g)) \in Nat /\ Cardinality(Storing(g)') \in Nat
    BY <2>4, FiniteCycles
  <2>6. CASE g \in cycle[c].fresh
    <3>1. c \in Storing(g)
      BY <2>6 DEF Storing
    <3>2. Cardinality(Storing(g)') + 1 <= Cardinality(Storing(g))
      BY <2>2, <2>4, <3>1, OneCycleLess
    <3>3. copies'[g] <= copies[g] + 1
      BY <1>6, <2>3 DEF Store
    <3>4. QED
      BY <2>1, <2>3, <2>5, <3>2, <3>3, FiniteCycles
  <2>7. CASE g \notin cycle[c].fresh
    <3>1. copies'[g] = copies[g]
      BY <1>6, <2>7 DEF Store
    <3>2. Cardinality(Storing(g)') <= Cardinality(Storing(g))
      BY <2>2, <2>4, FewerCycles
    <3>3. QED
      BY <2>1, <2>3, <2>5, <3>1, <3>2, FiniteCycles
  <2>8. QED
    BY <2>6, <2>7
<1>7. ASSUME NEW c \in Cycles, Mark(c) PROVE CopyInv'
  <2>1. \A d \in Cycles : cycle'[d].fresh \subseteq cycle[d].fresh
    BY <1>0, <1>7 DEF Mark, Moves, Types, Cycle
  <2>2. QED
    BY <1>7, <1>a, <2>1 DEF Mark
<1>8. ASSUME NEW c \in Cycles, PageFails(c) PROVE CopyInv'
  <2>1. \A d \in Cycles : cycle'[d].fresh \subseteq cycle[d].fresh
    BY <1>0, <1>8 DEF PageFails, Moves, Types, Cycle
  <2>2. QED
    BY <1>8, <1>a, <2>1 DEF PageFails
<1>9. ASSUME NEW c \in Cycles, TitlePanics(c) PROVE CopyInv'
  <2>1. \A d \in Cycles : cycle'[d].fresh \subseteq cycle[d].fresh
    BY <1>0, <1>9 DEF TitlePanics, Moves, Types, Asleep
  <2>2. QED
    BY <1>9, <1>a, <2>1 DEF TitlePanics
<1>10. ASSUME NEW c \in Cycles, EndCycle(c) PROVE CopyInv'
  <2>1. \A d \in Cycles : cycle'[d].fresh \subseteq cycle[d].fresh
    BY <1>0, <1>10 DEF EndCycle, Moves, Types, Asleep
  <2>2. QED
    BY <1>10, <1>a, <2>1 DEF EndCycle
<1>11. ASSUME NEW m \in Messages, NewMessage(m) \/ DropMessage(m) PROVE CopyInv'
  BY <1>11, <1>a DEF NewMessage, DropMessage
<1>12. ASSUME NEW f \in Facts, DeleteFact(f) PROVE CopyInv'
  <2>1. \A g \in Facts : copies'[g] <= copies[g]
    BY <1>0, <1>12 DEF DeleteFact, Types
  <2>2. \A d \in Cycles : cycle'[d].fresh \subseteq cycle[d].fresh
    BY <1>12 DEF DeleteFact
  <2>3. QED
    BY <1>0, <2>1, <2>2, CopiesKept
<1>h. CASE SwitchModel
  BY <1>h, <1>a DEF SwitchModel
<1>13. CASE Crash
  <2>1. \A d \in Cycles : cycle'[d].fresh \subseteq cycle[d].fresh
    BY <1>13 DEF Crash, Asleep
  <2>2. QED
    BY <1>13, <1>a, <2>1 DEF Crash
<1>14. CASE UNCHANGED vars
  BY <1>14, <1>a DEF vars
<1>15. QED
  BY <1>1, <1>f, <1>g, <1>h, <1>2, <1>3, <1>4, <1>5, <1>6, <1>7, <1>8, <1>9, <1>10, <1>11, <1>12, <1>13, <1>14
  DEF Next, CycleStep

\* No failure more and no cycle more under way: the bound on failures stays.
LEMMA FailuresKept ==
  ASSUME DreamInv, failures' \in Nat, failures' <= failures, UnderWay' \subseteq UnderWay
  PROVE  FailInv'
<1>1. UnderWay \subseteq Cycles /\ UnderWay' \subseteq Cycles
  BY DEF UnderWay
<1>2. Cardinality(UnderWay') <= Cardinality(UnderWay)
  BY <1>1, FewerCycles
<1>3. Cardinality(UnderWay) \in Nat /\ Cardinality(UnderWay') \in Nat
  BY <1>1, FiniteCycles
<1>4. QED
  BY <1>2, <1>3, FiniteCycles, DreamAssumption DEF DreamInv, Types, FailInv

\* While the breaker is closed, any number of cycles may be under way.
LEMMA FailuresBelow ==
  ASSUME failures' \in Nat, failures' <= MaxFailures - 1
  PROVE  FailInv'
<1>1. UnderWay' \subseteq Cycles
  BY DEF UnderWay
<1>2. Cardinality(UnderWay') <= Cardinality(Cycles) /\ Cardinality(UnderWay') \in Nat
  BY <1>1, FewerCycles, FiniteCycles
<1>3. QED
  BY <1>2, FiniteCycles, DreamAssumption DEF FailInv

\* A cycle starts only below the limit (or resets the count) and fails once, at
\* its end.
LEMMA FailStep == DreamInv /\ [Next]_vars => FailInv'
<1> SUFFICES ASSUME DreamInv, [Next]_vars PROVE FailInv'
  OBVIOUS
<1>0. Types /\ Types'
  BY TypesStep DEF DreamInv
<1>a. ASSUME UNCHANGED failures, UnderWay' \subseteq UnderWay PROVE FailInv'
  BY <1>0, <1>a, FailuresKept DEF Types
<1>b. 0 \in Nat /\ 0 <= MaxFailures - 1
  BY DreamAssumption
<1>1. ASSUME NEW c \in Cycles, BeginBackground(c) \/ BeginManual(c) PROVE FailInv'
  <2>1. failures' <= MaxFailures - 1
    BY <1>0, <1>1, DreamAssumption DEF BeginBackground, BeginManual, Open, Types
  <2>2. QED
    BY <1>0, <2>1, FailuresBelow DEF Types
<1>2. ASSUME NEW c \in Cycles, ChoosePages(c) PROVE FailInv'
  <2>1. UnderWay' \subseteq UnderWay
    BY <1>0, <1>2 DEF ChoosePages, Moves, UnderWay, Types, Cycle
  <2>2. QED
    BY <1>2, <1>a, <2>1 DEF ChoosePages
<1>f. ASSUME NEW c \in Cycles, ChoosingFails(c) PROVE FailInv'
  <2>1. UnderWay' \subseteq UnderWay
    BY <1>0, <1>f DEF ChoosingFails, Moves, UnderWay, Types, Asleep
  <2>2. QED
    BY <1>f, <1>a, <2>1 DEF ChoosingFails
<1>g. ASSUME NEW c \in Cycles, NEW p \in Pages, ReadFails(c, p) PROVE FailInv'
  <2>1. UnderWay' \subseteq UnderWay
    BY <1>0, <1>g DEF ReadFails, Moves, UnderWay, Types, Cycle
  <2>2. QED
    BY <1>g, <1>a, <2>1 DEF ReadFails
<1>3. ASSUME NEW c \in Cycles, NEW p \in Pages, ReadPage(c, p) PROVE FailInv'
  <2>1. UnderWay' \subseteq UnderWay
    BY <1>0, <1>3 DEF ReadPage, Moves, UnderWay, Types, Cycle
  <2>2. QED
    BY <1>3, <1>a, <2>1 DEF ReadPage
<1>4. ASSUME NEW c \in Cycles, Extract(c) PROVE FailInv'
  <2>1. UnderWay' \subseteq UnderWay
    BY <1>0, <1>4 DEF Extract, Moves, UnderWay, Types, Cycle
  <2>2. QED
    BY <1>4, <1>a, <2>1 DEF Extract
<1>5. ASSUME NEW c \in Cycles, NEW f \in Facts, LookUp(c, f) PROVE FailInv'
  <2>1. UnderWay' \subseteq UnderWay
    BY <1>0, <1>5 DEF LookUp, Moves, UnderWay, Types, Cycle
  <2>2. QED
    BY <1>5, <1>a, <2>1 DEF LookUp
<1>6. ASSUME NEW c \in Cycles, Store(c) \/ Mark(c) \/ PageFails(c) \/ TitlePanics(c) PROVE FailInv'
  <2>1. UnderWay' \subseteq UnderWay
    BY <1>0, <1>6 DEF Store, Mark, PageFails, TitlePanics, FactsDone, Moves, UnderWay, Types, Cycle, Asleep
  <2>2. QED
    BY <1>6, <1>a, <2>1 DEF Store, Mark, PageFails, TitlePanics
<1>7. ASSUME NEW c \in Cycles, EndCycle(c) PROVE FailInv'
  <2>1. c \in UnderWay /\ UnderWay \subseteq Cycles
    BY <1>7 DEF EndCycle, UnderWay
  <2>2. UnderWay' \subseteq UnderWay \ {c}
    BY <1>0, <1>7 DEF EndCycle, UnderWay, Moves, Asleep, Types
  <2>3. Cardinality(UnderWay') + 1 <= Cardinality(UnderWay)
    BY <2>1, <2>2, OneCycleLess
  <2>4. failures \in Nat /\ failures' \in Nat /\ failures' <= failures + 1
    BY <1>0, <1>7 DEF EndCycle, Types
  <2>5. Cardinality(UnderWay) \in Nat /\ Cardinality(UnderWay') \in Nat
    BY <2>1, <2>2, FiniteCycles
  <2>6. QED
    BY <2>3, <2>4, <2>5, FiniteCycles, DreamAssumption DEF DreamInv, FailInv
<1>8. ASSUME NEW m \in Messages, NewMessage(m) \/ DropMessage(m) PROVE FailInv'
  BY <1>8, <1>a DEF NewMessage, DropMessage, UnderWay
<1>9. ASSUME NEW f \in Facts, DeleteFact(f) PROVE FailInv'
  BY <1>9, <1>a DEF DeleteFact, UnderWay
<1>h. CASE SwitchModel
  BY <1>h, <1>a DEF SwitchModel, UnderWay
<1>10. CASE Crash
  BY <1>10, <1>b, FailuresBelow DEF Crash
<1>11. CASE UNCHANGED vars
  BY <1>11, <1>a DEF vars, UnderWay
<1>12. QED
  BY <1>1, <1>f, <1>g, <1>h, <1>2, <1>3, <1>4, <1>5, <1>6, <1>7, <1>8, <1>9, <1>10, <1>11 DEF Next, CycleStep

\* The invariant holds in every state of every behaviour.
LEMMA DreamInvariant == Spec => []DreamInv
<1>1. DreamInv /\ [Next]_vars => DreamInv'
  BY TypesStep, LearnStep, CopyStep, FailStep DEF DreamInv
<1>2. QED
  BY InitDreamInv, <1>1, PTL DEF Spec
-----------------------------------------------------------------------------
\* mark_consolidated never marks a message of which no successful extraction
\* had made a log, though maybe cut, however the cycles of the worker, of
\* requests and of crashed processes overlap.
THEOREM MarkedWereLoggedHolds == Spec => []MarkedWereLogged
<1>1. DreamInv => MarkedWereLogged
  BY DEF DreamInv, LearnInv, Logged, MarkedWereLogged
<1>2. QED
  BY <1>1, DreamInvariant, PTL

\* The unsynchronized look-up and insert store a searchable fact at most once
\* for each cycle that can run at the same time.
THEOREM CopiesBoundedHolds == Spec => []CopiesBounded
<1>1. DreamInv => CopiesBounded
  <2> SUFFICES ASSUME DreamInv, NEW f \in Searchable \cap Facts
               PROVE  copies[f] <= Cardinality(Cycles)
    BY DEF CopiesBounded
  <2>1. Storing(f) \subseteq Cycles
    BY DEF Storing
  <2>2. Cardinality(Storing(f)) \in Nat
    BY <2>1, FiniteCycles
  <2>3. QED
    BY <2>2, FiniteCycles DEF DreamInv, Types, CopyInv
<1>2. QED
  BY <1>1, DreamInvariant, PTL

\* Past the limit the consecutive failures grow by one for each cycle that was
\* under way when the breaker opened, and no further.
THEOREM FailuresBoundedHolds == Spec => []FailuresBounded
<1>1. DreamInv => FailuresBounded
  <2> SUFFICES ASSUME DreamInv PROVE FailuresBounded
    OBVIOUS
  <2>1. UnderWay \subseteq Cycles
    BY DEF UnderWay
  <2>2. Cardinality(UnderWay) \in Nat
    BY <2>1, FiniteCycles
  <2>3. QED
    BY <2>2, FiniteCycles, DreamAssumption DEF DreamInv, Types, FailInv, FailuresBounded
<1>2. QED
  BY <1>1, DreamInvariant, PTL
=============================================================================
