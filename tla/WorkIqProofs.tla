---------------------------- MODULE WorkIqProofs ----------------------------
(* Theorems about WorkIq, for any number of entries, subscriptions, jobs,   *)
(* processes and runs at a time, and a feed that shows any number of them.  *)
EXTENDS WorkIq, WellFoundedInduction, TLAPS

Passed(n) == \A e \in 1 .. n : e \in Kept

(* What the poll and the document have left behind was dealt with, and so   *)
(* was whatever lies below an entry the poll has found.                     *)
PassedInv ==
  /\ Passed(lastSeen)
  /\ \A e \in 1 .. published : e <= published - Shown => e \in Kept
  /\ poll.pc \in {"fetching", "storing"} => Passed(poll.from)
  /\ poll.pc = "storing" =>
       /\ poll.found \ poll.todo \subseteq Kept
       /\ \A x \in poll.found, e \in Entries :
            e < x => e \in poll.found \/ e \in Kept

(* A poll finds entries the document shows, above the one it read; the row  *)
(* can only have been set back since then.                                  *)
PollInv ==
  /\ poll.found \subseteq 1 .. published
  /\ poll.pc \in {"fetching", "storing"} => lastSeen <= poll.from
  /\ poll.pc = "storing" => \A x \in poll.found : poll.from < x
  /\ poll.pc = "alerting" => poll.todo # {}

(* An entry may yet be alerted: now, or as it is above the last one seen.   *)
Due(e) == IF poll.pc = "alerting" /\ e \in poll.todo THEN 1 ELSE 0
Ahead(e) == IF e > lastSeen THEN 1 ELSE 0

AlertInv ==
  /\ subs = 0 => poll.pc = "idle" /\ \A e \in Entries : alerted[e] = 0
  /\ subs > 0 => \A e \in Entries : alerted[e] + Due(e) + Ahead(e) <= subs

SentInv ==
  /\ digested \subseteq sent
  /\ \A s \in Slots : run[s].pc = "marking" => batch[s] \subseteq sent

WorkIqInv == TypeOK /\ PollInv /\ PassedInv /\ AlertInv /\ SentInv
-----------------------------------------------------------------------------
\* The newest of some entries is one of them, and none is newer.
LEMMA NewestIsGreatest ==
  ASSUME NEW S \in SUBSET Entries, S # {}
  PROVE  Newest(S) \in S /\ \A x \in S : x <= Newest(S)
<1> DEFINE R == {ss \in Nat \X Nat : ss[1] < ss[2]}
           T == {MaxEntry - x : x \in S}
<1>1. IsWellFoundedOn(R, Nat)
  <2>1. R = OpToRel(<, Nat)
    BY DEF OpToRel
  <2>2. QED
    BY <2>1, NatLessThanWellFounded
<1>2. T \subseteq Nat /\ T # {}
  <2>1. \A x \in S : MaxEntry - x \in Nat
    BY WorkIqAssumption DEF Entries
  <2>2. QED
    BY <2>1
<1> HIDE DEF R
<1>3. PICK z \in T : \A y \in T : ~ (<<y, z>> \in R)
  BY <1>1, <1>2, WFMin, Zenon
<1>4. PICK e \in S : z = MaxEntry - e
  BY <1>3
<1>5. ASSUME NEW x \in S PROVE x <= e
  <2>1. MaxEntry - x \in T
    OBVIOUS
  <2>2. ~(MaxEntry - x < z)
    BY <1>2, <1>3, <2>1 DEF R
  <2>3. QED
    BY <1>4, <2>2, WorkIqAssumption DEF Entries
<1>6. QED
  BY <1>4, <1>5 DEF Newest

\* Nothing is published, polled or scheduled at first.
LEMMA InitWorkIqInv == Init => WorkIqInv
<1> SUFFICES ASSUME Init PROVE WorkIqInv
  OBVIOUS
<1> USE WorkIqAssumption, CronAssumption DEF Init, NoPoll
<1>1. CronTypeOK
  BY DEF CronInit, CronTypeOK, Run
<1>2. TypeOK
  BY <1>1 DEF TypeOK, Poll, CronInit
<1>3. PollInv /\ PassedInv
  BY DEF PollInv, PassedInv, Passed
<1>4. AlertInv
  BY DEF AlertInv
<1>5. SentInv
  BY DEF SentInv, CronInit, NoRun
<1>6. QED
  BY <1>2, <1>3, <1>4, <1>5 DEF WorkIqInv

\* The jobs keep their types: a run ends, goes on or is gone with its process.
LEMMA CronTypes == TypeOK /\ [Next]_vars => CronTypeOK'
<1> SUFFICES ASSUME TypeOK, [Next]_vars PROVE CronTypeOK'
  OBVIOUS
<1> USE CronAssumption, WorkIqAssumption DEF CronTypeOK, TypeOK
<1>a. NoRun \in Run
  BY DEF Run
<1>1. ASSUME CronStep PROVE CronTypeOK'
  <2>1. ASSUME NEW p \in Procs, StartProcess(p) PROVE CronTypeOK'
    BY <2>1 DEF StartProcess, Reloaded, Active
  <2>2. ASSUME NEW p \in Procs, NEW j \in Jobs, AddDigestJob(p, j) \/ TakeHandle(p, j)
        PROVE  CronTypeOK'
    BY <2>2 DEF AddDigestJob, InsertRow, TakeHandle
  <2>3. ASSUME NEW j \in Jobs, ScheduleInMemory(j) \/ DeleteRow(j) PROVE CronTypeOK'
    BY <2>3 DEF ScheduleInMemory, DeleteRow
  <2>4. ASSUME NEW p \in Procs, NEW j \in Jobs, NEW s \in Slots, Fire(p, j, s)
        PROVE  CronTypeOK'
    BY <2>4 DEF Fire, Run
  <2>5. QED
    BY <1>1, <2>1, <2>2, <2>3, <2>4 DEF CronStep
<1>2. ASSUME NEW p \in Procs, Subscribe(p) PROVE CronTypeOK'
  BY <1>2 DEF Subscribe, cronVars
<1>3. ASSUME NEW p \in Procs, Crash(p) PROVE CronTypeOK'
  BY <1>3, <1>a DEF Crash, CrashProcess, WithoutProcess
<1>4. CASE Publish \/ PollStep
  BY <1>4 DEF Publish, PollStep, PollReads, PollFetches, PollFails, PollStores, PollPanics,
    PollNotes, PollAlerts, cronVars
<1>5. ASSUME NEW s \in Slots, DigestStep(s) PROVE CronTypeOK'
  <2>1. run' \in [Slots -> Run]
    <3>1. ASSUME RunEnds(s) PROVE run' \in [Slots -> Run]
      BY <1>a, <3>1 DEF RunEnds
    <3>2. ASSUME NEW pc \in {"asking", "marking"}, run[s] # NoRun, RunGoes(s, pc)
          PROVE  run' \in [Slots -> Run]
      <4>1. [run[s] EXCEPT !.pc = pc] \in Run
        BY <3>2 DEF Run
      <4>2. QED
        BY <3>2, <4>1 DEF RunGoes
    <3>3. DigestReads(s) => run' \in [Slots -> Run]
      BY <3>1, <3>2 DEF DigestReads, NoRun
    <3>4. DigestSends(s) => run' \in [Slots -> Run]
      BY <3>2 DEF DigestSends, NoRun
    <3>5. DigestFails(s) \/ DigestMarks(s) => run' \in [Slots -> Run]
      BY <3>1 DEF DigestFails, DigestMarks
    <3>6. QED
      BY <1>5, <3>3, <3>4, <3>5 DEF DigestStep
  <2>2. CronRest
    BY <1>5 DEF DigestStep, DigestReads, DigestSends, DigestFails, DigestMarks
  <2>3. QED
    BY <2>1, <2>2 DEF CronRest
<1>6. CASE UNCHANGED vars
  BY <1>6 DEF vars, cronVars
<1>7. QED
  BY <1>1, <1>2, <1>3, <1>4, <1>5, <1>6 DEF Next

\* The poll's own records, step by step; NewestIsGreatest keeps what is stored
\* within what was published.
LEMMA PollTypes ==
  ASSUME TypeOK, PollInv, Publish \/ PollStep PROVE TypeOK' /\ PollInv'
<1> USE WorkIqAssumption DEF TypeOK, PollInv
<1>0. CronTypeOK' /\ UNCHANGED cronVars
  <2>1. UNCHANGED cronVars
    BY DEF Publish, PollStep, PollReads, PollFetches, PollFails, PollStores, PollPanics,
      PollNotes, PollAlerts
  <2>2. QED
    BY <2>1 DEF cronVars, CronTypeOK
<1>a. poll.todo \subseteq Entries /\ poll.found \subseteq Entries
  BY DEF Entries
<1>1. CASE Publish
  <2>1. lost' \subseteq 1 .. published'
    <3>1. Document \subseteq 1 .. published /\ published' = published + 1
      BY <1>1 DEF Publish, Document
    <3>2. 1 .. published \subseteq 1 .. published'
      BY <3>1
    <3>3. lost' \subseteq lost \cup Document
      BY <1>1 DEF Publish
    <3>4. QED
      BY <3>1, <3>2, <3>3
  <2>2. QED
    BY <1>0, <1>1, <2>1 DEF Publish, cronVars
<1>2. CASE PollReads
  <2>1. poll' \in Poll /\ poll'.todo = {} /\ poll'.found = {} /\ poll'.pc = "fetching"
        /\ poll'.from = lastSeen
    <3>1. poll' = [NoPoll EXCEPT !.pc = "fetching", !.from = lastSeen]
      BY <1>2 DEF PollReads, PollSet, StartsAt
    <3>2. lastSeen \in 0 .. MaxEntry
      OBVIOUS
    <3>3. NoPoll \in Poll /\ NoPoll.todo = {} /\ NoPoll.found = {}
      BY DEF NoPoll, Poll
    <3>4. QED
      BY <3>1, <3>2, <3>3 DEF Poll
  <2>2. QED
    BY <1>0, <1>2, <2>1 DEF PollReads, cronVars
<1>3. CASE PollFetches
  <2> DEFINE found == {e \in Document : e > poll.from}
  <2>1. found \subseteq 1 .. published /\ found \subseteq Entries
    BY DEF Document, Entries
  <2>2. poll' = [poll EXCEPT !.pc = "storing", !.todo = found, !.found = found]
    BY <1>3 DEF PollFetches, PollSet
  <2>3. \A x \in found : poll.from < x
    OBVIOUS
  <2> HIDE DEF found
  <2>4. poll' \in Poll /\ poll'.todo = found /\ poll'.found = found /\ poll'.pc = "storing"
        /\ poll'.from = poll.from
    BY <2>1, <2>2 DEF Poll
  <2>5. lastSeen' = lastSeen /\ poll.pc = "fetching"
    BY <1>3 DEF PollFetches, NotedFirst
  <2>6. QED
    BY <1>0, <1>3, <2>1, <2>3, <2>4, <2>5 DEF PollFetches, cronVars
<1>4. CASE PollFails \/ PollPanics
  <2>1. poll' \in Poll /\ poll'.todo = {} /\ poll'.found = {} /\ poll'.pc \in {"idle", "dead"}
    BY <1>4 DEF PollFails, PollPanics, PollSet, Poll, NoPoll
  <2>2. QED
    BY <1>0, <1>4, <2>1 DEF PollFails, PollPanics, cronVars
<1>5. CASE PollStores
  <2> DEFINE e == Newest(poll.todo)
  <2>1. e \in poll.todo
    BY <1>5, <1>a, NewestIsGreatest DEF PollStores
  <2>2. poll' = [poll EXCEPT !.todo = @ \ {e}]
    BY <1>5 DEF PollStores, PollSet
  <2>3. /\ \/ stored' = stored \cup {e} /\ lost' = lost \ {e}
           \/ stored' = stored /\ lost' = lost \cup ({e} \ stored)
    BY <1>5 DEF PollStores
  <2> HIDE DEF e
  <2>4. poll' \in Poll /\ poll'.todo \subseteq poll.todo /\ poll'.found = poll.found
        /\ poll'.pc = poll.pc /\ poll'.from = poll.from
    BY <2>2 DEF Poll
  <2>5. e \in 1 .. published
    BY <2>1
  <2>6. /\ stored' \subseteq 1 .. published /\ stored \subseteq stored'
        /\ lost' \subseteq 1 .. published
    BY <2>3, <2>5
  <2>8. poll.pc = "storing"
    BY <1>5 DEF PollStores
  <2>9. QED
    BY <1>0, <1>5, <2>4, <2>6, <2>8 DEF PollStores, cronVars
<1>6. CASE PollNotes
  <2> DEFINE matching == poll.found \cap Matching
  <2>0. matching \subseteq poll.found /\ matching \subseteq Entries
    BY <1>a
  <2> HIDE DEF matching
  <2>1. CASE /\ poll.found # {}
             /\ lastSeen' = Newest(poll.found)
             /\ poll' = IF matching = {} THEN NoPoll
                        ELSE [poll EXCEPT !.pc = "alerting", !.todo = matching]
    <3>1. /\ poll' \in Poll /\ poll'.todo \subseteq poll'.found
          /\ poll'.found \subseteq poll.found
          /\ \/ poll'.pc = "idle" /\ poll'.todo = {}
             \/ poll'.pc = "alerting" /\ poll'.todo # {}
      <4>1. CASE matching = {}
        BY <2>1, <4>1 DEF Poll, NoPoll
      <4>2. CASE matching # {}
        BY <2>0, <2>1, <4>2, <1>a DEF Poll
      <4>3. QED
        BY <4>1, <4>2
    <3>2. lastSeen' \in 0 .. published
      BY <2>1, <1>a, NewestIsGreatest
    <3>3. QED
      BY <1>0, <1>6, <2>1, <3>1, <3>2 DEF PollNotes, cronVars
  <2>2. CASE lastSeen' = lastSeen /\ poll' = NoPoll
    <3>1. poll' \in Poll /\ poll'.todo = {} /\ poll'.found = {} /\ poll'.pc = "idle"
      BY <2>2 DEF Poll, NoPoll
    <3>2. QED
      BY <1>0, <1>6, <2>2, <3>1 DEF PollNotes, cronVars
  <2>3. QED
    BY <1>6, <2>1, <2>2 DEF PollNotes, PollSet, matching
<1>7. CASE PollAlerts
  <2> DEFINE rest == poll.todo \ {Newest(poll.todo)}
  <2>1. poll' = IF rest = {} THEN NoPoll ELSE [poll EXCEPT !.todo = rest]
    BY <1>7 DEF PollAlerts, PollSet
  <2>2. rest \subseteq poll.todo /\ rest \subseteq Entries
    BY <1>a
  <2> HIDE DEF rest
  <2>3. /\ poll' \in Poll /\ poll'.todo \subseteq poll'.found /\ poll'.found \subseteq poll.found
        /\ \/ poll'.pc = "idle"
           \/ poll'.pc = "alerting" /\ poll'.todo # {}
    BY <1>7, <2>1, <2>2 DEF Poll, NoPoll, PollAlerts
  <2>4. alerted' \in [Entries -> Nat]
    <3>1. PICK pushed : alerted' = [x \in Entries |-> IF x \in pushed THEN alerted[x] + 1 ELSE alerted[x]]
      BY <1>7 DEF PollAlerts
    <3>2. QED
      BY <3>1
  <2>5. QED
    BY <1>0, <1>7, <2>3, <2>4 DEF PollAlerts, cronVars
<1>8. QED
  BY <1>1, <1>2, <1>3, <1>4, <1>5, <1>6, <1>7 DEF PollStep

\* Every step keeps the types and what the poll knows of the document.
LEMMA TypesStep == TypeOK /\ PollInv /\ [Next]_vars => TypeOK' /\ PollInv'
<1> SUFFICES ASSUME TypeOK, PollInv, [Next]_vars PROVE TypeOK' /\ PollInv'
  OBVIOUS
<1>0. CronTypeOK'
  BY CronTypes
<1> USE WorkIqAssumption DEF TypeOK, PollInv
<1>1. CASE CronStep /\ UNCHANGED feedVars
  <2>1. \A s \in Slots : run'[s] = NoRun => run[s] = NoRun
    <3>1. ASSUME NEW p \in Procs, NEW j \in Jobs, NEW s \in Slots, Fire(p, j, s)
          PROVE  \A t \in Slots : run'[t] = NoRun => run[t] = NoRun
      BY <3>1 DEF Fire, CronTypeOK
    <3>2. CASE UNCHANGED run
      BY <3>2
    <3>3. QED
      BY <1>1, <3>1, <3>2 DEF CronStep, StartProcess, AddDigestJob, InsertRow, TakeHandle, ScheduleInMemory, DeleteRow
  <2>2. QED
    BY <1>0, <1>1, <2>1 DEF feedVars
<1>2. ASSUME NEW p \in Procs, Subscribe(p) PROVE TypeOK' /\ PollInv'
  <2>1. subs' \in 0 .. MaxSubs /\ lastSeen' = 0 /\ poll' = poll /\ published' = published
    BY <1>2 DEF Subscribe
  <2>2. poll.pc \in {"fetching", "storing"} => 0 <= poll.from
    BY DEF Poll
  <2>3. lost' \subseteq 1 .. published
    BY <1>2 DEF Subscribe, Document
  <2>4. QED
    BY <1>0, <1>2, <2>1, <2>2, <2>3 DEF Subscribe, cronVars
<1>3. ASSUME NEW p \in Procs, Crash(p) PROVE TypeOK' /\ PollInv'
  <2>1. batch' \in [Slots -> SUBSET (1 .. published)] /\ \A s \in Slots : run'[s] = NoRun => batch'[s] = {}
    BY <1>3 DEF Crash, CrashProcess, CronTypeOK
  <2>2. CASE p = Daemon
    <3>1. poll' \in Poll /\ poll'.todo = {} /\ poll'.found = {} /\ poll'.pc = "idle"
      BY <1>3, <2>2 DEF Crash, Poll, NoPoll
    <3>2. QED
      BY <1>0, <1>3, <2>1, <3>1 DEF Crash
  <2>3. CASE p # Daemon
    BY <1>0, <1>3, <2>1, <2>3 DEF Crash
  <2>4. QED
    BY <2>2, <2>3
<1>4. CASE Publish \/ PollStep
  BY <1>4, PollTypes
<1>5. ASSUME NEW s \in Slots, DigestStep(s) PROVE TypeOK' /\ PollInv'
  <2>0. UNCHANGED <<published, subs, lastSeen, stored, poll, alerted, lost>>
    BY <1>5 DEF DigestStep, DigestReads, DigestSends, DigestFails, DigestMarks
  <2>1. digested' \subseteq stored /\ sent' \subseteq 1 .. published
    <3>1. batch[s] \subseteq 1 .. published
      OBVIOUS
    <3>2. QED
      BY <1>5, <3>1 DEF DigestStep, DigestReads, DigestSends, DigestFails, DigestMarks, ToMark
  <2>2. batch' \in [Slots -> SUBSET (1 .. published)]
    BY <1>5 DEF DigestStep, DigestReads, DigestSends, DigestFails, DigestMarks, ToMark
  <2>3. \A t \in Slots : run'[t] = NoRun => batch'[t] = {}
    <3>1. \A t \in Slots : t # s => run'[t] = run[t] /\ batch'[t] = batch[t]
      BY <1>5 DEF DigestStep, DigestReads, DigestSends, DigestFails, DigestMarks, RunEnds,
        RunGoes, CronTypeOK
    <3>2. run'[s] = NoRun => batch'[s] = {}
      <4>1. CASE DigestReads(s)
        <5>1. CASE stored \subseteq digested
          BY <4>1, <5>1 DEF DigestReads
        <5>2. CASE ~(stored \subseteq digested)
          <6>1. run' = [run EXCEPT ![s].pc = "asking"]
            BY <4>1, <5>2 DEF DigestReads, RunGoes
          <6>2. run'[s].pc = "asking"
            BY <4>1, <6>1 DEF CronTypeOK, Run, DigestReads, NoRun
          <6>3. QED
            BY <6>2 DEF NoRun
        <5>3. QED
          BY <5>1, <5>2
      <4>2. CASE DigestSends(s)
        <5>1. run' = [run EXCEPT ![s].pc = "marking"]
          BY <4>2 DEF DigestSends, RunGoes
        <5>2. run'[s].pc = "marking"
          BY <4>2, <5>1 DEF CronTypeOK, Run, DigestSends, NoRun
        <5>3. QED
          BY <5>2 DEF NoRun
      <4>3. CASE DigestFails(s)
        BY <4>3 DEF DigestFails
      <4>4. CASE DigestMarks(s)
        <5>1. PICK e \in batch[s] :
                /\ batch' = [batch EXCEPT ![s] = @ \ {e}]
                /\ IF batch[s] = {e} THEN RunEnds(s) ELSE UNCHANGED run
          BY <4>4 DEF DigestMarks, ToMark
        <5>2. CASE batch[s] = {e}
          BY <5>1, <5>2
        <5>3. CASE batch[s] # {e}
          <6>1. run[s] # NoRun /\ run' = run
            BY <4>4, <5>1, <5>3 DEF DigestMarks, NoRun
          <6>2. QED
            BY <6>1
        <5>4. QED
          BY <5>2, <5>3
      <4>5. QED
        BY <1>5, <4>1, <4>2, <4>3, <4>4 DEF DigestStep
    <3>3. QED
      BY <3>1, <3>2
  <2>4. digested' \subseteq stored' /\ sent' \subseteq 1 .. published' /\ batch' \in [Slots -> SUBSET (1 .. published')]
    BY <2>0, <2>1, <2>2
  <2>5. QED
    BY <1>0, <2>0, <2>3, <2>4
<1>6. CASE UNCHANGED vars
  BY <1>0, <1>6 DEF vars, feedVars, cronVars
<1>7. QED
  BY <1>1, <1>2, <1>3, <1>4, <1>5, <1>6 DEF Next

\* As long as what was dealt with stays so, the steps that move neither the
\* poll nor last_seen_id skip nothing.
LEMMA PassedKept ==
  ASSUME PassedInv, UNCHANGED published, Kept \subseteq Kept',
         lastSeen' = lastSeen \/ lastSeen' = 0,
         poll' = poll \/ poll'.pc \in {"idle", "dead", "alerting"}
  PROVE  PassedInv'
<1> USE DEF PassedInv, Passed
<1>1. Passed(lastSeen)'
  BY SMT
<1>2. (\A e \in 1 .. published : e <= published - Shown => e \in Kept)'
  OBVIOUS
<1>3. CASE poll' = poll
  BY <1>1, <1>2, <1>3
<1>4. CASE poll'.pc \in {"idle", "dead", "alerting"}
  BY <1>1, <1>2, <1>4
<1>5. QED
  BY <1>3, <1>4

\* last_seen_id moves to the newest entry found only when all of them were
\* stored or lost; what lies between was passed, or had left the document.
LEMMA PassedStep == TypeOK /\ PollInv /\ PassedInv /\ [Next]_vars => PassedInv'
<1> SUFFICES ASSUME TypeOK, PollInv, PassedInv, [Next]_vars PROVE PassedInv'
  OBVIOUS
<1>0. published \in Nat /\ published <= MaxEntry /\ lastSeen \in Nat /\ poll \in Poll
      /\ poll.from \in Nat
  BY WorkIqAssumption DEF TypeOK, Poll
<1>b. poll.todo \subseteq poll.found /\ poll.found \subseteq Entries
  BY WorkIqAssumption DEF TypeOK, PollInv, Entries
<1>1. CASE \/ CronStep /\ UNCHANGED feedVars
           \/ \E p \in Procs : Crash(p)
           \/ \E s \in Slots : DigestStep(s)
           \/ UNCHANGED vars
  <2>1. /\ UNCHANGED <<published, stored, lost, lastSeen>>
        /\ poll' = poll \/ poll'.pc = "idle"
    BY <1>1 DEF feedVars, vars, Crash, NoPoll, DigestStep, DigestReads, DigestSends,
      DigestFails, DigestMarks
  <2>2. Kept \subseteq Kept'
    BY <2>1 DEF Kept
  <2>3. QED
    BY <2>1, <2>2, PassedKept
<1>s. ASSUME NEW p \in Procs, Subscribe(p) PROVE PassedInv'
  <2>1. /\ UNCHANGED <<published, poll>> /\ lastSeen' = 0
        /\ stored' = {}
        /\ lost' = lost \cup
             (IF poll.pc \in {"fetching", "storing"} THEN stored ELSE stored \ Document)
    BY <1>s DEF Subscribe
  <2>2. ASSUME NEW e \in 1 .. published, e <= published - Shown PROVE e \in Kept'
    <3>1. e \in Kept
      BY <2>2 DEF PassedInv
    <3>2. e \notin Document
      BY <1>0, <2>2, WorkIqAssumption DEF Document
    <3>3. QED
      BY <2>1, <3>1, <3>2 DEF Kept
  <2>3. poll.pc \in {"fetching", "storing"} => Kept \subseteq Kept'
    BY <2>1 DEF Kept
  <2>4. QED
    BY <2>1, <2>2, <2>3 DEF PassedInv, Passed
<1>2. CASE Publish
  <2>1. /\ published' = published + 1 /\ UNCHANGED <<lastSeen, stored, poll>>
        /\ lost' = lost \cup {e \in Document : e <= published' - Shown /\ e \notin stored}
    BY <1>2 DEF Publish
  <2>3. Kept \subseteq Kept'
    BY <2>1 DEF Kept
  <2>2. ASSUME NEW e \in 1 .. published', e <= published' - Shown PROVE e \in Kept'
    <3>1. e \in 1 .. published
      BY <1>0, <2>1, <2>2, WorkIqAssumption
    <3>2. CASE e \in Document
      BY <2>1, <2>2, <3>2 DEF Kept
    <3>3. CASE e \notin Document
      <4>1. e <= published - Shown
        BY <1>0, <3>1, <3>3, WorkIqAssumption DEF Document
      <4>2. QED
        BY <2>1, <2>3, <3>1, <4>1 DEF PassedInv
    <3>4. QED
      BY <3>2, <3>3
  <2>4. QED
    BY <2>1, <2>2, <2>3 DEF PassedInv, Passed
<1>3. CASE PollReads
  <2>1. /\ poll' = [NoPoll EXCEPT !.pc = "fetching", !.from = lastSeen]
        /\ UNCHANGED <<published, lastSeen, stored, lost>>
    BY <1>3 DEF PollReads, PollSet, StartsAt
  <2>2. poll'.pc = "fetching" /\ poll'.from = lastSeen
    BY <2>1 DEF NoPoll
  <2>3. QED
    BY <2>1, <2>2 DEF PassedInv, Passed, Kept
<1>4. CASE PollFetches
  <2> DEFINE found == {e \in Document : e > poll.from}
  <2>1. /\ poll' = [poll EXCEPT !.pc = "storing", !.todo = found, !.found = found]
        /\ UNCHANGED <<published, lastSeen, stored, lost>> /\ poll.pc = "fetching"
    BY <1>4 DEF PollFetches, PollSet, NotedFirst
  <2>2. ASSUME NEW x \in found, NEW e \in Entries, e < x
        PROVE  e \in found \/ e \in Kept
    <3>1. e \in 1 .. published
      BY <1>0, <2>2 DEF Document, Entries
    <3>2. CASE e <= poll.from
      BY <1>0, <2>1, <3>1, <3>2 DEF PassedInv, Passed
    <3>3. CASE e > poll.from /\ e \notin found
      <4>1. e <= published - Shown
        BY <1>0, <3>1, <3>3, WorkIqAssumption DEF Document
      <4>2. QED
        BY <3>1, <4>1 DEF PassedInv
    <3>4. QED
      BY <1>0, <3>1, <3>2, <3>3
  <2> HIDE DEF found
  <2>3. poll'.pc = "storing" /\ poll'.todo = found /\ poll'.found = found /\ poll'.from = poll.from
    BY <1>0, <2>1 DEF Poll
  <2>4. QED
    BY <2>1, <2>2, <2>3 DEF PassedInv, Passed, Kept
<1>5. CASE PollFails \/ PollPanics \/ PollAlerts
  <2>1. UNCHANGED <<published, lastSeen, stored, lost>>
    BY <1>5 DEF PollFails, PollPanics, PollAlerts
  <2>2. poll'.pc \in {"idle", "dead", "alerting"}
    <3>1. CASE PollFails \/ PollPanics
      BY <3>1 DEF PollFails, PollPanics, PollSet, NoPoll
    <3>2. CASE PollAlerts
      <4> DEFINE rest == poll.todo \ {Newest(poll.todo)}
      <4>1. poll.pc = "alerting" /\ poll' = IF rest = {} THEN NoPoll ELSE [poll EXCEPT !.todo = rest]
        BY <3>2 DEF PollAlerts, PollSet
      <4> HIDE DEF rest
      <4>2. QED
        BY <1>0, <4>1 DEF NoPoll, Poll
    <3>3. QED
      BY <1>5, <3>1, <3>2
  <2>3. QED
    BY <2>1, <2>2, PassedKept DEF Kept
<1>6. CASE PollStores
  <2> DEFINE e == Newest(poll.todo)
  <2>1. /\ poll' = [poll EXCEPT !.todo = @ \ {e}] /\ poll.pc = "storing"
        /\ UNCHANGED <<published, lastSeen>>
        /\ \/ stored' = stored \cup {e} /\ lost' = lost \ {e}
           \/ stored' = stored /\ lost' = lost \cup ({e} \ stored)
    BY <1>6 DEF PollStores, PollSet
  <2> HIDE DEF e
  <2>2. Kept \cup {e} \subseteq Kept'
    BY <2>1 DEF Kept
  <2>3. poll'.pc = "storing" /\ poll'.todo = poll.todo \ {e} /\ poll'.found = poll.found
        /\ poll'.from = poll.from
    BY <1>0, <2>1 DEF Poll
  <2>4. poll'.found \ poll'.todo \subseteq Kept'
    BY <2>1, <2>2, <2>3 DEF PassedInv
  <2>5. QED
    BY <2>1, <2>2, <2>3, <2>4 DEF PassedInv, Passed
<1>7. CASE PollNotes
  <2> DEFINE matching == poll.found \cap Matching
  <2>1. UNCHANGED <<published, stored, lost>> /\ poll.pc = "storing" /\ poll.todo = {}
    BY <1>7 DEF PollNotes
  <2>2. CASE /\ poll.found # {}
             /\ lastSeen' = Newest(poll.found)
             /\ poll' = IF matching = {} THEN NoPoll
                        ELSE [poll EXCEPT !.pc = "alerting", !.todo = matching]
    <3>1. lastSeen' \in poll.found /\ lastSeen' \in Entries
      BY <1>b, <2>2, NewestIsGreatest
    <3>2. ASSUME NEW e \in 1 .. lastSeen' PROVE e \in Kept
      <4>1. e \in Entries /\ (e = lastSeen' \/ e < lastSeen')
        BY <3>1, WorkIqAssumption DEF Entries
      <4>2. e \in poll.found \/ e \in Kept
        BY <2>1, <3>1, <4>1 DEF PassedInv
      <4>3. QED
        BY <2>1, <4>2 DEF PassedInv
    <3>3. poll'.pc \in {"alerting", "idle"}
      BY <1>0, <2>2 DEF Poll, NoPoll
    <3>4. QED
      BY <2>1, <3>2, <3>3 DEF PassedInv, Passed, Kept
  <2>3. CASE lastSeen' = lastSeen /\ poll' = NoPoll
    <3>1. poll'.pc = "idle"
      BY <2>3 DEF NoPoll
    <3>2. QED
      BY <2>1, <2>3, <3>1, PassedKept DEF Kept
  <2>4. QED
    BY <1>7, <2>2, <2>3 DEF PollNotes, PollSet
<1>8. QED
  BY <1>1, <1>s, <1>2, <1>3, <1>4, <1>5, <1>6, <1>7 DEF Next, PollStep

\* A step that alerts of nothing and makes no entry due keeps the count.
LEMMA AlertsKept ==
  ASSUME TypeOK, AlertInv, UNCHANGED <<subs, lastSeen, alerted>>,
         poll' = poll \/ poll'.pc = "idle" \/ (subs > 0 /\ poll'.pc # "alerting")
  PROVE  AlertInv'
<1>1. \A e \in Entries : alerted[e] \in Nat /\ Due(e) \in {0, 1} /\ Ahead(e) \in {0, 1}
  BY DEF TypeOK, Due, Ahead
<1>2. \A e \in Entries : Due(e)' <= Due(e) /\ Ahead(e)' = Ahead(e)
                         /\ Due(e)' \in {0, 1} /\ Ahead(e)' \in {0, 1}
  BY DEF Due, Ahead
<1>3. subs \in Nat
  BY WorkIqAssumption DEF TypeOK
<1>4. ASSUME subs > 0, NEW e \in Entries PROVE alerted'[e] + Due(e)' + Ahead(e)' <= subs'
  <2>1. alerted[e] + Due(e) + Ahead(e) <= subs
    BY <1>4 DEF AlertInv
  <2>2. QED
    BY <1>1, <1>2, <1>3, <2>1
<1>5. QED
  BY <1>3, <1>4 DEF AlertInv

\* An entry is due an alert only as last_seen_id passes it, and only a new
\* subscription sets that back.
LEMMA AlertStep == TypeOK /\ PollInv /\ AlertInv /\ [Next]_vars => AlertInv'
<1> SUFFICES ASSUME TypeOK, PollInv, AlertInv, [Next]_vars PROVE AlertInv'
  OBVIOUS
<1>0. subs \in Nat /\ lastSeen \in Nat /\ poll \in Poll /\ alerted \in [Entries -> Nat]
      /\ lastSeen <= MaxEntry
  BY WorkIqAssumption DEF TypeOK
<1>a. \A e \in Entries : alerted[e] \in Nat /\ Due(e) \in {0, 1} /\ Ahead(e) \in {0, 1}
                         /\ Due(e)' \in {0, 1} /\ Ahead(e)' \in {0, 1}
  BY <1>0 DEF Due, Ahead
<1>b. poll.todo \subseteq Entries /\ poll.found \subseteq Entries
  BY WorkIqAssumption DEF TypeOK, PollInv, Entries
<1>c. poll.pc # "idle" => subs > 0
  BY <1>0 DEF AlertInv
<1>1. CASE \/ CronStep /\ UNCHANGED feedVars
           \/ \E p \in Procs : Crash(p)
           \/ \E s \in Slots : DigestStep(s)
           \/ Publish
           \/ UNCHANGED vars
  <2>1. UNCHANGED <<subs, lastSeen, alerted>> /\ (poll' = poll \/ poll'.pc = "idle")
    BY <1>1 DEF feedVars, vars, Crash, NoPoll, DigestStep, DigestReads, DigestSends,
      DigestFails, DigestMarks, Publish
  <2>2. poll' = poll \/ poll'.pc = "idle" \/ (subs > 0 /\ poll'.pc # "alerting")
    BY <2>1
  <2>3. QED
    BY <2>1, <2>2, AlertsKept
<1>2. ASSUME NEW p \in Procs, Subscribe(p) PROVE AlertInv'
  <2>1. subs' = subs + 1 /\ UNCHANGED <<poll, alerted>>
    BY <1>2 DEF Subscribe
  <2>2. ASSUME NEW e \in Entries PROVE alerted'[e] + Due(e)' + Ahead(e)' <= subs'
    <3>1. Due(e)' = Due(e)
      BY <2>1 DEF Due
    <3>2. alerted[e] + Due(e) <= subs
      <4>1. CASE subs = 0
        BY <1>0, <4>1 DEF AlertInv, Due
      <4>2. CASE subs > 0
        <5>1. alerted[e] + Due(e) + Ahead(e) <= subs
          BY <4>2 DEF AlertInv
        <5>2. QED
          BY <1>0, <1>a, <5>1
      <4>3. QED
        BY <1>0, <4>1, <4>2
    <3>3. QED
      BY <1>0, <1>a, <2>1, <3>1, <3>2
  <2>3. QED
    BY <1>0, <2>1, <2>2 DEF AlertInv
<1>3. CASE PollReads \/ PollFetches \/ PollStores \/ PollFails \/ PollPanics
  <2>1. UNCHANGED <<subs, lastSeen, alerted>>
    BY <1>3 DEF PollReads, PollFetches, PollStores, PollFails, PollPanics, NotedFirst
  <2>2. poll'.pc = "idle" \/ (subs > 0 /\ poll'.pc # "alerting")
    <3>1. CASE PollReads
      BY <1>0, <3>1 DEF PollReads, PollSet, NoPoll
    <3>2. CASE PollFetches
      BY <1>0, <1>c, <3>2 DEF PollFetches, PollSet, Poll
    <3>3. CASE PollStores
      BY <1>0, <1>c, <3>3 DEF PollStores, PollSet, Poll
    <3>4. CASE PollFails
      BY <3>4 DEF PollFails, PollSet, NoPoll
    <3>5. CASE PollPanics
      BY <1>0, <1>c, <3>5 DEF PollPanics, PollSet, NoPoll
    <3>6. QED
      BY <1>3, <3>1, <3>2, <3>3, <3>4, <3>5
  <2>3. QED
    BY <2>1, <2>2, AlertsKept
<1>4. CASE PollNotes
  <2> DEFINE matching == poll.found \cap Matching
  <2>1. UNCHANGED <<subs, alerted>> /\ poll.pc = "storing" /\ subs > 0
    BY <1>4, <1>c DEF PollNotes
  <2>2. CASE /\ poll.found # {}
             /\ lastSeen' = Newest(poll.found)
             /\ poll' = IF matching = {} THEN NoPoll
                        ELSE [poll EXCEPT !.pc = "alerting", !.todo = matching]
    <3>1. lastSeen' \in poll.found /\ \A x \in poll.found : x <= lastSeen'
      BY <1>b, <2>2, NewestIsGreatest
    <3>2. \A x \in poll.found : lastSeen < x
      <4>1. lastSeen <= poll.from /\ \A x \in poll.found : poll.from < x
        BY <2>1 DEF PollInv
      <4>2. QED
        BY <1>0, <1>b, <4>1, WorkIqAssumption DEF Poll, Entries
    <3>3. poll'.todo \subseteq poll.found
      BY <1>0, <2>2 DEF Poll, NoPoll
    <3>4. ASSUME NEW e \in Entries PROVE alerted'[e] + Due(e)' + Ahead(e)' <= subs'
      <4>1. alerted[e] + Due(e) + Ahead(e) <= subs
        BY <2>1 DEF AlertInv
      <4>2. CASE e \in poll.found
        <5>1. Ahead(e) = 1
          BY <3>2, <4>2, <1>0, WorkIqAssumption DEF Ahead, Entries
        <5>2. Ahead(e)' = 0
          BY <3>1, <4>2, <1>b, WorkIqAssumption DEF Ahead, Entries
        <5>3. QED
          BY <1>0, <1>a, <2>1, <4>1, <5>1, <5>2
      <4>3. CASE e \notin poll.found
        <5>1. Due(e)' = 0
          BY <3>3, <4>3 DEF Due
        <5>2. Ahead(e)' <= Ahead(e)
          BY <1>0, <1>b, <3>1, <3>2, WorkIqAssumption DEF Ahead, Entries
        <5>3. QED
          BY <1>0, <1>a, <2>1, <4>1, <5>1, <5>2
      <4>4. QED
        BY <4>2, <4>3
    <3>5. QED
      BY <2>1, <3>4 DEF AlertInv
  <2>3. CASE lastSeen' = lastSeen /\ poll' = NoPoll
    BY <2>1, <2>3, AlertsKept DEF NoPoll
  <2>4. QED
    BY <1>4, <2>2, <2>3 DEF PollNotes, PollSet
<1>5. CASE PollAlerts
  <2> DEFINE n == Newest(poll.todo)
             rest == poll.todo \ {n}
  <2>1. /\ UNCHANGED <<subs, lastSeen>> /\ poll.pc = "alerting" /\ subs > 0
        /\ poll' = IF rest = {} THEN NoPoll ELSE [poll EXCEPT !.todo = rest]
    BY <1>5, <1>c DEF PollAlerts, PollSet
  <2>2. n \in poll.todo
    BY <1>b, <2>1, NewestIsGreatest DEF PollInv
  <2>3. PICK pushed \in SUBSET {n} :
          alerted' = [e \in Entries |-> IF e \in pushed THEN alerted[e] + 1 ELSE alerted[e]]
    BY <1>5 DEF PollAlerts
  <2> HIDE DEF n
  <2>4. ASSUME NEW e \in Entries PROVE Due(e)' <= IF e = n THEN 0 ELSE Due(e)
    <3>1. poll'.pc = "alerting" => poll'.todo = rest
      BY <1>0, <2>1 DEF NoPoll, Poll
    <3>2. QED
      BY <2>1, <2>2, <3>1 DEF Due
  <2>5. ASSUME NEW e \in Entries PROVE alerted'[e] + Due(e)' + Ahead(e)' <= subs'
    <3>1. alerted[e] + Due(e) + Ahead(e) <= subs /\ Ahead(e)' = Ahead(e)
      BY <2>1 DEF AlertInv, Ahead
    <3>2. CASE e = n
      <4>1. Due(e) = 1 /\ alerted'[e] <= alerted[e] + 1 /\ alerted'[e] \in Nat
        BY <1>a, <2>1, <2>2, <2>3, <3>2 DEF Due
      <4>2. QED
        BY <1>0, <1>a, <2>1, <2>4, <3>1, <3>2, <4>1
    <3>3. CASE e # n
      <4>1. alerted'[e] = alerted[e]
        BY <2>3, <3>3
      <4>2. QED
        BY <1>0, <1>a, <2>1, <2>4, <3>1, <3>3, <4>1
    <3>4. QED
      BY <3>2, <3>3
  <2>6. QED
    BY <2>1, <2>5 DEF AlertInv
<1>6. QED
  BY <1>1, <1>2, <1>3, <1>4, <1>5 DEF Next, PollStep

\* A digest run marks only after its push; another run's batch is its own.
LEMMA SentStep == TypeOK /\ SentInv /\ [Next]_vars => SentInv'
<1> SUFFICES ASSUME TypeOK, SentInv, [Next]_vars PROVE SentInv'
  OBVIOUS
<1> USE DEF SentInv
<1>0. run \in [Slots -> Run] /\ batch \in [Slots -> SUBSET (1 .. published)]
  BY DEF TypeOK, CronTypeOK
<1>1. CASE CronStep /\ UNCHANGED feedVars
  <2>1. ASSUME NEW p \in Procs, NEW j \in Jobs, NEW s \in Slots, Fire(p, j, s) PROVE SentInv'
    BY <1>0, <1>1, <2>1 DEF Fire, feedVars
  <2>2. CASE UNCHANGED run
    BY <1>1, <2>2 DEF feedVars
  <2>3. QED
    BY <1>1, <2>1, <2>2 DEF CronStep, StartProcess, AddDigestJob, InsertRow, TakeHandle, ScheduleInMemory, DeleteRow
<1>2. ASSUME NEW p \in Procs, Subscribe(p) PROVE SentInv'
  BY <1>2 DEF Subscribe, cronVars
<1>3. ASSUME NEW p \in Procs, Crash(p) PROVE SentInv'
  BY <1>3 DEF Crash, CrashProcess, NoRun
<1>4. CASE Publish \/ PollStep
  BY <1>4 DEF Publish, PollStep, PollReads, PollFetches, PollFails, PollStores, PollPanics,
    PollNotes, PollAlerts, cronVars
<1>5. ASSUME NEW s \in Slots, DigestStep(s) PROVE SentInv'
  <2>1. CASE DigestReads(s)
    <3>1. run'[s].pc # "marking"
      BY <1>0, <2>1 DEF DigestReads, RunEnds, RunGoes, NoRun, Run
    <3>2. \A t \in Slots : t # s => run'[t] = run[t] /\ batch'[t] = batch[t]
      BY <1>0, <2>1 DEF DigestReads, RunEnds, RunGoes
    <3>3. QED
      BY <2>1, <3>1, <3>2 DEF DigestReads
  <2>2. CASE DigestSends(s)
    <3>1. \A t \in Slots : t # s => run'[t] = run[t]
      BY <1>0, <2>2 DEF DigestSends, RunGoes
    <3>2. QED
      BY <2>2, <3>1 DEF DigestSends
  <2>3. CASE DigestFails(s)
    <3>1. \A t \in Slots : t # s => run'[t] = run[t] /\ batch'[t] = batch[t]
      BY <1>0, <2>3 DEF DigestFails, RunEnds
    <3>2. batch'[s] = {}
      BY <1>0, <2>3 DEF DigestFails
    <3>3. QED
      BY <2>3, <3>1, <3>2 DEF DigestFails
  <2>4. CASE DigestMarks(s)
    <3>1. PICK e \in batch[s], ok \in BOOLEAN :
            /\ digested' = IF ok THEN digested \cup {e} ELSE digested
            /\ batch' = [batch EXCEPT ![s] = @ \ {e}]
            /\ IF batch[s] = {e} THEN RunEnds(s) ELSE UNCHANGED run
      BY <2>4 DEF DigestMarks, ToMark
    <3>2. batch[s] \subseteq sent /\ sent' = sent
      BY <2>4 DEF DigestMarks
    <3>3. \A t \in Slots : batch'[t] \subseteq batch[t]
      BY <1>0, <3>1
    <3>4. \A t \in Slots : run'[t].pc = "marking" => run[t].pc = "marking"
      BY <1>0, <3>1 DEF RunEnds, NoRun
    <3>5. QED
      BY <3>1, <3>2, <3>3, <3>4
  <2>5. QED
    BY <1>5, <2>1, <2>2, <2>3, <2>4 DEF DigestStep
<1>6. CASE UNCHANGED vars
  BY <1>6 DEF vars, feedVars, cronVars
<1>7. QED
  BY <1>1, <1>2, <1>3, <1>4, <1>5, <1>6 DEF Next

\* The invariant holds in every state of every behaviour.
LEMMA WorkIqInvariant == Spec => []WorkIqInv
<1>1. WorkIqInv /\ [Next]_vars => WorkIqInv'
  BY TypesStep, PassedStep, AlertStep, SentStep DEF WorkIqInv
<1>2. QED
  BY InitWorkIqInv, <1>1, PTL DEF Spec
-----------------------------------------------------------------------------
\* The types, and that rows and histories stay within what was published.
THEOREM TypeCorrect == Spec => []TypeOK
<1>1. WorkIqInv => TypeOK
  BY DEF WorkIqInv
<1>2. QED
  BY <1>1, WorkIqInvariant, PTL

\* poll_feed never moves last_seen_id past an entry that is neither stored nor
\* lost, whatever is published while it polls and wherever a crash hits it,
\* unless a subscription deleted the entry between its read and its UPDATE.
THEOREM NothingSkippedHolds == Spec => []NothingSkipped
<1>1. WorkIqInv => NothingSkipped
  BY DEF WorkIqInv, PassedInv, Passed, NothingSkipped
<1>2. QED
  BY <1>1, WorkIqInvariant, PTL

\* A digest job marks no entry that a successful push did not contain, however
\* many runs of however many jobs overlap.
THEOREM DigestedWereSentHolds == Spec => []DigestedWereSent
<1>1. WorkIqInv => DigestedWereSent
  BY DEF WorkIqInv, SentInv, DigestedWereSent
<1>2. QED
  BY <1>1, WorkIqInvariant, PTL

\* run_poll_cycle alerts of an entry once for each subscription at most.
THEOREM AlertedOnceHolds == Spec => []AlertedOnce
<1>1. WorkIqInv => AlertedOnce
  <2> SUFFICES ASSUME WorkIqInv, NEW e \in Entries PROVE alerted[e] <= subs
    BY DEF AlertedOnce
  <2>1. subs \in Nat /\ alerted[e] \in Nat /\ Due(e) \in {0, 1} /\ Ahead(e) \in {0, 1}
    BY WorkIqAssumption DEF WorkIqInv, TypeOK, Due, Ahead
  <2>2. QED
    BY <2>1 DEF WorkIqInv, AlertInv
<1>2. QED
  BY <1>1, WorkIqInvariant, PTL
=============================================================================
