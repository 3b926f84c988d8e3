----------------------------- MODULE DreamCycle -----------------------------
(* run_dream_cycle of hydragent-core: pages with messages that are not       *)
(* consolidated are handed to the model one after the other, the facts it    *)
(* extracts go into the memory unless they are there already, and the        *)
(* messages are marked last.  The background worker, the dream.run request   *)
(* and the command line run cycles of their own, which nothing keeps apart.  *)
(*                                                                           *)
(* An action ends where the code awaits the database or the model.  The      *)
(* contents of the personality files, the library graph and the skills are   *)
(* not modelled.                                                             *)
EXTENDS Integers, FiniteSets

CONSTANTS
  Messages, PageOf,
  FactOf,         \* FactOf[m]: the fact behind m, as the model words it
  Searchable,     \* the facts whose text is a valid full-text query with a
                  \* word of three letters
  LongLogs,       \* the sets of messages whose log is over 8192 tokens
  Workers,        \* background cycles of the processes
  Manuals,        \* cycles run on request
  MaxPages,       \* pages of one cycle (5)
  BatchSize,      \* messages read of one page (100)
  MaxFailures,    \* MAX_CONSECUTIVE_FAILURES
  MaxCrashes      \* bound on the crashes

ASSUME DreamAssumption ==
  /\ IsFiniteSet(Workers \cup Manuals) /\ Workers \cap Manuals = {}
  /\ MaxPages \in Nat \ {0} /\ BatchSize \in Nat \ {0} /\ MaxFailures \in Nat \ {0}
  /\ MaxCrashes \in Nat

Cycles == Workers \cup Manuals
Pages == {PageOf[m] : m \in Messages}
Facts == {FactOf[m] : m \in Messages}

VARIABLES
  state,          \* state[m]: "none", "pending", "done" or "dropped"
  copies,         \* copies[f]: rows of the memory that hold f
  failures,       \* CONSECUTIVE_FAILURES
  free,           \* the model in use is a free one of a remote provider
  cycle,          \* cycle[c]: where the cycle c is
  crashes,
  learned,        \* history: messages the model was shown with success
  cut             \* history: those cut out of a log it was shown with success

vars == <<state, copies, failures, free, cycle, crashes, learned, cut>>

(* pages: the pages still to do; batch: the messages read of the page at     *)
(* hand; facts: what is left of its extraction; fresh: the fact that was     *)
(* found to be new and is being stored; good, bad: a page succeeded, failed. *)
Cycle ==
  [pc : {"idle", "woken", "next", "asking", "facts", "storing", "dead"},
   pages : SUBSET Pages, batch : SUBSET Messages, facts : SUBSET Facts,
   fresh : SUBSET Facts, good : BOOLEAN, bad : BOOLEAN]

Asleep == [pc |-> "idle", pages |-> {}, batch |-> {}, facts |-> {}, fresh |-> {},
           good |-> FALSE, bad |-> FALSE]

TypeOK ==
  /\ state \in [Messages -> {"none", "pending", "done", "dropped"}]
  /\ copies \in [Facts -> Nat]
  /\ failures \in Nat /\ free \in BOOLEAN
  /\ cycle \in [Cycles -> Cycle]
  /\ \A c \in Cycles : cycle[c].fresh # {} <=> cycle[c].pc = "storing"
  /\ crashes \in 0 .. MaxCrashes
  /\ learned \subseteq Messages /\ cut \subseteq Messages

Init ==
  /\ state = [m \in Messages |-> "none"]
  /\ copies = [f \in Facts |-> 0]
  /\ failures = 0 /\ free \in BOOLEAN
  /\ cycle = [c \in Cycles |-> Asleep]
  /\ crashes = 0
  /\ learned = {} /\ cut = {}

Pending(p) == {m \in Messages : PageOf[m] = p /\ state[m] = "pending"}
PendingPages == {p \in Pages : Pending(p) # {}}

Moves(c, value) == cycle' = [cycle EXCEPT ![c] = value]

(* Mistakes, for the mutation runs: every message there is is marked; a fact *)
(* is stored unseen; the breaker opens one failure late.                     *)
ToMarkAll(c) == {m \in Messages : state[m] = "pending"}
NeverKnown(f) == FALSE
OpenLate == failures > MaxFailures

ToMark(c) == cycle[c].batch
Known(f) == f \in Searchable /\ copies[f] > 0
Open == failures >= MaxFailures
-----------------------------------------------------------------------------
(* A free remote model and an open breaker hold the background back; a       *)
(* request closes the breaker.                                               *)
Wakes(c) ==
  /\ cycle[c].pc = "idle"
  /\ Moves(c, [Asleep EXCEPT !.pc = "woken"])
  /\ UNCHANGED <<state, copies, free, crashes, learned, cut>>

BeginBackground(c) ==
  /\ c \in Workers /\ ~free /\ ~Open
  /\ Wakes(c)
  /\ UNCHANGED failures

BeginManual(c) ==
  /\ c \in Manuals
  /\ Wakes(c)
  /\ failures' = 0

(* LIMIT n: as many as there are, or n of them. *)
Limit(n, S) ==
  IF Cardinality(S) <= n THEN {S} ELSE {T \in SUBSET S : Cardinality(T) = n}

(* After the files were brought to size, which may take a model call, the    *)
(* pages are chosen.  If the query fails the cycle is over, and the breaker  *)
(* does not hear of it.                                                      *)
ChoosePages(c) ==
  /\ cycle[c].pc = "woken"
  /\ \E chosen \in Limit(MaxPages, PendingPages) :
       Moves(c, [cycle[c] EXCEPT !.pc = "next", !.pages = chosen])
  /\ UNCHANGED <<state, copies, failures, free, crashes, learned, cut>>

ChoosingFails(c) ==
  /\ cycle[c].pc = "woken"
  /\ Moves(c, Asleep)
  /\ UNCHANGED <<state, copies, failures, free, crashes, learned, cut>>

(* process_page reads what is pending on the page by now; nothing may be     *)
(* left, which counts as a success.  The query may fail.                     *)
ReadPage(c, p) ==
  /\ cycle[c].pc = "next" /\ p \in cycle[c].pages
  /\ LET rest == [cycle[c] EXCEPT !.pages = @ \ {p}] IN
     \E read \in Limit(BatchSize, Pending(p)) :
       Moves(c, IF read = {} THEN [rest EXCEPT !.good = TRUE]
                ELSE [rest EXCEPT !.batch = read, !.pc = "asking"])
  /\ UNCHANGED <<state, copies, failures, free, crashes, learned, cut>>

ReadFails(c, p) ==
  /\ cycle[c].pc = "next" /\ p \in cycle[c].pages
  /\ Moves(c, [cycle[c] EXCEPT !.pages = @ \ {p}, !.bad = TRUE])
  /\ UNCHANGED <<state, copies, failures, free, crashes, learned, cut>>

(* Of a long log the first fifth and the last two fifths of the messages,    *)
(* rounded down, are shown; of one or two messages nothing is.               *)
ShownOf(n) == n \div 5 + (2 * n) \div 5
Logs(batch) ==
  IF batch \in LongLogs
  THEN {S \in SUBSET batch : Cardinality(S) = ShownOf(Cardinality(batch))}
  ELSE {batch}

(* The model extracts what it finds worth keeping, after up to three         *)
(* attempts.                                                                 *)
Extract(c) ==
  /\ cycle[c].pc = "asking"
  /\ \E log \in Logs(cycle[c].batch) :
       /\ \E found \in SUBSET {FactOf[m] : m \in log} :
            Moves(c, [cycle[c] EXCEPT !.pc = "facts", !.facts = found])
       /\ learned' = learned \cup log
       /\ cut' = cut \cup (cycle[c].batch \ log)
  /\ UNCHANGED <<state, copies, failures, free, crashes>>

(* A fact is looked up, and stored in a later step if it was not found.  A   *)
(* text that is not a valid query, for its punctuation, is never found.      *)
LookUp(c, f) ==
  /\ cycle[c].pc = "facts" /\ f \in cycle[c].facts
  /\ LET rest == [cycle[c] EXCEPT !.facts = @ \ {f}] IN
     Moves(c, IF Known(f) THEN rest ELSE [rest EXCEPT !.fresh = {f}, !.pc = "storing"])
  /\ UNCHANGED <<state, copies, failures, free, crashes, learned, cut>>

(* A failure to store is logged, and the fact is lost. *)
Store(c) ==
  /\ cycle[c].pc = "storing"
  /\ \E kept \in {{}, cycle[c].fresh} :
       copies' = [f \in Facts |-> IF f \in kept THEN copies[f] + 1 ELSE copies[f]]
  /\ Moves(c, [cycle[c] EXCEPT !.pc = "facts", !.fresh = {}])
  /\ UNCHANGED <<state, failures, free, crashes, learned, cut>>

FactsDone(c) == cycle[c].pc = "facts" /\ cycle[c].facts = {}

(* When every fact is dealt with: mark_consolidated, by the ids that were read. *)
Mark(c) ==
  /\ FactsDone(c)
  /\ state' = [m \in Messages |->
       IF m \in ToMark(c) /\ state[m] = "pending" THEN "done" ELSE state[m]]
  /\ Moves(c, [cycle[c] EXCEPT !.pc = "next", !.batch = {}, !.good = TRUE])
  /\ UNCHANGED <<copies, failures, free, crashes, learned, cut>>

(* Mistake, for the mutation runs: a page that fails ends the cycle. *)
PageFailsAll(c) ==
  /\ cycle[c].pc = "asking" \/ FactsDone(c)
  /\ Moves(c, Asleep)
  /\ UNCHANGED <<state, copies, failures, free, crashes, learned, cut>>

(* The model, or the update of the messages, fails: they stay as they are.   *)
PageFails(c) ==
  /\ cycle[c].pc = "asking" \/ FactsDone(c)
  /\ Moves(c, [cycle[c] EXCEPT !.pc = "next", !.batch = {}, !.bad = TRUE])
  /\ UNCHANGED <<state, copies, failures, free, crashes, learned, cut>>

(* A summary without a title is cut at byte 35; inside a character it        *)
(* panics.  The worker is one task: it does not come back.                   *)
TitlePanics(c) ==
  /\ FactsDone(c)
  /\ Moves(c, IF c \in Workers THEN [Asleep EXCEPT !.pc = "dead"] ELSE Asleep)
  /\ UNCHANGED <<state, copies, failures, free, crashes, learned, cut>>

(* One page that succeeded closes the breaker; only failures warm it.        *)
EndCycle(c) ==
  /\ cycle[c].pc = "next" /\ cycle[c].pages = {}
  /\ failures' = IF cycle[c].good THEN 0 ELSE IF cycle[c].bad THEN failures + 1 ELSE failures
  /\ Moves(c, Asleep)
  /\ UNCHANGED <<state, copies, free, crashes, learned, cut>>
-----------------------------------------------------------------------------
(* A turn stores a message; a compaction of the page may delete it before   *)
(* any cycle has seen it.                                                    *)
NewMessage(m) ==
  /\ state[m] = "none"
  /\ state' = [state EXCEPT ![m] = "pending"]
  /\ UNCHANGED <<copies, failures, free, cycle, crashes, learned, cut>>

DropMessage(m) ==
  /\ state[m] = "pending"
  /\ state' = [state EXCEPT ![m] = "dropped"]
  /\ UNCHANGED <<copies, failures, free, cycle, crashes, learned, cut>>

(* memory.delete deletes one row. *)
DeleteFact(f) ==
  /\ copies[f] > 0
  /\ copies' = [copies EXCEPT ![f] = @ - 1]
  /\ UNCHANGED <<state, failures, free, cycle, crashes, learned, cut>>

(* The model router takes another model while the program runs. *)
SwitchModel ==
  /\ free' = ~free
  /\ UNCHANGED <<state, copies, failures, cycle, crashes, learned, cut>>

(* The cycles and the count of failures are in memory only. *)
Crash ==
  /\ crashes < MaxCrashes
  /\ crashes' = crashes + 1
  /\ cycle' = [c \in Cycles |-> Asleep]
  /\ failures' = 0
  /\ UNCHANGED <<state, copies, free, learned, cut>>

CycleStep(c) ==
  \/ ChoosePages(c) \/ ChoosingFails(c) \/ \E p \in Pages : ReadPage(c, p) \/ ReadFails(c, p)
  \/ Extract(c) \/ \E f \in Facts : LookUp(c, f)
  \/ Store(c) \/ Mark(c) \/ PageFails(c) \/ TitlePanics(c) \/ EndCycle(c)

Next ==
  \/ \E c \in Cycles : BeginBackground(c) \/ BeginManual(c) \/ CycleStep(c)
  \/ \E m \in Messages : NewMessage(m) \/ DropMessage(m)
  \/ \E f \in Facts : DeleteFact(f)
  \/ SwitchModel \/ Crash

(* The worker's timer ticks for ever and a cycle that runs is polled; the    *)
(* model and the database answer or fail.                                    *)
Spec ==
  /\ Init /\ [][Next]_vars
  /\ \A c \in Cycles : WF_vars(CycleStep(c))
  /\ \A c \in Workers : SF_vars(BeginBackground(c))
-----------------------------------------------------------------------------
(* A message is marked only if it was read into a log that the model then    *)
(* extracted from, though maybe cut out of it: it was not stored while the   *)
(* cycle ran, nor is it of a page that failed, whatever other cycles and     *)
(* crashes do.                                                               *)
MarkedWereLogged == \A m \in Messages : state[m] = "done" => m \in learned \cup cut

(* That it was shown to the model, as the code says, is not so.              *)
MarkedWereLearned == \A m \in Messages : state[m] = "done" => m \in learned

(* The look-up and the insert are apart, so cycles that overlap store a fact *)
(* twice; but one copy a cycle is all that can come of it, as long as the    *)
(* fact can be searched for: crashes, failed pages and repetitions add none. *)
CopiesBounded == \A f \in Searchable \cap Facts : copies[f] <= Cardinality(Cycles)

(* The breaker bounds what a dead model costs: cycles that were under way    *)
(* when it opened may still fail, no more.                                   *)
FailuresBounded == failures <= MaxFailures - 1 + Cardinality(Cycles)

(* A page with a pending message is handed to the model, again and again     *)
(* until it is done, though it and others may fail, unless the model is      *)
(* free, the breaker opens, a panic ends the worker, or more pages wait than *)
(* one cycle takes: the query has no order, so it may leave out the same one *)
(* for ever.  So may a database that fails for ever.                         *)
Crowded == Cardinality(PendingPages) > MaxPages

Tried(p) == \E c \in Cycles, m \in Messages :
  cycle[c].pc = "asking" /\ m \in cycle[c].batch /\ PageOf[m] = p

QueryFails(p) == \E c \in Workers : ChoosingFails(c) \/ ReadFails(c, p)

PendingIsTried ==
  \A p \in Pages :
    \/ []<><<QueryFails(p)>>_vars
    \/ p \in PendingPages ~>
         \/ p \notin PendingPages \/ Tried(p)
         \/ free \/ Open \/ Crowded
         \/ \A c \in Workers : cycle[c].pc = "dead"
=============================================================================
