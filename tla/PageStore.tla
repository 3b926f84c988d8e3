----------------------------- MODULE PageStore -----------------------------
(***************************************************************************)
(* The life of one page of conversation: IntentSubmitHandler and             *)
(* run_compaction (hydragent-core, orchestrator.rs) over the tables messages *)
(* and page_meta (hydragent-memory, session_store.rs).                       *)
(*                                                                         *)
(* Turns, the compaction tasks they leave behind, page.compact requests and  *)
(* library.delete_node all run as tasks of their own.  Each SQL statement    *)
(* is atomic; no two of them share a transaction.  A crash loses the tasks   *)
(* and keeps the tables.                                                     *)
(*                                                                         *)
(* A message's text is its turn and its role.  A summary is what the model   *)
(* was shown when it wrote it.  Timestamps are distinct here: two messages   *)
(* of the same millisecond come out of the index (page_id, timestamp) in    *)
(* the order of their rows, which is one of the orders stamps can take.     *)
(***************************************************************************)
EXTENDS Integers, FiniteSets

CONSTANTS Turns,            \* the intent.submit requests on the page
          Requests,         \* the page.compact requests
          HistoryLimit,     \* messages of history a turn loads (20)
          PageLimit,        \* messages above which a page is compacted (30)
          CompactionReads,  \* messages a compaction reads (200)
          Keep              \* messages a compaction keeps (4)

Limits == {HistoryLimit, PageLimit, CompactionReads, Keep}

ASSUME TurnsAssumption == IsFiniteSet(Turns)
ASSUME JobsAssumption == Turns \cap Requests = {}
ASSUME LimitsAssumption == Limits \subseteq Nat /\ Keep <= PageLimit

Role == {"user", "assistant"}
Messages == Turns \X Role
Jobs == Turns \cup Requests   \* the compaction task of a turn or of a request

VARIABLES
    pc,         \* where each turn is (see TypeOK)
    writing,    \* the role of the message it appends next
    history,    \* the messages it loaded
    clock,      \* number of timestamps taken
    stamp,      \* the timestamp of each message; 0 if it has none yet
    rows,       \* the page's rows in messages
    meta,       \* the page has a row in page_meta
    summary,    \* the messages its summary was written from
    job,        \* where each compaction is (see TypeOK)
    batch,      \* the messages it read
    deletion,   \* where library.delete_node is
    up,         \* the process has not crashed
    committed,  \* every message ever inserted
    dropped     \* every message ever removed by a compaction

turnVars == <<pc, writing, history>>
jobVars == <<job, batch>>
ghosts == <<committed, dropped>>
vars == <<turnVars, clock, stamp, rows, meta, summary, jobVars, deletion, up, ghosts>>

Init ==
    /\ pc = [t \in Turns |-> "New"]
    /\ writing = [t \in Turns |-> "user"]
    /\ history = [t \in Turns |-> {}]
    /\ clock = 0
    /\ stamp = [m \in Messages |-> 0]
    /\ rows = {}
    /\ meta = FALSE
    /\ summary = {}
    /\ job = [j \in Jobs |-> "Idle"]
    /\ batch = [j \in Jobs |-> {}]
    /\ deletion = "Idle"
    /\ up = TRUE
    /\ committed = {}
    /\ dropped = {}

\* ORDER BY timestamp ASC LIMIT n, and ORDER BY timestamp DESC LIMIT n.
Oldest(n, S) == {m \in S : Cardinality({k \in S : stamp[k] < stamp[m]}) < n}
Newest(n, S) == {m \in S : Cardinality({k \in S : stamp[k] > stamp[m]}) < n}

\* Mistakes, for the mutation runs: the oldest messages are kept; only a
\* page that is exactly one message over its limit is compacted.
KeptOldest == Oldest(Keep, rows)
TooManyExactly == Cardinality(rows) = PageLimit + 1

\* Mistake: the timestamp is ahead of the clock.
TimestampAhead == clock + 2

\* chrono::Utc::now().
Timestamp == clock + 1

\* What truncate_page_messages leaves, and the test that triggers a compaction.
Kept == Newest(Keep, rows)
TooMany == Cardinality(rows) > PageLimit

Goto(t, place) == pc' = [pc EXCEPT ![t] = place]
JobGoto(j, place) == job' = [job EXCEPT ![j] = place]
-----------------------------------------------------------------------------
(* A turn.                                                                  *)

\* The turn arrives.  (What it does if this or load_recent fails is left out:
\* it logs the error and goes on without.)
CreatePage(t) ==
    /\ pc[t] = "New"
    /\ meta' = TRUE
    /\ Goto(t, "Load")
    /\ UNCHANGED <<writing, history, clock, stamp, rows,
                   summary, jobVars, deletion, up, ghosts>>

\* load_recent.
LoadHistory(t) ==
    /\ pc[t] = "Load"
    /\ history' = [history EXCEPT ![t] = Oldest(HistoryLimit, rows)]
    /\ Goto(t, "Work")
    /\ UNCHANGED <<writing, clock, stamp, rows, meta,
                   summary, jobVars, deletion, up, ghosts>>

\* The reasoning loop or the swarm ends, with a reply or an error text.
Reply(t) ==
    /\ pc[t] = "Work"
    /\ history' = [history EXCEPT ![t] = {}]
    /\ Goto(t, "Stamp")
    /\ UNCHANGED <<writing, clock, stamp, rows, meta,
                   summary, jobVars, deletion, up, ghosts>>

\* append_message, first the user's message and then the assistant's.  It
\* reads the clock ...
Stamp(t) ==
    /\ pc[t] = "Stamp"
    /\ clock' = clock + 1
    /\ stamp' = [stamp EXCEPT ![<<t, writing[t]>>] = Timestamp]
    /\ Goto(t, "Insert")
    /\ UNCHANGED <<writing, history, rows, meta, summary,
                   jobVars, deletion, up, ghosts>>

\* ... inserts the row ...
Insert(t) ==
    /\ pc[t] = "Insert"
    /\ rows' = rows \cup {<<t, writing[t]>>}
    /\ committed' = committed \cup {<<t, writing[t]>>}
    /\ Goto(t, "Upsert")
    /\ UNCHANGED <<writing, history, clock, stamp, meta, summary,
                   jobVars, deletion, up, dropped>>

\* The message after the one just appended, or the end of the turn: the
\* reply is returned and the compaction check is left behind as a task.
AfterAppend(t) ==
    IF writing[t] = "user"
    THEN /\ writing' = [writing EXCEPT ![t] = "assistant"]
         /\ Goto(t, "Stamp")
         /\ UNCHANGED job
    ELSE /\ Goto(t, "Done")
         /\ JobGoto(t, "Check")
         /\ UNCHANGED writing

\* ... and makes sure that the page has its page_meta row.
Upsert(t) ==
    /\ pc[t] = "Upsert"
    /\ meta' = TRUE
    /\ AfterAppend(t)
    /\ UNCHANGED <<history, clock, stamp, rows, summary, batch,
                   deletion, up, ghosts>>

\* Either statement fails: this is logged, and the turn goes on without.
AppendFails(t) ==
    /\ pc[t] \in {"Insert", "Upsert"}
    /\ AfterAppend(t)
    /\ UNCHANGED <<history, clock, stamp, rows, meta, summary, batch,
                   deletion, up, ghosts>>
-----------------------------------------------------------------------------
(* Compaction: of a turn, if the page has grown, or on request.             *)

RequestCompaction(r) ==
    /\ r \in Requests
    /\ job[r] = "Idle"
    /\ up
    /\ JobGoto(r, "Read")
    /\ UNCHANGED <<turnVars, clock, stamp, rows, meta, summary, batch, deletion, up, ghosts>>

CheckCount(t) ==
    /\ t \in Turns
    /\ job[t] = "Check"
    /\ JobGoto(t, IF TooMany THEN "Read" ELSE "Over")
    /\ UNCHANGED <<turnVars, clock, stamp, rows, meta, summary, batch, deletion, up, ghosts>>

\* The messages the model is asked to summarise; a summary there already is
\* not among them.
ReadBatch(j) ==
    /\ job[j] = "Read"
    /\ batch' = [batch EXCEPT ![j] = Oldest(CompactionReads, rows)]
    /\ JobGoto(j, IF rows = {} THEN "Over" ELSE "Model")
    /\ UNCHANGED <<turnVars, clock, stamp, rows, meta, summary, deletion, up, ghosts>>

\* A statement or the model call fails, and the compaction ends early.  (A
\* count that fails is taken for zero.)
CompactionFails(j) ==
    /\ job[j] \in {"Check", "Read", "Model", "Truncate"}
    /\ JobGoto(j, "Failed")
    /\ UNCHANGED <<turnVars, clock, stamp, rows, meta, summary, batch, deletion, up, ghosts>>

\* The model has answered: its summary replaces the page's, if the page is
\* still there ...
SaveSummary(j) ==
    /\ job[j] = "Model"
    /\ summary' = IF meta THEN batch[j] ELSE summary
    /\ batch' = [batch EXCEPT ![j] = {}]
    /\ JobGoto(j, "Truncate")
    /\ UNCHANGED <<turnVars, clock, stamp, rows, meta, deletion, up, ghosts>>

\* ... and all but the newest messages go, as the table is now.
Truncate(j) ==
    /\ job[j] = "Truncate"
    /\ rows' = Kept
    /\ dropped' = dropped \cup (rows \ Kept)
    /\ JobGoto(j, "Over")
    /\ UNCHANGED <<turnVars, clock, stamp, meta, summary, batch, deletion, up, committed>>
-----------------------------------------------------------------------------
(* Deletion of the page, and a crash.                                       *)

\* delete_node deletes the messages and then the page_meta row; its other
\* two statements touch nothing modelled here.
DeleteMessages ==
    /\ deletion = "Idle"
    /\ up
    /\ rows' = {}
    /\ deletion' = "Meta"
    /\ UNCHANGED <<turnVars, clock, stamp, meta, summary, jobVars, up, ghosts>>

DeleteMeta ==
    /\ deletion = "Meta"
    /\ meta' = FALSE
    /\ summary' = {}
    /\ deletion' = "Over"
    /\ UNCHANGED <<turnVars, clock, stamp, rows, jobVars, up, ghosts>>

\* The process dies and is started again, once.
Crash ==
    /\ up
    /\ up' = FALSE
    /\ pc' = [t \in Turns |-> IF pc[t] \in {"New", "Done"} THEN pc[t] ELSE "Failed"]
    /\ job' = [j \in Jobs |-> IF job[j] \in {"Idle", "Over"} THEN job[j] ELSE "Failed"]
    /\ deletion' = IF deletion = "Meta" THEN "Failed" ELSE deletion
    /\ UNCHANGED <<writing, history, clock, stamp, rows, meta, summary,
                   batch, ghosts>>

Next ==
    \/ \E t \in Turns :
          \/ CreatePage(t) \/ LoadHistory(t) \/ Reply(t) \/ Stamp(t)
          \/ Insert(t) \/ AppendFails(t) \/ Upsert(t) \/ CheckCount(t)
    \/ \E j \in Jobs :
          \/ RequestCompaction(j) \/ ReadBatch(j) \/ CompactionFails(j) \/ SaveSummary(j)
          \/ Truncate(j)
    \/ DeleteMessages \/ DeleteMeta
    \/ Crash

Spec == Init /\ [][Next]_vars
-----------------------------------------------------------------------------
(* Properties.                                                              *)

\* Every variable keeps its type.
TypeOK ==
    /\ pc \in [Turns -> {"New", "Load", "Work", "Stamp", "Insert", "Upsert",
                         "Done", "Failed"}]
    /\ writing \in [Turns -> Role]
    /\ history \in [Turns -> SUBSET Messages]
    /\ clock \in Nat
    /\ stamp \in [Messages -> 0..clock]
    /\ rows \in SUBSET Messages
    /\ meta \in BOOLEAN
    /\ summary \in SUBSET Messages
    /\ job \in [Jobs -> {"Idle", "Check", "Read", "Model", "Truncate", "Over", "Failed"}]
    /\ batch \in [Jobs -> SUBSET Messages]
    /\ deletion \in {"Idle", "Meta", "Over", "Failed"}
    /\ up \in BOOLEAN
    /\ committed \in SUBSET Messages
    /\ dropped \in SUBSET Messages

\* However compactions, late inserts and deletions interleave, a compaction
\* never takes one of the Keep newest messages the page has been given.
NewestKept ==
    \A d \in dropped :
        Cardinality({m \in committed : stamp[m] > stamp[d]}) >= Keep

\* Once every task has ended, and none of them was cut short by an error or
\* a crash, the page is within its limit: every message that puts it over
\* the limit is followed by a check that sees it.
Quiet ==
    /\ \A t \in Turns : pc[t] \in {"New", "Done"}
    /\ \A j \in Jobs : job[j] \in {"Idle", "Over"}
BoundedWhenQuiet == Quiet => Cardinality(rows) <= PageLimit

\* A query that is still on the page has its reply beside it, if the reply was
\* ever stored: compactions and deletions never leave a question unanswered.
RepliesStay ==
    \A t \in Turns :
        <<t, "user">> \in rows /\ <<t, "assistant">> \in committed
        => <<t, "assistant">> \in rows

Loads(t) == pc[t] = "Load" /\ pc'[t] = "Work"

\* "Load recent history": the history a turn works with is the newest part
\* of the page.
HistoryIsRecent ==
    [][\A t \in Turns : Loads(t) => history'[t] = Newest(HistoryLimit, rows)]_vars

\* "Both the user query and the assistant reply are committed together": no
\* turn ever works on a page that holds a query without its reply.
CommittedTogether ==
    [][\A t \in Turns : Loads(t) =>
           \A u \in Turns : <<u, "user">> \in rows => <<u, "assistant">> \in rows]_vars

\* "Summary of previous conversation context on this Page": what a
\* compaction has removed is in the page's summary, while the page is there.
SummaryCoversDropped ==
    (deletion = "Idle" /\ \A j \in Jobs : job[j] \in {"Idle", "Over"})
    => dropped \subseteq summary
=============================================================================
