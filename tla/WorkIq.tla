------------------------------- MODULE WorkIq -------------------------------
(* WorkIqEngine of hydragent-scheduler with the cron jobs that digest it: a  *)
(* feed is polled into a table, keyword alerts go out at once, and a digest  *)
(* job sends what is not digested yet.  Feeds share nothing, so there is one.*)
(*                                                                           *)
(* Entries are numbered in the order they are published.  An action ends     *)
(* where the code awaits the database, the feed, the model or the gateway.   *)
EXTENDS CronScheduler

CONSTANTS
  Daemon,       \* the process with the poll loop; a chat has only the jobs
  MaxEntry,     \* bound on the entries published
  Shown,        \* entries the feed document shows, the newest ones
  Matching,     \* entries that the keywords of some subscription match
  MaxSubs       \* bound on the subscriptions

ASSUME WorkIqAssumption ==
  /\ Daemon \in Procs
  /\ MaxEntry \in Nat /\ MaxSubs \in Nat
  /\ Shown \in Nat \ {0}
  /\ Matching \subseteq 1 .. MaxEntry

Entries == 1 .. MaxEntry

VARIABLES
  published,    \* entries published so far
  subs,         \* history: subscriptions; the feed has a row if there is one
  lastSeen,     \* the row's last_seen_id, 0 if it has none
  stored,       \* rows of work_iq_entries
  digested,     \* those marked as digested
  poll,         \* the poll of the daemon
  batch,        \* batch[s]: the entries the digest run in slot s is about
  alerted,      \* history: alerted[e], how often an alert for e was pushed
  sent,         \* history: entries in a digest whose push succeeded
  lost          \* history: entries not in the table as their insert failed,
                \* as they had left the document when it was due, or as a
                \* subscription deleted them under a poll

feedVars ==
  <<published, subs, lastSeen, stored, digested, poll, batch, alerted, sent, lost>>
vars == <<cronVars, feedVars>>

(* from: last_seen_id as the poll read it; todo: entries of its next loop;   *)
(* found: the new entries of the document.                                   *)
Poll == [pc : {"idle", "fetching", "storing", "alerting", "dead"}, from : 0 .. MaxEntry,
         todo : SUBSET Entries, found : SUBSET Entries]
NoPoll == [pc |-> "idle", from |-> 0, todo |-> {}, found |-> {}]

TypeOK ==
  /\ CronTypeOK
  /\ published \in 0 .. MaxEntry
  /\ subs \in 0 .. MaxSubs
  /\ lastSeen \in 0 .. published
  /\ digested \subseteq stored /\ stored \subseteq 1 .. published
  /\ poll \in Poll /\ poll.todo \subseteq poll.found
  /\ batch \in [Slots -> SUBSET (1 .. published)]
  /\ \A s \in Slots : run[s] = NoRun => batch[s] = {}
  /\ alerted \in [Entries -> Nat]
  /\ sent \subseteq 1 .. published
  /\ lost \subseteq 1 .. published

Init ==
  /\ CronInit
  /\ published = 0 /\ subs = 0 /\ lastSeen = 0
  /\ stored = {} /\ digested = {} /\ sent = {} /\ lost = {}
  /\ poll = NoPoll
  /\ batch = [s \in Slots |-> {}]
  /\ alerted = [e \in Entries |-> 0]

Document == {e \in 1 .. published : e > published - Shown}
Newest(S) == CHOOSE e \in S : \A x \in S : x <= e

(* Mistakes, for the mutation runs: the last entry seen is noted before the  *)
(* entries are stored; the poll starts over each time; a digest marks        *)
(* whatever is pending by then.                                              *)
NotedWhenFound(found) == IF found = {} THEN lastSeen ELSE Newest(found)
StartsOver == 0
MarkedAll(s) == stored \ digested

NotedFirst(found) == lastSeen
StartsAt == lastSeen
ToMark(s) == batch[s]
-----------------------------------------------------------------------------
Publish ==
  /\ published < MaxEntry
  /\ published' = published + 1
  /\ lost' = lost \cup {e \in Document : e <= published' - Shown /\ e \notin stored}
  /\ UNCHANGED <<cronVars, subs, lastSeen, stored, digested, poll, batch, alerted, sent>>

(* add_feed replaces the feed's row, which forgets the last entry seen and   *)
(* deletes the entries that refer to it; those the document still shows are  *)
(* fetched again, unless a poll is past reading the row.                     *)
Subscribe(p) ==
  /\ p \in up /\ subs < MaxSubs
  /\ subs' = subs + 1
  /\ lastSeen' = 0
  /\ stored' = {} /\ digested' = {}
  /\ lost' = lost \cup
       (IF poll.pc \in {"fetching", "storing"} THEN stored ELSE stored \ Document)
  /\ UNCHANGED <<cronVars, published, poll, batch, alerted, sent>>

(* rss_subscribe adds the digest job in a step of its own, if it gets there. *)
AddDigestJob(p, j) == subs > 0 /\ InsertRow(p, j)

PollSet(value) == poll' = value

(* run_poll_cycle reads the row, *)
PollReads ==
  /\ Daemon \in up /\ subs > 0
  /\ poll.pc = "idle"
  /\ PollSet([NoPoll EXCEPT !.pc = "fetching", !.from = StartsAt])
  /\ UNCHANGED <<cronVars, published, subs, lastSeen, stored, digested, batch, alerted, sent, lost>>

(* poll_feed fetches the document, if it can, and takes the entries above    *)
(* the last one seen,                                                        *)
PollFetches ==
  /\ poll.pc = "fetching"
  /\ LET found == {e \in Document : e > poll.from} IN
     /\ PollSet([poll EXCEPT !.pc = "storing", !.todo = found, !.found = found])
     /\ lastSeen' = NotedFirst(found)
  /\ UNCHANGED <<cronVars, published, subs, stored, digested, batch, alerted, sent, lost>>

PollFails ==
  /\ poll.pc = "fetching"
  /\ PollSet(NoPoll)
  /\ UNCHANGED <<cronVars, published, subs, lastSeen, stored, digested, batch, alerted, sent, lost>>

(* stores them one by one, ignoring a failure,                               *)
PollStores ==
  /\ poll.pc = "storing" /\ poll.todo # {}
  /\ LET e == Newest(poll.todo) IN
     /\ PollSet([poll EXCEPT !.todo = @ \ {e}])
     /\ \/ stored' = stored \cup {e} /\ lost' = lost \ {e}
        \/ stored' = stored /\ lost' = lost \cup ({e} \ stored)
  /\ UNCHANGED <<cronVars, published, subs, lastSeen, digested, batch, alerted, sent>>

(* (a long summary is cut at byte 497, which panics inside a character and   *)
(* ends the task of the poll loop until the process is started again)        *)
PollPanics ==
  /\ poll.pc = "storing" /\ poll.todo # {}
  /\ PollSet([NoPoll EXCEPT !.pc = "dead"])
  /\ UNCHANGED <<cronVars, published, subs, lastSeen, stored, digested, batch, alerted, sent, lost>>

(* notes the newest as seen; if this fails no alert goes out,                *)
PollNotes ==
  /\ poll.pc = "storing" /\ poll.todo = {}
  /\ \/ /\ poll.found # {}
        /\ lastSeen' = Newest(poll.found)
        /\ PollSet(IF poll.found \cap Matching = {} THEN NoPoll
                   ELSE [poll EXCEPT !.pc = "alerting", !.todo = poll.found \cap Matching])
     \/ lastSeen' = lastSeen /\ PollSet(NoPoll)
  /\ UNCHANGED <<cronVars, published, subs, stored, digested, batch, alerted, sent, lost>>

(* and back in run_poll_cycle, an alert is pushed for each entry that        *)
(* matches; a failed push is logged.                                         *)
PollAlerts ==
  /\ poll.pc = "alerting"
  /\ \E pushed \in SUBSET {Newest(poll.todo)} :
       alerted' = [e \in Entries |-> IF e \in pushed THEN alerted[e] + 1 ELSE alerted[e]]
  /\ LET rest == poll.todo \ {Newest(poll.todo)} IN
     PollSet(IF rest = {} THEN NoPoll ELSE [poll EXCEPT !.todo = rest])
  /\ UNCHANGED <<cronVars, published, subs, lastSeen, stored, digested, batch, sent, lost>>
-----------------------------------------------------------------------------
RunGoes(s, pc) == run' = [run EXCEPT ![s].pc = pc]

CronRest == UNCHANGED <<up, rows, adding, removing, handles, stranded, crashes>>

(* A digest run reads what is pending; if nothing is, it says so and ends.   *)
DigestReads(s) ==
  /\ run[s].pc = "fired"
  /\ batch' = [batch EXCEPT ![s] = stored \ digested]
  /\ IF stored \subseteq digested THEN RunEnds(s) ELSE RunGoes(s, "asking")
  /\ CronRest
  /\ UNCHANGED <<published, subs, lastSeen, stored, digested, poll, alerted, sent, lost>>

(* The model sums it up, or its error is what is pushed.  A push that fails  *)
(* leaves the entries for the next run (as a query that fails before it      *)
(* does), ...                                                                *)
DigestSends(s) ==
  /\ run[s].pc = "asking"
  /\ RunGoes(s, "marking")
  /\ sent' = sent \cup batch[s]
  /\ CronRest
  /\ UNCHANGED <<published, subs, lastSeen, stored, digested, poll, batch, alerted, lost>>

DigestFails(s) ==
  /\ run[s].pc = "asking"
  /\ RunEnds(s)
  /\ batch' = [batch EXCEPT ![s] = {}]
  /\ CronRest
  /\ UNCHANGED <<published, subs, lastSeen, stored, digested, poll, alerted, sent, lost>>

(* ... and so does the update of an entry, which nobody looks at, as nobody  *)
(* looks whether there still is a row to update.                             *)
DigestMarks(s) ==
  /\ run[s].pc = "marking"
  /\ \E e \in ToMark(s), ok \in BOOLEAN :
       /\ digested' = IF ok /\ e \in stored THEN digested \cup {e} ELSE digested
       /\ batch' = [batch EXCEPT ![s] = @ \ {e}]
       /\ IF ToMark(s) = {e} THEN RunEnds(s) ELSE UNCHANGED run
  /\ CronRest
  /\ UNCHANGED <<published, subs, lastSeen, stored, poll, alerted, sent, lost>>

Crash(p) ==
  /\ CrashProcess(p)
  /\ poll' = IF p = Daemon THEN NoPoll ELSE poll
  /\ batch' = [s \in Slots |-> IF run[s].proc = p THEN {} ELSE batch[s]]
  /\ UNCHANGED <<published, subs, lastSeen, stored, digested, alerted, sent, lost>>
-----------------------------------------------------------------------------
PollStep ==
  \/ PollReads \/ PollFetches \/ PollFails \/ PollStores \/ PollPanics
  \/ PollNotes \/ PollAlerts
DigestStep(s) == DigestReads(s) \/ DigestSends(s) \/ DigestFails(s) \/ DigestMarks(s)

CronStep ==
  \/ \E p \in Procs : StartProcess(p)
  \/ \E p \in Procs, j \in Jobs : AddDigestJob(p, j) \/ TakeHandle(p, j)
  \/ \E j \in Jobs : ScheduleInMemory(j) \/ DeleteRow(j)
  \/ \E p \in Procs, j \in Jobs, s \in Slots : Fire(p, j, s)

Next ==
  \/ CronStep /\ UNCHANGED feedVars
  \/ \E p \in Procs : Subscribe(p)
  \/ \E p \in Procs : Crash(p)
  \/ Publish \/ PollStep
  \/ \E s \in Slots : DigestStep(s)

Fired(p, j) == \E s \in Slots : Fire(p, j, s)

EntryMarked(s) == DigestMarks(s) /\ (digested' # digested \/ batch[s] \subseteq digested)

(* Tasks are polled and a job in memory fires again and again.  Assumed of   *)
(* the surroundings: a process that died is started again, and a push or an  *)
(* update that is tried over and over succeeds some time.  The statements    *)
(* that run once for a job may fail.                                         *)
Spec ==
  /\ Init /\ [][Next]_vars
  /\ \A p \in Procs : WF_vars(StartProcess(p) /\ UNCHANGED feedVars)
  /\ \A p \in Procs, j \in Jobs : SF_vars(Fired(p, j) /\ UNCHANGED feedVars)
  /\ \A j \in Jobs : WF_vars((ScheduleInMemory(j) \/ DeleteRow(j)) /\ UNCHANGED feedVars)
  /\ \A s \in Slots : WF_vars(DigestStep(s))
  /\ SF_vars(\E s \in Slots : DigestSends(s))
  /\ SF_vars(\E s \in Slots : EntryMarked(s))
-----------------------------------------------------------------------------
(* What the poll has passed is in the table, whatever was published in       *)
(* between and wherever a crash hit it: last_seen_id moves only when every   *)
(* entry up to it was stored, failed to be, or had left the document.  The   *)
(* one exception is what a subscription deletes under a poll: that poll      *)
(* then notes the newest entry as seen and none below is fetched again.      *)
Kept == stored \cup lost
NothingSkipped == \A e \in 1 .. lastSeen : e \in Kept

(* An entry is marked only after a digest with it was pushed: neither an     *)
(* entry stored while the model was asked, nor one whose push failed.        *)
DigestedWereSent == digested \subseteq sent

(* One subscription gives one alert for an entry, over polls and crashes.    *)
AlertedOnce == \A e \in Entries : alerted[e] <= subs

(* A stored entry is digested, unless a subscription deletes it, as long as  *)
(* a digest job is active and no failed statement stranded it: one whose row *)
(* was written just before a crash runs after the restart.                   *)
StoredIsDigested ==
  \A e \in Entries, j \in Jobs :
    e \in stored /\ rows[j] = "active" /\ j \notin stranded
      ~> e \in digested \/ e \notin stored \/ rows[j] # "active" \/ j \in stranded
=============================================================================
