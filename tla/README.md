# A TLA+ verification of Hydragent

Hydragent is an AI agent runtime written in Rust: clients (a command line, chat
channels) talk JSON-RPC to one process, which answers with the help of language
models, tools, stored conversations, skills and scheduled jobs.  This directory
models the parts of it whose correctness depends on the order in which
concurrent tasks, time limits, failures and crashes happen, checks them with
TLC on small instances, and proves the safety results with TLAPS for every
instance.

All paths below are relative to the repository's root, `src/`.

| Modules | Model |
|---|---|
| `DagExecution`, `DagRun` | the engine that works through a task graph with sub-agents, and what it promises |
| `DagRecovery` | the engine run again and again over a graph that the replanner repairs in between |
| `SubAgent`, `SwarmCoordinator` | the tool loop of a sub-agent, and the coordinator that spawns, cancels and awaits them |
| `ReactLoop` | the reasoning loop of a turn and the permission gate it shares with the clients |
| `Gateway`, `Ingress` | the duplicate filter and the rate limits; a request from the socket through them to its response, with the clarifications |
| `PageStore` | the stored conversation of a page under turns, compaction, deletion and crashes |
| `CronScheduler`, `WorkIq` | jobs in memory and in the database; the feed monitor whose digests those jobs send |
| `DreamCycle` | the consolidation of messages into facts |
| `VaultFile` | the encrypted vault under saves, recoveries, rotations and crashes |
| `MC...` | the instances TLC checks |
| `DagExecutionProofs` | the theorems about `DagExecution`, its refinement of `DagRun`, and `DagRecovery` |
| `SwarmProofs`, `ReactLoopProofs`, `PageStoreProofs`, `DreamProofs`, `VaultFileProofs` | the theorems about the module of that name (`SwarmProofs`: `SwarmCoordinator` with `SubAgent`) |
| `IngressProofs`, `WorkIqProofs` | the theorems about `Gateway` and `Ingress`, and about `WorkIq` with `CronScheduler` |

`DagRecovery` extends `DagExecution`, `SwarmCoordinator` extends `SubAgent`,
`Ingress` extends `Gateway` and `WorkIq` extends `CronScheduler`: in each pair the
second composes the first with what surrounds it.

## Inventory

### The components and what makes them correct

| Component | State it keeps | Operations | Hard behaviour | It is correct if |
|---|---|---|---|---|
| Event bus (`hydragent-bus`) | bounded channels per connection | read, dispatch, write | a task per request, so every handler is concurrent with itself; back-pressure | every request gets one response; a slow reader only blocks its own requests |
| Gateway (`hydragent-gateway`) | LRU of seen requests, token bucket per channel | `inbound_check`, adapters | duplicates, a full cache, refill at the boundary | no request is handled twice in the window; rates are bounded; a refused request may be retried |
| Orchestrator (`orchestrator.rs`) | pending permissions, pending clarifications | `intent.submit`, `permission.respond`, `page.compact`, `library.delete_node`, ... | handlers interleave at every `await` | see the next three rows |
| ReAct loop (`react_loop.rs`) | step, calls seen, conversation | model call, tool call, gate, synthesis | late, lost and repeated answers; a model that repeats itself | only permitted calls run, none twice, and every turn ends |
| Permission gate (`ActivePermissions`) | request id -> oneshot sender | register, respond, time out | the answer races the registration and the time limit | an answer decides its own request; nothing is left behind |
| Session store (`session_store.rs`) | `messages`, `page_meta`, other tables | append, load, truncate, delete, summary | single statements without transactions, crashes | no recent message is lost, questions keep their replies, pages stay bounded |
| DAG engine (`dag_execution.rs`, `scheduler.rs`) | statuses, in-flight map, permits, report | snapshot, spawn, wait, settle, drain | verdicts, failures, cancel and time limits race | dependencies and cap are kept, the report is right, runs end |
| Replanner (`replan.rs`) | retry counts, statuses | retry, reroute, decompose, escalate | a loop around the engine over a spec that was already run | retries are bounded and what depends on a repaired node runs |
| Swarm coordinator (`coordinator.rs`) | permits, live and completed lists | spawn, cancel, await | tasks end while they are being registered | the cap bounds the running agents; a running agent can be reached; awaiting misses none |
| Agent mailbox (`mailbox.rs`) | a file per pair, sequence files, notifiers | write, read, wait | read-increment-write, check-then-wait | sequence numbers grow; a waiter wakes if there is mail |
| Sub-agent (`agent.rs`) | state, tool log, cancel flag | run, cancel | cancel between steps, own limits | ends in one terminal state |
| Sequential swarm runner (`swarm_runner.rs`) | outputs, counts | run nodes in topological order | failing nodes | each node runs once, after its inputs |
| Work IQ feed monitor (`work_iq.rs`) | feeds, `last_seen_id`, stored entries, digest marks | poll, alert, digest | crash between statements, digests that overlap | no entry is skipped, alerted twice or marked unsent; what is stored is digested |
| Cron scheduler (`cron_scheduler.rs`) | handles in memory, rows in SQLite | add, remove, fire, reload | memory and database disagree after a failure or a crash | after a restart exactly the active jobs run |
| Dream cycle (`dream.rs`) | consolidation flags, facts, summaries | consolidate a page | crash between facts and flags; overlaps with turns | every message is consolidated, facts are not duplicated |
| Audit chain (`merkle.rs`) | a hash-chained table | append, verify | concurrent appends | the chain verifies after any appends |
| Continuous authorization (`sgnl.rs`) | risk per session | record, evaluate | thresholds, overrides | a decision is never laxer than the tool's tier without an override |
| Vault and rotation (`vault.rs`, `rotator.rs`) | the vault file, a temporary file, a recovery session, key files | init, load, save, recover, rotate passphrase, rotate key | writers without a lock; crash and failure between steps | a credential that opens the file reads the secrets; the owner is not locked out; nothing saved is lost |
| Skill curator (`curator.rs`) | tiers, statistics, versions | decide, apply, deduplicate | decisions older than the state they are applied to | archived skills stay archived; counts are not lost |
| Model router, council (`hydragent-model`) | provider order | chat with fallback | partial streams, failing providers | falls back in order, ends |
| Tools, sandbox, embeddings, CLI, onboarding, adapters, benchmarks | little or external | I/O | - | not candidates for a model |

### How the components interact

* The bus starts one task per request (`hydragent-bus/src/lib.rs:145`).  Handlers
  share state through `Arc<Mutex<..>>` maps and the SQLite pool.
* `intent.submit` checks the gateway, creates the page, loads history, picks a
  strategy, then spawns `run_react_loop` or the swarm and waits for it.  When
  that has ended it appends the two messages of the turn and leaves a
  compaction task behind.
* `run_react_loop` sends `response.permission_request` through the client's
  channel and waits for `permission.respond`, which another task handles.
* `DagExecutionEngine` is driven by its caller and by sub-agents it spawns; a
  wrapper task per sub-agent holds the semaphore permit.  At this commit the
  orchestrator delegates to `run_dag_sequential`; the engine is a library that
  the repository's tests and examples drive.
* `page.compact`, automatic compaction, the dream cycle and deletion write the
  same two tables as the turns.

## Plan

The order is by how much depends on a component and how much of its behaviour
is out of a test's reach.

1. *Done.* `DagRun`, `DagExecution`; `ReactLoop`; `PageStore`; their theorems.
2. *Done.* `SubAgent` and `SwarmCoordinator` (live and completed lists,
   `await_all` with a deadline); `DagRecovery`.
3. *Done.* `Gateway` and `Ingress` (bus, bounded channels, clarifications);
   `CronScheduler` and `WorkIq`; `DreamCycle`; `VaultFile`.
4. *Done.* The theorems of the modules of 2 and 3: every safety invariant and
   action property a passing run checks is a theorem.  Left: a refinement for each
   abstract specification below, proved as `EngineImplementsDagRun` is.
5. Left to model: `AgentMailbox` (sequence files without a lock, a waiter that
   looks before it registers; only its own tests use it), `MerkleChain`,
   `SkillCurator`, `ContinuousAuth`, `ModelRouter`; `DreamCycle` composed with
   `PageStore`, which both write the summary of a page; pushes through the
   adapters of the gateway.

Abstract specifications: the abstract run of a task graph (`DagRun`, done), which
the sequential runner could be compared with as well; a durable set of jobs for
`CronScheduler`; a sequence of events for `MerkleChain`; an atomic register for
`VaultFile`, which it implements only as long as operations do not overlap
(`AloneIsDurable` says that part with a history variable, and is proved).

Runs: one passing run per composition with its safety properties and its
liveness; a violation run only where a comment, doc or test says otherwise.

## DagExecution and DagRun

`DagExecution` follows `run_with_outcome` step by step.  `pc` is the place of the
engine; an action ends where the code awaits, takes a lock or loops:

| Action | Code (`dag_execution.rs` unless noted) |
|---|---|
| `Scan` | the snapshot `get_ready_nodes` (273-278; `scheduler.rs` 15-45) |
| `MarkRunning`, `Spawn`, `SpawnRejected` | 281-324: mark, wait for the permit, spawn and insert the handle |
| `BatchDone` | the exit test 328 |
| `LookAtToken`, `NothingFinished`, `ObserveCancel` | `wait_for_any_or_cancel`, 548-595 |
| `ResolveCompleted`, `ResolveFailure`, `ResolvePanic` | 333-378 |
| `DrainJoin`, `DrainAbandon` | 403-451, the two-second join |
| `Finalize` | 453-498 |
| `AgentFinish`, `WrapperReturn`, `FireCancel` | the sub-agent, its wrapper (318-322), the owner of the token |

`given` remembers the statuses the spec came with, because the engine also runs
specs that an earlier run or the replanner has touched.  `results` and `count`
are the report.  Outputs, token counts and times are left out; the order of
nodes inside a snapshot is left open.

`DagRun` says what a caller may rely on: a task starts once, in an open run,
with its inputs available; a verdict is final; after closing nothing starts;
at the end nothing waits.  The refinement maps a status to the state of a task
and `pc` to open, closed or over.

Run `dag_run` (cap 2; three roots `a, b, c`, of which `a` and `b` feed `d`; a
fresh spec or one with a single node already in another status; any verdicts, a
cancel at any time): a batch larger than the cap, a join of two inputs, and a
node that fails while siblings run are all reached.  It checks the cap, the
inputs of every started node, the report, the outcome, completeness of a
successful run, the refinement and termination.

Fairness: `WF(Engine)`, because the runtime polls the engine's task whenever it
can proceed; for `Termination` also that each sub-agent ends (`SubAgent::run`
checks its wall-clock and token limits before every step, so only a single
model or tool call that never returns keeps it alive) and that its wrapper is
polled.

## DagRecovery

`DagRecovery` is `DagExecution` in a loop: an engine runs the spec, the caller
hands every failed node to `SelfHealingReplanner`, and a new engine runs what is
left.  The repository's only such caller is `planner/tests/replan_test.rs`
325-380, which the module follows.  What the ceiling compares with `max_retries` is
not the node's count but `failure.attempt_count`, which the caller fills in
(`replan.rs:230`; 0 in the test and in `FailureInfo::new`): the actions take any
`k`, and `counted` remembers whether it has always been the node's `retry_count`.

| Action | Code (`replan.rs`) |
|---|---|
| `EngineRuns`, `BesideEngine` | the actions of `DagExecution`, `dag_execution.rs` 231-498 |
| `Review` | the caller collects the failed nodes |
| `Reset` | `decide_and_apply` 224-239 with `apply_retry`, `apply_reroute`, `apply_decompose` 340-420: the node is Pending again and its count grows |
| `Exhausted`, `Counts` | 229-233, 138-155: the ceiling, and what the doc asks of `attempt_count` |
| `Escalate` | 425-435: the node is given up and becomes Skipped |
| `NoAction` | 309-378: no fallback tool, nothing to decompose |
| `RunAgain`, `GiveUp` | the caller |

Run `dag_recovery`: a chain `a, b, c` and a node `d` beside it, cap 2, one retry.
A chain of three is the least with a descendant whose parent was skipped and not
given up; a sibling lets a failure meet running work; one retry gives two failures
of one node; `MaxPutBacks` (2, one more than the retries) bounds what a caller that
miscounts can repeat, so that it does pass the ceiling.  It checks that every try of
a node is counted in it, finished work is kept, a node never runs on the output of
one that was given up; and, as long as the caller passes the `retry_count` on, that
a node is tried at most once more than `max_retries` and the loop ends.

Fairness: that of `Termination`, for every run, and that the caller goes on.

## SubAgent and SwarmCoordinator

`SubAgent` is the loop of `SubAgent::run` (`swarm/agent.rs` 170-376): the cancel
flag and the limits are read at the top of a step (`SeeCancel`, `LimitReached`),
then the model (`AskModel`, `ModelEnds`) and a tool (`DenyTool`, `InvokeTool`,
`ToolReturns`) are awaited.  `SummaryPanics` is `truncate` (475-481), which cuts a
string at a byte.  Failed and Cancelled are one verdict, as nothing here tells
them apart.

| Action of `SwarmCoordinator` | Code (`coordinator.rs`) |
|---|---|
| `SpawnTask`, `SpawnReturns` | 110-133; 160-166: the task starts before `spawn` puts it on the live list, and the permit is dropped on return |
| `AgentRuns`, `TaskRecords`, `TaskLeavesLive` | 133-157: run, completed list, live list, under one lock each |
| `Cancel`, `CancelAll` | 170-189 |
| `AwaitTakes`, `AwaitSeeds`, `AwaitJoins`, `AwaitReturns`, `AwaitTimesOut` | 195-278: the live list is taken, the completed one copied, the handles joined under a deadline |

Run `swarm_life`: two agents, of which one may use its tool, two steps, one
permit, two callers of `await_all`.  Two agents are needed for one that ends before it
is listed while the other is awaited; two steps for a tool after a cancel; two
callers for handles that another one took.  A running agent is on the live list or
in the hands of a call of `await_all` that waits (`RunningIsHeld`); only the deadline
of such a call lets go of agents that run on, and then no cancel reaches them
(`CancelReaches`, below).  `swarm_cap` shows two agents
running under a cap of one.

Fairness: `WF` of each agent's task, of a `spawn` under way and of each caller of
`await_all`: the runtime polls them, and model and tool calls return.

## ReactLoop

A turn's `pc` follows `run_react_loop` (`hydragent-core/src/react_loop.rs`).
`Calls` are (tool, params) pairs, each with the tier of its tool.

| Action | Code |
|---|---|
| `BeginStep`, `BeginSynthesis`, `Synthesize` | 265-284, 480-517 |
| `Answer`, `AskAgain`, `ModelFails` | 286-327, 462-477 |
| `SkipRepeated`, `TakeCall` | 335-372, with `seen_calls` |
| `Invoke`, `Refuse`, `ToolPanics` | 361-434, `ToolRegistry::invoke`; the panic ends the spawned task (`orchestrator.rs` 283-296) |
| `SendRequest`, `Register` | 386-410: first the message, then the map entry |
| `Decide`, `TimeOut`, `Withdraw` | 412-432 |
| `Respond` | `PermissionRespondHandler`, `orchestrator.rs` 438-465: any client, any time after the request was sent, any number of times |
| `FillUp`, `ClientReads` | the bounded outbound channel of the connection (`hydragent-bus/src/lib.rs` 74-112, 145-157), which other handlers fill and the client empties |

`said` is a history variable: the answers the client has given.  `log` stands
for `executed_tools`, with the step and the call.

A step that sends waits until the channel has room (`Sends`).

Run `react_turns`: two turns on one connection, two steps each, one call of each
tier.  Two steps are
enough for a call to be repeated and for an answer to an earlier request to
meet a later one; two turns for answers to cross.  `react_early_answer` finds
the lost answer.  The order of `SendRequest` and `Register` is harmless for
safety, as `OnlyPermittedCallsRun` shows: it costs approvals, it never grants any.

Fairness: `SF` of each turn, because model calls, tools and the timer return and a
channel serves those who wait for it in their order, though it may fill up again
and again; and `WF` of the client's reading or leaving, as in `Ingress`.  The client
need not answer, but one that stays connected and does not read holds up its
turns without limit, before the 30 seconds have begun.

## PageStore

One page: its rows in `messages` and its row in `page_meta`.  Every SQL statement
is an action.

| Action | Code (`S` = `session_store.rs`, `O` = `orchestrator.rs`) |
|---|---|
| `CreatePage`, `LoadHistory` | O 80, O 120; S 333-345, 383-397 |
| `Reply` | O 251-364, whatever the strategy |
| `Stamp`, `Insert`, `Upsert`, `AppendFails` | O 370-375; S 347-381 |
| `CheckCount` | O 382-401 |
| `RequestCompaction`, `ReadBatch`, `SaveSummary`, `Truncate`, `CompactionFails` | O 1133-1217; S 568-575, 590-607 |
| `DeleteMessages`, `DeleteMeta` | S 486-504 |
| `Crash` | the process dies and restarts, once |

A summary is the set of messages the model saw.  `committed` and `dropped` are
history variables.  Timestamps are distinct numbers: messages of one
millisecond come out of the index in the order of their rows.  The clock
does not run backwards.

Left out: a turn that goes on after `create_page` or `load_recent` has failed
(it only lacks history), `page.update_summary`, the dream cycle's summaries,
and the command line's own path to the store.

Run `page_life`: two turns, one requested compaction, a deletion, a crash, with
the limits scaled down to history 2, page 2, reads 4, kept 2 (20, 30, 200 and 4
in the code).  `Keep <= PageLimit < ` the messages of two turns, so a page
overflows, several compactions overlap, and the second one truncates what the
first has left.  Turns are symmetric.

No fairness is assumed: all properties of this module are safety properties.

## Gateway and Ingress

`Gateway` has the two checks of `inbound_check` (`gateway/router.rs` 38-60) in
their order: `LookUp` is `Deduplicator::is_duplicate` (`dedup.rs` 18-41), an LRU
cache whose entries a look-up refreshes; `TryAcquire` the token bucket
(`rate_limiter.rs` 31-48).  `RegisterAdapter` (22-29) replaces a channel's
bucket; `Tick` is the clock, whose unit is the time in which a token is earned.

Run `gateway_checks`: three keys over a cache of two, one channel, a window and a
burst of two, five look-ups within three ticks: the least with which a key is
forgotten by pressure, by time, and refreshed in between.

`Ingress` follows an `intent.submit` frame through `hydragent-bus/src/lib.rs` and
`orchestrator.rs` 63-364.

| Action | Code |
|---|---|
| `Submit`, `Refuse` | O 63-75, with the checks of `Gateway` |
| `PopNothing`, `Pop`, `Notice` | O 193-231: the pending question of the page, and the message sent while the lock is held |
| `Choose`, `Work` | O 233-322; the reasoning loop is one step |
| `Ask`, `Question`, `Complete` | O 324-364: the new question is stored, then sent |
| `Respond` | bus 145-157 |
| `ClientReads`, `ClientLeaves` | bus 97-112: the writer task of the connection |

Run `ingress_turns`: three frames, one of them a repetition, of two connections
on one page, channels of capacity one.  A second connection on the page is what
lets turns take and overwrite each other's question and wait for a lock whose
holder waits for a client.

Fairness: `SF` of each turn's task, because tokio's mutex and channels serve
waiters in order; and `WF` of the clients' reading or leaving, an assumption on
the clients: without it a client that stays connected and does not read keeps the
lock and with it every other turn that asks for it.

## CronScheduler and WorkIq

| Action | Code (`C` = `cron_scheduler.rs`, `W` = `work_iq.rs`) |
|---|---|
| `StartProcess` | C 24-40, 149-167: the active rows are loaded, one that cannot be scheduled is left out |
| `InsertRow`, `ScheduleInMemory` | C 43-84, 92-125: `add_job`; the second may fail and leave the row |
| `TakeHandle`, `DeleteRow` | C 128-146: `remove_job`; the UPDATE may fail when the timer is gone |
| `Fire`, `RunEnds` | C 100-120, the executor `main.rs` 3777-3784 |
| `PollReads`, `PollFetches`, `PollStores`, `PollNotes`, `PollAlerts` | W 187-310: one poll of the feed, `last_seen_id` written after the entries and alerts after that |
| `PollFails`, `PollPanics` | W 227-268 |
| `DigestReads`, `DigestSends`, `DigestFails`, `DigestMarks` | W 313-363 |
| `Subscribe`, `AddDigestJob` | W 162-184; `main.rs` 3815-3824: `rss_subscribe` does one, then the other |
| `Publish` | the feed |
| `Crash` | a process dies; what it has in memory is gone |

When a job is due is left open: it may fire at any time, also while an earlier
run of it is under way.  Feeds share nothing, so there is one.  Entries are
numbered in the order in which they are published, and the feed document shows
the newest `Shown`; entries that leave the document before they are stored, or
whose insert fails (the code logs and goes on), are `lost`.  A subscription to a feed
that is there replaces its row (`INSERT OR REPLACE`), and with foreign keys on and
`ON DELETE CASCADE` (`session_store.rs` 35, 260) its entries are deleted; those it
deletes while a poll is past reading the row are `lost` as well.  `stranded` are the
jobs that a failed statement left out of memory until a process is started.

Run `feed_digest`: the daemon, one job, two digest runs at a time, two entries, one of
which matches the keywords, two subscriptions, one crash.  The second subscription
meets polls and digest runs under way; two runs overlap on a batch; two entries let one
be published or stored between the read and the mark of a digest; the crash hits
each step.

Fairness: a process that has died is started again; a job on the list of a
running process fires again and again (`SF`); pushes and updates that are tried
for ever succeed at some time (`SF`), without which no digest would ever arrive.
The statements that run once for a job may fail: `StoredIsDigested` does not speak of
the jobs this strands.  Nothing is assumed of the feed or the poll.

## DreamCycle

| Action | Code (`dream.rs`) |
|---|---|
| `BeginBackground`, `BeginManual` | 195-239: no free remote model (206-211) and a closed breaker for the worker, neither for a request |
| `ChoosePages`, `ChoosingFails` | 241-292; a query that fails (273) ends the cycle and the breaker does not hear of it |
| `ReadPage`, `ReadFails`, `Extract` | 533-613; a long log is cut (`Logs`, 569-580) |
| `LookUp`, `Store`, `FactsDone` | 621-666, `is_duplicate_fact` 855-938 |
| `Mark` | 809-810, `mark_consolidated` 940-959 |
| `PageFails`, `TitlePanics`, `EndCycle` | 586-593; 752-764; 299-351 |
| `NewMessage`, `DropMessage`, `DeleteFact`, `SwitchModel`, `Crash` | the turns, the compaction, `delete_memory`, `model/router.rs` 147-172, the process |

A fact is `Searchable` if its text is a valid full-text query with a word of three
letters.  The look-up passes the text of the fact to the index as a query: one with
punctuation fails to parse, and one of short words only (859-866) asks for nothing;
both count as not found.  The count of failures is in the memory of a process; one
process is modelled.

Run `dream_cycles`: the worker and a cycle on request over two pages with a message
each, both of one fact, the log of one too long; two pages a cycle, a breaker that
opens at two failures, one crash.  A common fact on two pages is what makes
duplicates; with two failures a page can fail in every cycle while the other closes
the breaker, and must still not keep the other from its turn.

`PendingIsTried` says that a pending page is handed to the model, not that it is done:
the model may refuse it for ever.  It makes an exception for a free model, an open
breaker and a dead worker, and for more pages than a cycle takes (`Crowded`): the
query has a `LIMIT` and no order (269-270), so it may leave out the same page for ever.

Fairness: a cycle that has begun is polled and its model and database answer or fail
(`WF`); the worker's timer ticks for ever (`SF`, as the breaker may be open at some of
the ticks; `main.rs` 3495-3531).  That queries do not fail for ever is a premise of
the property.

## VaultFile

The vault is a file with a sealed payload and up to three slots, each with the
master key wrapped for one credential.  The daemon's handlers, the command line
and the rotator read and rewrite it without a lock.

| Action | Code (`V` = `vault.rs`, `R` = `rotator.rs`) |
|---|---|
| `LoadVault` | V 274-432, from the handlers (`orchestrator.rs` 1577-1592) or R 115-130 |
| `BeginInit` | V 119-129 |
| `PrepareSave`, `SaveRefused` | V 438-612: what `save` writes over the file it finds |
| `OpenFile`, `WriteFile` | `fs::write`, V 549: the open empties the file, the write fills it |
| `RecoverPassphrase`, `RequestRecovery`, `ApplyRecovery` | V 622-662, 713-794, 805-901 |
| `OpenKeyFile`, `StoreKeyFile`, `RemoveSession` | V 903-908: the one `admin_key.bin` is emptied, then filled with the new key |
| `Verify`, `VerifyFails`, `Rename`, `RenameFails` | R 132-168, 214-230 |
| `Fault` | the process dies, or a write fails and the operation returns the error |

A write goes to the file that was opened, wherever a rename has put it since:
`fd` says where that is.  Ciphers are perfect, and new master keys differ from
those in use.  The owner holds the passphrases and what is in `admin_key.bin`
(`Held`); the exported key file is taken to be that file in the vault's directory,
and copies elsewhere do not count.  `started`, `faults`, `expect`, `alone`, `rivals`,
`unstored` and `torn` are bounds and history: `torn` says that a write in place was
cut short, after which the code promises nothing; `unstored` that a recovery died
before its key file was written; `rivals` that two operations have overlapped that
spoil each other (`Spoil`): two rotations, which share one temporary file, or a
recovery by the developer and an operation that writes under the admin key.

Run `vault_life`: two processes, two passphrases, four admin keys, one name, six
master keys, three operations and one fault from a vault of each format, or none.  Three
operations give a crash, another operation on what it left, and a retry.
Processes are symmetric.  (Four operations pass as well; that takes five minutes.)
The new keys are more than the operations can use up.  No fairness: these are safety properties.

Left out: the hash file of the administrator, `set_admin_key` (no caller outside
the tests), the inside of the ciphers.  `recover_passphrase` and `init_v3` have
no caller in the product yet; the first is an action, of the second only the files it
makes are there, as initial states.

## Disagreements found

| Run | The code | What the repository says |
|---|---|---|
| `react_early_answer` | the request is sent before it is registered (`react_loop.rs:404`) | "Permission approve → tool runs" (`tests/legacy/stress_test_phase3.py:23`) |
| `swarm_cap` | the permit is a local of `spawn` and dropped when it returns (`coordinator.rs:114`) | "a semaphore caps how many run at once" (34), "The permit is held for the lifetime of this task" (125) |

Others were met while modelling and have no run of their own.  Those with a name
are defined in the modules, and TLC refutes them there:

* `CancelEndsRun`: the token is not looked at while the engine waits for a permit
  (`dag_execution.rs:305`), although the loop breaks when the "cancellation token
  fires" (266-269); with one permit and a hung sub-agent the run stays open.
* `EveryNodeReported`: an abandoned node has no entry (`dag_execution.rs:418`),
  although the map is "Always populated for every node in the spec" (121-123).
* `RecoveredIsComplete`: the descendants a failed run has skipped stay Skipped
  when the node is retried with success; `replan.rs:32-34` says no further logic
  is needed.
* `RetryCeiling`: "if retries are exhausted, always Escalate" (`replan.rs:229`), but the
  attempts are what the caller says; `attempt_count` is "Bumped by `apply_retry` and
  `apply_reroute`" (144), yet nothing bumps it, and the repository's caller passes 0
  (`replan_test.rs:349`).  Such a caller repeats a failing node without limit.
* `CancelReaches`: cancel is to "signal one or every running agent to stop"
  (`coordinator.rs:38`), but it knows only the live list, which `await_all` takes
  (195-204) and does not give back at its deadline (248-267).
* `HistoryIsRecent`: the oldest messages are loaded (`session_store.rs:388`), not
  the "recent history" (`cli_repl.rs:3395`).
* `CommittedTogether`: the messages "committed together" (`orchestrator.rs:369`)
  are two separate appends (370, 373).
* `SummaryCoversDropped`: messages that no summary covers are deleted
  (`orchestrator.rs:1172`).
* `SubAgent::run` "Never panics" (`agent.rs:169`), but `truncate` (479) cuts
  inside a character: `SummaryPanics`.
* `dream.rs:849-854` says the filter keeps deleted facts from coming back; it
  only looks at rows that exist, and fails for texts that are no valid query.
* `MarkedWereLearned`: a long log is cut in the middle (`dream.rs` 569-580; of one or two
  messages nothing is left), and all its messages are marked (809-810).
* `rotator.rs:171-175` calls the rotated file "functionally identical"; saved to a
  fresh path it is a V2 file with one slot, without those of the admin key and
  the developer (133, 214).  A temporary file left under another passphrase makes
  every later rotation fail (134).
* Saves that overlap lose updates, and one that finds the file empty drops the
  slots of the others (`vault.rs:502`).
* A recovery by the developer overwrites `admin_key.bin` (`vault.rs:905`).  An operation
  that loaded the vault under the old admin key and writes meanwhile can leave a
  vault that neither a passphrase nor the new key opens: without `rivals`, TLC
  violates `OwnerCanOpen`.
* Subscribing to a feed again deletes its stored entries (`work_iq.rs:170`).  If a poll has
  read the row before, it then notes its newest entry as seen (302), and those it had
  stored are never fetched again (part of `lost`).
* `remove_job` drops the timer before its UPDATE, and `add_job` writes the row before the
  timer (`cron_scheduler.rs` 129-139, 87): a failure in between leaves an active row
  without a timer until a restart: `stranded`.

## What is proved

Every safety invariant and action property that a passing run checks is a
theorem, and so is the refinement `ImplementsDagRun`: the run shows it on a small
instance, the proof for every value of the constants.

The proofs need only the named assumptions of the modules:

* the task graph is finite and valid; the turns of a page and the cycles that
  consolidate it are finitely many;
* tables have their types: tiers are tiers, allowed tools are tools, each frame
  has a key, a channel and a connection;
* caps, limits, windows and bursts are natural numbers, and positive where zero
  would mean that nothing happens (a burst, a cache, a channel, a batch, steps, the
  breaker); a compaction keeps no more than the page's limit;
* different things differ: turns and requests, workers and requests for a cycle, the
  credentials of a vault; `None` is no process, request, connection, key or slot.

One theorem has a hypothesis of its own: `InputsCompletedHolds` needs `Startable`,
that the caller hands in no node already Skipped or Failed.  The ready queue takes
a Skipped parent for an available one, so a node the caller skips does let its
children run without it; `InputsAvailable` has that exception.  Run
`dag_recovery` starts from such a spec, as the repository's test does.

Each proof follows the same line: an inductive invariant with named parts, a
lemma per part that every action keeps it, and a theorem per property that
follows from it.  What the parts are, and why the property alone is not enough:

**Engine** (`DagExecutionProofs`).  `TypeCorrect`; then `CapHolds`: the
sub-agents that run are among the nodes that hold a permit, and the permits never
exceed the cap, wherever the handles went.  `InputsAvailableHolds` needs that
the nodes of a snapshot and the one being started are ready by the *current*
statuses: no verdict arrives and nothing is skipped while they wait.
`ReportConsistentHolds` and `OutcomeMatchesReportHolds` follow the counters
against the sets they count (cardinalities from `FiniteSetTheorems`), with the
bookkeeping that links in-flight nodes, running statuses and missing entries.
`SuccessIsCompleteHolds` is the deepest: when the loop leaves with nothing in
flight, the last snapshot was empty; if a node were unfinished, one of least
rank would be ready (well-founded induction over the ranks).
`EngineImplementsDagRun` shows, from the same invariants, that the initial states
correspond and that every step is an abstract step or a stutter.

**Recovery** (`DagExecutionProofs`).  The engine's bookkeeping holds in every run
of the loop, because a new run starts from an empty one.  `AttemptsBoundedHolds`
counts a node that still waits to be started one lower than one that was
(`RAttemptInv`), for any `attempt_count`, and adds `max_retries` as a bound on the count
while the caller passes it on.  `FinishedWorkKeptHolds` is an action property: the replanner
only touches nodes that failed, and the engine only starts Pending ones.
`InputsCompletedHolds` is the one where a Skipped parent could be mistaken for an
available one; `RInputInv` and `RStartInv` say why it never is: what is Pending in
a later run was put back by the replanner, hence was started before, hence had all
its parents completed, and these stay so.  A node below one that was given up has
itself been skipped and is never put back.

**Swarm** (`SwarmProofs`).  `AwaitCompleteHolds` and `CollectedHaveEndedHolds` rest
on the order of the two lists: a status is recorded before the task leaves the live
list (`TaskInv`), so what a call of `await_all` owes is, between its two looks, among
its handles or on the completed list, later among its handles or collected
(`WaitInv`).  `RunningIsHeldHolds` needs that a task which has left the list is over
(`ListInv`), also if it left before `spawn` had entered it, and that what a call took
is among its handles until it is joined or dropped (`HeldInv`).
`OneToolAfterCancelHolds` needs that an agent with a tool begun after the flag does
not ask the model again (`ToolInv`).

**Loop** (`ReactLoopProofs`).  The invariant has four named parts: types, with
the step counter and the singleton call; the gate (entries have waiters,
channels of requests not yet made are empty); permissions (what a channel
delivers was said, what is about to be invoked is permitted); and repetition
(what is in the log is remembered, the call in hand is not in it).
`OnlyPermittedCallsRun` and `NoCallTwice` are not inductive without them.

**Gateway and Ingress** (`IngressProofs`).  `RateBoundHolds` is a balance: for any
admitted intent, those since it and the tokens left are paid for by the burst and
the time since (`BucketInv`).  `ReplayRefusedHolds` is a pigeonhole argument: an LRU
cache holds in front of a key only keys looked up since it (`CacheInv`), each once,
so the key cannot be evicted before as many others were looked up as the cache
holds, whatever was refreshed or expired meanwhile.  `IngressKeepsTheGateway` carries
both over to the composition.  `QuestionsMeetAnswersHolds` follows a question from
the moment it is stored, before it is sent, through the channel to the client
(`QuestionInv`): it is pending, used or replaced already while it is on its way, and
no turn can take one that another has taken.

**Page** (`PageStoreProofs`).  The order invariant (stamps are distinct, a
message is stamped before it is inserted, a reply is stamped after its
question, rows were committed) gives
`RepliesStay` and `NewestKept`: truncation removes a set that is closed
downwards.  `BoundedWhenQuiet` needs that a page over its limit always has a
turn or a compaction that still has to look at it.

**Feed** (`WorkIqProofs`).  `NothingSkippedHolds` needs what a poll under way has
still to do: all that lies below an entry it has found was found too or was dealt
with, and `last_seen_id` can only have been set back since it was read, by a new
subscription, under which what the poll had stored is lost (`PassedInv`, `PollInv`).
`AlertedOnceHolds` is a budget: the alerts
given, the one the poll is about to give, and the one an entry above
`last_seen_id` may still cause, together do not exceed the subscriptions
(`AlertInv`).  `DigestedWereSentHolds` only needs that a run marks the batch it sent.

**Dream cycle** (`DreamProofs`).  `CopiesBoundedHolds` and `FailuresBoundedHolds`
count debts: a fact has no more copies than cycles, *less* those that have looked it
up in vain and will store it (`CopyInv`); the failures stay that far below their bound
as cycles are under way (`FailInv`).  `MarkedWereLoggedHolds` needs that a batch past
its extraction was learned or cut (`LearnInv`).

**Vault** (`VaultFileProofs`).  `SlotsAgreeHolds`: the invariant extends the
agreement of slots and seal to what every process is about to write, and adds
that a V3 file is always sealed with the key it was made with.  The latter is
what an application of a recovery needs: it wraps a key that was read long ago,
over a file that others have rewritten since.  It also carries the types of
the operations in hand.  `OwnerCanOpenHolds` adds that whatever is about to become
the vault opens for the owner, the temporary file of a verified rotation included,
and that without `rivals` one rotation at a time has that file open (`OpenInv`).  While
a recovery is on its way to replace the key file, a passphrase must be what opens it
(`Lasting`), which holds as without `rivals` nobody writes under the admin key then.  `AloneIsDurableHolds` adds, for an operation that nobody
disturbs, that what it is about to write is what it means, what a rotation verifies
is what it wrote, and whose key slot 1 of either file is (`AloneInv`, `SlotInv`); it is
where every format, slot and crash meets.

Only model-checked: liveness (`Termination`, `EveryTurnEnds`, `AwaitEnds`,
`RecoveryEnds`, `TurnsEnd`, `StoredIsDigested`, `PendingIsTried`), which needs ENABLED
and is out of the prover's reach; and the counterexamples of the violation runs,
which are behaviours and not theorems.

## What is not modelled

Everything the inventory lists without a module, for the reason
`PROJECT.json` gives with each component: either it is planned above, or it is
text, I/O, cryptography, rendering or the inside of a library.  That is most of
the repository by lines: the command line, the terminal and the set-up dialogues,
the clients of model providers, the channel adapters, the tools and the sandbox
call out, print or translate, and keep no state that several steps depend on.

Hazards of those parts, or outside what a module can state, which no property
covers: two writers of one mailbox pair get the same sequence number
(`mailbox.rs:407`), and a message written before its reader registers wakes
nobody (375); two handles on one database break the audit chain
(`merkle.rs:193`); a graph with two nodes of one id passes `validate`
(`dag.rs:94`) and is offered for ever, where `DagExecution` takes ids as a set; a
request refused by its rate limit was already remembered as seen, so a retry is
dropped as a duplicate (`router.rs:39`; `Gateway` has the order, and nothing in
the repository says a retry should pass); `set_admin_key` on a file that is not
V2 writes a vault without its payload (`vault.rs:672`).

Inside the modelled components, message texts, prompts, token streams, durations
and identifiers are abstracted to what the properties tell apart.  Left out are
operations without a caller (`unregister_adapter`, `set_admin_key`), those that
only forward (outbound messages and pushes of the gateway), and the files under
`hydragent-scheduler/src/work_iq/`, which are not compiled.
