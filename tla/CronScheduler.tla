--------------------------- MODULE CronScheduler ---------------------------
(* CronScheduler of hydragent-scheduler and the executor the daemon gives   *)
(* it.  The jobs are rows of the shared database; every process (the        *)
(* daemon, a chat) loads the active ones when it starts and fires them from *)
(* its own memory, so processes that run side by side each fire a job.      *)
(*                                                                          *)
(* An action ends where the code awaits the database or the scheduler, and  *)
(* either may fail.  When a job is due is left open: it may fire any time.  *)
EXTENDS Integers, FiniteSets

CONSTANTS
  Procs,        \* processes of the program
  Jobs,         \* ids of jobs of type work_iq_digest; the others only push
  Slots,        \* bound on the jobs that run at one time
  MaxCrashes,   \* bound on the crashes
  None

ASSUME CronAssumption ==
  None \notin Procs /\ MaxCrashes \in Nat

VARIABLES
  up,           \* processes that run
  rows,         \* rows[j]: "none", "active" or "deleted"
  adding,       \* adding[j]: the process in add_job with its row written, or None
  removing,     \* removing[j]: the process in remove_job off its list, or None
  handles,      \* handles[p]: the jobs in the memory of p
  run,          \* run[s]: a job that runs, or NoRun
  stranded,     \* history: jobs a failure left out of the memory of a process
                \* that runs, until one is started and loads them
  crashes

cronVars == <<up, rows, adding, removing, handles, run, stranded, crashes>>

NoRun == [job |-> None, proc |-> None, pc |-> "free"]
Run == [job : Jobs, proc : Procs, pc : {"fired", "asking", "marking"}] \cup {NoRun}

CronTypeOK ==
  /\ up \subseteq Procs
  /\ rows \in [Jobs -> {"none", "active", "deleted"}]
  /\ adding \in [Jobs -> Procs \cup {None}]
  /\ removing \in [Jobs -> Procs \cup {None}]
  /\ handles \in [Procs -> SUBSET Jobs]
  /\ run \in [Slots -> Run]
  /\ stranded \subseteq Jobs
  /\ crashes \in 0 .. MaxCrashes

CronInit ==
  /\ up = {}
  /\ rows = [j \in Jobs |-> "none"]
  /\ adding = [j \in Jobs |-> None]
  /\ removing = [j \in Jobs |-> None]
  /\ handles = [p \in Procs |-> {}]
  /\ run = [s \in Slots |-> NoRun]
  /\ stranded = {}
  /\ crashes = 0

Active == {j \in Jobs : rows[j] = "active"}

(* Mistake, for the mutation runs: nothing is loaded at startup. *)
ReloadedNothing == {}

Reloaded == Active
-----------------------------------------------------------------------------
(* CronScheduler::new starts the scheduler and loads the active rows; one    *)
(* that cannot be scheduled is logged and left out.                          *)
StartProcess(p) ==
  /\ p \notin up
  /\ up' = up \cup {p}
  /\ \E failed \in SUBSET Active :
       /\ handles' = [handles EXCEPT ![p] = Reloaded \ failed]
       /\ stranded' = (stranded \ Active) \cup failed
  /\ UNCHANGED <<rows, adding, removing, run, crashes>>

(* add_job writes the row, then puts the job into memory.  If that fails     *)
(* (the expression is no schedule, say), the row stays active.               *)
InsertRow(p, j) ==
  /\ p \in up /\ rows[j] = "none"
  /\ rows' = [rows EXCEPT ![j] = "active"]
  /\ adding' = [adding EXCEPT ![j] = p]
  /\ UNCHANGED <<up, removing, handles, run, stranded, crashes>>

ScheduleInMemory(j) ==
  /\ adding[j] # None
  /\ adding' = [adding EXCEPT ![j] = None]
  /\ \/ /\ handles' = [handles EXCEPT ![adding[j]] = @ \cup {j}]
        /\ UNCHANGED stranded
     \/ /\ stranded' = stranded \cup {j}
        /\ UNCHANGED handles
  /\ UNCHANGED <<up, rows, removing, run, crashes>>

(* remove_job knows only what is in its own memory.  If its UPDATE fails,    *)
(* the row stays active and nothing puts the job back.                       *)
TakeHandle(p, j) ==
  /\ p \in up /\ j \in handles[p] /\ removing[j] = None
  /\ handles' = [handles EXCEPT ![p] = @ \ {j}]
  /\ removing' = [removing EXCEPT ![j] = p]
  /\ UNCHANGED <<up, rows, adding, run, stranded, crashes>>

DeleteRow(j) ==
  /\ removing[j] # None
  /\ removing' = [removing EXCEPT ![j] = None]
  /\ \/ rows' = [rows EXCEPT ![j] = "deleted"] /\ UNCHANGED stranded
     \/ stranded' = stranded \cup {j} /\ UNCHANGED rows
  /\ UNCHANGED <<up, adding, handles, run, crashes>>

(* Nothing keeps a job from firing while its last run is not over.  The      *)
(* slots only number the runs.                                               *)
Fire(p, j, s) ==
  /\ p \in up /\ j \in handles[p]
  /\ run[s] = NoRun /\ s = CHOOSE t \in Slots : run[t] = NoRun
  /\ run' = [run EXCEPT ![s] = [job |-> j, proc |-> p, pc |-> "fired"]]
  /\ UNCHANGED <<up, rows, adding, removing, handles, stranded, crashes>>

RunEnds(s) == run' = [run EXCEPT ![s] = NoRun]

(* What a process has in memory is gone with it. *)
WithoutProcess(p, f) == [x \in DOMAIN f |-> IF f[x] = p THEN None ELSE f[x]]

CrashProcess(p) ==
  /\ p \in up /\ crashes < MaxCrashes
  /\ crashes' = crashes + 1
  /\ up' = up \ {p}
  /\ handles' = [handles EXCEPT ![p] = {}]
  /\ adding' = WithoutProcess(p, adding)
  /\ removing' = WithoutProcess(p, removing)
  /\ run' = [s \in Slots |-> IF run[s].proc = p THEN NoRun ELSE run[s]]
  /\ UNCHANGED <<rows, stranded>>
=============================================================================
