------------------------------- MODULE Daemon -------------------------------
(***************************************************************************)
(* gpu_queue/daemon.py, composed of Dispatch (what it decides), Database   *)
(* (what it remembers) and Runner (what it supervises): cancel in two      *)
(* steps, the reaper, VRAM policing, launch and mark_running with a crash  *)
(* in between, restart and recovery, next to processes that end, linger,   *)
(* are killed or lose their pid to someone else at any moment.             *)
(*                                                                         *)
(* `phase' is where the thread that holds Daemon.lock stands; at "idle"    *)
(* nobody does.  The model loops over a set of jobs where the code loops   *)
(* over a list: the rounds of different jobs are independent.  The         *)
(* processes do not move while plan() runs: it reads nothing they change.  *)
(***************************************************************************)
EXTENDS Dispatch, Runner

CONSTANTS
    VRAM_STRIKES,
    EXT_MEM_MB,
    Readings,         \* what NVML may report of a job's process: MB, or NULL
    ForeignGpus,      \* where processes that are not gpu-queue's may show up
    MaxCrashes,       \* bound: daemon crashes and reboots in a behaviour
    CrashPhases,      \* bound: the phases in which the daemon may crash
    Unlaunchable,     \* jobs on which launch() raises what is no OSError
    Reboots,          \* bound: whether the whole machine may crash
    PidReusePhases,   \* bound: the phases in which the kernel may give a
                      \*        free pid to a group that is not gpu-queue's
    CancelAgain       \* bound: whether a cancel may be repeated

ASSUME DaemonAssumption ==
    /\ VRAM_STRIKES \in Nat \ {0}
    /\ EXT_MEM_MB \in Nat
    /\ \A m \in Readings : m # NULL => m \in Nat
    /\ ForeignGpus \subseteq Gpus
    /\ MaxCrashes \in Nat
    /\ Unlaunchable \subseteq Jobs
    /\ Reboots \in BOOLEAN /\ CancelAgain \in BOOLEAN

VARIABLES
    phase,
    todo_jobs,          \* the jobs the current loop has still to visit
    cur,                \* the job it is visiting and what it has read of it
    popens,             \* [Jobs -> [pid, returncode], or NULL]
    stragglers_killed,  \* SUBSET Jobs
    vram_strikes,       \* [Jobs -> Nat]: 0 when absent
    evicted,            \* SUBSET Jobs
    snapshot,           \* NULL, or what NVML showed when the cycle began
    crashes

memoryVars == <<popens, stragglers_killed, vram_strikes, evicted>>
loopVars == <<phase, todo_jobs, cur>>
daemonVars == <<dispatchVars, rowVars, runnerVars, loopVars, memoryVars,
                snapshot, crashes>>

Phases == {"idle", "cancelKill", "reap", "reapRead", "reapDecide", "enforce",
           "evictKill", "dispatch", "spawned", "down", "recover", "recoverDecide"}

Cur == [job : Jobs, rc : Codes \cup {NULL}, file : ExitCodes \cup {NULL}]
Popen == [pid : Pids, returncode : Codes \cup {NULL}]
ASSUME PopenAssumption == NULL \notin Popen
Proc == [gpus : SUBSET Gpus, mem : Readings]

DaemonTypeOK ==
    /\ DispatchTypeOK /\ RowTypeOK /\ RunnerTypeOK
    /\ phase \in Phases
    /\ todo_jobs \in SUBSET Jobs
    /\ cur \in Cur \cup {NULL}
    /\ popens \in [Jobs -> Popen \cup {NULL}]
    /\ stragglers_killed \in SUBSET Jobs
    /\ vram_strikes \in [Jobs -> 0..(VRAM_STRIKES - 1)]
    /\ evicted \in SUBSET Jobs
    /\ \/ snapshot = NULL
       \/ /\ snapshot.procs \in [Pids -> Proc \cup {NULL}]
          /\ snapshot.foreign \in SUBSET ForeignGpus
    /\ crashes \in 0..MaxCrashes

EmptyMemory ==
    /\ popens' = [j \in Jobs |-> NULL]
    /\ stragglers_killed' = {}
    /\ vram_strikes' = [j \in Jobs |-> 0]
    /\ evicted' = {}

DaemonInit ==
    /\ DispatchInit /\ RowInit /\ RunnerInit
    /\ phase = "idle"
    /\ todo_jobs = {}
    /\ cur = NULL
    /\ popens = [j \in Jobs |-> NULL]
    /\ stragglers_killed = {}
    /\ vram_strikes = [j \in Jobs |-> 0]
    /\ evicted = {}
    /\ snapshot = NULL
    /\ crashes = 0

Running == {j \in Jobs : state[j] = "RUNNING"}
About(j) == [job |-> j, rc |-> NULL, file |-> NULL]
Goto(ph) == phase' = ph /\ UNCHANGED todo_jobs

-----------------------------------------------------------------------------
(* API handlers. *)

SubmitJob(j) ==
    /\ phase = "idle"
    /\ Submit(j)
    /\ UNCHANGED <<rowVars, runnerVars, loopVars, memoryVars, snapshot, crashes>>

CancelQueuedJob(j) ==
    /\ phase = "idle"
    /\ CancelQueued(j)
    /\ SetExitCode(j, NULL)
    /\ UNCHANGED <<runnerVars, loopVars, memoryVars, snapshot, crashes>>

CancelRunningJob(j) ==
    /\ phase = "idle"
    /\ state[j] = "RUNNING"
    /\ CancelAgain \/ cancel_requested_at[j] = NULL
    /\ MarkCancelRequested(j)
    /\ cur' = About(j)
    /\ Goto("cancelKill")
    /\ UNCHANGED <<dispatchVars, runnerVars, memoryVars, snapshot, crashes>>

\* When the signal is refused, the answer is 500 instead of the job.
CancelKill ==
    /\ phase = "cancelKill"
    /\ KillTree(pid[cur.job], "TERM")
    /\ cur' = NULL
    /\ Goto("idle")
    /\ UNCHANGED <<dispatchVars, rowVars, memoryVars, snapshot, crashes>>

RequeueJob_AnyState(j) ==
    /\ phase = "idle" /\ pc = "idle"
    /\ state[j] \in FINAL_STATES \cup {"RUNNING"}
    /\ ReopenRow(j)
    /\ ClearRun(j)
    /\ UNCHANGED <<planVars, pc, external>>
    /\ UNCHANGED <<runnerVars, loopVars, memoryVars, snapshot, crashes>>

RequeueJob(j) ==
    /\ phase = "idle"
    /\ Requeue(j)
    /\ ClearRun(j)
    /\ UNCHANGED <<runnerVars, loopVars, memoryVars, snapshot, crashes>>

-----------------------------------------------------------------------------
(* _finalize. *)

FinalState_CancelFirst(j, code) ==
    IF cancel_requested_at[j] # NULL THEN "CANCELLED"
    ELSE IF code = 0 THEN "DONE" ELSE "FAILED"

FinalState(j, code) ==
    CASE j \in evicted -> "FAILED"
      [] j \notin evicted /\ cancel_requested_at[j] # NULL -> "CANCELLED"
      [] j \notin evicted /\ cancel_requested_at[j] = NULL /\ code = 0 -> "DONE"
      [] OTHER -> "FAILED"

Finalize_KeepsStrikes(j, code) ==
    /\ FinishAs(j, FinalState(j, code))
    /\ SetExitCode(j, code)
    /\ popens' = [popens EXCEPT ![j] = NULL]
    /\ stragglers_killed' = stragglers_killed \ {j}
    /\ evicted' = evicted \ {j}
    /\ UNCHANGED vram_strikes

Finalize(j, code) ==
    /\ FinishAs(j, FinalState(j, code))
    /\ SetExitCode(j, code)
    /\ popens' = [popens EXCEPT ![j] = NULL]
    /\ stragglers_killed' = stragglers_killed \ {j}
    /\ vram_strikes' = [vram_strikes EXCEPT ![j] = 0]
    /\ evicted' = evicted \ {j}

-----------------------------------------------------------------------------
(* cycle(): the snapshot, then _reap. *)

\* A process is seen on its job's GPUs when it has allocated there.
Seen(p) ==
    IF Live(p) /\ group[p].gpus # {}
    THEN {NULL} \cup {[gpus |-> group[p].gpus, mem |-> m] : m \in Readings}
    ELSE {NULL}

Snapshots ==
    {[procs |-> ps, foreign |-> F] :
        ps \in {f \in [Pids -> UNION {Seen(p) : p \in Pids}] :
                   \A p \in Pids : f[p] \in Seen(p)},
        F  \in SUBSET ForeignGpus}

\* snapshot' = NULL: it raised, and the cycle will only reap.
CycleBegins ==
    /\ phase = "idle"
    /\ snapshot' \in Snapshots \cup {NULL}
    /\ AgeRequests
    /\ todo_jobs' = Running
    /\ phase' = "reap"
    /\ UNCHANGED <<dispatchVars, runnerVars, cur, memoryVars, crashes>>

\* popen.poll(): reaps the zombie, keeps its status.
ReapPoll(j) ==
    LET po == popens[j]
        dies == po # NULL /\ po.returncode = NULL
                /\ group[po.pid] # NULL /\ group[po.pid].wrapper = "zombie"
        rc == CASE po = NULL -> NULL
                [] po # NULL /\ dies -> group[po.pid].rc
                [] OTHER -> po.returncode
    IN
    /\ phase = "reap"
    /\ j \in todo_jobs
    /\ cur' = [About(j) EXCEPT !.rc = rc]
    /\ IF dies
       THEN /\ ReapZombie(po.pid)
            /\ popens' = [popens EXCEPT ![j].returncode = rc]
       ELSE UNCHANGED <<runnerVars, popens>>
    /\ Goto("reapRead")
    /\ UNCHANGED <<dispatchVars, rowVars, stragglers_killed, vram_strikes,
                   evicted, snapshot, crashes>>

ReapRead ==
    /\ phase = "reapRead"
    /\ cur' = [cur EXCEPT !.file = ReadExitCode(cur.job)]
    /\ Goto("reapDecide")
    /\ UNCHANGED <<dispatchVars, rowVars, runnerVars, memoryVars, snapshot, crashes>>

\* The rest of the loop's body for the job at hand.
ReapNext ==
    /\ phase' = "reap"
    /\ todo_jobs' = todo_jobs \ {cur.job}
    /\ cur' = NULL
    /\ UNCHANGED <<snapshot, crashes>>

WrapperDone == cur.file # NULL \/ cur.rc # NULL

ReapAdopted_AnyJob ==
    /\ phase = "reapDecide"
    /\ WrapperDone
    /\ Finalize(cur.job, cur.file)
    /\ ReapNext
    /\ UNCHANGED runnerVars

\* An adopted job whose wrapper is done: the exit file decides.
ReapAdopted ==
    /\ phase = "reapDecide"
    /\ popens[cur.job] = NULL /\ WrapperDone
    /\ Finalize(cur.job, cur.file)
    /\ ReapNext
    /\ UNCHANGED runnerVars

ReapGone_NoReread ==
    LET j == cur.job
        code == IF cur.file = NULL /\ popens[j] # NULL
                THEN popens[j].returncode ELSE cur.file
    IN
    /\ phase = "reapDecide"
    /\ ~(popens[j] = NULL /\ WrapperDone)
    /\ ~GroupAlive(pid[j])
    /\ Finalize(j, code)
    /\ ReapNext
    /\ UNCHANGED runnerVars

\* The whole group is gone: the file may have landed since it was read.
ReapGone ==
    LET j == cur.job
        file == IF cur.file = NULL THEN ReadExitCode(j) ELSE cur.file
        code == IF file = NULL /\ popens[j] # NULL
                THEN popens[j].returncode ELSE file
    IN
    /\ phase = "reapDecide"
    /\ ~(popens[j] = NULL /\ WrapperDone)
    /\ ~GroupAlive(pid[j])
    /\ Finalize(j, code)
    /\ ReapNext
    /\ UNCHANGED runnerVars

\* The script ended by itself and left children behind.
HasStragglers(j) ==
    WrapperDone /\ cancel_requested_at[j] = NULL /\ j \notin stragglers_killed

ReapStragglers_NoKill ==
    LET j == cur.job IN
    /\ phase = "reapDecide"
    /\ ~(popens[j] = NULL /\ WrapperDone)
    /\ GroupAlive(pid[j])
    /\ HasStragglers(j)
    /\ stragglers_killed' = stragglers_killed \cup {j}
    /\ ReapNext
    /\ UNCHANGED <<dispatchVars, rowVars, runnerVars, popens, vram_strikes, evicted>>

ReapStragglers ==
    LET j == cur.job IN
    /\ phase = "reapDecide"
    /\ ~(popens[j] = NULL /\ WrapperDone)
    /\ GroupAlive(pid[j]) /\ ~Refused(pid[j])
    /\ HasStragglers(j)
    /\ stragglers_killed' = stragglers_killed \cup {j}
    /\ KillTree(pid[j], "KILL")
    /\ ReapNext
    /\ UNCHANGED <<dispatchVars, rowVars, popens, vram_strikes, evicted>>

GraceIsOver_Never(j) ==
    cancel_requested_at[j] # NULL /\ cancel_requested_at[j] > CANCEL_GRACE_S + 1

GraceIsOver(j) ==
    cancel_requested_at[j] # NULL /\ cancel_requested_at[j] > CANCEL_GRACE_S

\* Neither of the above: escalate when the grace is over, else wait.
ReapAlive ==
    LET j == cur.job IN
    /\ phase = "reapDecide"
    /\ ~(popens[j] = NULL /\ WrapperDone)
    /\ GroupAlive(pid[j])
    /\ ~HasStragglers(j)
    /\ GraceIsOver(j) => ~Refused(pid[j])
    /\ IF GraceIsOver(j) THEN KillTree(pid[j], "KILL") ELSE UNCHANGED runnerVars
    /\ ReapNext
    /\ UNCHANGED <<dispatchVars, rowVars, memoryVars>>

\* After a failed snapshot the cycle is over.
ReapEnds ==
    /\ phase = "reap" /\ todo_jobs = {}
    /\ snapshot = NULL
    /\ CycleWithoutSnapshot
    /\ Goto("idle")
    /\ UNCHANGED <<rowVars, runnerVars, cur, memoryVars, snapshot, crashes>>

-----------------------------------------------------------------------------
(* _enforce_vram. *)

\* The share jobs whose processes the snapshot shows above budget + overhead.
\* A process that is gone by now, or whose memory is unknown, does not count.
OverBudget ==
    {j \in Running : LET s == snapshot.procs[pid[j]] IN
        /\ ~Exclusive(j)
        /\ s # NULL
        /\ Live(pid[j])
        /\ s.mem # NULL
        /\ s.mem > Need(j)}

EnforceBegins_NoReset ==
    /\ phase = "reap" /\ todo_jobs = {}
    /\ snapshot # NULL
    /\ phase' = "enforce"
    /\ todo_jobs' = OverBudget
    /\ UNCHANGED <<dispatchVars, rowVars, runnerVars, cur, memoryVars,
                   snapshot, crashes>>

EnforceBegins ==
    /\ phase = "reap" /\ todo_jobs = {}
    /\ snapshot # NULL
    /\ phase' = "enforce"
    /\ todo_jobs' = OverBudget
    /\ vram_strikes' = [j \in Jobs |-> IF j \in OverBudget THEN vram_strikes[j] ELSE 0]
    /\ UNCHANGED <<dispatchVars, rowVars, runnerVars, cur, popens,
                   stragglers_killed, evicted, snapshot, crashes>>

EnforceNext(j) == phase = "enforce" /\ j \in todo_jobs /\ todo_jobs' = todo_jobs \ {j}

EnforceEvicted(j) ==
    /\ EnforceNext(j)
    /\ j \in evicted
    /\ UNCHANGED <<dispatchVars, rowVars, runnerVars, phase, cur, memoryVars,
                   snapshot, crashes>>

EnforceStrike(j) ==
    /\ EnforceNext(j)
    /\ j \notin evicted
    /\ vram_strikes[j] + 1 < VRAM_STRIKES
    /\ vram_strikes' = [vram_strikes EXCEPT ![j] = @ + 1]
    /\ UNCHANGED <<dispatchVars, rowVars, runnerVars, phase, cur, popens,
                   stragglers_killed, evicted, snapshot, crashes>>

Evict_Unmarked(j) ==
    /\ EnforceNext(j)
    /\ j \notin evicted
    /\ vram_strikes[j] + 1 >= VRAM_STRIKES
    /\ vram_strikes' = [vram_strikes EXCEPT ![j] = 0]
    /\ MarkCancelRequested(j)
    /\ phase' = "evictKill"
    /\ cur' = About(j)
    /\ UNCHANGED <<dispatchVars, runnerVars, popens, stragglers_killed,
                   evicted, snapshot, crashes>>

Evict(j) ==
    /\ EnforceNext(j)
    /\ j \notin evicted
    /\ vram_strikes[j] + 1 >= VRAM_STRIKES
    /\ vram_strikes' = [vram_strikes EXCEPT ![j] = 0]
    /\ evicted' = evicted \cup {j}
    /\ MarkCancelRequested(j)
    /\ phase' = "evictKill"
    /\ cur' = About(j)
    /\ UNCHANGED <<dispatchVars, runnerVars, popens, stragglers_killed,
                   snapshot, crashes>>

EvictKill ==
    /\ phase = "evictKill"
    /\ ~Refused(pid[cur.job])
    /\ KillTree(pid[cur.job], "TERM")
    /\ cur' = NULL
    /\ Goto("enforce")
    /\ UNCHANGED <<dispatchVars, rowVars, memoryVars, snapshot, crashes>>

-----------------------------------------------------------------------------
(* _dispatch. *)

OurPgids == {pid[j] : j \in Running} \ {NULL}

\* externally_busy: a process that is not (or no longer) of one of our groups
\* and is not tiny.
ExternallyBusy ==
    snapshot.foreign \cup
    {g \in Gpus : \E p \in Pids :
        LET s == snapshot.procs[p] IN
        /\ s # NULL
        /\ g \in s.gpus
        /\ ~(Live(p) /\ p \in OurPgids)
        /\ s.mem = NULL \/ s.mem >= EXT_MEM_MB}

DispatchBegins ==
    /\ phase = "enforce" /\ todo_jobs = {}
    /\ external' = ExternallyBusy
    /\ PlanBegins
    /\ Goto("dispatch")
    /\ UNCHANGED <<rowVars, runnerVars, cur, memoryVars, snapshot, crashes>>

DispatchPlans ==
    /\ phase = "dispatch"
    /\ PlanNextJob \/ PlanEnds
    /\ UNCHANGED <<rowVars, runnerVars, loopVars, memoryVars, snapshot, crashes>>

\* A pid the kernel gives to a new job: not one a RUNNING row names, which
\* takes the pids to go all the way round first (cf. PidReusePhases).
Available(p) ==
    /\ group[p] = NULL
    /\ \A j \in Running : pid[j] # p

\* launch() and the Popen handle; the row is still QUEUED.
Spawn(j, p) ==
    /\ phase = "dispatch" /\ pc = "launch"
    /\ NextAssignment(j) /\ j \notin Unlaunchable
    /\ Available(p)
    /\ StartGroup(j, out[j], p)
    /\ popens' = [popens EXCEPT ![j] = [pid |-> p, returncode |-> NULL]]
    /\ cur' = About(j)
    /\ Goto("spawned")
    /\ UNCHANGED <<dispatchVars, rowVars, stragglers_killed, vram_strikes,
                   evicted, snapshot, crashes>>

MarkRunning ==
    /\ phase = "spawned"
    /\ Launch(cur.job)
    /\ SetPid(cur.job, popens[cur.job].pid)
    /\ cur' = NULL
    /\ Goto("dispatch")
    /\ UNCHANGED <<runnerVars, memoryVars, snapshot, crashes>>

SpawnFails(j) ==
    /\ phase = "dispatch"
    /\ LaunchFails(j)
    /\ LaunchError(j)
    /\ SetExitCode(j, NULL)
    /\ UNCHANGED <<loopVars, memoryVars, snapshot, crashes>>

\* Nothing reads the snapshot before the next one (but its card totals).
DispatchEnds ==
    /\ phase = "dispatch"
    /\ CycleEnds
    /\ snapshot' = NULL
    /\ Goto("idle")
    /\ UNCHANGED <<rowVars, runnerVars, cur, memoryVars, crashes>>

-----------------------------------------------------------------------------
(* Crash, shutdown, restart and recover(). *)

Forget ==
    /\ Restart
    /\ phase' = "down"
    /\ todo_jobs' = {}
    /\ cur' = NULL
    /\ EmptyMemory
    /\ snapshot' = NULL
    /\ UNCHANGED rowVars

\* The process dies, or was told to shut down: its jobs keep running.
Crash ==
    /\ crashes < MaxCrashes
    /\ crashes' = crashes + 1
    /\ phase \in CrashPhases
    /\ Orphaned
    /\ Forget

Reboot ==
    /\ Reboots
    /\ crashes < MaxCrashes
    /\ crashes' = crashes + 1
    /\ MachineReboots
    /\ Forget

\* An exception that _dispatch does not catch (a header that is no UTF-8, from the
\* bytes of an argument) ends the loop and with it the process; systemd starts it
\* again.  The row stays as it is; the job never ran, so there was no exit file.
SpawnRaises(j) ==
    /\ phase = "dispatch" /\ pc = "launch"
    /\ NextAssignment(j) /\ j \in Unlaunchable
    /\ Orphaned
    /\ Forget
    /\ UNCHANGED crashes

\* Nor does anyone catch kill_tree's PermissionError in _reap and _enforce_vram.
KillRaises ==
    /\ \/ phase = "evictKill"
       \/ /\ phase = "reapDecide"
          /\ ~(popens[cur.job] = NULL /\ WrapperDone)
          /\ HasStragglers(cur.job) \/ GraceIsOver(cur.job)
    /\ Refused(pid[cur.job])
    /\ Orphaned
    /\ Forget
    /\ UNCHANGED crashes

Start ==
    /\ phase = "down"
    /\ phase' = "recover"
    /\ todo_jobs' = Running
    /\ UNCHANGED <<dispatchVars, rowVars, runnerVars, cur, memoryVars,
                   snapshot, crashes>>

RecoverRead(j) ==
    /\ phase = "recover"
    /\ j \in todo_jobs
    /\ cur' = [About(j) EXCEPT !.file = ReadExitCode(j)]
    /\ Goto("recoverDecide")
    /\ UNCHANGED <<dispatchVars, rowVars, runnerVars, memoryVars, snapshot, crashes>>

RecoverNext ==
    /\ phase = "recoverDecide"
    /\ phase' = "recover"
    /\ todo_jobs' = todo_jobs \ {cur.job}
    /\ cur' = NULL
    /\ UNCHANGED <<runnerVars, snapshot, crashes>>

Readopt_PidOnly ==
    /\ RecoverNext
    /\ GroupAlive(pid[cur.job])
    /\ UNCHANGED <<dispatchVars, rowVars, memoryVars>>

Readopt ==
    /\ RecoverNext
    /\ cur.file = NULL /\ GroupAlive(pid[cur.job])
    /\ UNCHANGED <<dispatchVars, rowVars, memoryVars>>

RecoverFinalizes_Always ==
    /\ RecoverNext
    /\ Finalize(cur.job, cur.file)

RecoverFinalizes ==
    /\ RecoverNext
    /\ ~(cur.file = NULL /\ GroupAlive(pid[cur.job]))
    /\ Finalize(cur.job, cur.file)

RecoverEnds ==
    /\ phase = "recover" /\ todo_jobs = {}
    /\ Goto("idle")
    /\ UNCHANGED <<dispatchVars, rowVars, runnerVars, cur, memoryVars,
                   snapshot, crashes>>

-----------------------------------------------------------------------------
ProcessStep(p) ==
    /\ pc # "plan"
    /\ \/ ScriptEnds(p)
       \/ WrapperKilled(p)
       \/ RestExits(p)
       \/ RestDies(p)
       \/ phase \in PidReusePhases /\ PidTaken(p)
    /\ UNCHANGED <<dispatchVars, rowVars, loopVars, memoryVars, snapshot, crashes>>

Processes == \E p \in Pids : ProcessStep(p)

Users == \E j \in Jobs : \/ SubmitJob(j)
                         \/ CancelQueuedJob(j)
                         \/ CancelRunningJob(j)
                         \/ RequeueJob(j)

\* What the thread that holds the lock does next; none of it waits.
LockHolder ==
    \/ CancelKill
    \/ \E j \in Jobs : ReapPoll(j)
    \/ ReapRead \/ ReapAdopted \/ ReapGone \/ ReapStragglers \/ ReapAlive
    \/ ReapEnds \/ EnforceBegins
    \/ \E j \in Jobs : EnforceEvicted(j) \/ EnforceStrike(j) \/ Evict(j)
    \/ EvictKill \/ KillRaises
    \/ DispatchBegins \/ DispatchPlans
    \/ \E j \in Jobs : SpawnFails(j) \/ SpawnRaises(j) \/ \E p \in Pids : Spawn(j, p)
    \/ MarkRunning
    \/ DispatchEnds

Recovery == \/ Start
            \/ \E j \in Jobs : RecoverRead(j)
            \/ Readopt \/ RecoverFinalizes \/ RecoverEnds

DaemonNext ==
    Users \/ CycleBegins \/ LockHolder \/ Recovery \/ Processes \/ Crash \/ Reboot

DaemonSpec == DaemonInit /\ [][DaemonNext]_daemonVars

(***************************************************************************)
(* Fairness.  run() cycles for ever, the lock is never held across a wait, *)
(* and the loop's thread gets it in the end although API threads take it   *)
(* too (strong fairness: every handler makes the phase leave "idle" or     *)
(* not).  A process that got SIGKILL dies.  Nothing is assumed of jobs,    *)
(* users or NVML.                                                          *)
(***************************************************************************)
DaemonFairness ==
    /\ SF_daemonVars(CycleBegins)
    /\ WF_daemonVars(LockHolder \/ Recovery)
    /\ \A p \in Pids : SF_daemonVars(ProcessStep(p) /\ RestDies(p))

FairDaemonSpec == DaemonSpec /\ DaemonFairness

-----------------------------------------------------------------------------
(* Properties. *)

\* Between launch() and mark_running the job is known to the lock holder only.
BeingSpawned(j) == phase = "spawned" /\ cur.job = j

Leaves(j) == state[j] = "RUNNING" /\ state'[j] # "RUNNING"

\* docs/how-it-works.md:34-37: a job is finished only when its whole process
\* group is gone, zombies and stragglers included.
FinishedMeansGone ==
    [][\A j \in Jobs : Leaves(j) =>
          \A p \in Pids : group[p] # NULL => group[p].owner # j]_daemonVars

\* Whatever of a job still exists is charged for: its row is RUNNING, names
\* that group, and holds the GPUs the group was started on.  So a job has at
\* most one group, and NoOvercommit speaks of the cards themselves.
LiveGroupsAreCharged ==
    \A p \in Pids : group[p] # NULL /\ group[p].owner # FOREIGN =>
        LET j == group[p].owner IN
        \/ state[j] = "RUNNING" /\ pid[j] = p /\ gpu_ids[j] = group[p].gpus
        \/ BeingSpawned(j) /\ popens[j].pid = p

\* docs/how-it-works.md:123-124: on the machine itself, a card with an
\* exclusive job's process has no other job's process on it.
CardsAreNotMixed ==
    \A p, q \in Pids :
        (/\ group[p] # NULL /\ group[q] # NULL
         /\ group[p].gpus \cap group[q].gpus # {}
         /\ group[p].owner # group[q].owner)
        => ~Exclusive(group[p].owner)

\* The same of groups whose script still runs: a job that is running is
\* neither lost nor started twice, whenever the daemon restarts.
RunningScriptsAreTracked ==
    \A p \in Pids : group[p] # NULL /\ group[p].wrapper = "running" =>
        LET j == group[p].owner IN
        \/ state[j] = "RUNNING" /\ pid[j] = p /\ gpu_ids[j] = group[p].gpus
        \/ BeingSpawned(j) /\ popens[j].pid = p

ScriptRuns(p) == group[p] # NULL /\ group[p].wrapper = "running"
ScriptsOn(g) == {group[p].owner : p \in {q \in Pids : ScriptRuns(q) /\ g \in group[q].gpus}}

\* docs/how-it-works.md:84-92: on the machine itself, a job's script runs once, an
\* exclusive job's is the only one on its cards, and the budgets of the share jobs
\* whose scripts run on a card fit it, with their overhead and the card's headroom,
\* whenever the daemon restarts.
ScriptsFitTheirCards ==
    /\ \A p, q \in Pids :
          ScriptRuns(p) /\ ScriptRuns(q) /\ group[p].owner = group[q].owner => p = q
    /\ \A g \in Gpus : LET S == ScriptsOn(g) IN
          /\ \A j \in S : Exclusive(j) => S = {j}
          /\ (S # {} /\ \A j \in S : ~Exclusive(j)) => Reserved(S) <= Capacity(g)

\* Nothing of one run is left for the next: no handle, straggler mark,
\* strike, eviction or cancel request outlives the run it belongs to.
NothingCarriesOver ==
    /\ \A j \in Jobs : popens[j] # NULL => state[j] = "RUNNING" \/ BeingSpawned(j)
    /\ stragglers_killed \subseteq Running
    /\ \A j \in Jobs : vram_strikes[j] > 0 => j \in Running
    /\ \A j \in evicted : j \in Running /\ cancel_requested_at[j] # NULL
    /\ \A j \in Jobs : state[j] = "QUEUED" => /\ cancel_requested_at[j] = NULL
                                              /\ exit_code[j] = NULL

\* SIGKILL is for leftovers of a script that is over, or for a job that was
\* asked to go (by its user or by eviction) and had its grace.
KillIsLastResort ==
    [][\A p \in Pids :
          (/\ group[p] # NULL /\ group[p].owner # FOREIGN
           /\ group[p].rest = "alive"
           /\ group'[p] # NULL /\ group'[p].rest = "dying")
          => LET j == group[p].owner IN
             \/ group[p].wrapper # "running" /\ cancel_requested_at[j] = NULL
             \/ GraceIsOver(j)]_daemonVars

\* docs/how-it-works.md:116-118: an eviction stands until the job is gone or the daemon
\* restarts.  The job ends FAILED, even if its user cancels it in the meantime, and its
\* grace is begun again by its user only, not by the cycles that see it over its budget.
EvictionStands ==
    [][\A j \in evicted :
          /\ Leaves(j) => state'[j] = "FAILED"
          /\ \/ state'[j] # "RUNNING" \/ phase' = "down"
             \/ /\ j \in evicted'
                /\ \/ cancel_requested_at'[j] >= cancel_requested_at[j]
                   \/ phase = "idle" /\ phase' = "cancelKill" /\ cur'.job = j]_daemonVars

\* Group p gets SIGTERM, or a SIGKILL while it is alive.
GetsSignal(p) ==
    \/ phase \in {"cancelKill", "evictKill"} /\ phase' \in {"idle", "enforce"}
       /\ pid[cur.job] = p
    \/ group[p].rest = "alive" /\ group'[p] # NULL /\ group'[p].rest = "dying"

\* docs/how-it-works.md:38-40, daemon.py:171-174: the exit file defeats pid
\* reuse.  A foreign process is signalled only if its pid is that of a RUNNING
\* job which left no exit file (a reboot or a kill -9 of its wrapper).
ExitFileGuardsPid ==
    [][\A p \in Pids :
          (group[p] # NULL /\ group[p].owner = FOREIGN /\ GetsSignal(p))
          => \E j \in Running : pid[j] = p /\ exit_file[j] = NULL]_daemonVars

\* The reaper reads the file again once the group is gone, so what the wrapper
\* wrote last is not missed.  (recover() does not read it again.)
ReaperSeesTheFile ==
    [][\A j \in Jobs : Leaves(j) /\ exit_file[j] # NULL /\ phase = "reapDecide"
          => exit_code'[j] = exit_file[j]]_daemonVars

\* daemon.py:93-98,261-267: a cancelled job goes, whatever its processes do with
\* SIGTERM and whenever the daemon crashes: the reaper escalates.  Only a RUNNING job
\* whose group may not be signalled keeps it: the refused signal ends the daemon, again
\* after each restart, until that group goes by itself.
CancelledJobsGo ==
    \A j \in Jobs : (state[j] = "RUNNING" /\ cancel_requested_at[j] # NULL)
                        ~> (state[j] # "RUNNING" \/ \E k \in Running : Refused(pid[k]))

\* A job whose script is over leaves RUNNING, stragglers or not, and whatever another
\* job does; but not if its stragglers may not be signalled, which is tried once.
EndedJobsAreReaped ==
    \A j \in Jobs \ OutOfReach : (state[j] = "RUNNING" /\ exit_file[j] # NULL)
                        ~> state[j] # "RUNNING"

\* runner.py:33, daemon.py:283-286: a launch succeeds or fails, and either way the
\* job leaves the queue.  So a job that plan() places again and again does not stay
\* QUEUED, whatever becomes of the launches before its own.
PlacedJobsLeave ==
    \A j \in Jobs : []<>(out[j] # NULL) => []<>(state[j] # "QUEUED")
=============================================================================
