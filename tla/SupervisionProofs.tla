------------------------- MODULE SupervisionProofs -------------------------
(***************************************************************************)
(* What the daemon's record says of its processes: types, running scripts, *)
(* signals and exit codes, whenever the daemon or the machine goes down;   *)
(* and what its record of strikes and evictions says of why a job ended.   *)
(***************************************************************************)
EXTENDS Policing, DaemonProofs

-----------------------------------------------------------------------------
(* Types. *)

\* The loops, and the job being visited.
LoopTypes ==
    /\ phase \in Phases
    /\ todo_jobs \in SUBSET Jobs
    /\ cur \in Cur \cup {NULL}
    /\ Visiting => cur \in Cur

MemoryTypes ==
    /\ popens \in [Jobs -> Popen \cup {NULL}]
    /\ phase = "spawned" => popens[cur.job] # NULL
    /\ stragglers_killed \in SUBSET Jobs
    /\ vram_strikes \in [Jobs -> 0..(VRAM_STRIKES - 1)]
    /\ evicted \in SUBSET Jobs

SnapshotTypes ==
    \/ snapshot = NULL
    \/ /\ snapshot.procs \in [Pids -> Proc \cup {NULL}]
       /\ snapshot.foreign \in SUBSET ForeignGpus

CrashTypes == crashes \in 0..MaxCrashes

TypeInv ==
    /\ RowTypeOK /\ RunnerTypeOK
    /\ LoopTypes /\ MemoryTypes /\ SnapshotTypes /\ CrashTypes

LEMMA AboutCur ==
    ASSUME NEW j \in Jobs, NEW rc \in Codes \cup {NULL}, NEW file \in ExitCodes \cup {NULL}
    PROVE  /\ About(j) \in Cur /\ About(j).job = j
           /\ [About(j) EXCEPT !.rc = rc] \in Cur
           /\ [About(j) EXCEPT !.rc = rc].job = j
           /\ [About(j) EXCEPT !.rc = rc].rc = rc
           /\ [About(j) EXCEPT !.file = file] \in Cur
           /\ [About(j) EXCEPT !.file = file].job = j
           /\ [About(j) EXCEPT !.file = file].file = file
BY DEF About, Cur

LEMMA ReadCur ==
    ASSUME NEW c \in Cur, NEW file \in ExitCodes \cup {NULL}
    PROVE  /\ [c EXCEPT !.file = file] \in Cur
           /\ [c EXCEPT !.file = file].job = c.job
           /\ [c EXCEPT !.file = file].rc = c.rc
           /\ [c EXCEPT !.file = file].file = file
BY DEF Cur

LEMMA CurFields ==
    ASSUME NEW c \in Cur
    PROVE  c.job \in Jobs /\ c.rc \in Codes \cup {NULL} /\ c.file \in ExitCodes \cup {NULL}
BY DEF Cur

LEMMA PopenFields ==
    ASSUME NEW po \in Popen
    PROVE  po # NULL /\ po.pid \in Pids /\ po.returncode \in Codes \cup {NULL}
BY PopenAssumption DEF Popen

\* What poll() finds out of job j's Popen.
LEMMA PollTypes ==
    ASSUME TypeInv, NEW j \in Jobs, ReapPoll(j)
    PROVE  \E rc \in Codes \cup {NULL} :
              /\ cur' = [About(j) EXCEPT !.rc = rc]
              /\ popens[j] = NULL => rc = NULL
              /\ \/ /\ UNCHANGED runnerVars /\ popens' = popens
                    /\ popens[j] # NULL => rc = popens[j].returncode
                 \/ /\ popens[j] # NULL /\ popens[j].returncode = NULL
                    /\ group[popens[j].pid] # NULL
                    /\ group[popens[j].pid].wrapper = "zombie"
                    /\ ReapZombie(popens[j].pid)
                    /\ popens' = [popens EXCEPT ![j].returncode = rc]
<1> DEFINE po == popens[j]
           dies == po # NULL /\ po.returncode = NULL
                   /\ group[po.pid] # NULL /\ group[po.pid].wrapper = "zombie"
           rc == CASE po = NULL -> NULL
                   [] po # NULL /\ dies -> group[po.pid].rc
                   [] OTHER -> po.returncode
<1>1. /\ cur' = [About(j) EXCEPT !.rc = rc]
      /\ dies => ReapZombie(po.pid) /\ popens' = [popens EXCEPT ![j].returncode = rc]
      /\ ~dies => UNCHANGED runnerVars /\ popens' = popens
  BY DEF ReapPoll
<1>2. po # NULL => po.returncode \in Codes \cup {NULL} /\ po.pid \in Pids
  BY PopenFields DEF TypeInv, MemoryTypes
<1>3. dies => group[po.pid].rc \in Codes \cup {NULL}
  BY <1>2 DEF TypeInv, RunnerTypeOK, Group
<1>4. CASE po = NULL
  <2>1. rc = NULL
    BY <1>4
  <2> QED
    BY <1>1, <1>4, <2>1
<1>5. CASE po # NULL /\ dies
  <2>1. rc = group[po.pid].rc
    BY <1>5
  <2>2. rc \in Codes \cup {NULL}
    BY <1>3, <1>5, <2>1
  <2> HIDE DEF rc
  <2> QED
    BY <1>1, <1>5, <2>2
<1>6. CASE po # NULL /\ ~dies
  <2>1. rc = po.returncode
    BY <1>6
  <2>2. rc \in Codes \cup {NULL}
    BY <1>2, <1>6, <2>1
  <2> HIDE DEF rc
  <2> QED
    BY <1>1, <1>6, <2>1, <2>2
<1> QED
  BY <1>4, <1>5, <1>6

LEMMA TypesInit == DaemonInit => TypeInv
<1> SUFFICES ASSUME DaemonInit PROVE TypeInv
  OBVIOUS
<1>1. RowTypeOK /\ RunnerTypeOK
  BY DEF DaemonInit, RowInit, RunnerInit, RowTypeOK, RunnerTypeOK
<1>2. LoopTypes
  BY DEF DaemonInit, LoopTypes, Phases, Visiting
<1>3. MemoryTypes
  <2>1. 0 \in 0..(VRAM_STRIKES - 1)
    BY DaemonAssumption
  <2>2. vram_strikes \in [Jobs -> 0..(VRAM_STRIKES - 1)]
    BY <2>1 DEF DaemonInit
  <2> QED
    BY <2>2 DEF DaemonInit, MemoryTypes
<1>4. SnapshotTypes
  BY DEF DaemonInit, SnapshotTypes
<1>5. CrashTypes
  <2>1. 0 \in 0..MaxCrashes
    BY DaemonAssumption
  <2> QED
    BY <2>1 DEF DaemonInit, CrashTypes
<1> QED
  BY <1>1, <1>2, <1>3, <1>4, <1>5 DEF TypeInv

LEMMA LoopTypesStep ==
    ASSUME TypeInv, [DaemonNext]_daemonVars
    PROVE  LoopTypes'
<1> USE DEF LoopTypes, Visiting, Phases
<1>0. LoopTypes /\ exit_file \in [Jobs -> ExitCodes \cup {NULL}]
  BY DEF TypeInv, RunnerTypeOK
<1>1. CASE Users
  <2>1. PICK j \in Jobs : \/ SubmitJob(j) \/ CancelQueuedJob(j)
                          \/ CancelRunningJob(j) \/ RequeueJob(j)
    BY <1>1 DEF Users
  <2>2. CASE CancelRunningJob(j)
    BY <1>0, <2>2, AboutCur DEF CancelRunningJob, Goto
  <2>3. CASE SubmitJob(j) \/ CancelQueuedJob(j) \/ RequeueJob(j)
    BY <1>0, <2>3 DEF SubmitJob, CancelQueuedJob, RequeueJob, loopVars
  <2> QED
    BY <2>1, <2>2, <2>3
<1>2. CASE CycleBegins
  BY <1>0, <1>2 DEF CycleBegins, Running
<1>3. ASSUME NEW j \in Jobs, ReapPoll(j)
      PROVE  LoopTypes'
  <2>1. PICK rc \in Codes \cup {NULL} : cur' = [About(j) EXCEPT !.rc = rc]
    BY <1>3, PollTypes
  <2>2. cur' \in Cur
    BY <2>1, AboutCur
  <2> QED
    BY <1>0, <1>3, <2>2 DEF ReapPoll, Goto
<1>4. CASE ReapRead
  <2>1. cur \in Cur /\ cur' = [cur EXCEPT !.file = exit_file[cur.job]]
    BY <1>0, <1>4 DEF ReapRead, ReadExitCode
  <2>2. exit_file[cur.job] \in ExitCodes \cup {NULL}
    BY <1>0, <2>1, CurFields
  <2>3. cur' \in Cur
    BY <2>1, <2>2, ReadCur
  <2> QED
    BY <1>0, <1>4, <2>3 DEF ReapRead, Goto
<1>5. CASE ReapAdopted \/ ReapGone \/ ReapStragglers \/ ReapAlive
  BY <1>0, <1>5 DEF ReapAdopted, ReapGone, ReapStragglers, ReapAlive, ReapNext
<1>6. CASE CancelKill \/ EvictKill \/ MarkRunning
  BY <1>0, <1>6 DEF CancelKill, EvictKill, MarkRunning, Goto
<1>7. CASE ReapEnds \/ EnforceBegins \/ DispatchBegins \/ DispatchEnds
  BY <1>0, <1>7 DEF ReapEnds, EnforceBegins, DispatchBegins, DispatchEnds, Goto,
                    OverBudget, Running
<1>8. ASSUME NEW j \in Jobs, EnforceEvicted(j) \/ EnforceStrike(j)
      PROVE  LoopTypes'
  BY <1>0, <1>8 DEF EnforceEvicted, EnforceStrike, EnforceNext
<1>9. ASSUME NEW j \in Jobs, Evict(j)
      PROVE  LoopTypes'
  BY <1>0, <1>9, AboutCur DEF Evict, EnforceNext
<1>10. CASE DispatchPlans \/ \E j \in Jobs : SpawnFails(j)
  BY <1>0, <1>10 DEF DispatchPlans, SpawnFails, loopVars
<1>11. ASSUME NEW j \in Jobs, NEW p \in Pids, Spawn(j, p)
       PROVE  LoopTypes'
  BY <1>0, <1>11, AboutCur DEF Spawn, Goto
<1>12. CASE Start \/ Readopt \/ RecoverFinalizes \/ RecoverEnds
  BY <1>0, <1>12 DEF Start, Readopt, RecoverFinalizes, RecoverNext, RecoverEnds, Goto, Running
<1>13. ASSUME NEW j \in Jobs, RecoverRead(j)
       PROVE  LoopTypes'
  <2>1. cur' = [About(j) EXCEPT !.file = exit_file[j]] /\ exit_file[j] \in ExitCodes \cup {NULL}
    BY <1>0, <1>13 DEF RecoverRead, ReadExitCode
  <2>2. cur' \in Cur
    BY <2>1, AboutCur
  <2> QED
    BY <1>0, <1>13, <2>2 DEF RecoverRead, Goto
<1>14. CASE Processes
  BY <1>0, <1>14 DEF Processes, ProcessStep, loopVars
<1>15. CASE Crash \/ Reboot \/ KillRaises \/ \E j \in Jobs : SpawnRaises(j)
  BY <1>15 DEF Crash, Reboot, KillRaises, SpawnRaises, Forget
<1>16. CASE UNCHANGED daemonVars
  BY <1>0, <1>16 DEF daemonVars, loopVars
<1> QED
  BY <1>1, <1>2, <1>3, <1>4, <1>5, <1>6, <1>7, <1>8, <1>9, <1>10, <1>11,
     <1>12, <1>13, <1>14, <1>15, <1>16
     DEF DaemonNext, LockHolder, Recovery

\* _finalize writes a code and forgets.
LEMMA FinalizeTypes ==
    ASSUME TypeInv, NEW j \in Jobs, NEW code \in Codes \cup {NULL}, Finalize(j, code)
    PROVE  /\ RowTypeOK'
           /\ popens' = [popens EXCEPT ![j] = NULL]
           /\ popens' \in [Jobs -> Popen \cup {NULL}]
           /\ stragglers_killed' \in SUBSET Jobs
           /\ vram_strikes' \in [Jobs -> 0..(VRAM_STRIKES - 1)]
           /\ evicted' \in SUBSET Jobs
<1>1. /\ exit_code' = [exit_code EXCEPT ![j] = code] /\ pid' = pid
      /\ cancel_requested_at' = cancel_requested_at
      /\ popens' = [popens EXCEPT ![j] = NULL]
      /\ stragglers_killed' = stragglers_killed \ {j}
      /\ vram_strikes' = [vram_strikes EXCEPT ![j] = 0]
      /\ evicted' = evicted \ {j}
  BY DEF Finalize, SetExitCode
<1>2. RowTypeOK'
  BY <1>1 DEF TypeInv, RowTypeOK
<1>3. 0 \in 0..(VRAM_STRIKES - 1)
  BY DaemonAssumption
<1>4. vram_strikes' \in [Jobs -> 0..(VRAM_STRIKES - 1)]
  BY <1>1, <1>3 DEF TypeInv, MemoryTypes
<1> QED
  BY <1>1, <1>2, <1>4 DEF TypeInv, MemoryTypes

\* What is finalised, and with which code.
LEMMA FinalizedCode ==
    ASSUME TypeInv, ReapAdopted \/ ReapGone \/ RecoverFinalizes
    PROVE  \E code \in Codes \cup {NULL} : Finalize(cur.job, code)
<1>1. cur \in Cur /\ cur.job \in Jobs /\ cur.file \in ExitCodes \cup {NULL}
  <2>1. cur \in Cur
    BY DEF TypeInv, LoopTypes, Visiting, ReapAdopted, ReapGone, RecoverFinalizes, RecoverNext
  <2> QED
    BY <2>1, CurFields
<1>2. cur.file \in Codes \cup {NULL}
  BY <1>1 DEF Codes
<1>3. CASE ReapAdopted \/ RecoverFinalizes
  BY <1>2, <1>3 DEF ReapAdopted, RecoverFinalizes
<1>4. CASE ReapGone
  <2>1. exit_file[cur.job] \in Codes \cup {NULL}
    BY <1>1 DEF TypeInv, RunnerTypeOK, Codes
  <2>2. popens[cur.job] # NULL => popens[cur.job].returncode \in Codes \cup {NULL}
    BY <1>1, PopenFields DEF TypeInv, MemoryTypes
  <2> DEFINE file == IF cur.file = NULL THEN ReadExitCode(cur.job) ELSE cur.file
             code == IF file = NULL /\ popens[cur.job] # NULL
                     THEN popens[cur.job].returncode ELSE file
  <2>3. file \in Codes \cup {NULL}
    BY <1>2, <2>1 DEF ReadExitCode
  <2> HIDE DEF file
  <2>4. code \in Codes \cup {NULL}
    BY <2>2, <2>3
  <2>5. Finalize(cur.job, code)
    BY <1>4 DEF ReapGone, file
  <2> HIDE DEF code
  <2> QED
    BY <2>4, <2>5
<1> QED
  BY <1>3, <1>4

LEMMA RowTypesStep ==
    ASSUME TypeInv, [DaemonNext]_daemonVars
    PROVE  RowTypeOK'
<1>0. RowTypeOK
  BY DEF TypeInv
<1>1. ASSUME NEW j \in Jobs, MarkCancelRequested(j)
      PROVE  RowTypeOK'
  <2>1. 0 \in 0..(CANCEL_GRACE_S + 1)
    BY DatabaseAssumption
  <2> QED
    BY <1>0, <1>1, <2>1 DEF RowTypeOK, MarkCancelRequested
<1>2. CASE Users
  <2>1. PICK j \in Jobs : \/ SubmitJob(j) \/ CancelQueuedJob(j)
                          \/ CancelRunningJob(j) \/ RequeueJob(j)
    BY <1>2 DEF Users
  <2>2. CASE CancelRunningJob(j)
    BY <1>1, <2>2 DEF CancelRunningJob
  <2>3. CASE SubmitJob(j) \/ CancelQueuedJob(j) \/ RequeueJob(j)
    BY <1>0, <2>3 DEF SubmitJob, CancelQueuedJob, RequeueJob, SetExitCode, ClearRun,
                      RowTypeOK, rowVars
  <2> QED
    BY <2>1, <2>2, <2>3
<1>3. CASE CycleBegins
  <2>1. /\ UNCHANGED <<pid, exit_code>>
        /\ cancel_requested_at' =
             [j \in Jobs |->
                IF /\ state[j] = "RUNNING" /\ cancel_requested_at[j] # NULL
                   /\ cancel_requested_at[j] <= CANCEL_GRACE_S
                THEN cancel_requested_at[j] + 1 ELSE cancel_requested_at[j]]
    BY <1>3 DEF CycleBegins, AgeRequests
  <2>2. ASSUME NEW n \in 0..(CANCEL_GRACE_S + 1), n <= CANCEL_GRACE_S
        PROVE  n + 1 \in 0..(CANCEL_GRACE_S + 1)
    BY <2>2, DatabaseAssumption
  <2>3. ASSUME NEW j \in Jobs
        PROVE  cancel_requested_at'[j] \in 0..(CANCEL_GRACE_S + 1) \cup {NULL}
    BY <1>0, <2>1, <2>2 DEF RowTypeOK
  <2> QED
    BY <1>0, <2>1, <2>3 DEF RowTypeOK
<1>4. CASE ReapAdopted \/ ReapGone \/ RecoverFinalizes
  <2>1. PICK code \in Codes \cup {NULL} : Finalize(cur.job, code)
    BY <1>4, FinalizedCode
  <2>2. cur.job \in Jobs
    BY <1>4, CurFields DEF TypeInv, LoopTypes, Visiting, ReapAdopted, ReapGone,
                           RecoverFinalizes, RecoverNext
  <2> QED
    BY <2>1, <2>2, FinalizeTypes
<1>5. CASE \E j \in Jobs : Evict(j)
  BY <1>1, <1>5 DEF Evict
<1>6. CASE MarkRunning
  <2>1. /\ phase = "spawned" /\ pid' = [pid EXCEPT ![cur.job] = popens[cur.job].pid]
        /\ UNCHANGED <<exit_code, cancel_requested_at>>
    BY <1>6 DEF MarkRunning, SetPid
  <2>2. cur.job \in Jobs
    BY <2>1, CurFields DEF TypeInv, LoopTypes, Visiting
  <2>3. popens[cur.job].pid \in Pids
    BY <2>1, <2>2, PopenFields DEF TypeInv, MemoryTypes
  <2> QED
    BY <1>0, <2>1, <2>3 DEF RowTypeOK
<1>7. CASE \E j \in Jobs : SpawnFails(j)
  BY <1>0, <1>7 DEF SpawnFails, SetExitCode, RowTypeOK
<1>8. CASE \/ CancelKill \/ ReapRead \/ ReapStragglers \/ ReapAlive \/ ReapEnds
           \/ EnforceBegins \/ EvictKill \/ DispatchBegins \/ DispatchPlans \/ DispatchEnds
           \/ Start \/ Readopt \/ RecoverEnds \/ Processes \/ Crash \/ Reboot
           \/ KillRaises \/ UNCHANGED daemonVars
  BY <1>0, <1>8 DEF CancelKill, ReapRead, ReapStragglers, ReapAlive, ReapEnds,
       EnforceBegins, EvictKill, DispatchBegins, DispatchPlans, DispatchEnds, Start,
       Readopt, RecoverEnds, Processes, ProcessStep, Crash, Reboot, KillRaises, Forget,
       daemonVars, rowVars, RowTypeOK
<1>9. CASE \E j \in Jobs : \/ ReapPoll(j) \/ EnforceEvicted(j) \/ EnforceStrike(j)
                           \/ SpawnRaises(j) \/ RecoverRead(j)
                           \/ \E p \in Pids : Spawn(j, p)
  BY <1>0, <1>9 DEF ReapPoll, EnforceEvicted, EnforceStrike, SpawnRaises, RecoverRead,
       Spawn, Forget, rowVars, RowTypeOK
<1> QED
  BY <1>2, <1>3, <1>4, <1>5, <1>6, <1>7, <1>8, <1>9 DEF DaemonNext, LockHolder, Recovery

LEMMA OrphanBecomes ==
    ASSUME NEW g \in Group
    PROVE  LET w == IF g.wrapper = "zombie" THEN "gone" ELSE g.wrapper
           IN  Becomes(g, Swept([g EXCEPT !.wrapper = w, !.child = FALSE]))
<1>1. PICK w : w = IF g.wrapper = "zombie" THEN "gone" ELSE g.wrapper
  OBVIOUS
<1>2. w \in {"running", "zombie", "gone"} /\ (w = "running" => g.wrapper = "running")
  BY <1>1 DEF Group
<1>3. PICK h : h = [g EXCEPT !.wrapper = w, !.child = FALSE]
  OBVIOUS
<1>4. h \in Group /\ h.owner = g.owner /\ h.gpus = g.gpus /\ h.wrapper = w
  BY <1>2, <1>3 DEF Group
<1>5. Becomes(g, Swept(h))
  BY <1>2, <1>4, SweptBecomes
<1> QED
  BY <1>1, <1>3, <1>5

LEMMA OrphansMove ==
    ASSUME group \in [Pids -> Group \cup {NULL}], Orphaned
    PROVE  GroupsMove
<1>1. group' = [p \in Pids |->
                  IF group[p] = NULL THEN NULL
                  ELSE LET w == IF group[p].wrapper = "zombie"
                                THEN "gone" ELSE group[p].wrapper
                       IN Swept([group[p] EXCEPT !.wrapper = w, !.child = FALSE])]
  BY DEF Orphaned
<1>2. ASSUME NEW p \in Pids, group[p] # NULL
      PROVE  Becomes(group[p], group'[p])
  BY <1>1, <1>2, OrphanBecomes
<1>3. \A p \in Pids : group[p] = NULL => group'[p] = group[p]
  BY <1>1
<1>4. group' = [p \in Pids |-> group'[p]]
  BY <1>1
<1> QED
  BY <1>2, <1>3, <1>4 DEF GroupsMove

LEMMA MovedTypes ==
    ASSUME group \in [Pids -> Group \cup {NULL}], GroupsMove
    PROVE  group' \in [Pids -> Group \cup {NULL}]
BY DEF GroupsMove, Becomes, Strangers

-----------------------------------------------------------------------------
(* The kinds of step, by what they do to rows, handles, groups and files. *)

Away == {"down", "recover", "recoverDecide"}

NoneNew == \A p \in Pids : group[p] = NULL => group'[p] = NULL

\* Groups at most get a signal; rows, handles and files stay.
Still ==
    /\ GroupsMove /\ NoneNew
    /\ UNCHANGED <<state, pid, gpu_ids, popens, exit_file>>
    /\ phase # "spawned"
    /\ phase' \notin {"spawned", "reapRead", "reapDecide", "recoverDecide"}
    /\ \/ phase \notin Away /\ phase' \notin Away
       \/ Start \/ Readopt \/ RecoverEnds

\* The processes go on by themselves.
Alone ==
    /\ GroupsMove
    /\ UNCHANGED <<state, pid, gpu_ids, popens, phase, cur, out, todo_jobs>>
    /\ phase \in PidReusePhases \/ NoneNew
    /\ \/ exit_file' = exit_file
       \/ \E p \in Pids : /\ group[p] # NULL /\ group[p].wrapper = "running"
                          /\ group'[p] # NULL => group'[p].wrapper # "running"
                          /\ \A q \in Pids : q # p => group'[q] = group[q]
                          /\ \E c \in ExitCodes :
                                exit_file' = [exit_file EXCEPT ![group[p].owner] = c]

\* The row of a job that does not run moves.
IdleRow(j) ==
    /\ phase \in {"idle", "dispatch"} /\ phase' = phase
    /\ UNCHANGED <<group, popens>>
    /\ state[j] # "RUNNING" /\ state'[j] # "RUNNING"
    /\ \A k \in Jobs : k # j => /\ state'[k] = state[k] /\ pid'[k] = pid[k]
                                /\ gpu_ids'[k] = gpu_ids[k]
    /\ exit_file' \in {exit_file, [exit_file EXCEPT ![j] = NULL]}

\* The job that is being visited is over.
Finishing(j) ==
    /\ j = cur.job
    /\ phase \in {"reapDecide", "recoverDecide"} /\ phase' \in {"reap", "recover"}
    /\ phase = "recoverDecide" <=> phase' = "recover"
    /\ todo_jobs' = todo_jobs \ {j}
    /\ UNCHANGED <<group, exit_file, gpu_ids, pid>>
    /\ popens' = [popens EXCEPT ![j] = NULL]
    /\ state'[j] # "RUNNING"
    /\ \A k \in Jobs : k # j => state'[k] = state[k]
    /\ ReapAdopted \/ ReapGone \/ RecoverFinalizes

\* Where the daemon ends otherwise than by a reboot.
DownPhases == CrashPhases \cup {"dispatch", "evictKill", "reapDecide"}

\* The daemon's memory is lost; if the machine goes down, so do the groups.
Downs ==
    /\ GroupsMove
    /\ UNCHANGED <<state, pid, gpu_ids, exit_file>>
    /\ phase' = "down"
    /\ popens' = [j \in Jobs |-> NULL]
    /\ phase \in DownPhases \/ \A p \in Pids : group'[p] = NULL

LEMMA AloneStep ==
    ASSUME TypeInv, Processes
    PROVE  Alone
<1>1. PICK p \in Pids : ProcessStep(p)
  BY DEF Processes
<1>2. group \in [Pids -> Group \cup {NULL}]
  BY DEF TypeInv, RunnerTypeOK
<1>3. GroupsMove
  BY <1>2, ProcessesMove
<1>4. UNCHANGED <<state, pid, gpu_ids, popens, phase, cur, out, todo_jobs>>
  BY <1>1 DEF ProcessStep, dispatchVars, ledgerVars, planVars, rowVars, loopVars, memoryVars
<1>5. phase \in PidReusePhases \/ NoneNew
  <2>1. CASE phase \in PidReusePhases
    BY <2>1
  <2>2. CASE phase \notin PidReusePhases
    <3>1. ScriptEnds(p) \/ WrapperKilled(p) \/ RestExits(p) \/ RestDies(p)
      BY <1>1, <2>2 DEF ProcessStep
    <3>2. group[p] # NULL /\ \E h : group' = [group EXCEPT ![p] = h]
      BY <3>1 DEF ScriptEnds, WrapperKilled, RestExits, RestDies
    <3> QED
      BY <1>2, <3>2 DEF NoneNew
  <2> QED
    BY <2>1, <2>2
<1>6. CASE ScriptEnds(p)
  <2>1. PICK c \in ExitCodes, left \in {"alive", "gone"} :
          /\ group' = [group EXCEPT ![p] =
                         Swept([WrapperDead(group[p], c) EXCEPT !.rest = left])]
          /\ exit_file' = [exit_file EXCEPT ![group[p].owner] = c]
    BY <1>6 DEF ScriptEnds
  <2>2. group[p] # NULL /\ group[p].wrapper = "running" /\ group[p] \in Group
    BY <1>2, <1>6 DEF ScriptEnds
  <2>3. PICK g : g = WrapperDead(group[p], c)
    OBVIOUS
  <2>4. g \in Group /\ g.wrapper # "running"
    BY <2>2, <2>3, WrapperDeadFields DEF Codes
  <2>5. PICK h : h = [g EXCEPT !.rest = left]
    OBVIOUS
  <2>6. h.wrapper # "running"
    BY <2>4, <2>5, RestField
  <2>7. group' = [group EXCEPT ![p] = Swept(h)]
    BY <2>1, <2>3, <2>5
  <2>8. Swept(h) # NULL => Swept(h).wrapper # "running"
    BY <2>6 DEF Swept
  <2>9. /\ group'[p] # NULL => group'[p].wrapper # "running"
        /\ \A q \in Pids : q # p => group'[q] = group[q]
    <3> HIDE DEF Swept
    <3> QED
      BY <1>2, <2>7, <2>8
  <2> QED
    BY <1>3, <1>4, <1>5, <2>1, <2>2, <2>9 DEF Alone
<1>7. CASE ~ScriptEnds(p)
  <2>1. exit_file' = exit_file
    BY <1>1, <1>7 DEF ProcessStep, WrapperKilled, RestExits, RestDies, PidTaken
  <2> QED
    BY <1>3, <1>4, <1>5, <2>1 DEF Alone
<1> QED
  BY <1>6, <1>7

LEMMA IdleRowSteps ==
    ASSUME Inv, NEW j \in Jobs,
           SubmitJob(j) \/ CancelQueuedJob(j) \/ RequeueJob(j) \/ SpawnFails(j)
    PROVE  IdleRow(j)
<1>1. state \in [Jobs -> States \cup {NULL}] /\ gpu_ids \in [Jobs -> (SUBSET Gpus) \cup {NULL}]
      /\ QueueOK
  BY DEF Inv, DispatchTypeOK, LedgerTypeOK
<1>2. CASE SubmitJob(j)
  BY <1>1, <1>2, RowStates DEF SubmitJob, Submit, AddJob, rowVars, runnerVars, loopVars,
                               memoryVars, IdleRow
<1>3. CASE CancelQueuedJob(j)
  BY <1>1, <1>3, RowStates DEF CancelQueuedJob, CancelQueued, CloseRow, SetExitCode,
                               runnerVars, loopVars, memoryVars, IdleRow
<1>4. CASE RequeueJob(j)
  <2>1. /\ state[j] \in FINAL_STATES /\ state' = [state EXCEPT ![j] = "QUEUED"]
        /\ gpu_ids' = [gpu_ids EXCEPT ![j] = NULL] /\ pid' = [pid EXCEPT ![j] = NULL]
        /\ phase = "idle" /\ phase' = phase /\ UNCHANGED <<group, popens, exit_file>>
    BY <1>4 DEF RequeueJob, Requeue, ReopenRow, ClearRun, runnerVars, loopVars, memoryVars
  <2> QED
    BY <1>1, <2>1, RowStates DEF IdleRow
<1>5. CASE SpawnFails(j)
  <2>1. /\ state[j] = "QUEUED" /\ state' = [state EXCEPT ![j] = "FAILED"]
        /\ phase = "dispatch" /\ phase' = phase
        /\ exit_file' = [exit_file EXCEPT ![j] = NULL]
        /\ UNCHANGED <<group, popens, pid, gpu_ids>>
    BY <1>1, <1>5 DEF SpawnFails, LaunchFails, NextAssignment, QueueOK, CloseRow,
                      LaunchError, SetExitCode, loopVars, memoryVars
  <2> QED
    BY <1>1, <2>1, RowStates DEF IdleRow
<1> QED
  BY <1>2, <1>3, <1>4, <1>5

LEMMA StillSteps ==
    ASSUME TypeInv,
           \/ CycleBegins \/ CancelKill \/ ReapStragglers \/ ReapAlive \/ ReapEnds
           \/ EnforceBegins \/ EvictKill \/ DispatchBegins \/ DispatchPlans \/ DispatchEnds
           \/ Start \/ Readopt \/ RecoverEnds
           \/ \E j \in Jobs : CancelRunningJob(j) \/ EnforceEvicted(j) \/ EnforceStrike(j)
                              \/ Evict(j)
    PROVE  Still
<1>0. group \in [Pids -> Group \cup {NULL}]
  BY DEF TypeInv, RunnerTypeOK
<1>1. group' = group => GroupsMove /\ NoneNew
  BY <1>0 DEF GroupsMove, NoneNew
<1>2. CASE CancelKill \/ ReapStragglers \/ ReapAlive \/ EvictKill
  <2>1. UNCHANGED <<state, pid, gpu_ids, popens, exit_file>>
    BY <1>2 DEF CancelKill, ReapStragglers, ReapAlive, EvictKill, KillTree, dispatchVars,
                ledgerVars, rowVars, memoryVars, runnerVars
  <2>2. group' = group \/ KillTree(pid[cur.job], "KILL") \/ KillTree(pid[cur.job], "TERM")
    BY <1>2 DEF CancelKill, ReapStragglers, ReapAlive, EvictKill, runnerVars
  <2>3. GroupsMove /\ NoneNew
    BY <1>0, <1>1, <2>2, KillMoves DEF KillTree, NoneNew
  <2>4. /\ phase \in {"cancelKill", "reapDecide", "evictKill"}
        /\ phase' \in {"idle", "reap", "enforce"}
    BY <1>2 DEF CancelKill, ReapStragglers, ReapAlive, ReapNext, EvictKill, Goto
  <2> QED
    BY <2>1, <2>3, <2>4 DEF Still, Away
<1>3. CASE CycleBegins \/ EnforceBegins \/ ReapEnds
  <2>1. /\ UNCHANGED <<state, pid, gpu_ids, popens, exit_file, group>>
        /\ phase \in {"idle", "reap"} /\ phase' \in {"idle", "reap", "enforce"}
    BY <1>3 DEF CycleBegins, EnforceBegins, ReapEnds, AgeRequests, CycleWithoutSnapshot,
                Goto, dispatchVars, ledgerVars, rowVars, memoryVars, runnerVars
  <2> QED
    BY <1>1, <2>1 DEF Still, Away
<1>4. CASE DispatchBegins \/ DispatchPlans \/ DispatchEnds
  <2>1. /\ UNCHANGED <<state, pid, gpu_ids, popens, exit_file, group>>
        /\ phase \in {"enforce", "dispatch"} /\ phase' \in {"idle", "dispatch"}
    BY <1>4 DEF DispatchBegins, DispatchPlans, DispatchEnds, PlanBegins, PlanNextJob, PlanEnds,
                CycleEnds, Goto, ledgerVars, rowVars, loopVars, memoryVars, runnerVars
  <2> QED
    BY <1>1, <2>1 DEF Still, Away
<1>5. CASE \E j \in Jobs : CancelRunningJob(j) \/ EnforceEvicted(j) \/ EnforceStrike(j)
                           \/ Evict(j)
  <2>1. /\ UNCHANGED <<state, pid, gpu_ids, popens, exit_file, group>>
        /\ phase \in {"idle", "enforce"} /\ phase' \in {"cancelKill", "enforce", "evictKill"}
    BY <1>5 DEF CancelRunningJob, EnforceEvicted, EnforceStrike, Evict, EnforceNext,
                MarkCancelRequested, Goto, dispatchVars, ledgerVars, rowVars, memoryVars,
                runnerVars
  <2> QED
    BY <1>1, <2>1 DEF Still, Away
<1>6. CASE Start \/ Readopt \/ RecoverEnds
  <2>1. /\ UNCHANGED <<state, pid, gpu_ids, popens, exit_file, group>>
        /\ phase \in Away /\ phase' \in {"recover", "idle"}
    BY <1>6 DEF Start, Readopt, RecoverNext, RecoverEnds, Goto, dispatchVars, ledgerVars,
                rowVars, memoryVars, runnerVars, Away
  <2> QED
    BY <1>1, <1>6, <2>1 DEF Still, Away
<1> QED
  BY <1>2, <1>3, <1>4, <1>5, <1>6

LEMMA FinishingSteps ==
    ASSUME TypeInv, Inv, ReapAdopted \/ ReapGone \/ RecoverFinalizes
    PROVE  cur.job \in Jobs /\ Finishing(cur.job)
<1>1. PICK j : j = cur.job
  OBVIOUS
<1>2. /\ phase \in {"reapDecide", "recoverDecide"} /\ phase' \in {"reap", "recover"}
      /\ phase = "recoverDecide" <=> phase' = "recover"
      /\ todo_jobs' = todo_jobs \ {j}
      /\ UNCHANGED <<group, exit_file>>
  BY <1>1 DEF ReapAdopted, ReapGone, ReapNext, RecoverFinalizes, RecoverNext, runnerVars
<1>3. j \in Jobs
  BY <1>1, <1>2, CurFields DEF TypeInv, LoopTypes, Visiting
<1>4. PICK code : Finalize(j, code)
  BY <1>1, FinalizedCode
<1>5. PICK s \in FINAL_STATES : state' = [state EXCEPT ![j] = s]
  BY <1>4 DEF Finalize, FinishAs, CloseRow
<1>6. gpu_ids' = gpu_ids /\ pid' = pid /\ popens' = [popens EXCEPT ![j] = NULL]
  BY <1>4 DEF Finalize, FinishAs, CloseRow, SetExitCode
<1>7. state \in [Jobs -> States \cup {NULL}]
  BY DEF Inv, DispatchTypeOK, LedgerTypeOK
<1>8. state'[j] # "RUNNING" /\ \A k \in Jobs : k # j => state'[k] = state[k]
  BY <1>3, <1>5, <1>7, RowStates
<1> QED
  BY <1>1, <1>2, <1>3, <1>6, <1>8 DEF Finishing

LEMMA DownsSteps ==
    ASSUME TypeInv, \/ Crash \/ Reboot \/ KillRaises \/ \E j \in Jobs : SpawnRaises(j)
    PROVE  Downs
<1>0. group \in [Pids -> Group \cup {NULL}]
  BY DEF TypeInv, RunnerTypeOK
<1>1. Forget /\ (Orphaned \/ MachineReboots)
  BY DEF Crash, Reboot, KillRaises, SpawnRaises
<1>2. /\ UNCHANGED <<state, pid, gpu_ids, exit_file>> /\ phase' = "down"
      /\ popens' = [j \in Jobs |-> NULL]
  BY <1>1 DEF Forget, Restart, EmptyMemory, ledgerVars, rowVars, Orphaned, MachineReboots
<1>3. MachineReboots => GroupsMove /\ \A p \in Pids : group'[p] = NULL
  BY <1>0 DEF MachineReboots, GroupsMove, Becomes
<1>4. GroupsMove
  BY <1>0, <1>1, <1>3, OrphansMove
<1>5. phase \in DownPhases \/ \A p \in Pids : group'[p] = NULL
  BY <1>3 DEF Crash, Reboot, KillRaises, SpawnRaises, DownPhases
<1> QED
  BY <1>2, <1>4, <1>5 DEF Downs

LEMMA StepKinds ==
    ASSUME TypeInv, Inv, [DaemonNext]_daemonVars
    PROVE  \/ Still \/ Alone \/ Downs
           \/ \E j \in Jobs : ReapPoll(j) \/ RecoverRead(j) \/ IdleRow(j) \/ Finishing(j)
           \/ ReapRead
           \/ \E j \in Jobs, p \in Pids : Spawn(j, p)
           \/ MarkRunning
<1>1. CASE UNCHANGED daemonVars
  <2>1. /\ UNCHANGED <<state, pid, gpu_ids, popens, phase, cur, out, todo_jobs>>
        /\ group' = group /\ exit_file' = exit_file
    BY <1>1 DEF daemonVars, dispatchVars, ledgerVars, planVars, rowVars, loopVars,
                memoryVars, runnerVars
  <2>2. GroupsMove /\ NoneNew
    BY <2>1 DEF TypeInv, RunnerTypeOK, GroupsMove, NoneNew
  <2>3. Alone
    BY <2>1, <2>2 DEF Alone
  <2> QED
    BY <2>3
<1>2. CASE Users
  BY <1>2, IdleRowSteps, StillSteps DEF Users
<1>3. CASE CycleBegins \/ LockHolder
  BY <1>3, IdleRowSteps, StillSteps, FinishingSteps, DownsSteps DEF LockHolder
<1>4. CASE Recovery
  BY <1>4, StillSteps, FinishingSteps DEF Recovery
<1>5. CASE Processes \/ Crash \/ Reboot
  BY <1>5, AloneStep, DownsSteps
<1> QED
  BY <1>1, <1>2, <1>3, <1>4, <1>5 DEF DaemonNext

LEMMA RunnerTypesStep ==
    ASSUME TypeInv, Inv, [DaemonNext]_daemonVars
    PROVE  RunnerTypeOK'
<1>0. /\ group \in [Pids -> Group \cup {NULL}]
      /\ exit_file \in [Jobs -> ExitCodes \cup {NULL}]
      /\ out \in [Jobs -> (SUBSET Gpus) \cup {NULL}]
  BY DEF TypeInv, RunnerTypeOK, Inv, DispatchTypeOK, SchedulerTypeOK
<1>1. CASE Still \/ Downs \/ Alone
  <2>1. group' \in [Pids -> Group \cup {NULL}]
    BY <1>0, <1>1, MovedTypes DEF Still, Downs, Alone
  <2>2. exit_file' \in [Jobs -> ExitCodes \cup {NULL}]
    BY <1>0, <1>1 DEF Still, Downs, Alone
  <2> QED
    BY <2>1, <2>2 DEF RunnerTypeOK
<1>2. ASSUME NEW j \in Jobs, ReapPoll(j)
      PROVE  RunnerTypeOK'
  <2>1. \/ UNCHANGED runnerVars
        \/ /\ popens[j] # NULL /\ group[popens[j].pid] # NULL
           /\ ReapZombie(popens[j].pid)
    BY <1>2, PollTypes
  <2>2. GroupsMove /\ exit_file' = exit_file
    <3>1. CASE UNCHANGED runnerVars
      BY <1>0, <3>1 DEF runnerVars, GroupsMove
    <3>2. CASE group[popens[j].pid] # NULL /\ ReapZombie(popens[j].pid)
      <4>1. PICK p : p = popens[j].pid
        OBVIOUS
      <4> QED
        BY <1>0, <3>2, <4>1, ReapMoves DEF ReapZombie
    <3> QED
      BY <2>1, <3>1, <3>2
  <2> QED
    BY <1>0, <2>2, MovedTypes DEF RunnerTypeOK
<1>3. CASE ReapRead \/ \E j \in Jobs : RecoverRead(j)
  BY <1>0, <1>3 DEF ReapRead, RecoverRead, runnerVars, RunnerTypeOK
<1>4. ASSUME NEW j \in Jobs, IdleRow(j) \/ Finishing(j)
      PROVE  RunnerTypeOK'
  BY <1>0, <1>4 DEF IdleRow, Finishing, RunnerTypeOK
<1>5. ASSUME NEW j \in Jobs, NEW p \in Pids, Spawn(j, p)
      PROVE  RunnerTypeOK'
  <2>1. /\ out[j] \in SUBSET Gpus
        /\ group' = [group EXCEPT ![p] = [owner |-> j, wrapper |-> "running", rest |-> "alive",
                                          rc |-> NULL, child |-> TRUE, gpus |-> out[j]]]
        /\ exit_file' = [exit_file EXCEPT ![j] = NULL]
    BY <1>0, <1>5 DEF Spawn, NextAssignment, StartGroup
  <2>2. [owner |-> j, wrapper |-> "running", rest |-> "alive",
         rc |-> NULL, child |-> TRUE, gpus |-> out[j]] \in Group
    BY <2>1 DEF Group
  <2> QED
    BY <1>0, <2>1, <2>2 DEF RunnerTypeOK
<1>6. CASE MarkRunning
  BY <1>0, <1>6 DEF MarkRunning, runnerVars, RunnerTypeOK
<1> QED
  BY <1>1, <1>2, <1>3, <1>4, <1>5, <1>6, StepKinds

LEMMA HandleTypesStep ==
    ASSUME TypeInv, Inv, [DaemonNext]_daemonVars
    PROVE  /\ popens' \in [Jobs -> Popen \cup {NULL}]
           /\ phase' = "spawned" => popens'[cur'.job] # NULL
<1>0. /\ popens \in [Jobs -> Popen \cup {NULL}]
      /\ phase = "spawned" => popens[cur.job] # NULL
  BY DEF TypeInv, MemoryTypes
<1>1. CASE Still \/ Downs \/ Alone
  BY <1>0, <1>1 DEF Still, Downs, Alone
<1>2. ASSUME NEW j \in Jobs, ReapPoll(j)
      PROVE  popens' \in [Jobs -> Popen \cup {NULL}] /\ phase' # "spawned"
  <2>1. PICK rc \in Codes \cup {NULL} :
           \/ popens' = popens
           \/ popens[j] # NULL /\ popens' = [popens EXCEPT ![j].returncode = rc]
    BY <1>2, PollTypes
  <2>2. CASE popens[j] # NULL /\ popens' = [popens EXCEPT ![j].returncode = rc]
    <3>1. popens[j] \in Popen
      BY <1>0, <2>2
    <3>2. [popens[j] EXCEPT !.returncode = rc] \in Popen
      BY <3>1 DEF Popen
    <3> QED
      BY <1>0, <1>2, <2>2, <3>2 DEF ReapPoll, Goto
  <2> QED
    BY <1>0, <1>2, <2>1, <2>2 DEF ReapPoll, Goto
<1>3. CASE ReapRead \/ \E j \in Jobs : RecoverRead(j)
  BY <1>0, <1>3 DEF ReapRead, RecoverRead, Goto, memoryVars
<1>4. ASSUME NEW j \in Jobs, IdleRow(j) \/ Finishing(j)
      PROVE  popens' \in [Jobs -> Popen \cup {NULL}] /\ phase' # "spawned"
  BY <1>0, <1>4 DEF IdleRow, Finishing
<1>5. ASSUME NEW j \in Jobs, NEW p \in Pids, Spawn(j, p)
      PROVE  popens' \in [Jobs -> Popen \cup {NULL}] /\ popens'[cur'.job] # NULL
  <2>1. /\ popens' = [popens EXCEPT ![j] = [pid |-> p, returncode |-> NULL]]
        /\ cur' = About(j)
    BY <1>5 DEF Spawn
  <2>2. [pid |-> p, returncode |-> NULL] \in Popen
    BY DEF Popen
  <2>3. cur'.job = j
    BY <2>1 DEF About
  <2> QED
    BY <1>0, <2>1, <2>2, <2>3, PopenAssumption
<1>6. CASE MarkRunning
  BY <1>0, <1>6 DEF MarkRunning, memoryVars, Goto
<1> QED
  BY <1>1, <1>2, <1>3, <1>4, <1>5, <1>6, StepKinds

LEMMA MarksTypesStep ==
    ASSUME TypeInv, [DaemonNext]_daemonVars
    PROVE  /\ stragglers_killed' \in SUBSET Jobs
           /\ vram_strikes' \in [Jobs -> 0..(VRAM_STRIKES - 1)]
           /\ evicted' \in SUBSET Jobs
<1>0. /\ stragglers_killed \in SUBSET Jobs
      /\ vram_strikes \in [Jobs -> 0..(VRAM_STRIKES - 1)]
      /\ evicted \in SUBSET Jobs
  BY DEF TypeInv, MemoryTypes
<1>1. 0 \in 0..(VRAM_STRIKES - 1)
  BY DaemonAssumption
<1>2. CASE Users \/ CycleBegins \/ Processes \/ Start \/ Readopt \/ RecoverEnds
           \/ (\E j \in Jobs : RecoverRead(j)) \/ UNCHANGED daemonVars
  <2>1. UNCHANGED memoryVars
    BY <1>2 DEF Users, SubmitJob, CancelQueuedJob, CancelRunningJob, RequeueJob, CycleBegins,
                Processes, ProcessStep, Start, Readopt, RecoverEnds, RecoverRead, daemonVars
  <2> QED
    BY <1>0, <2>1 DEF memoryVars
<1>3. CASE Crash \/ Reboot \/ KillRaises \/ \E j \in Jobs : SpawnRaises(j)
  <2>1. stragglers_killed' = {} /\ vram_strikes' = [j \in Jobs |-> 0] /\ evicted' = {}
    BY <1>3 DEF Crash, Reboot, KillRaises, SpawnRaises, Forget, EmptyMemory
  <2> QED
    BY <1>1, <2>1
<1>4. CASE ReapAdopted \/ ReapGone \/ RecoverFinalizes
  <2>1. PICK code \in Codes \cup {NULL} : Finalize(cur.job, code)
    BY <1>4, FinalizedCode
  <2>2. cur.job \in Jobs
    BY <1>4, CurFields DEF TypeInv, LoopTypes, Visiting, ReapAdopted, ReapGone,
                           RecoverFinalizes, RecoverNext
  <2> QED
    BY <2>1, <2>2, FinalizeTypes
<1>5. CASE ReapStragglers
  <2>1. stragglers_killed' = stragglers_killed \cup {cur.job} /\ UNCHANGED <<vram_strikes, evicted>>
    BY <1>5 DEF ReapStragglers
  <2>2. cur.job \in Jobs
    BY <1>5, CurFields DEF TypeInv, LoopTypes, Visiting, ReapStragglers
  <2> QED
    BY <1>0, <2>1, <2>2
<1>6. CASE EnforceBegins
  <2>1. vram_strikes' = [j \in Jobs |-> IF j \in OverBudget THEN vram_strikes[j] ELSE 0]
        /\ UNCHANGED <<stragglers_killed, evicted>>
    BY <1>6 DEF EnforceBegins
  <2> QED
    BY <1>0, <1>1, <2>1
<1>7. ASSUME NEW j \in Jobs, EnforceStrike(j)
      PROVE  /\ stragglers_killed' \in SUBSET Jobs /\ evicted' \in SUBSET Jobs
             /\ vram_strikes' \in [Jobs -> 0..(VRAM_STRIKES - 1)]
  <2>1. /\ vram_strikes' = [vram_strikes EXCEPT ![j] = vram_strikes[j] + 1]
        /\ vram_strikes[j] + 1 < VRAM_STRIKES
        /\ UNCHANGED <<stragglers_killed, evicted>>
    BY <1>7 DEF EnforceStrike
  <2>2. ASSUME NEW n \in 0..(VRAM_STRIKES - 1), n + 1 < VRAM_STRIKES
        PROVE  n + 1 \in 0..(VRAM_STRIKES - 1)
    BY <2>2, DaemonAssumption
  <2>3. vram_strikes[j] + 1 \in 0..(VRAM_STRIKES - 1)
    BY <1>0, <2>1, <2>2
  <2> QED
    BY <1>0, <2>1, <2>3
<1>8. ASSUME NEW j \in Jobs, Evict(j)
      PROVE  /\ stragglers_killed' \in SUBSET Jobs /\ evicted' \in SUBSET Jobs
             /\ vram_strikes' \in [Jobs -> 0..(VRAM_STRIKES - 1)]
  BY <1>0, <1>1, <1>8 DEF Evict
<1>9. CASE \/ CancelKill \/ ReapRead \/ ReapAlive \/ ReapEnds \/ EvictKill
           \/ DispatchBegins \/ DispatchPlans \/ MarkRunning \/ DispatchEnds
  BY <1>0, <1>9 DEF CancelKill, ReapRead, ReapAlive, ReapEnds, EvictKill,
       DispatchBegins, DispatchPlans, MarkRunning, DispatchEnds, memoryVars
<1>10. CASE \E j \in Jobs : \/ ReapPoll(j) \/ EnforceEvicted(j) \/ SpawnFails(j)
                            \/ \E p \in Pids : Spawn(j, p)
  BY <1>0, <1>10 DEF ReapPoll, EnforceEvicted, SpawnFails, Spawn, memoryVars
<1> QED
  BY <1>2, <1>3, <1>4, <1>5, <1>6, <1>7, <1>8, <1>9, <1>10
     DEF DaemonNext, LockHolder, Recovery

\* What NVML shows of a group of ours is a process on the group's cards.
LEMMA SnapshotsTyped ==
    ASSUME group \in [Pids -> Group \cup {NULL}], NEW s \in Snapshots
    PROVE  s.procs \in [Pids -> Proc \cup {NULL}] /\ s.foreign \in SUBSET ForeignGpus
<1>1. ASSUME NEW p \in Pids
      PROVE  Seen(p) \subseteq Proc \cup {NULL}
  BY DEF Seen, Live, Group, Proc
<1>2. PICK ps \in [Pids -> UNION {Seen(p) : p \in Pids}], F \in SUBSET ForeignGpus :
         (\A p \in Pids : ps[p] \in Seen(p)) /\ s = [procs |-> ps, foreign |-> F]
  BY DEF Snapshots
<1> QED
  BY <1>1, <1>2

LEMMA SnapshotTypesStep ==
    ASSUME TypeInv, [DaemonNext]_daemonVars
    PROVE  SnapshotTypes'
<1>0. SnapshotTypes
  BY DEF TypeInv
<1>1. CASE CycleBegins
  <2>1. snapshot' \in Snapshots \cup {NULL}
    BY <1>1 DEF CycleBegins
  <2>2. snapshot' \in Snapshots
           => /\ snapshot'.procs \in [Pids -> Proc \cup {NULL}]
              /\ snapshot'.foreign \in SUBSET ForeignGpus
    BY SnapshotsTyped DEF TypeInv, RunnerTypeOK
  <2> QED
    BY <2>1, <2>2 DEF SnapshotTypes
<1>2. snapshot' \in {snapshot, NULL} => SnapshotTypes'
  BY <1>0 DEF SnapshotTypes
<1>3. CASE Users
  BY <1>2, <1>3 DEF Users, SubmitJob, CancelQueuedJob, CancelRunningJob, RequeueJob
<1>4. CASE LockHolder
  BY <1>2, <1>4 DEF LockHolder, CancelKill, ReapPoll, ReapRead, ReapAdopted, ReapGone,
              ReapStragglers, ReapAlive, ReapNext, ReapEnds, EnforceBegins, EnforceEvicted,
              EnforceStrike, Evict, EvictKill, DispatchBegins, DispatchPlans, SpawnFails,
              SpawnRaises, KillRaises, Forget, Spawn, MarkRunning, DispatchEnds
<1>5. CASE Recovery \/ Processes \/ Crash \/ Reboot
  BY <1>2, <1>5 DEF Recovery, Start, RecoverRead, Readopt, RecoverFinalizes, RecoverNext,
              RecoverEnds, Processes, ProcessStep, Crash, Reboot, Forget
<1>6. CASE UNCHANGED daemonVars
  BY <1>2, <1>6 DEF daemonVars
<1> QED
  BY <1>1, <1>3, <1>4, <1>5, <1>6 DEF DaemonNext

LEMMA CrashTypesStep ==
    ASSUME TypeInv, [DaemonNext]_daemonVars
    PROVE  CrashTypes'
<1>0. CrashTypes /\ MaxCrashes \in Nat
  BY DaemonAssumption DEF TypeInv
<1>1. CASE Crash \/ Reboot
  <2>1. crashes' = crashes + 1 /\ crashes < MaxCrashes
    BY <1>1 DEF Crash, Reboot
  <2> QED
    BY <1>0, <2>1 DEF CrashTypes
<1>2. crashes' = crashes => CrashTypes'
  BY <1>0 DEF CrashTypes
<1>3. CASE Users
  BY <1>2, <1>3 DEF Users, SubmitJob, CancelQueuedJob, CancelRunningJob, RequeueJob
<1>4. CASE LockHolder \/ CycleBegins
  BY <1>2, <1>4 DEF LockHolder, CycleBegins, CancelKill, ReapPoll, ReapRead, ReapAdopted,
              ReapGone, ReapStragglers, ReapAlive, ReapNext, ReapEnds, EnforceBegins,
              EnforceEvicted, EnforceStrike, Evict, EvictKill, DispatchBegins, DispatchPlans,
              SpawnFails, SpawnRaises, KillRaises, Spawn, MarkRunning, DispatchEnds
<1>5. CASE Recovery \/ Processes
  BY <1>2, <1>5 DEF Recovery, Start, RecoverRead, Readopt, RecoverFinalizes, RecoverNext,
              RecoverEnds, Processes, ProcessStep
<1>6. CASE UNCHANGED daemonVars
  BY <1>2, <1>6 DEF daemonVars
<1> QED
  BY <1>1, <1>3, <1>4, <1>5, <1>6 DEF DaemonNext

LEMMA TypesStep ==
    TypeInv /\ Inv /\ [DaemonNext]_daemonVars => TypeInv'
<1> SUFFICES ASSUME TypeInv, Inv, [DaemonNext]_daemonVars PROVE TypeInv'
  OBVIOUS
<1>1. MemoryTypes'
  BY HandleTypesStep, MarksTypesStep DEF MemoryTypes
<1> QED
  BY <1>1, RowTypesStep, RunnerTypesStep, LoopTypesStep, SnapshotTypesStep, CrashTypesStep
     DEF TypeInv

\* What every step may rely on.
Base == CurOK /\ CarryInv /\ Inv /\ TypeInv

LEMMA BaseAlways == DaemonSpec => []Base
<1>1. DaemonInit => CurOK /\ CarryInv /\ TypeInv
  BY CurInit, CarryInit, TypesInit
<1>2. CurOK /\ [DaemonNext]_daemonVars => CurOK'
  BY CurStep
<1>3. CarryInv /\ CurOK /\ Inv /\ [DaemonNext]_daemonVars => CarryInv'
  BY CarryStep
<1>4. TypeInv /\ Inv /\ [DaemonNext]_daemonVars => TypeInv'
  BY TypesStep
<1>5. DaemonSpec => []Inv
  BY DaemonImplementsDispatch, Invariance, PTL
<1>6. CurOK /\ CarryInv /\ Inv /\ TypeInv => Base
  BY DEF Base
<1> QED
  BY <1>1, <1>2, <1>3, <1>4, <1>5, <1>6, PTL DEF DaemonSpec

\* The daemon's variables keep their types.  Two parts are more than shape: a run of
\* strikes ends in an eviction before it reaches VRAM_STRIKES, and mark_running always
\* finds the Popen of the job it is about (_enforce_vram, _dispatch).
THEOREM DaemonTypesKept == DaemonSpec => []DaemonTypeOK
<1>1. Base => DaemonTypeOK
  BY DEF Base, Inv, TypeInv, LoopTypes, MemoryTypes, SnapshotTypes, CrashTypes, DaemonTypeOK
<1> QED
  BY <1>1, BaseAlways, PTL

-----------------------------------------------------------------------------
(* Whose group a pid is. *)

Runs(p) == group[p] # NULL /\ group[p].wrapper = "running"

\* If p is a group, it is job j's or it is a stranger's.
Own(j, p) == p \in Pids /\ (group[p] # NULL => group[p].owner \in {j, FOREIGN})

OwnInv ==
    /\ \A j \in Jobs : state[j] = "RUNNING" => Own(j, pid[j])
    /\ \A j \in Jobs : popens[j] # NULL => Own(j, popens[j].pid)
    /\ \A j \in Jobs : state[j] = "RUNNING" /\ popens[j] # NULL => popens[j].pid = pid[j]
    /\ \A j \in Jobs : popens[j] # NULL /\ popens[j].returncode # NULL
                         => ~Runs(popens[j].pid)

LEMMA MovedRuns ==
    ASSUME GroupsMove, NEW p \in Pids, Runs(p)'
    PROVE  /\ Runs(p) /\ group'[p].owner = group[p].owner /\ group'[p].gpus = group[p].gpus
BY DEF GroupsMove, Becomes, Strangers, Runs

LEMMA MovedOwn ==
    ASSUME GroupsMove, NEW j, NEW p, Own(j, p)
    PROVE  Own(j, p)'
BY DEF GroupsMove, Becomes, Strangers, Own

\* poll() changes a handle only to note that its wrapper is over.
LEMMA Polled ==
    ASSUME Base, NEW j \in Jobs, ReapPoll(j)
    PROVE  /\ phase = "reap" /\ phase' = "reapRead" /\ todo_jobs' = todo_jobs
           /\ cur'.job = j /\ cur'.rc \in Codes \cup {NULL}
           /\ UNCHANGED <<state, pid, gpu_ids, out, exit_file>>
           /\ GroupsMove /\ NoneNew
           /\ \A k \in Jobs : /\ popens'[k] # NULL <=> popens[k] # NULL
                              /\ popens[k] # NULL => popens'[k].pid = popens[k].pid
                              /\ k # j => popens'[k] = popens[k]
           /\ popens[j] = NULL => cur'.rc = NULL
           /\ popens[j] # NULL => popens'[j].returncode = cur'.rc
           /\ popens[j] # NULL /\ popens[j].returncode = NULL /\ cur'.rc # NULL
                => ~Runs(popens[j].pid)'
<1>0. /\ TypeInv /\ group \in [Pids -> Group \cup {NULL}]
      /\ popens \in [Jobs -> Popen \cup {NULL}]
  BY DEF Base, TypeInv, RunnerTypeOK, MemoryTypes
<1>1. PICK rc \in Codes \cup {NULL} :
        /\ cur' = [About(j) EXCEPT !.rc = rc]
        /\ popens[j] = NULL => rc = NULL
        /\ \/ /\ UNCHANGED runnerVars /\ popens' = popens
              /\ popens[j] # NULL => rc = popens[j].returncode
           \/ /\ popens[j] # NULL /\ popens[j].returncode = NULL
              /\ group[popens[j].pid] # NULL
              /\ group[popens[j].pid].wrapper = "zombie"
              /\ ReapZombie(popens[j].pid)
              /\ popens' = [popens EXCEPT ![j].returncode = rc]
  BY <1>0, PollTypes
<1>2. cur'.job = j /\ cur'.rc = rc
  BY <1>1, AboutCur
<1>3. /\ phase = "reap" /\ phase' = "reapRead" /\ todo_jobs' = todo_jobs
      /\ UNCHANGED <<state, pid, gpu_ids, out>>
  BY DEF ReapPoll, Goto, dispatchVars, ledgerVars, planVars, rowVars
<1>4. CASE /\ UNCHANGED runnerVars /\ popens' = popens
           /\ popens[j] # NULL => rc = popens[j].returncode
  <2>1. GroupsMove /\ NoneNew /\ exit_file' = exit_file
    BY <1>0, <1>4 DEF runnerVars, GroupsMove, NoneNew
  <2> QED
    BY <1>1, <1>2, <1>3, <1>4, <2>1
<1>5. CASE /\ popens[j] # NULL /\ popens[j].returncode = NULL
           /\ group[popens[j].pid] # NULL
           /\ group[popens[j].pid].wrapper = "zombie"
           /\ ReapZombie(popens[j].pid)
           /\ popens' = [popens EXCEPT ![j].returncode = rc]
  <2>1. popens[j] \in Popen
    BY <1>0, <1>5
  <2>2. PICK p \in Pids : p = popens[j].pid
    BY <2>1, PopenFields
  <2>3. GroupsMove /\ NoneNew /\ exit_file' = exit_file
    BY <1>0, <1>5, <2>2, ReapMoves DEF ReapZombie, NoneNew
  <2>4. ~Runs(p)'
    <3>1. PICK h : h = [group[p] EXCEPT !.wrapper = "gone"]
      OBVIOUS
    <3>2. group' = [group EXCEPT ![p] = Swept(h)]
      BY <1>5, <2>2, <3>1 DEF ReapZombie
    <3>3. h.wrapper = "gone"
      BY <1>0, <1>5, <2>2, <3>1, WrapperField
    <3> QED
      BY <1>0, <3>2, <3>3 DEF Runs, Swept
  <2>5. PICK po : po = [popens[j] EXCEPT !.returncode = rc]
    OBVIOUS
  <2>6. po \in Popen /\ po.pid = popens[j].pid /\ po.returncode = rc
    BY <2>1, <2>5 DEF Popen
  <2>7. popens' = [k \in Jobs |-> IF k = j THEN po ELSE popens[k]]
    BY <1>0, <1>5, <2>5
  <2>8. po # NULL
    BY <2>6, PopenAssumption
  <2>9. /\ \A k \in Jobs : /\ popens'[k] # NULL <=> popens[k] # NULL
                           /\ popens[k] # NULL => popens'[k].pid = popens[k].pid
                           /\ k # j => popens'[k] = popens[k]
        /\ popens'[j].returncode = rc
    BY <1>5, <2>6, <2>7, <2>8
  <2> QED
    BY <1>2, <1>3, <1>5, <2>2, <2>3, <2>4, <2>9
<1> QED
  BY <1>1, <1>4, <1>5

\* What a launch does.
LEMMA Spawned ==
    ASSUME Base, NEW j \in Jobs, NEW p \in Pids, Spawn(j, p)
    PROVE  /\ phase = "dispatch" /\ phase' = "spawned" /\ cur'.job = j
           /\ state[j] = "QUEUED" /\ out[j] # NULL
           /\ group[p] = NULL /\ \A k \in Jobs : state[k] = "RUNNING" => pid[k] # p
           /\ UNCHANGED <<state, pid, gpu_ids, out, todo_jobs>>
           /\ exit_file' = [exit_file EXCEPT ![j] = NULL]
           /\ \E g : /\ g.owner = j /\ g.wrapper = "running" /\ g.gpus = out[j]
                     /\ g.rest = "alive"
                     /\ group' = [q \in Pids |-> IF q = p THEN g ELSE group[q]]
           /\ \E po \in Popen : /\ po.pid = p /\ po.returncode = NULL
                                /\ popens' = [k \in Jobs |-> IF k = j THEN po ELSE popens[k]]
<1>1. /\ phase = "dispatch" /\ phase' = "spawned" /\ cur' = About(j)
      /\ NextAssignment(j) /\ Available(p) /\ StartGroup(j, out[j], p)
      /\ popens' = [popens EXCEPT ![j] = [pid |-> p, returncode |-> NULL]]
      /\ UNCHANGED <<state, pid, gpu_ids, out, todo_jobs>>
  BY DEF Spawn, Goto, dispatchVars, ledgerVars, planVars, rowVars
<1>2. cur'.job = j
  BY <1>1 DEF About
<1>3. state[j] = "QUEUED" /\ out[j] # NULL
  BY <1>1 DEF NextAssignment, Base, Inv, QueueOK
<1>4. group[p] = NULL /\ \A k \in Jobs : state[k] = "RUNNING" => pid[k] # p
  BY <1>1 DEF Available, Running
<1>5. PICK g : g = [owner |-> j, wrapper |-> "running", rest |-> "alive",
                    rc |-> NULL, child |-> TRUE, gpus |-> out[j]]
  OBVIOUS
<1>6. /\ g.owner = j /\ g.wrapper = "running" /\ g.gpus = out[j] /\ g.rest = "alive"
      /\ group' = [group EXCEPT ![p] = g] /\ exit_file' = [exit_file EXCEPT ![j] = NULL]
  BY <1>1, <1>5 DEF StartGroup
<1>7. group' = [q \in Pids |-> IF q = p THEN g ELSE group[q]]
  BY <1>6 DEF Base, TypeInv, RunnerTypeOK
<1>8. PICK po : po = [pid |-> p, returncode |-> NULL]
  OBVIOUS
<1>9. po \in Popen /\ po.pid = p /\ po.returncode = NULL
  BY <1>8 DEF Popen
<1>10. popens' = [k \in Jobs |-> IF k = j THEN po ELSE popens[k]]
  BY <1>1, <1>8 DEF Base, TypeInv, MemoryTypes
<1> QED
  BY <1>1, <1>2, <1>3, <1>4, <1>6, <1>7, <1>9, <1>10

LEMMA OwnInit == DaemonInit => OwnInv
<1> SUFFICES ASSUME DaemonInit PROVE OwnInv
  OBVIOUS
<1>1. popens = [j \in Jobs |-> NULL] /\ \A j \in Jobs : state[j] # "RUNNING"
  BY RowStates DEF DaemonInit, DispatchInit, LedgerInit
<1> QED
  BY <1>1 DEF OwnInv

\* What is to be shown of a step, for each job.
LEMMA OwnNext ==
    ASSUME \A j \in Jobs :
             /\ state'[j] = "RUNNING" => \E q : q = pid'[j] /\ Own(j, q)'
             /\ popens'[j] # NULL =>
                  \E q : /\ q = popens'[j].pid /\ Own(j, q)'
                         /\ popens'[j].returncode # NULL => ~Runs(q)'
             /\ state'[j] = "RUNNING" /\ popens'[j] # NULL => popens'[j].pid = pid'[j]
    PROVE  OwnInv'
BY DEF OwnInv, Own, Runs

\* Groups move, handles are kept or dropped, and rows stay or stop running.
LEMMA OwnMoved ==
    ASSUME OwnInv, GroupsMove,
           \A j \in Jobs : state'[j] = "RUNNING" => state[j] = "RUNNING" /\ pid'[j] = pid[j],
           \A j \in Jobs : popens'[j] \in {NULL, popens[j]}
    PROVE  OwnInv'
<1> SUFFICES ASSUME NEW j \in Jobs
             PROVE  /\ state'[j] = "RUNNING" => \E q : q = pid'[j] /\ Own(j, q)'
                    /\ popens'[j] # NULL =>
                         \E q : /\ q = popens'[j].pid /\ Own(j, q)'
                                /\ popens'[j].returncode # NULL => ~Runs(q)'
                    /\ state'[j] = "RUNNING" /\ popens'[j] # NULL => popens'[j].pid = pid'[j]
  BY OwnNext
<1>1. ASSUME state'[j] = "RUNNING"
      PROVE  \E q : q = pid'[j] /\ Own(j, q)'
  <2>1. PICK q : q = pid[j]
    OBVIOUS
  <2>2. Own(j, q) /\ pid'[j] = q
    BY <1>1, <2>1 DEF OwnInv
  <2>3. Own(j, q)'
    BY <2>2, MovedOwn
  <2> QED
    BY <2>2, <2>3
<1>2. ASSUME popens'[j] # NULL
      PROVE  \E q : /\ q = popens'[j].pid /\ Own(j, q)'
                    /\ popens'[j].returncode # NULL => ~Runs(q)'
  <2>1. popens'[j] = popens[j] /\ popens[j] # NULL
    BY <1>2
  <2>2. PICK q : q = popens[j].pid
    OBVIOUS
  <2>3. Own(j, q) /\ (popens[j].returncode # NULL => ~Runs(q))
    BY <2>1, <2>2 DEF OwnInv
  <2>4. q \in Pids /\ Own(j, q)'
    BY <2>3, MovedOwn DEF Own
  <2>5. Runs(q)' => Runs(q)
    BY <2>4, MovedRuns
  <2> QED
    BY <2>1, <2>2, <2>3, <2>4, <2>5
<1>3. state'[j] = "RUNNING" /\ popens'[j] # NULL => popens'[j].pid = pid'[j]
  BY DEF OwnInv
<1> QED
  BY <1>1, <1>2, <1>3

LEMMA OwnPoll ==
    ASSUME Base, OwnInv, NEW i \in Jobs, ReapPoll(i)
    PROVE  OwnInv'
<1>1. /\ UNCHANGED <<state, pid>> /\ GroupsMove
      /\ \A k \in Jobs : /\ popens'[k] # NULL <=> popens[k] # NULL
                         /\ popens[k] # NULL => popens'[k].pid = popens[k].pid
                         /\ k # i => popens'[k] = popens[k]
      /\ popens[i] # NULL => popens'[i].returncode = cur'.rc
      /\ popens[i] # NULL /\ popens[i].returncode = NULL /\ cur'.rc # NULL
           => ~Runs(popens[i].pid)'
  BY Polled
<1> SUFFICES ASSUME NEW j \in Jobs
             PROVE  /\ state'[j] = "RUNNING" => \E q : q = pid'[j] /\ Own(j, q)'
                    /\ popens'[j] # NULL =>
                         \E q : /\ q = popens'[j].pid /\ Own(j, q)'
                                /\ popens'[j].returncode # NULL => ~Runs(q)'
                    /\ state'[j] = "RUNNING" /\ popens'[j] # NULL => popens'[j].pid = pid'[j]
  BY OwnNext
<1>2. ASSUME state'[j] = "RUNNING"
      PROVE  \E q : q = pid'[j] /\ Own(j, q)'
  <2>1. PICK q : q = pid[j]
    OBVIOUS
  <2>2. Own(j, q) /\ pid'[j] = q
    BY <1>1, <1>2, <2>1 DEF OwnInv
  <2>3. Own(j, q)'
    BY <1>1, <2>2, MovedOwn
  <2> QED
    BY <2>2, <2>3
<1>3. ASSUME popens'[j] # NULL
      PROVE  \E q : /\ q = popens'[j].pid /\ Own(j, q)'
                    /\ popens'[j].returncode # NULL => ~Runs(q)'
  <2>1. PICK q : q = popens[j].pid
    OBVIOUS
  <2>2. popens[j] # NULL /\ popens'[j].pid = q
    BY <1>1, <1>3, <2>1
  <2>3. Own(j, q) /\ (popens[j].returncode # NULL => ~Runs(q))
    BY <2>1, <2>2 DEF OwnInv
  <2>4. q \in Pids /\ Own(j, q)'
    BY <1>1, <2>3, MovedOwn DEF Own
  <2>5. Runs(q)' => Runs(q)
    BY <1>1, <2>4, MovedRuns
  <2>6. popens'[j].returncode # NULL => ~Runs(q)'
    <3>1. CASE popens[j].returncode # NULL
      BY <2>3, <2>5, <3>1
    <3>2. CASE popens[j].returncode = NULL /\ popens'[j].returncode # NULL
      <4>1. j = i /\ cur'.rc # NULL
        BY <1>1, <2>2, <3>2
      <4>2. ~Runs(popens[i].pid)'
        BY <1>1, <2>2, <3>2, <4>1
      <4>3. popens'[i].pid = q
        BY <2>2, <4>1
      <4> QED
        BY <4>2, <4>3 DEF Runs
    <3> QED
      BY <3>1, <3>2
  <2> QED
    BY <2>2, <2>4, <2>6
<1>4. state'[j] = "RUNNING" /\ popens'[j] # NULL => popens'[j].pid = pid'[j]
  BY <1>1 DEF OwnInv
<1> QED
  BY <1>2, <1>3, <1>4

LEMMA OwnSpawn ==
    ASSUME Base, OwnInv, NEW i \in Jobs, NEW p \in Pids, Spawn(i, p)
    PROVE  OwnInv'
<1>1. /\ phase = "dispatch" /\ state[i] = "QUEUED"
      /\ group[p] = NULL /\ \A k \in Jobs : state[k] = "RUNNING" => pid[k] # p
      /\ UNCHANGED <<state, pid>>
  BY Spawned
<1>2. PICK g : /\ g.owner = i /\ g.wrapper = "running"
               /\ group' = [q \in Pids |-> IF q = p THEN g ELSE group[q]]
  BY Spawned
<1>3. PICK po \in Popen : /\ po.pid = p /\ po.returncode = NULL
                          /\ popens' = [k \in Jobs |-> IF k = i THEN po ELSE popens[k]]
  BY Spawned
\* p was in no other job's handle.
<1>4. ASSUME NEW k \in Jobs, popens[k] # NULL
      PROVE  popens[k].pid # p
  <2>1. state[k] = "RUNNING"
    BY <1>1, <1>4 DEF Base, CarryInv, NothingCarriesOver, BeingSpawned
  <2> QED
    BY <1>1, <1>4, <2>1 DEF OwnInv
<1>5. ASSUME NEW k \in Jobs, NEW q, Own(k, q), q # p
      PROVE  Own(k, q)' /\ (Runs(q)' => Runs(q))
  BY <1>2, <1>5 DEF Own, Runs
<1> SUFFICES ASSUME NEW j \in Jobs
             PROVE  /\ state'[j] = "RUNNING" => \E q : q = pid'[j] /\ Own(j, q)'
                    /\ popens'[j] # NULL =>
                         \E q : /\ q = popens'[j].pid /\ Own(j, q)'
                                /\ popens'[j].returncode # NULL => ~Runs(q)'
                    /\ state'[j] = "RUNNING" /\ popens'[j] # NULL => popens'[j].pid = pid'[j]
  BY OwnNext
<1>6. ASSUME state'[j] = "RUNNING"
      PROVE  \E q : q = pid'[j] /\ Own(j, q)'
  <2>1. PICK q : q = pid[j]
    OBVIOUS
  <2>2. Own(j, q) /\ pid'[j] = q /\ q # p
    BY <1>1, <1>6, <2>1 DEF OwnInv
  <2>3. Own(j, q)'
    BY <1>5, <2>2
  <2> QED
    BY <2>2, <2>3
<1>7. ASSUME popens'[j] # NULL
      PROVE  \E q : /\ q = popens'[j].pid /\ Own(j, q)'
                    /\ popens'[j].returncode # NULL => ~Runs(q)'
  <2>1. CASE j = i
    <3>1. popens'[j].pid = p /\ popens'[j].returncode = NULL
      BY <1>3, <2>1
    <3>2. Own(j, p)'
      BY <1>2, <2>1 DEF Own
    <3> QED
      BY <3>1, <3>2
  <2>2. CASE j # i
    <3>1. PICK q : q = popens[j].pid
      OBVIOUS
    <3>2. popens'[j] = popens[j] /\ popens[j] # NULL
      BY <1>3, <1>7, <2>2
    <3>3. Own(j, q) /\ (popens[j].returncode # NULL => ~Runs(q)) /\ q # p
      BY <1>4, <3>1, <3>2 DEF OwnInv
    <3>4. Own(j, q)' /\ (Runs(q)' => Runs(q))
      BY <1>5, <3>3
    <3> QED
      BY <3>1, <3>2, <3>3, <3>4
  <2> QED
    BY <2>1, <2>2
<1>8. state'[j] = "RUNNING" /\ popens'[j] # NULL => popens'[j].pid = pid'[j]
  BY <1>1, <1>3 DEF OwnInv
<1> QED
  BY <1>6, <1>7, <1>8

\* What mark_running does.
LEMMA Marked ==
    ASSUME Base, MarkRunning
    PROVE  /\ cur.job \in Jobs /\ popens[cur.job] \in Popen
           /\ phase = "spawned" /\ phase' = "dispatch"
           /\ UNCHANGED <<group, popens, exit_file, todo_jobs>>
           /\ state'[cur.job] = "RUNNING" /\ pid'[cur.job] = popens[cur.job].pid
           /\ gpu_ids'[cur.job] = out[cur.job]
           /\ \A k \in Jobs : k # cur.job => /\ state'[k] = state[k] /\ pid'[k] = pid[k]
                                             /\ gpu_ids'[k] = gpu_ids[k]
<1>0. /\ popens \in [Jobs -> Popen \cup {NULL}] /\ pid \in [Jobs -> Pids \cup {NULL}]
      /\ state \in [Jobs -> States \cup {NULL}]
      /\ gpu_ids \in [Jobs -> (SUBSET Gpus) \cup {NULL}]
  BY DEF Base, TypeInv, MemoryTypes, RowTypeOK, Inv, DispatchTypeOK, LedgerTypeOK
<1>1. PICK j : j = cur.job
  OBVIOUS
<1>2. /\ phase = "spawned" /\ phase' = "dispatch"
      /\ UNCHANGED <<group, popens, exit_file, todo_jobs>>
      /\ state' = [state EXCEPT ![j] = "RUNNING"]
      /\ gpu_ids' = [gpu_ids EXCEPT ![j] = out[j]]
      /\ pid' = [pid EXCEPT ![j] = popens[j].pid]
  BY <1>1 DEF MarkRunning, Launch, AssignGpus, SetPid, memoryVars, runnerVars, Goto
<1>3. j \in Jobs /\ popens[j] \in Popen
  BY <1>0, <1>1, <1>2, CurFields DEF Base, TypeInv, LoopTypes, Visiting, MemoryTypes
<1> QED
  BY <1>0, <1>1, <1>2, <1>3

LEMMA OwnMark ==
    ASSUME Base, OwnInv, MarkRunning
    PROVE  OwnInv'
<1>1. PICK i : i = cur.job
  OBVIOUS
<1>2. /\ i \in Jobs /\ popens[i] \in Popen
      /\ UNCHANGED <<group, popens>>
      /\ state'[i] = "RUNNING" /\ pid'[i] = popens[i].pid
      /\ \A k \in Jobs : k # i => state'[k] = state[k] /\ pid'[k] = pid[k]
  BY <1>1, Marked
<1>3. popens[i] # NULL
  BY <1>2, PopenAssumption
<1>4. \A k \in Jobs : popens[k] # NULL => Own(k, popens[k].pid)
  BY DEF OwnInv
<1> QED
  BY <1>2, <1>3, <1>4 DEF OwnInv, Own, Runs

LEMMA OwnStep ==
    Base /\ OwnInv /\ [DaemonNext]_daemonVars => OwnInv'
<1> SUFFICES ASSUME Base, OwnInv, [DaemonNext]_daemonVars PROVE OwnInv'
  OBVIOUS
<1>0. /\ TypeInv /\ Inv /\ group \in [Pids -> Group \cup {NULL}]
      /\ popens \in [Jobs -> Popen \cup {NULL}]
  BY DEF Base, TypeInv, MemoryTypes, RunnerTypeOK
<1>1. CASE Still \/ Alone \/ Downs
  BY <1>1, OwnMoved DEF Still, Alone, Downs
<1>2. ASSUME NEW j \in Jobs, IdleRow(j)
      PROVE  OwnInv'
  <2>1. GroupsMove
    BY <1>0, <1>2 DEF IdleRow, GroupsMove
  <2> QED
    BY <1>2, <2>1, OwnMoved DEF IdleRow
<1>3. ASSUME NEW j \in Jobs, Finishing(j)
      PROVE  OwnInv'
  <2>1. GroupsMove
    BY <1>0, <1>3 DEF Finishing, GroupsMove
  <2>2. \A k \in Jobs : popens'[k] \in {NULL, popens[k]}
    BY <1>0, <1>3 DEF Finishing
  <2>3. \A k \in Jobs : state'[k] = "RUNNING" => state[k] = "RUNNING" /\ pid'[k] = pid[k]
    BY <1>3 DEF Finishing
  <2> QED
    BY <2>1, <2>2, <2>3, OwnMoved
<1>4. CASE ReapRead \/ \E j \in Jobs : RecoverRead(j)
  <2>1. UNCHANGED <<state, pid, group, popens>>
    BY <1>4 DEF ReapRead, RecoverRead, dispatchVars, ledgerVars, rowVars, runnerVars, memoryVars
  <2>2. GroupsMove
    BY <1>0, <2>1 DEF GroupsMove
  <2> QED
    BY <2>1, <2>2, OwnMoved
<1> QED
  BY <1>0, <1>1, <1>2, <1>3, <1>4, OwnPoll, OwnSpawn, OwnMark, StepKinds

-----------------------------------------------------------------------------
(* Scripts that run are tracked. *)

\* A daemon killed between launch() and mark_running leaves a group that is in no row
\* (daemon.py:282): no script of that group is tracked, so the launch is taken as whole.
NoCrashInLaunch == "spawned" \notin CrashPhases

\* Group p is that of job j's row, or of the launch that is under way; and its
\* wrapper has not written the file.
TrackedBy(j, p) ==
    /\ group[p].owner = j
    /\ exit_file[j] = NULL
    /\ \/ state[j] = "RUNNING" /\ pid[j] = p /\ gpu_ids[j] = group[p].gpus
       \/ BeingSpawned(j) /\ popens[j].pid = p /\ out[j] = group[p].gpus

RunsOK == \A p \in Pids : Runs(p) => \E j \in Jobs : TrackedBy(j, p)

SpawnOK ==
    phase = "spawned" =>
        /\ state[cur.job] = "QUEUED"
        /\ popens[cur.job] # NULL

\* What the visitor has read of the file is what is in it, ...
ReadOK ==
    phase \in {"reapDecide", "recoverDecide"} /\ cur.file # NULL
        => exit_file[cur.job] = cur.file

\* ... and what it knows of the status comes from a handle.
StatusOK ==
    phase \in {"reapRead", "reapDecide"} /\ cur.rc # NULL
        => popens[cur.job] # NULL /\ popens[cur.job].returncode = cur.rc

TrackInv == RunsOK /\ SpawnOK /\ ReadOK /\ StatusOK

LEMMA TrackInit == DaemonInit => TrackInv
<1> SUFFICES ASSUME DaemonInit PROVE TrackInv
  OBVIOUS
<1>1. phase = "idle" /\ \A p \in Pids : ~Runs(p)
  BY DEF DaemonInit, RunnerInit, Runs
<1> QED
  BY <1>1 DEF TrackInv, RunsOK, SpawnOK, ReadOK, StatusOK

\* A job has one script.
LEMMA OneScript ==
    ASSUME RunsOK, SpawnOK, NEW p \in Pids, NEW q \in Pids, Runs(p), Runs(q),
           group[p].owner = group[q].owner
    PROVE  p = q
<1>1. PICK j \in Jobs : TrackedBy(j, p)
  BY DEF RunsOK
<1>2. PICK k \in Jobs : TrackedBy(k, q)
  BY DEF RunsOK
<1> QED
  BY <1>1, <1>2 DEF TrackedBy, SpawnOK, BeingSpawned

\* It is enough that a script still running belongs to a row that stays as it was.
LEMMA RowsTrack ==
    ASSUME RunsOK, GroupsMove, phase # "spawned",
           \A j \in Jobs : state[j] = "RUNNING" /\ exit_file[j] = NULL
                             /\ (\E p \in Pids : p = pid[j] /\ Runs(p) /\ group[p].owner = j)
              => /\ state'[j] = state[j] /\ pid'[j] = pid[j] /\ gpu_ids'[j] = gpu_ids[j]
                 /\ exit_file'[j] = NULL
    PROVE  RunsOK'
<1> SUFFICES ASSUME NEW p \in Pids, Runs(p)'
             PROVE  \E j \in Jobs : TrackedBy(j, p)'
  BY DEF RunsOK
<1>1. Runs(p) /\ group'[p].owner = group[p].owner /\ group'[p].gpus = group[p].gpus
  BY MovedRuns
<1>2. PICK j \in Jobs : TrackedBy(j, p)
  BY <1>1 DEF RunsOK
<1>3. /\ state[j] = "RUNNING" /\ pid[j] = p /\ gpu_ids[j] = group[p].gpus
      /\ group[p].owner = j /\ exit_file[j] = NULL
  BY <1>2 DEF TrackedBy, BeingSpawned
<1>4. /\ state'[j] = state[j] /\ pid'[j] = pid[j] /\ gpu_ids'[j] = gpu_ids[j]
      /\ exit_file'[j] = NULL
  BY <1>1, <1>3
<1> QED
  BY <1>1, <1>3, <1>4 DEF TrackedBy

LEMMA TrackAlone ==
    ASSUME Base, TrackInv, Alone
    PROVE  TrackInv'
<1>0. exit_file \in [Jobs -> ExitCodes \cup {NULL}]
  BY DEF Base, TypeInv, RunnerTypeOK
<1>1. GroupsMove /\ UNCHANGED <<state, pid, gpu_ids, popens, phase, cur, out>>
  BY DEF Alone
\* The file that is written is that of a job which runs no more.
<1>2. ASSUME NEW j \in Jobs, exit_file'[j] # exit_file[j]
      PROVE  exit_file[j] = NULL /\ \A q \in Pids : Runs(q)' => group[q].owner # j
  <2>1. PICK p \in Pids, c \in ExitCodes :
          /\ Runs(p) /\ ~(Runs(p)')
          /\ exit_file' = [exit_file EXCEPT ![group[p].owner] = c]
    BY <1>2 DEF Alone, Runs
  <2>2. group[p].owner = j
    BY <1>0, <1>2, <2>1
  <2>3. exit_file[j] = NULL
    BY <2>1, <2>2 DEF TrackInv, RunsOK, TrackedBy
  <2>4. ASSUME NEW q \in Pids, Runs(q)', group[q].owner = j
        PROVE  FALSE
    <3>1. Runs(q)
      BY <1>1, <2>4, MovedRuns
    <3>2. p = q
      BY <2>1, <2>2, <2>4, <3>1, OneScript DEF TrackInv
    <3> QED
      BY <2>1, <2>4, <3>2
  <2> QED
    BY <2>3, <2>4
<1>3. RunsOK'
  <2> SUFFICES ASSUME NEW p \in Pids, Runs(p)'
               PROVE  \E j \in Jobs : TrackedBy(j, p)'
    BY DEF RunsOK
  <2>1. Runs(p) /\ group'[p].owner = group[p].owner /\ group'[p].gpus = group[p].gpus
    BY <1>1, MovedRuns
  <2>2. PICK j \in Jobs : TrackedBy(j, p)
    BY <2>1 DEF TrackInv, RunsOK
  <2>3. exit_file'[j] = NULL
    BY <1>2, <2>2 DEF TrackedBy
  <2> QED
    BY <1>1, <2>1, <2>2, <2>3 DEF TrackedBy, BeingSpawned
<1>4. SpawnOK' /\ StatusOK'
  BY <1>1 DEF TrackInv, SpawnOK, StatusOK
<1>5. ReadOK'
  <2> SUFFICES ASSUME phase \in {"reapDecide", "recoverDecide"}, cur.file # NULL
               PROVE  exit_file'[cur.job] = cur.file
    BY <1>1 DEF ReadOK
  <2>1. exit_file[cur.job] = cur.file
    BY DEF TrackInv, ReadOK
  <2>2. cur.job \in Jobs
    BY CurFields DEF Base, TypeInv, LoopTypes, Visiting
  <2> QED
    BY <1>2, <2>1, <2>2
<1> QED
  BY <1>3, <1>4, <1>5 DEF TrackInv

\* A job is not found over while its script runs.
LEMMA FinishedScript ==
    ASSUME TrackInv, NEW j \in Jobs, Finishing(j), NEW p \in Pids, Runs(p),
           state[j] = "RUNNING", pid[j] = p, exit_file[j] = NULL
    PROVE  FALSE
<1>1. j = cur.job /\ phase \in {"reapDecide", "recoverDecide"} /\ group[pid[cur.job]] # NULL
  BY DEF Finishing, Runs
<1>2. cur.file = NULL
  BY <1>1 DEF TrackInv, ReadOK
<1>3. CASE ReapAdopted
  <2>1. popens[cur.job] = NULL /\ cur.rc # NULL /\ phase = "reapDecide"
    BY <1>2, <1>3 DEF ReapAdopted, WrapperDone
  <2> QED
    BY <2>1 DEF TrackInv, StatusOK
<1>4. CASE ReapGone \/ RecoverFinalizes
  BY <1>1, <1>2, <1>4 DEF ReapGone, RecoverFinalizes, GroupAlive
<1> QED
  BY <1>3, <1>4 DEF Finishing

LEMMA TrackSpawn ==
    ASSUME Base, TrackInv, NEW i \in Jobs, NEW p \in Pids, Spawn(i, p)
    PROVE  TrackInv'
<1>0. exit_file \in [Jobs -> ExitCodes \cup {NULL}]
  BY DEF Base, TypeInv, RunnerTypeOK
<1>1. /\ phase = "dispatch" /\ phase' = "spawned" /\ cur'.job = i
      /\ state[i] = "QUEUED"
      /\ UNCHANGED <<state, pid, gpu_ids, out>>
      /\ exit_file' = [exit_file EXCEPT ![i] = NULL]
  BY Spawned
<1>2. PICK g : /\ g.owner = i /\ g.wrapper = "running" /\ g.gpus = out[i]
               /\ group' = [q \in Pids |-> IF q = p THEN g ELSE group[q]]
  BY Spawned
<1>3. PICK po \in Popen : /\ po.pid = p
                          /\ popens' = [k \in Jobs |-> IF k = i THEN po ELSE popens[k]]
  BY Spawned
<1>4. popens'[i] = po /\ po # NULL
  BY <1>3, PopenAssumption
<1>5. ASSUME NEW q \in Pids, Runs(q)'
      PROVE  \E j \in Jobs : TrackedBy(j, q)'
  <2>1. CASE q = p
    <3>1. TrackedBy(i, q)'
      BY <1>0, <1>1, <1>2, <1>3, <1>4, <2>1 DEF TrackedBy, BeingSpawned
    <3> QED
      BY <3>1
  <2>2. CASE q # p
    <3>1. group'[q] = group[q] /\ Runs(q)
      BY <1>2, <1>5, <2>2 DEF Runs
    <3>2. PICK j \in Jobs : TrackedBy(j, q)
      BY <3>1 DEF TrackInv, RunsOK
    <3>3. state[j] = "RUNNING" /\ pid[j] = q /\ gpu_ids[j] = group[q].gpus
      BY <1>1, <3>2 DEF TrackedBy, BeingSpawned
    <3>4. exit_file'[j] = NULL
      BY <1>0, <1>1, <3>2 DEF TrackedBy
    <3> QED
      BY <1>1, <3>1, <3>2, <3>3, <3>4 DEF TrackedBy
  <2> QED
    BY <2>1, <2>2
<1>6. RunsOK'
  BY <1>5 DEF RunsOK
<1> QED
  BY <1>1, <1>4, <1>6 DEF TrackInv, SpawnOK, ReadOK, StatusOK

LEMMA TrackMark ==
    ASSUME Base, TrackInv, MarkRunning
    PROVE  TrackInv'
<1>1. PICK i : i = cur.job
  OBVIOUS
<1>2. /\ i \in Jobs /\ phase = "spawned" /\ phase' = "dispatch"
      /\ UNCHANGED <<group, popens, exit_file>>
      /\ state'[i] = "RUNNING" /\ pid'[i] = popens[i].pid /\ gpu_ids'[i] = out[i]
      /\ \A k \in Jobs : k # i => /\ state'[k] = state[k] /\ pid'[k] = pid[k]
                                  /\ gpu_ids'[k] = gpu_ids[k]
  BY <1>1, Marked
<1>3. state[i] = "QUEUED"
  BY <1>1, <1>2 DEF TrackInv, SpawnOK
<1>4. ASSUME NEW q \in Pids, Runs(q)'
      PROVE  \E j \in Jobs : TrackedBy(j, q)'
  <2>1. Runs(q)
    BY <1>2, <1>4 DEF Runs
  <2>2. PICK j \in Jobs : TrackedBy(j, q)
    BY <2>1 DEF TrackInv, RunsOK
  <2>3. CASE j = i
    <3>1. popens[i].pid = q /\ out[i] = group[q].gpus /\ group[q].owner = i
          /\ exit_file[i] = NULL
      BY <1>3, <2>2, <2>3 DEF TrackedBy
    <3>2. TrackedBy(i, q)'
      BY <1>2, <3>1 DEF TrackedBy
    <3> QED
      BY <1>2, <3>2
  <2>4. CASE j # i
    <3>1. /\ state[j] = "RUNNING" /\ pid[j] = q /\ gpu_ids[j] = group[q].gpus
          /\ group[q].owner = j /\ exit_file[j] = NULL
      BY <1>1, <2>2, <2>4 DEF TrackedBy, BeingSpawned
    <3>2. TrackedBy(j, q)'
      BY <1>2, <2>4, <3>1 DEF TrackedBy
    <3> QED
      BY <3>2
  <2> QED
    BY <2>3, <2>4
<1>5. RunsOK'
  BY <1>4 DEF RunsOK
<1> QED
  BY <1>2, <1>5 DEF TrackInv, SpawnOK, ReadOK, StatusOK

\* What the visitor reads of the file.
LEMMA FileRead ==
    ASSUME Base, NEW j \in Jobs, RecoverRead(j) \/ (j = cur.job /\ ReapRead)
    PROVE  /\ cur'.job = j /\ cur'.file = exit_file[j]
           /\ phase \in {"reapRead", "recover"} /\ phase' \in {"reapDecide", "recoverDecide"}
           /\ phase = "recover" <=> phase' = "recoverDecide"
           /\ ReapRead => cur'.rc = cur.rc
           /\ UNCHANGED <<state, pid, gpu_ids, out, group, exit_file, popens, todo_jobs>>
           /\ GroupsMove
<1>1. /\ UNCHANGED <<state, pid, gpu_ids, out, group, exit_file, popens, todo_jobs>>
      /\ phase \in {"reapRead", "recover"} /\ phase' \in {"reapDecide", "recoverDecide"}
      /\ phase = "recover" <=> phase' = "recoverDecide"
  BY DEF RecoverRead, ReapRead, Goto, dispatchVars, ledgerVars, planVars, rowVars,
         runnerVars, memoryVars
<1>2. exit_file[j] \in ExitCodes \cup {NULL} /\ GroupsMove
  BY <1>1 DEF Base, TypeInv, RunnerTypeOK, GroupsMove
<1>3. CASE RecoverRead(j)
  <2>1. cur' = [About(j) EXCEPT !.file = exit_file[j]] /\ ~ReapRead
    BY <1>3 DEF RecoverRead, ReadExitCode, ReapRead
  <2> QED
    BY <1>1, <1>2, <2>1, AboutCur
<1>4. CASE ReapRead /\ j = cur.job
  <2>1. cur' = [cur EXCEPT !.file = exit_file[j]] /\ phase = "reapRead"
    BY <1>4 DEF ReapRead, ReadExitCode
  <2>2. cur \in Cur
    BY <2>1 DEF Base, TypeInv, LoopTypes, Visiting
  <2> QED
    BY <1>1, <1>2, <1>4, <2>1, <2>2, ReadCur
<1> QED
  BY <1>3, <1>4

LEMMA TrackStep ==
    ASSUME NoCrashInLaunch, Base, TrackInv, [DaemonNext]_daemonVars
    PROVE  TrackInv'
<1>0. /\ TypeInv /\ Inv /\ RunsOK /\ group \in [Pids -> Group \cup {NULL}]
      /\ exit_file \in [Jobs -> ExitCodes \cup {NULL}]
  BY DEF Base, TypeInv, RunnerTypeOK, TrackInv
<1>1. CASE Still
  <2>1. RunsOK'
    BY <1>0, <1>1, RowsTrack DEF Still
  <2> QED
    BY <1>1, <2>1 DEF Still, TrackInv, SpawnOK, ReadOK, StatusOK
<1>2. CASE Downs
  <2>1. CASE \A p \in Pids : group'[p] = NULL
    <3>1. RunsOK'
      BY <2>1 DEF RunsOK, Runs
    <3> QED
      BY <1>2, <3>1 DEF Downs, TrackInv, SpawnOK, ReadOK, StatusOK
  <2>2. CASE phase \in DownPhases
    <3>1. phase # "spawned"
      BY <2>2 DEF NoCrashInLaunch, DownPhases
    <3>2. RunsOK'
      BY <1>0, <1>2, <3>1, RowsTrack DEF Downs
    <3> QED
      BY <1>2, <3>2 DEF Downs, TrackInv, SpawnOK, ReadOK, StatusOK
  <2> QED
    BY <1>2, <2>1, <2>2 DEF Downs
<1>3. ASSUME NEW j \in Jobs, IdleRow(j)
      PROVE  TrackInv'
  <2>1. GroupsMove
    BY <1>0, <1>3 DEF IdleRow, GroupsMove
  <2>2. ASSUME NEW k \in Jobs, state[k] = "RUNNING", exit_file[k] = NULL
        PROVE  /\ state'[k] = state[k] /\ pid'[k] = pid[k] /\ gpu_ids'[k] = gpu_ids[k]
               /\ exit_file'[k] = NULL
    BY <1>0, <1>3, <2>2 DEF IdleRow
  <2>3. phase # "spawned"
    BY <1>3 DEF IdleRow
  <2>4. RunsOK'
    BY <1>0, <2>1, <2>2, <2>3, RowsTrack
  <2> QED
    BY <1>3, <2>4 DEF IdleRow, TrackInv, SpawnOK, ReadOK, StatusOK
<1>4. ASSUME NEW j \in Jobs, Finishing(j)
      PROVE  TrackInv'
  <2>1. GroupsMove
    BY <1>0, <1>4 DEF Finishing, GroupsMove
  <2>2. ASSUME NEW k \in Jobs, state[k] = "RUNNING", exit_file[k] = NULL,
               \E p \in Pids : p = pid[k] /\ Runs(p) /\ group[p].owner = k
        PROVE  /\ state'[k] = state[k] /\ pid'[k] = pid[k] /\ gpu_ids'[k] = gpu_ids[k]
               /\ exit_file'[k] = NULL
    <3>1. k # j
      BY <1>4, <2>2, FinishedScript
    <3> QED
      BY <1>4, <2>2, <3>1 DEF Finishing
  <2>3. phase # "spawned"
    BY <1>4 DEF Finishing
  <2>4. RunsOK'
    BY <1>0, <2>1, <2>2, <2>3, RowsTrack
  <2> QED
    BY <1>4, <2>4 DEF Finishing, TrackInv, SpawnOK, ReadOK, StatusOK
<1>5. ASSUME NEW j \in Jobs, ReapPoll(j)
      PROVE  TrackInv'
  <2>1. /\ phase = "reap" /\ phase' = "reapRead" /\ cur'.job = j
        /\ UNCHANGED <<state, pid, gpu_ids, exit_file>> /\ GroupsMove
        /\ popens[j] = NULL => cur'.rc = NULL
        /\ popens[j] # NULL => popens'[j] # NULL /\ popens'[j].returncode = cur'.rc
    BY <1>5, Polled
  <2>2. RunsOK'
    BY <1>0, <2>1, RowsTrack
  <2> QED
    BY <2>1, <2>2 DEF TrackInv, SpawnOK, ReadOK, StatusOK
<1>6. ASSUME NEW j \in Jobs, RecoverRead(j) \/ (j = cur.job /\ ReapRead)
      PROVE  TrackInv'
  <2>1. /\ cur'.job = j /\ cur'.file = exit_file[j]
        /\ phase \in {"reapRead", "recover"} /\ phase' \in {"reapDecide", "recoverDecide"}
        /\ phase = "recover" <=> phase' = "recoverDecide"
        /\ ReapRead => cur'.rc = cur.rc
        /\ UNCHANGED <<state, pid, gpu_ids, group, exit_file, popens>>
        /\ GroupsMove
    BY <1>6, FileRead
  <2>2. RunsOK'
    BY <1>0, <2>1, RowsTrack
  <2>3. StatusOK'
    <3>1. CASE phase = "recover"
      BY <2>1, <3>1 DEF StatusOK
    <3>2. CASE phase = "reapRead"
      <4>1. ReapRead /\ j = cur.job
        BY <1>6, <3>2 DEF RecoverRead
      <4> QED
        BY <2>1, <3>2, <4>1 DEF StatusOK, TrackInv
    <3> QED
      BY <2>1, <3>1, <3>2
  <2> QED
    BY <2>1, <2>2, <2>3 DEF TrackInv, SpawnOK, ReadOK
<1>7. ReapRead => cur.job \in Jobs
  BY <1>0, CurFields DEF ReapRead, TypeInv, LoopTypes, Visiting
<1> QED
  BY <1>0, <1>1, <1>2, <1>3, <1>4, <1>5, <1>6, <1>7, TrackAlone, TrackSpawn, TrackMark,
     StepKinds

LEMMA TrackAlways ==
    ASSUME NoCrashInLaunch
    PROVE  DaemonSpec => [](Base /\ OwnInv /\ TrackInv)
<1>1. DaemonInit => OwnInv /\ TrackInv
  BY OwnInit, TrackInit
<1>2. Base /\ OwnInv /\ [DaemonNext]_daemonVars => OwnInv'
  BY OwnStep
<1>3. Base /\ TrackInv /\ [DaemonNext]_daemonVars => TrackInv'
  BY TrackStep
<1> QED
  BY <1>1, <1>2, <1>3, BaseAlways, PTL DEF DaemonSpec

\* Whenever the daemon is killed or the machine goes down, but for the instants between
\* launch() and mark_running (daemon.py:282), every script that runs is in the table: its
\* row is RUNNING, names its group and holds its GPUs, or its launch is under way.  So no
\* restart loses a running job, recover() and _reap never take one for finished, and a
\* job's script never runs twice at once.
THEOREM RunningScriptsTracked ==
    ASSUME NoCrashInLaunch
    PROVE  DaemonSpec => []RunningScriptsAreTracked
<1>1. TrackInv => RunningScriptsAreTracked
  BY DEF TrackInv, RunsOK, Runs, TrackedBy, RunningScriptsAreTracked
<1> QED
  BY <1>1, TrackAlways, PTL

\* So the ledger's promise holds on the cards themselves, for the scripts that run, and
\* not only while the daemon stays up: each script runs once, an exclusive job's has its
\* cards to itself, and share jobs' budgets fit (scheduler.py _place, daemon.py recover).
THEOREM RunningScriptsFit ==
    ASSUME NoCrashInLaunch
    PROVE  DaemonSpec => []ScriptsFitTheirCards
<1>1. ASSUME Base, TrackInv PROVE ScriptsFitTheirCards
  <2>1. \A p \in Pids : ScriptRuns(p) <=> Runs(p)
    BY DEF ScriptRuns, Runs
  <2>2. \A p, q \in Pids :
           ScriptRuns(p) /\ ScriptRuns(q) /\ group[p].owner = group[q].owner => p = q
    BY <1>1, <2>1, OneScript DEF TrackInv
  <2>3. ASSUME NEW g \in Gpus
        PROVE  Fair(ScriptsOn(g), g)
    <3>1. ScriptsOn(g) \subseteq Holders(g)
      <4> SUFFICES ASSUME NEW p \in Pids, ScriptRuns(p), g \in group[p].gpus
                   PROVE  group[p].owner \in Holders(g)
        BY DEF ScriptsOn
      <4>1. PICK j \in Jobs : TrackedBy(j, p)
        BY <1>1, <2>1 DEF TrackInv, RunsOK
      <4>2. group[p].gpus \in SUBSET Gpus
        BY <1>1 DEF Base, TypeInv, RunnerTypeOK, Group, ScriptRuns
      <4>3. group[p].gpus # NULL
        BY <4>2, LedgerAssumption
      <4>4. CASE state[j] = "RUNNING" /\ gpu_ids[j] = group[p].gpus
        BY <4>1, <4>3, <4>4 DEF TrackedBy, Holders, Tenants
      <4>5. CASE out[j] = group[p].gpus
        BY <4>1, <4>3, <4>5 DEF TrackedBy, Holders
      <4> QED
        BY <4>1, <4>4, <4>5 DEF TrackedBy
    <3>2. Fair(Holders(g), g)
      BY <1>1, NoOvercommitIsFair DEF Base, Inv
    <3> QED
      BY <3>1, <3>2, HoldersType, FewerHolders
  <2> QED
    BY <2>2, <2>3 DEF ScriptsFitTheirCards, Fair
<1> QED
  BY <1>1, TrackAlways, PTL

LEMMA LeavesFinishing ==
    ASSUME Base, [DaemonNext]_daemonVars, NEW j \in Jobs, Leaves(j)
    PROVE  Finishing(j)
<1>1. state[j] = "RUNNING" /\ state'[j] # "RUNNING"
  BY DEF Leaves
<1>2. ~(Still \/ Alone \/ Downs \/ ReapRead \/ MarkRunning)
  BY <1>1, Marked DEF Still, Alone, Downs, ReapRead, dispatchVars, ledgerVars
<1>3. ~\E k \in Jobs : \/ ReapPoll(k) \/ RecoverRead(k) \/ IdleRow(k)
                       \/ \E p \in Pids : Spawn(k, p)
  BY <1>1 DEF ReapPoll, RecoverRead, IdleRow, Spawn, dispatchVars, ledgerVars
<1>4. PICK k \in Jobs : Finishing(k)
  BY <1>2, <1>3, StepKinds DEF Base
<1> QED
  BY <1>1, <1>4 DEF Finishing

LEMMA FinishedCode ==
    ASSUME TrackInv, Base, NEW j \in Jobs, Finishing(j), phase = "reapDecide",
           exit_file[j] # NULL
    PROVE  exit_code'[j] = exit_file[j]
<1>0. exit_code \in [Jobs -> Codes \cup {NULL}]
  BY DEF Base, TypeInv, RowTypeOK
<1>1. j = cur.job /\ ~RecoverFinalizes
  BY DEF Finishing, RecoverFinalizes, RecoverNext
<1>2. cur.file # NULL => cur.file = exit_file[j]
  BY <1>1 DEF TrackInv, ReadOK
<1>3. CASE ReapAdopted
  <2>1. cur.file # NULL
    BY <1>3 DEF ReapAdopted, WrapperDone, TrackInv, StatusOK
  <2>2. exit_code' = [exit_code EXCEPT ![j] = cur.file]
    BY <1>1, <1>3 DEF ReapAdopted, Finalize, SetExitCode
  <2> QED
    BY <1>0, <1>2, <2>1, <2>2
<1>4. CASE ReapGone
  <2>1. exit_code' = [exit_code EXCEPT ![j] = exit_file[j]]
    BY <1>1, <1>2, <1>4 DEF ReapGone, Finalize, SetExitCode, ReadExitCode
  <2> QED
    BY <1>0, <2>1
<1> QED
  BY <1>1, <1>3, <1>4 DEF Finishing

\* _reap's second read: a job that the reaper takes out of RUNNING while its wrapper has
\* left an exit file gets the code in that file, although the file may have landed after
\* the first read, and although the daemon may have crashed and adopted the job.
THEOREM ReapersReadTheFile ==
    ASSUME NoCrashInLaunch
    PROVE  DaemonSpec => ReaperSeesTheFile
<1> DEFINE Read == \A j \in Jobs : Leaves(j) /\ exit_file[j] # NULL /\ phase = "reapDecide"
                      => exit_code'[j] = exit_file[j]
<1>1. ASSUME Base, TrackInv, [DaemonNext]_daemonVars
      PROVE  Read
  <2> SUFFICES ASSUME NEW j \in Jobs, Leaves(j), exit_file[j] # NULL, phase = "reapDecide"
               PROVE  exit_code'[j] = exit_file[j]
    OBVIOUS
  <2>1. Finishing(j)
    BY <1>1, LeavesFinishing
  <2> QED
    BY <1>1, <2>1, FinishedCode
<1> HIDE DEF Read
<1>2. DaemonSpec => [](Base /\ TrackInv)
  BY TrackAlways, PTL
<1>3. DaemonSpec => [][Read]_daemonVars
  BY <1>1, <1>2, PTL DEF DaemonSpec
<1> QED
  BY <1>3, PTL DEF ReaperSeesTheFile, Read

-----------------------------------------------------------------------------
(* Who is signalled, and with what. *)

\* No process that lives is being killed now.
Spares ==
    \A p \in Pids : group[p] # NULL /\ group[p].rest = "alive" /\ group'[p] # NULL
                      => group'[p].rest # "dying"

\* One group changes, or none.
LEMMA OneSpared ==
    ASSUME group \in [Pids -> Group \cup {NULL}], NEW p, NEW h, NEW g,
           h \in Group, g = group[p],
           group' = group \/ group' = [group EXCEPT ![p] = Swept(h)]
                          \/ group' = [group EXCEPT ![p] = h],
           p \in Pids /\ g # NULL /\ g.rest = "alive" => h.rest # "dying"
    PROVE  Spares
BY DEF Spares, Swept

LEMMA FieldsKeepRest ==
    ASSUME NEW g \in Group, NEW w, NEW b
    PROVE  /\ [g EXCEPT !.wrapper = w].rest = g.rest
           /\ [g EXCEPT !.wrapper = w, !.child = b].rest = g.rest
           /\ \A c : WrapperDead(g, c).rest = g.rest
           /\ \A r \in {"alive", "dying", "gone"} : [g EXCEPT !.rest = r].rest = r
BY DEF Group, WrapperDead

LEMMA TermSpares ==
    ASSUME group \in [Pids -> Group \cup {NULL}], NEW p, KillTree(p, "TERM")
    PROVE  Spares
<1>1. CASE group[p] = NULL \/ Refused(p) \/ p \notin Pids
  BY <1>1 DEF KillTree, Spares
<1>2. CASE group[p] # NULL /\ ~Refused(p) /\ p \in Pids
  <2>1. group[p] \in Group /\ group' = [group EXCEPT ![p] = Signalled(group[p], "TERM")]
    BY <1>2 DEF KillTree
  <2>2. Signalled(group[p], "TERM").rest = group[p].rest
    <3>1. Signalled(group[p], "TERM") = IF group[p].wrapper = "running"
                                        THEN WrapperDead(group[p], SIGNALLED) ELSE group[p]
      BY DEF Signalled
    <3> QED
      BY <2>1, <3>1, FieldsKeepRest
  <2> QED
    BY <1>2, <2>1, <2>2 DEF Spares
<1> QED
  BY <1>1, <1>2

LEMMA ReapedSpares ==
    ASSUME group \in [Pids -> Group \cup {NULL}], NEW p \in Pids, group[p] # NULL,
           ReapZombie(p)
    PROVE  Spares
<1>1. PICK h : h = [group[p] EXCEPT !.wrapper = "gone"]
  OBVIOUS
<1>2. group[p] \in Group
  OBVIOUS
<1>4. h \in Group
  BY <1>1, <1>2, WrapperField
<1>5. h.rest = group[p].rest
  BY <1>1, <1>2, FieldsKeepRest
<1>3. group' = [group EXCEPT ![p] = Swept(h)]
  BY <1>1 DEF ReapZombie
<1> QED
  BY <1>3, <1>4, <1>5, OneSpared

LEMMA ProcessesSpare ==
    ASSUME group \in [Pids -> Group \cup {NULL}], Processes
    PROVE  Spares
<1>1. PICK p \in Pids : \/ ScriptEnds(p) \/ WrapperKilled(p) \/ RestExits(p)
                        \/ RestDies(p) \/ PidTaken(p)
  BY DEF Processes, ProcessStep
<1>2. CASE ScriptEnds(p) \/ WrapperKilled(p)
  <2>1. group[p] \in Group /\ group[p] # NULL
    BY <1>2 DEF ScriptEnds, WrapperKilled
  <2>2. PICK c \in Codes, left \in {"alive", "gone"} :
           group' = [group EXCEPT ![p] = Swept([WrapperDead(group[p], c) EXCEPT !.rest = left])]
    BY <1>2 DEF ScriptEnds, WrapperKilled, Codes
  <2>3. PICK g : g = WrapperDead(group[p], c)
    OBVIOUS
  <2>4. g \in Group
    BY <2>1, <2>3, WrapperDeadFields
  <2>5. PICK h : h = [g EXCEPT !.rest = left]
    OBVIOUS
  <2>6. h \in Group /\ h.rest = left
    <3>1. h \in Group
      BY <2>4, <2>5, RestField
    <3>2. h.rest = left
      BY <2>4, <2>5, FieldsKeepRest
    <3> QED
      BY <3>1, <3>2
  <2>7. group' = [group EXCEPT ![p] = Swept(h)]
    BY <2>2, <2>3, <2>5
  <2> QED
    BY <2>6, <2>7, OneSpared
<1>3. CASE RestExits(p) \/ RestDies(p)
  <2>1. /\ group[p] \in Group
        /\ group' = [group EXCEPT ![p] = Swept([group[p] EXCEPT !.rest = "gone"])]
    BY <1>3 DEF RestExits, RestDies
  <2>2. PICK h : h = [group[p] EXCEPT !.rest = "gone"]
    OBVIOUS
  <2>3. h \in Group /\ h.rest = "gone"
    BY <2>1, <2>2, RestField, FieldsKeepRest
  <2>4. group' = [group EXCEPT ![p] = Swept(h)]
    BY <2>1, <2>2
  <2> QED
    BY <2>3, <2>4, OneSpared
<1>4. CASE PidTaken(p)
  <2>1. group[p] = NULL /\ \A q \in Pids : q # p => group'[q] = group[q]
    BY <1>4 DEF PidTaken
  <2> QED
    BY <2>1 DEF Spares
<1> QED
  BY <1>1, <1>2, <1>3, <1>4

LEMMA OrphansSpared ==
    ASSUME group \in [Pids -> Group \cup {NULL}], Orphaned \/ MachineReboots
    PROVE  Spares
<1>1. CASE MachineReboots
  BY <1>1 DEF MachineReboots, Spares
<1>2. CASE Orphaned
  <2> SUFFICES ASSUME NEW p \in Pids, group[p] # NULL, group[p].rest = "alive",
                      group'[p] # NULL
               PROVE  group'[p].rest # "dying"
    BY DEF Spares
  <2>1. PICK w : group'[p] = Swept([group[p] EXCEPT !.wrapper = w, !.child = FALSE])
    BY <1>2 DEF Orphaned
  <2>2. PICK h : h = [group[p] EXCEPT !.wrapper = w, !.child = FALSE]
    OBVIOUS
  <2>3. h.rest = group[p].rest
    BY <2>2, FieldsKeepRest
  <2> QED
    BY <2>1, <2>2, <2>3 DEF Swept
<1> QED
  BY <1>1, <1>2

\* Only the reaper kills, and only the group of the job it visits.
LEMMA WhoKills ==
    ASSUME Base, [DaemonNext]_daemonVars
    PROVE  \/ Spares
           \/ /\ ReapStragglers \/ (ReapAlive /\ GraceIsOver(cur.job))
              /\ KillTree(pid[cur.job], "KILL")
<1>0. group \in [Pids -> Group \cup {NULL}] /\ TypeInv /\ Inv
  BY DEF Base, TypeInv, RunnerTypeOK
<1>1. group' = group => Spares
  BY <1>0 DEF Spares
<1>2. CASE CancelKill \/ EvictKill
  BY <1>0, <1>2, TermSpares DEF CancelKill, EvictKill
<1>3. CASE ReapStragglers \/ ReapAlive
  BY <1>1, <1>3 DEF ReapStragglers, ReapAlive, runnerVars
<1>4. ASSUME NEW j \in Jobs, ReapPoll(j)
      PROVE  Spares
  <2>1. \/ UNCHANGED runnerVars
        \/ popens[j] # NULL /\ group[popens[j].pid] # NULL /\ ReapZombie(popens[j].pid)
    BY <1>0, <1>4, PollTypes
  <2>2. PICK p : p = popens[j].pid
    OBVIOUS
  <2>3. popens[j] # NULL => p \in Pids
    BY <1>0, <2>2, PopenFields DEF TypeInv, MemoryTypes
  <2> QED
    BY <1>0, <1>1, <2>1, <2>2, <2>3, ReapedSpares DEF runnerVars
<1>5. CASE Processes
  BY <1>0, <1>5, ProcessesSpare
<1>6. CASE Crash \/ Reboot \/ KillRaises \/ \E j \in Jobs : SpawnRaises(j)
  BY <1>0, <1>6, OrphansSpared DEF Crash, Reboot, KillRaises, SpawnRaises
<1>7. ASSUME NEW j \in Jobs, NEW p \in Pids, Spawn(j, p)
      PROVE  Spares
  <2>1. group[p] = NULL /\ \A q \in Pids : q # p => group'[q] = group[q]
    BY <1>7, Spawned
  <2> QED
    BY <2>1 DEF Spares
<1>8. CASE \E j \in Jobs : SubmitJob(j) \/ CancelQueuedJob(j) \/ RequeueJob(j) \/ SpawnFails(j)
  BY <1>0, <1>1, <1>8, IdleRowSteps DEF IdleRow
<1>9. CASE \E j \in Jobs : \/ CancelRunningJob(j) \/ EnforceEvicted(j) \/ EnforceStrike(j)
                           \/ Evict(j) \/ RecoverRead(j)
  BY <1>1, <1>9 DEF CancelRunningJob, EnforceEvicted, EnforceStrike, Evict, RecoverRead,
                    runnerVars
<1>10. CASE \/ CycleBegins \/ ReapRead \/ ReapAdopted \/ ReapGone \/ ReapEnds
            \/ EnforceBegins \/ DispatchBegins \/ DispatchPlans \/ MarkRunning \/ DispatchEnds
            \/ Start \/ Readopt \/ RecoverFinalizes \/ RecoverEnds \/ UNCHANGED daemonVars
  BY <1>1, <1>10 DEF CycleBegins, ReapRead, ReapAdopted, ReapGone, ReapEnds, EnforceBegins,
       DispatchBegins, DispatchPlans, MarkRunning, DispatchEnds, Start, Readopt,
       RecoverFinalizes, RecoverNext, RecoverEnds, daemonVars, runnerVars
<1> QED
  BY <1>2, <1>3, <1>4, <1>5, <1>6, <1>7, <1>8, <1>9, <1>10
     DEF DaemonNext, Users, LockHolder, Recovery

\* Nobody but the group that is named gets the signal.
LEMMA KillsOne ==
    ASSUME group \in [Pids -> Group \cup {NULL}], NEW q, KillTree(q, "KILL"),
           NEW p \in Pids, group[p] # NULL, group[p].rest = "alive",
           group'[p] # NULL, group'[p].rest = "dying"
    PROVE  p = q
BY DEF KillTree

LEMMA KilledRightly ==
    ASSUME Base, OwnInv, TrackInv, [DaemonNext]_daemonVars,
           NEW p \in Pids, group[p] # NULL, group[p].owner # FOREIGN,
           group[p].rest = "alive", group'[p] # NULL, group'[p].rest = "dying"
    PROVE  \/ group[p].wrapper # "running" /\ cancel_requested_at[group[p].owner] = NULL
           \/ GraceIsOver(group[p].owner)
<1>1. /\ ReapStragglers \/ (ReapAlive /\ GraceIsOver(cur.job))
      /\ KillTree(pid[cur.job], "KILL")
  BY WhoKills DEF Spares
<1>2. PICK j : j = cur.job
  OBVIOUS
<1>3. phase = "reapDecide" /\ pid[j] = p
  BY <1>1, <1>2, KillsOne DEF ReapStragglers, ReapAlive, Base, TypeInv, RunnerTypeOK
<1>4. j \in Jobs /\ state[j] = "RUNNING"
  BY <1>2, <1>3, CurFields
     DEF Base, TypeInv, LoopTypes, Visiting, CarryInv, LoopOK, Running
<1>5. group[p].owner = j
  BY <1>3, <1>4 DEF OwnInv, Own
<1>6. CASE ReapAlive /\ GraceIsOver(cur.job)
  BY <1>2, <1>5, <1>6
<1>7. CASE ReapStragglers
  <2>1. WrapperDone /\ cancel_requested_at[j] = NULL
    BY <1>2, <1>7 DEF ReapStragglers, HasStragglers
  <2>2. CASE cur.file # NULL
    <3>1. exit_file[j] # NULL
      BY <1>2, <1>3, <2>2 DEF TrackInv, ReadOK
    <3>2. ~Runs(p)
      BY <1>5, <3>1 DEF TrackInv, RunsOK, TrackedBy
    <3> QED
      BY <1>5, <2>1, <3>2 DEF Runs
  <2>3. CASE cur.rc # NULL
    <3>1. popens[j] # NULL /\ popens[j].returncode # NULL
      BY <1>2, <1>3, <2>3 DEF TrackInv, StatusOK
    <3>2. popens[j].pid = pid[j] /\ ~Runs(popens[j].pid)
      BY <1>4, <3>1 DEF OwnInv
    <3> QED
      BY <1>3, <1>5, <2>1, <3>2 DEF Runs
  <2> QED
    BY <2>1, <2>2, <2>3 DEF WrapperDone
<1> QED
  BY <1>1, <1>6, <1>7

\* SIGKILL (_reap, daemon.py:256-272) reaches a process of a job only when its script is
\* over and nobody asked for its cancellation, or when it was asked to go and had its
\* grace; whenever the daemon restarts, and whoever else gets its pid.
THEOREM KillsAreLastResort ==
    ASSUME NoCrashInLaunch
    PROVE  DaemonSpec => KillIsLastResort
<1> DEFINE Right ==
      \A p \in Pids :
          (/\ group[p] # NULL /\ group[p].owner # FOREIGN
           /\ group[p].rest = "alive"
           /\ group'[p] # NULL /\ group'[p].rest = "dying")
          => LET j == group[p].owner IN
             \/ group[p].wrapper # "running" /\ cancel_requested_at[j] = NULL
             \/ GraceIsOver(j)
<1>1. Base /\ OwnInv /\ TrackInv /\ [DaemonNext]_daemonVars => Right
  BY KilledRightly
<1> HIDE DEF Right
<1>2. DaemonSpec => [][Right]_daemonVars
  BY <1>1, TrackAlways, PTL DEF DaemonSpec
<1> QED
  BY <1>2, PTL DEF KillIsLastResort, Right

-----------------------------------------------------------------------------
(* Strangers that got the pid of one of our groups. *)

\* While the daemon runs no stranger gets the pid of a group that is gone; while it is
\* down, which is what the exit file is for (daemon.py:171), strangers may.
PidsReusedWhileDown == PidReusePhases \subseteq {"down"}

Foreign(p) == group[p] # NULL /\ group[p].owner = FOREIGN

\* The pid of job j's row is a stranger's only if the job left no exit file.
Guarded(j) == \A p \in Pids : pid[j] = p /\ Foreign(p) => exit_file[j] = NULL

\* recover() has still to look at job j.
Unrecovered(j) == phase \in {"recover", "recoverDecide"} /\ j \in todo_jobs

RowsGuarded ==
    phase # "down" =>
        \A j \in Jobs : state[j] = "RUNNING" => Unrecovered(j) \/ Guarded(j)

FoundGuarded == phase = "recoverDecide" /\ cur.file = NULL => Guarded(cur.job)

SpawnIsOurs ==
    phase = "spawned" => \A p \in Pids : popens[cur.job].pid = p => ~Foreign(p)

SignalsRunning == phase \in {"cancelKill", "evictKill"} => state[cur.job] = "RUNNING"

GuardInv == RowsGuarded /\ FoundGuarded /\ SpawnIsOurs /\ SignalsRunning

LEMMA GuardInit == DaemonInit => GuardInv
<1> SUFFICES ASSUME DaemonInit PROVE GuardInv
  OBVIOUS
<1>1. phase = "idle" /\ \A p \in Pids : ~Foreign(p)
  BY DEF DaemonInit, RunnerInit, Foreign
<1> QED
  BY <1>1 DEF GuardInv, RowsGuarded, FoundGuarded, SpawnIsOurs, SignalsRunning, Guarded

\* While the daemon is up nobody else gets a pid.
LEMMA StrangersStay ==
    ASSUME GroupsMove, NoneNew, NEW p \in Pids, Foreign(p)'
    PROVE  Foreign(p)
BY DEF GroupsMove, NoneNew, Becomes, Foreign

LEMMA GuardKept ==
    ASSUME GroupsMove, NoneNew, NEW j \in Jobs, Guarded(j), pid'[j] = pid[j],
           exit_file'[j] \in {exit_file[j], NULL}
    PROVE  Guarded(j)'
<1> SUFFICES ASSUME NEW p \in Pids, pid'[j] = p, Foreign(p)'
             PROVE  exit_file'[j] = NULL
  BY DEF Guarded
<1>1. Foreign(p)
  BY StrangersStay
<1> QED
  BY <1>1 DEF Guarded

\* Rows, files and the rest of the loop's work stay; or the job at hand is done with.
LEMMA RowsStayGuarded ==
    ASSUME RowsGuarded, GroupsMove, NoneNew, phase # "down",
           \A j \in Jobs : state'[j] = "RUNNING" =>
              /\ state[j] = "RUNNING" /\ pid'[j] = pid[j]
              /\ exit_file'[j] \in {exit_file[j], NULL}
              /\ Unrecovered(j) => Unrecovered(j)' \/ Guarded(j)
    PROVE  RowsGuarded'
<1> SUFFICES ASSUME NEW j \in Jobs, state'[j] = "RUNNING", ~(Unrecovered(j)')
             PROVE  Guarded(j)'
  BY DEF RowsGuarded
<1>1. Guarded(j)
  BY DEF RowsGuarded
<1> QED
  BY <1>1, GuardKept

\* Who is about to be sent a SIGTERM.
LEMMA Signallers ==
    ASSUME Base, [DaemonNext]_daemonVars, phase' \in {"cancelKill", "evictKill"}
    PROVE  \/ UNCHANGED <<phase, cur, state>>
           \/ state' = state /\ cur'.job \in Jobs /\ state[cur'.job] = "RUNNING"
<1>1. CASE Users
  <2>1. PICK j \in Jobs : \/ SubmitJob(j) \/ CancelQueuedJob(j)
                          \/ CancelRunningJob(j) \/ RequeueJob(j)
    BY <1>1 DEF Users
  <2>2. CancelRunningJob(j)
    BY <2>1 DEF SubmitJob, CancelQueuedJob, RequeueJob, loopVars
  <2> QED
    BY <2>2 DEF CancelRunningJob, About, dispatchVars, ledgerVars
<1>2. ASSUME NEW j \in Jobs, Evict(j)
      PROVE  state' = state /\ cur'.job \in Jobs /\ state[cur'.job] = "RUNNING"
  <2>1. j \in todo_jobs /\ phase = "enforce" /\ cur' = About(j) /\ state' = state
    BY <1>2 DEF Evict, EnforceNext, dispatchVars, ledgerVars
  <2>2. state[j] = "RUNNING"
    BY <2>1 DEF Base, CarryInv, LoopOK, Running
  <2> QED
    BY <2>1, <2>2 DEF About
<1>3. CASE Processes
  BY <1>3 DEF Processes, ProcessStep, dispatchVars, ledgerVars, loopVars
<1>4. CASE UNCHANGED daemonVars
  BY <1>4 DEF daemonVars, dispatchVars, ledgerVars, loopVars
<1>5. ~(CycleBegins \/ Recovery \/ Crash \/ Reboot)
  BY DEF CycleBegins, Recovery, Start, RecoverRead, Readopt, RecoverFinalizes, RecoverNext,
         RecoverEnds, Crash, Reboot, Forget, Goto
<1>6. CASE LockHolder
  <2>1. ~(CancelKill \/ ReapRead \/ ReapAdopted \/ ReapGone \/ ReapStragglers \/ ReapAlive
          \/ ReapEnds \/ EnforceBegins \/ EvictKill \/ KillRaises \/ DispatchBegins \/ DispatchPlans
          \/ MarkRunning \/ DispatchEnds)
    BY DEF CancelKill, ReapRead, ReapAdopted, ReapGone, ReapStragglers, ReapAlive, ReapNext,
           ReapEnds, EnforceBegins, EvictKill, KillRaises, Forget, DispatchBegins, DispatchPlans,
           MarkRunning, DispatchEnds, Goto, loopVars
  <2>2. ~\E j \in Jobs : \/ ReapPoll(j) \/ EnforceEvicted(j) \/ EnforceStrike(j)
                         \/ SpawnFails(j) \/ SpawnRaises(j) \/ \E p \in Pids : Spawn(j, p)
    BY DEF ReapPoll, EnforceEvicted, EnforceStrike, EnforceNext, SpawnFails, SpawnRaises,
           Forget, Spawn, Goto, loopVars
  <2> QED
    BY <1>2, <1>6, <2>1, <2>2 DEF LockHolder
<1> QED
  BY <1>1, <1>3, <1>4, <1>5, <1>6 DEF DaemonNext

LEMMA SignalsRunningStep ==
    ASSUME Base, SignalsRunning, [DaemonNext]_daemonVars
    PROVE  SignalsRunning'
BY Signallers DEF SignalsRunning

LEMMA GuardAlone ==
    ASSUME Base, TrackInv, GuardInv, Alone, NoneNew, phase # "down"
    PROVE  RowsGuarded' /\ FoundGuarded' /\ SpawnIsOurs'
<1>0. exit_file \in [Jobs -> ExitCodes \cup {NULL}]
  BY DEF Base, TypeInv, RunnerTypeOK
<1>1. /\ GroupsMove
      /\ UNCHANGED <<state, pid, gpu_ids, popens, phase, cur, out, todo_jobs>>
  BY DEF Alone
\* The file that is written is that of a job whose pid is its own group's.
<1>2. ASSUME NEW j \in Jobs, Guarded(j), phase = "spawned" => state[j] = "RUNNING"
      PROVE  Guarded(j)'
  <2>1. CASE exit_file'[j] = exit_file[j]
    BY <1>1, <1>2, <2>1, GuardKept
  <2>2. CASE exit_file'[j] # exit_file[j]
    <3>1. PICK p \in Pids, c \in ExitCodes :
            Runs(p) /\ exit_file' = [exit_file EXCEPT ![group[p].owner] = c]
      BY <2>2 DEF Alone, Runs
    <3>2. group[p].owner = j
      BY <1>0, <2>2, <3>1
    <3>3. TrackedBy(j, p)
      BY <3>1, <3>2 DEF TrackInv, RunsOK, TrackedBy
    <3>4. pid[j] = p
      BY <1>2, <3>3 DEF TrackedBy, BeingSpawned, TrackInv, SpawnOK
    <3>5. ~Foreign(p)
      BY <3>2, RunnerAssumption DEF Foreign
    <3>6. ~(Foreign(p)')
      BY <1>1, <3>5, StrangersStay
    <3> QED
      BY <1>1, <3>4, <3>6 DEF Guarded
  <2> QED
    BY <2>1, <2>2
<1>3. RowsGuarded'
  <2> SUFFICES ASSUME NEW j \in Jobs, state[j] = "RUNNING", ~Unrecovered(j)
               PROVE  Guarded(j)'
    BY <1>1 DEF RowsGuarded, Unrecovered
  <2>1. Guarded(j)
    BY DEF GuardInv, RowsGuarded
  <2> QED
    BY <1>2, <2>1
<1>4. FoundGuarded'
  <2> SUFFICES ASSUME phase = "recoverDecide", cur.file = NULL
               PROVE  Guarded(cur.job)'
    BY <1>1 DEF FoundGuarded
  <2>1. PICK j \in Jobs : j = cur.job
    BY CurFields DEF Base, TypeInv, LoopTypes, Visiting
  <2>2. Guarded(j)
    BY <2>1 DEF GuardInv, FoundGuarded
  <2>3. Guarded(j)' /\ j = cur'.job
    BY <1>1, <1>2, <2>1, <2>2
  <2> QED
    BY <2>3 DEF Guarded
<1>5. SpawnIsOurs'
  BY <1>1, StrangersStay DEF GuardInv, SpawnIsOurs
<1> QED
  BY <1>3, <1>4, <1>5

LEMMA GuardStill ==
    ASSUME Base, GuardInv, Still
    PROVE  RowsGuarded' /\ FoundGuarded' /\ SpawnIsOurs'
<1>1. /\ GroupsMove /\ NoneNew /\ UNCHANGED <<state, pid, exit_file>>
      /\ phase' \notin {"spawned", "recoverDecide"}
  BY DEF Still
<1>2. CASE phase \notin Away
  <2>1. phase # "down" /\ \A j \in Jobs : ~Unrecovered(j)
    BY <1>2 DEF Away, Unrecovered
  <2>2. RowsGuarded'
    BY <1>1, <2>1, RowsStayGuarded DEF GuardInv
  <2> QED
    BY <1>1, <2>2 DEF FoundGuarded, SpawnIsOurs
<1>3. CASE Start
  <2>1. phase' = "recover" /\ \A j \in Jobs : state'[j] = "RUNNING" => j \in todo_jobs'
    BY <1>1, <1>3 DEF Start, Running
  <2> QED
    BY <2>1 DEF RowsGuarded, Unrecovered, FoundGuarded, SpawnIsOurs
<1>4. CASE Readopt
  <2>1. /\ phase = "recoverDecide" /\ phase' = "recover"
        /\ todo_jobs' = todo_jobs \ {cur.job} /\ cur.file = NULL
    BY <1>4 DEF Readopt, RecoverNext
  <2>2. Guarded(cur.job)
    BY <2>1 DEF GuardInv, FoundGuarded
  <2>3. \A j \in Jobs : Unrecovered(j) => Unrecovered(j)' \/ Guarded(j)
    BY <2>1, <2>2 DEF Unrecovered
  <2>4. RowsGuarded'
    BY <1>1, <2>1, <2>3, RowsStayGuarded DEF GuardInv
  <2> QED
    BY <1>1, <2>4 DEF FoundGuarded, SpawnIsOurs
<1>5. CASE RecoverEnds
  <2>1. phase = "recover" /\ todo_jobs = {}
    BY <1>5 DEF RecoverEnds
  <2>2. RowsGuarded'
    BY <1>1, <2>1, RowsStayGuarded DEF GuardInv, Unrecovered
  <2> QED
    BY <1>1, <2>2 DEF FoundGuarded, SpawnIsOurs
<1> QED
  BY <1>2, <1>3, <1>4, <1>5 DEF Still

LEMMA GuardSpawn ==
    ASSUME Base, GuardInv, NEW i \in Jobs, NEW p \in Pids, Spawn(i, p)
    PROVE  RowsGuarded' /\ FoundGuarded' /\ SpawnIsOurs'
<1>1. /\ phase = "dispatch" /\ phase' = "spawned" /\ cur'.job = i
      /\ state[i] = "QUEUED" /\ UNCHANGED <<state, pid>>
      /\ exit_file' = [exit_file EXCEPT ![i] = NULL]
  BY Spawned
<1>2. PICK g : /\ g.owner = i /\ group' = [q \in Pids |-> IF q = p THEN g ELSE group[q]]
  BY Spawned
<1>3. PICK po \in Popen : /\ po.pid = p
                          /\ popens' = [k \in Jobs |-> IF k = i THEN po ELSE popens[k]]
  BY Spawned
<1>4. \A q \in Pids : Foreign(q)' => Foreign(q) /\ q # p
  BY <1>2, RunnerAssumption DEF Foreign
<1>5. ASSUME NEW j \in Jobs, state'[j] = "RUNNING"
      PROVE  Guarded(j)'
  <2>1. Guarded(j) /\ exit_file'[j] = exit_file[j] /\ pid'[j] = pid[j]
    BY <1>1, <1>5 DEF GuardInv, RowsGuarded, Unrecovered
  <2> QED
    BY <1>4, <2>1 DEF Guarded
<1>6. SpawnIsOurs'
  BY <1>1, <1>3, <1>4 DEF SpawnIsOurs
<1> QED
  BY <1>1, <1>5, <1>6 DEF RowsGuarded, FoundGuarded

LEMMA GuardMark ==
    ASSUME Base, TrackInv, GuardInv, MarkRunning
    PROVE  RowsGuarded' /\ FoundGuarded' /\ SpawnIsOurs'
<1>1. PICK i : i = cur.job
  OBVIOUS
<1>2. /\ i \in Jobs /\ phase = "spawned" /\ phase' = "dispatch"
      /\ UNCHANGED <<group, exit_file>>
      /\ pid'[i] = popens[i].pid
      /\ \A k \in Jobs : k # i => state'[k] = state[k] /\ pid'[k] = pid[k]
  BY <1>1, Marked
<1>3. \A p \in Pids : Foreign(p)' <=> Foreign(p)
  BY <1>2 DEF Foreign
<1>4. ASSUME NEW j \in Jobs, state'[j] = "RUNNING"
      PROVE  Guarded(j)'
  <2>1. CASE j = i
    BY <1>1, <1>2, <1>3, <2>1 DEF GuardInv, SpawnIsOurs, Guarded
  <2>2. CASE j # i
    <3>1. Guarded(j) /\ pid'[j] = pid[j]
      BY <1>2, <1>4, <2>2 DEF GuardInv, RowsGuarded, Unrecovered
    <3> QED
      BY <1>2, <1>3, <3>1 DEF Guarded
  <2> QED
    BY <2>1, <2>2
<1> QED
  BY <1>2, <1>4 DEF RowsGuarded, FoundGuarded, SpawnIsOurs

LEMMA GuardStep ==
    ASSUME PidsReusedWhileDown, Base, TrackInv, GuardInv, [DaemonNext]_daemonVars
    PROVE  GuardInv'
<1>0. /\ TypeInv /\ Inv /\ RowsGuarded /\ group \in [Pids -> Group \cup {NULL}]
      /\ exit_file \in [Jobs -> ExitCodes \cup {NULL}]
  BY DEF Base, TypeInv, RunnerTypeOK, GuardInv
<1> SUFFICES RowsGuarded' /\ FoundGuarded' /\ SpawnIsOurs'
  BY SignalsRunningStep DEF GuardInv
<1>1. CASE Alone
  <2>1. CASE phase = "down"
    BY <1>1, <2>1 DEF Alone, RowsGuarded, FoundGuarded, SpawnIsOurs
  <2>2. CASE phase # "down"
    <3>1. NoneNew
      BY <1>1, <2>2 DEF Alone, PidsReusedWhileDown
    <3> QED
      BY <1>1, <2>2, <3>1, GuardAlone
  <2> QED
    BY <2>1, <2>2
<1>2. CASE Downs
  BY <1>2 DEF Downs, RowsGuarded, FoundGuarded, SpawnIsOurs
<1>3. ASSUME NEW j \in Jobs, IdleRow(j)
      PROVE  RowsGuarded' /\ FoundGuarded' /\ SpawnIsOurs'
  <2>1. GroupsMove /\ NoneNew
    BY <1>0, <1>3 DEF IdleRow, GroupsMove, NoneNew
  <2>2. phase \in {"idle", "dispatch"} /\ phase' = phase
    BY <1>3 DEF IdleRow
  <2>3. ASSUME NEW k \in Jobs, state'[k] = "RUNNING"
        PROVE  state[k] = "RUNNING" /\ pid'[k] = pid[k] /\ exit_file'[k] = exit_file[k]
    BY <1>0, <1>3, <2>3 DEF IdleRow
  <2>4. \A k \in Jobs : ~Unrecovered(k)
    BY <2>2 DEF Unrecovered
  <2>5. RowsGuarded'
    BY <1>0, <2>1, <2>2, <2>3, <2>4, RowsStayGuarded
  <2> QED
    BY <2>2, <2>5 DEF FoundGuarded, SpawnIsOurs
<1>4. ASSUME NEW j \in Jobs, Finishing(j)
      PROVE  RowsGuarded' /\ FoundGuarded' /\ SpawnIsOurs'
  <2>1. GroupsMove /\ NoneNew
    BY <1>0, <1>4 DEF Finishing, GroupsMove, NoneNew
  <2>2. /\ phase \in {"reapDecide", "recoverDecide"} /\ phase' \in {"reap", "recover"}
        /\ todo_jobs' = todo_jobs \ {j} /\ (phase = "recoverDecide" <=> phase' = "recover")
    BY <1>4 DEF Finishing
  <2>3. ASSUME NEW k \in Jobs, state'[k] = "RUNNING"
        PROVE  /\ k # j /\ state[k] = "RUNNING" /\ pid'[k] = pid[k]
               /\ exit_file'[k] = exit_file[k]
    BY <1>4, <2>3 DEF Finishing
  <2>4. \A k \in Jobs : k # j /\ Unrecovered(k) => Unrecovered(k)'
    BY <2>2 DEF Unrecovered
  <2>5. RowsGuarded'
    BY <1>0, <2>1, <2>2, <2>3, <2>4, RowsStayGuarded
  <2> QED
    BY <2>2, <2>5 DEF FoundGuarded, SpawnIsOurs
<1>5. ASSUME NEW j \in Jobs, ReapPoll(j)
      PROVE  RowsGuarded' /\ FoundGuarded' /\ SpawnIsOurs'
  <2>1. /\ phase = "reap" /\ phase' = "reapRead" /\ UNCHANGED <<state, pid, exit_file>>
        /\ GroupsMove /\ NoneNew
    BY <1>5, Polled
  <2>2. \A k \in Jobs : ~Unrecovered(k)
    BY <2>1 DEF Unrecovered
  <2>3. RowsGuarded'
    BY <1>0, <2>1, <2>2, RowsStayGuarded
  <2> QED
    BY <2>1, <2>3 DEF FoundGuarded, SpawnIsOurs
<1>6. ASSUME NEW j \in Jobs, RecoverRead(j) \/ (j = cur.job /\ ReapRead)
      PROVE  RowsGuarded' /\ FoundGuarded' /\ SpawnIsOurs'
  <2>1. /\ cur'.job = j /\ cur'.file = exit_file[j]
        /\ phase \in {"reapRead", "recover"} /\ phase' \in {"reapDecide", "recoverDecide"}
        /\ phase = "recover" <=> phase' = "recoverDecide"
        /\ UNCHANGED <<state, pid, group, exit_file, todo_jobs>>
        /\ GroupsMove
    BY <1>6, FileRead
  <2>2. NoneNew
    BY <2>1 DEF NoneNew
  <2>3. \A k \in Jobs : Unrecovered(k) => Unrecovered(k)'
    BY <2>1 DEF Unrecovered
  <2>4. RowsGuarded'
    BY <1>0, <2>1, <2>2, <2>3, RowsStayGuarded
  <2>5. exit_file[j] = NULL => Guarded(j)'
    BY <2>1 DEF Guarded
  <2>6. FoundGuarded'
    BY <2>1, <2>5 DEF FoundGuarded, Guarded
  <2> QED
    BY <2>1, <2>4, <2>6 DEF SpawnIsOurs
<1>7. ReapRead => cur.job \in Jobs
  BY <1>0, CurFields DEF ReapRead, TypeInv, LoopTypes, Visiting
<1> QED
  BY <1>0, <1>1, <1>2, <1>3, <1>4, <1>5, <1>6, <1>7, GuardStill, GuardSpawn, GuardMark,
     StepKinds

LEMMA SignalGuarded ==
    ASSUME Base, GuardInv, [DaemonNext]_daemonVars,
           NEW p \in Pids, group[p] # NULL, group[p].owner = FOREIGN, GetsSignal(p)
    PROVE  \E j \in Running : pid[j] = p /\ exit_file[j] = NULL
<1>1. PICK j : j = cur.job
  OBVIOUS
<1>2. pid[j] = p /\ phase \in {"cancelKill", "evictKill", "reapDecide"}
  <2>1. CASE phase \in {"cancelKill", "evictKill"} /\ pid[cur.job] = p
    BY <1>1, <2>1
  <2>2. CASE group[p].rest = "alive" /\ group'[p] # NULL /\ group'[p].rest = "dying"
    <3>1. /\ ReapStragglers \/ ReapAlive
          /\ KillTree(pid[cur.job], "KILL")
      BY <2>2, WhoKills DEF Spares
    <3> QED
      BY <1>1, <2>2, <3>1, KillsOne
         DEF ReapStragglers, ReapAlive, Base, TypeInv, RunnerTypeOK
  <2> QED
    BY <2>1, <2>2 DEF GetsSignal
<1>3. j \in Jobs /\ state[j] = "RUNNING"
  BY <1>1, <1>2, CurFields
     DEF Base, TypeInv, LoopTypes, Visiting, CarryInv, LoopOK, Running, GuardInv, SignalsRunning
<1>4. Guarded(j)
  BY <1>2, <1>3 DEF GuardInv, RowsGuarded, Unrecovered
<1>5. exit_file[j] = NULL
  BY <1>2, <1>4 DEF Guarded, Foreign
<1> QED
  BY <1>2, <1>3, <1>5 DEF Running

\* What the exit file is for (daemon.py:171-174): as long as pids are reused only while
\* the daemon is down, a stranger that got the pid of a RUNNING job is never signalled if
\* the job's wrapper wrote its file, however the daemon crashes and restarts (but for the
\* instants between launch() and mark_running).
THEOREM ExitFilesGuard ==
    ASSUME NoCrashInLaunch, PidsReusedWhileDown
    PROVE  DaemonSpec => ExitFileGuardsPid
<1> DEFINE Guards ==
      \A p \in Pids :
          (group[p] # NULL /\ group[p].owner = FOREIGN /\ GetsSignal(p))
          => \E j \in Running : pid[j] = p /\ exit_file[j] = NULL
<1>1. Base /\ GuardInv /\ [DaemonNext]_daemonVars => Guards
  BY SignalGuarded
<1> HIDE DEF Guards
<1>2. DaemonInit => GuardInv
  BY GuardInit
<1>3. Base /\ TrackInv /\ GuardInv /\ [DaemonNext]_daemonVars => GuardInv'
  BY GuardStep
<1>4. DaemonSpec => [][Guards]_daemonVars
  BY <1>1, <1>2, <1>3, TrackAlways, PTL DEF DaemonSpec
<1> QED
  BY <1>4, PTL DEF ExitFileGuardsPid, Guards

-----------------------------------------------------------------------------
(* Why a job ended: strikes, evictions and cancellations. *)

\* What a step does to strikes and evictions.
Polices(j) == EnforceStrike(j) \/ Evict(j)

Overlooked ==
    /\ UNCHANGED <<vram_strikes, evicted>>
    /\ ~(phase = "reap" /\ phase' = "enforce")
    /\ phase' \in {"enforce", "evictKill"} =>
         phase \in {"enforce", "evictKill"} /\ todo_jobs' \subseteq todo_jobs
    /\ phase \in {"enforce", "evictKill"} =>
         \/ todo_jobs = {}
         \/ phase' \in {"enforce", "evictKill"} /\ todo_jobs \ todo_jobs' \subseteq evicted

Forgiven(j) ==
    /\ phase \in {"reapDecide", "recoverDecide"} /\ phase' \in {"reap", "recover"}
    /\ state'[j] # "RUNNING"
    /\ vram_strikes' = [vram_strikes EXCEPT ![j] = 0]
    /\ evicted' = evicted \ {j}

MemoryLost ==
    /\ phase' = "down" /\ vram_strikes' = [j \in Jobs |-> 0] /\ evicted' = {}
    /\ Crash \/ Reboot \/ KillRaises \/ \E j \in Jobs : SpawnRaises(j)

LEMMA PolicingKinds ==
    ASSUME Base, [DaemonNext]_daemonVars
    PROVE  \/ EnforceBegins
           \/ \E j \in Jobs : Polices(j) \/ Forgiven(j)
           \/ MemoryLost
           \/ Overlooked
<1>0. TypeInv /\ Inv
  BY DEF Base
<1>1. CASE Users
  BY <1>1 DEF Users, SubmitJob, CancelQueuedJob, CancelRunningJob, RequeueJob, Goto, loopVars,
              memoryVars, Overlooked
<1>2. CASE CycleBegins \/ CancelKill \/ ReapRead \/ ReapStragglers \/ ReapAlive \/ ReapEnds
  BY <1>2 DEF CycleBegins, CancelKill, ReapRead, ReapStragglers, ReapAlive, ReapNext,
              ReapEnds, Goto, memoryVars, Overlooked
<1>3. CASE EvictKill \/ DispatchBegins \/ DispatchPlans \/ MarkRunning \/ DispatchEnds
  BY <1>3 DEF EvictKill, DispatchBegins, DispatchPlans, MarkRunning, DispatchEnds, Goto,
              loopVars, memoryVars, Overlooked
<1>4. CASE Start \/ Readopt \/ RecoverEnds \/ Processes \/ UNCHANGED daemonVars
  BY <1>4 DEF Start, Readopt, RecoverNext, RecoverEnds, Goto, Processes, ProcessStep,
              daemonVars, loopVars, memoryVars, Overlooked
<1>5. CASE \E j \in Jobs : \/ ReapPoll(j) \/ EnforceEvicted(j) \/ SpawnFails(j)
                           \/ RecoverRead(j) \/ \E p \in Pids : Spawn(j, p)
  BY <1>5 DEF ReapPoll, EnforceEvicted, EnforceNext, SpawnFails, RecoverRead, Spawn, Goto,
              loopVars, memoryVars, Overlooked
<1>6. CASE ReapAdopted \/ ReapGone \/ RecoverFinalizes
  <2>1. PICK code \in Codes \cup {NULL} : Finalize(cur.job, code)
    BY <1>0, <1>6, FinalizedCode
  <2>2. cur.job \in Jobs /\ Finishing(cur.job)
    BY <1>0, <1>6, FinishingSteps
  <2>3. Forgiven(cur.job)
    BY <2>1, <2>2 DEF Finalize, Finishing, Forgiven
  <2> QED
    BY <2>2, <2>3
<1>7. CASE Crash \/ Reboot \/ KillRaises \/ \E j \in Jobs : SpawnRaises(j)
  BY <1>7 DEF Crash, Reboot, KillRaises, SpawnRaises, Forget, EmptyMemory, MemoryLost
<1> QED
  BY <1>1, <1>2, <1>3, <1>4, <1>5, <1>6, <1>7
     DEF DaemonNext, LockHolder, Recovery, Polices

\* What is counted of a job.
LEMMA CountedNext ==
    ASSUME PolicingNext, NEW j \in Jobs
    PROVE  /\ state'[j] # "RUNNING" => overs'[j] = 0
           /\ state'[j] = "RUNNING" /\ ~(phase = "reap" /\ phase' = "enforce")
                => overs'[j] = overs[j]
           /\ state'[j] = "RUNNING" /\ phase = "reap" /\ phase' = "enforce"
                => overs'[j] = IF j \notin OverBudget THEN 0
                               ELSE IF overs[j] < VRAM_STRIKES THEN overs[j] + 1 ELSE overs[j]
<1>1. overs'[j] = Counted(j)
  BY DEF PolicingNext, Record
<1>2. j \in Running' <=> state'[j] = "RUNNING"
  BY DEF Running
<1>3. CASE state'[j] # "RUNNING"
  <2>1. Counted(j) = 0
    BY <1>2, <1>3 DEF Counted
  <2> QED
    BY <1>1, <1>3, <2>1
<1>4. CASE state'[j] = "RUNNING" /\ ~(phase = "reap" /\ phase' = "enforce")
  <2>1. Counted(j) = overs[j]
    BY <1>2, <1>4 DEF Counted
  <2> QED
    BY <1>1, <1>4, <2>1
<1>5. CASE state'[j] = "RUNNING" /\ phase = "reap" /\ phase' = "enforce"
  <2>1. Counted(j) = IF j \notin OverBudget THEN 0
                     ELSE IF overs[j] < VRAM_STRIKES THEN overs[j] + 1 ELSE overs[j]
    BY <1>2, <1>5 DEF Counted
  <2> QED
    BY <1>1, <1>5, <2>1
<1> QED
  BY <1>3, <1>4, <1>5

OversOK == overs \in [Jobs -> 0..VRAM_STRIKES]

LEMMA OversStep ==
    ASSUME OversOK, PolicingNext
    PROVE  OversOK'
<1>1. VRAM_STRIKES \in Nat
  BY DaemonAssumption
<1>2. ASSUME NEW j \in Jobs
      PROVE  overs'[j] \in 0..VRAM_STRIKES
  <2>1. overs[j] \in 0..VRAM_STRIKES
    BY DEF OversOK
  <2>2. overs'[j] \in {0, overs[j]} \/ (overs[j] < VRAM_STRIKES /\ overs'[j] = overs[j] + 1)
    BY CountedNext
  <2>3. PICK n \in 0..VRAM_STRIKES : n = overs[j]
    BY <2>1
  <2>4. n < VRAM_STRIKES => n + 1 \in 0..VRAM_STRIKES
    BY <1>1
  <2>5. 0 \in 0..VRAM_STRIKES
    BY <1>1
  <2> QED
    BY <2>2, <2>3, <2>4, <2>5
<1>3. overs' = [j \in Jobs |-> overs'[j]]
  BY DEF PolicingNext, Record
<1> QED
  BY <1>2, <1>3 DEF OversOK

\* The daemon's count of strikes is never ahead of the cycles the job was over budget,
\* and a job that is about to be judged was over in this cycle too.
StrikeInv ==
    /\ \A j \in Jobs : vram_strikes[j] <= overs[j]
    /\ phase \in {"enforce", "evictKill"} =>
         \A j \in todo_jobs : overs[j] > vram_strikes[j]

\* What one cycle makes of strikes s and count n.
LEMMA StrikeNumbers ==
    ASSUME NEW s \in 0..(VRAM_STRIKES - 1), NEW n \in 0..VRAM_STRIKES, s <= n
    PROVE  /\ 0 <= n
           /\ n < VRAM_STRIKES => s < n + 1 /\ s <= n + 1
           /\ ~(n < VRAM_STRIKES) => s < n
           /\ s < n => s + 1 <= n
           /\ s < n /\ s + 1 >= VRAM_STRIKES => n = VRAM_STRIKES
           /\ n <= s => n # VRAM_STRIKES /\ n + 1 <= s + 1
BY DaemonAssumption

LEMMA StrikeStep ==
    ASSUME Base, CarryInv', OversOK, StrikeInv, PolicingNext
    PROVE  StrikeInv'
<1>0. /\ vram_strikes \in [Jobs -> 0..(VRAM_STRIKES - 1)] /\ DaemonNext
      /\ todo_jobs \subseteq Jobs /\ todo_jobs' \subseteq Jobs
      /\ \A j \in Jobs : overs[j] \in 0..VRAM_STRIKES /\ vram_strikes[j] <= overs[j]
  BY LoopTypesStep
     DEF Base, TypeInv, MemoryTypes, LoopTypes, PolicingNext, OversOK, StrikeInv
<1>1. CASE EnforceBegins
  <2>1. /\ phase = "reap" /\ phase' = "enforce" /\ todo_jobs' = OverBudget /\ state' = state
        /\ \A j \in Jobs : vram_strikes'[j] = IF j \in OverBudget THEN vram_strikes[j] ELSE 0
        /\ OverBudget \subseteq Running
    BY <1>1 DEF EnforceBegins, dispatchVars, ledgerVars, OverBudget
  <2>2. ASSUME NEW j \in Jobs
        PROVE  /\ vram_strikes'[j] <= overs'[j]
               /\ j \in OverBudget => overs'[j] > vram_strikes'[j]
    <3>1. CASE j \notin OverBudget
      <4>1. overs'[j] = 0 /\ vram_strikes'[j] = 0
        BY <2>1, <3>1, CountedNext
      <4> QED
        BY <3>1, <4>1
    <3>2. CASE j \in OverBudget
      <4>1. state'[j] = "RUNNING"
        BY <2>1, <3>2 DEF Running
      <4>2. /\ vram_strikes'[j] = vram_strikes[j]
            /\ overs'[j] = IF overs[j] < VRAM_STRIKES THEN overs[j] + 1 ELSE overs[j]
        BY <2>1, <3>2, <4>1, CountedNext
      <4>3. PICK s \in 0..(VRAM_STRIKES - 1), n \in 0..VRAM_STRIKES :
               s = vram_strikes[j] /\ n = overs[j] /\ s <= n
        BY <1>0
      <4>4. /\ n < VRAM_STRIKES => s < n + 1
            /\ ~(n < VRAM_STRIKES) => s < n
        BY <4>3, StrikeNumbers
      <4>5. s < overs'[j]
        BY <4>2, <4>3, <4>4
      <4>6. overs'[j] \in Int /\ s \in Int
        BY <4>2, <4>3, DaemonAssumption
      <4> QED
        BY <4>2, <4>3, <4>5, <4>6
    <3> QED
      BY <3>1, <3>2
  <2> QED
    BY <1>0, <2>1, <2>2 DEF StrikeInv
<1>2. ASSUME NEW i \in Jobs, Polices(i)
      PROVE  StrikeInv'
  <2>1. /\ phase = "enforce" /\ phase' \in {"enforce", "evictKill"}
        /\ i \in todo_jobs /\ todo_jobs' = todo_jobs \ {i} /\ state' = state
        /\ \/ vram_strikes' = [vram_strikes EXCEPT ![i] = @ + 1]
           \/ vram_strikes' = [vram_strikes EXCEPT ![i] = 0]
    BY <1>2 DEF Polices, EnforceStrike, Evict, EnforceNext, dispatchVars, ledgerVars
  <2>2. ASSUME NEW j \in Jobs
        PROVE  \/ overs'[j] = overs[j]
               \/ overs'[j] = 0 /\ vram_strikes'[j] = 0 /\ j \notin todo_jobs
    <3>1. CASE state[j] = "RUNNING"
      BY <2>1, <3>1, CountedNext
    <3>2. CASE state[j] # "RUNNING"
      <4>1. overs'[j] = 0 /\ j \notin todo_jobs
        BY <2>1, <3>2, CountedNext DEF Base, CarryInv, LoopOK, Running
      <4>2. vram_strikes[j] = 0
        BY <1>0, <3>2 DEF Base, CarryInv, NothingCarriesOver, Running
      <4>3. vram_strikes'[j] = vram_strikes[j]
        BY <1>0, <2>1, <4>1
      <4> QED
        BY <4>1, <4>2, <4>3
    <3> QED
      BY <3>1, <3>2
  <2>3. ASSUME NEW j \in Jobs
        PROVE  /\ vram_strikes'[j] <= overs'[j]
               /\ j \in todo_jobs' => overs'[j] > vram_strikes'[j]
    <3>1. CASE overs'[j] = 0 /\ vram_strikes'[j] = 0 /\ j \notin todo_jobs
      BY <2>1, <3>1
    <3>2. CASE overs'[j] = overs[j] /\ j # i
      <4>1. vram_strikes'[j] = vram_strikes[j]
        BY <1>0, <2>1, <3>2
      <4> QED
        BY <1>0, <2>1, <3>2, <4>1 DEF StrikeInv
    <3>3. CASE overs'[j] = overs[j] /\ j = i
      <4>1. PICK s \in 0..(VRAM_STRIKES - 1), n \in 0..VRAM_STRIKES :
               s = vram_strikes[j] /\ n = overs[j] /\ s <= n /\ n > s
        BY <1>0, <2>1, <3>3 DEF StrikeInv
      <4>2. vram_strikes'[j] \in {0, s + 1}
        BY <1>0, <2>1, <3>3, <4>1
      <4>3. s + 1 <= n /\ 0 <= n
        BY <4>1, StrikeNumbers
      <4>4. j \notin todo_jobs'
        BY <2>1, <3>3
      <4> QED
        BY <3>3, <4>1, <4>2, <4>3, <4>4
    <3> QED
      BY <2>2, <3>1, <3>2, <3>3
  <2> QED
    BY <1>0, <2>3 DEF StrikeInv
\* In the other steps a strike is kept or dropped, and so is the count.
<1>3. ASSUME ~(phase = "reap" /\ phase' = "enforce"),
             \A j \in Jobs : vram_strikes'[j] \in {0, vram_strikes[j]}
      PROVE  \A j \in Jobs : vram_strikes'[j] <= overs'[j]
  <2> SUFFICES ASSUME NEW j \in Jobs
               PROVE  vram_strikes'[j] <= overs'[j]
    OBVIOUS
  <2>0. PICK s \in 0..(VRAM_STRIKES - 1), n \in 0..VRAM_STRIKES :
           s = vram_strikes[j] /\ n = overs[j] /\ s <= n
    BY <1>0
  <2>1. CASE state'[j] = "RUNNING"
    <3>1. overs'[j] = n /\ vram_strikes'[j] \in {0, s}
      BY <1>3, <2>0, <2>1, CountedNext
    <3> QED
      BY <2>0, <3>1
  <2>2. CASE state'[j] # "RUNNING"
    <3>1. overs'[j] = 0 /\ ~(vram_strikes'[j] > 0)
      BY <2>2, CountedNext DEF CarryInv, NothingCarriesOver, Running
    <3>2. vram_strikes'[j] \in {0, s}
      BY <1>3, <2>0
    <3> QED
      BY <3>1, <3>2
  <2> QED
    BY <2>1, <2>2
<1>4. ASSUME NEW i \in Jobs, Forgiven(i)
      PROVE  StrikeInv'
  <2>1. \A j \in Jobs : vram_strikes'[j] \in {0, vram_strikes[j]}
    BY <1>0, <1>4 DEF Forgiven
  <2> QED
    BY <1>3, <1>4, <2>1 DEF Forgiven, StrikeInv
<1>5. CASE MemoryLost
  BY <1>3, <1>5 DEF MemoryLost, StrikeInv
<1>6. CASE Overlooked
  <2>1. \A j \in Jobs : vram_strikes'[j] <= overs'[j]
    BY <1>3, <1>6 DEF Overlooked
  <2>2. ASSUME phase' \in {"enforce", "evictKill"}, NEW j \in todo_jobs'
        PROVE  overs'[j] > vram_strikes'[j]
    <3>1. j \in todo_jobs /\ j \in Jobs /\ phase \in {"enforce", "evictKill"}
      BY <1>0, <1>6, <2>2 DEF Overlooked
    <3>2. overs[j] > vram_strikes[j] /\ vram_strikes'[j] = vram_strikes[j]
      BY <1>6, <3>1 DEF StrikeInv, Overlooked
    <3>3. state'[j] = "RUNNING"
      BY <2>2 DEF CarryInv, LoopOK, Running
    <3> QED
      BY <1>6, <3>1, <3>2, <3>3, CountedNext DEF Overlooked
  <2> QED
    BY <2>1, <2>2 DEF StrikeInv
<1> QED
  BY <1>0, <1>1, <1>2, <1>4, <1>5, <1>6, PolicingKinds

LEMMA PolicingIsDaemon == PolicingSpec => DaemonSpec
<1>1. PolicingInit => DaemonInit
  BY DEF PolicingInit
<1>2. [PolicingNext]_policingVars => [DaemonNext]_daemonVars
  BY DEF PolicingNext, policingVars
<1> QED
  BY <1>1, <1>2, PTL DEF PolicingSpec, DaemonSpec

LEMMA StrikesInit == PolicingInit => OversOK /\ StrikeInv
<1> SUFFICES ASSUME PolicingInit PROVE OversOK /\ StrikeInv
  OBVIOUS
<1>1. /\ overs = [j \in Jobs |-> 0] /\ vram_strikes = [j \in Jobs |-> 0] /\ phase = "idle"
  BY DEF PolicingInit, DaemonInit
<1>2. 0 \in 0..VRAM_STRIKES
  BY DaemonAssumption
<1> QED
  BY <1>1, <1>2 DEF OversOK, StrikeInv

LEMMA StrikesAlways == PolicingSpec => []((Base /\ CarryInv) /\ OversOK /\ StrikeInv)
<1>1. PolicingInit => OversOK /\ StrikeInv
  BY StrikesInit
<1>2. Base /\ Base' /\ OversOK /\ StrikeInv /\ [PolicingNext]_policingVars
        => OversOK' /\ StrikeInv'
  <2> SUFFICES ASSUME Base, Base', OversOK, StrikeInv, [PolicingNext]_policingVars
               PROVE  OversOK' /\ StrikeInv'
    OBVIOUS
  <2>1. CASE PolicingNext
    <3>1. CarryInv'
      BY DEF Base
    <3> QED
      BY <2>1, <3>1, OversStep, StrikeStep
  <2>2. CASE UNCHANGED policingVars
    BY <2>2 DEF policingVars, daemonVars, loopVars, memoryVars, OversOK, StrikeInv
  <2> QED
    BY <2>1, <2>2
<1>3. Base => CarryInv
  BY DEF Base
<1> QED
  BY <1>1, <1>2, <1>3, PolicingIsDaemon, BaseAlways, PTL DEF PolicingSpec

\* _enforce_vram: a job is evicted only after VRAM_STRIKES policed cycles on end over its
\* budget, all of them in its present run, whenever the daemon or the machine goes down:
\* what is counted is never more than what happened.
THEOREM EvictionsAreEarned == PolicingSpec => EvictionIsEarned
<1> DEFINE Earned == \A j \in evicted' \ evicted : overs[j] = VRAM_STRIKES
<1>1. Base /\ OversOK /\ StrikeInv /\ [PolicingNext]_policingVars => Earned
  <2> SUFFICES ASSUME Base, OversOK, StrikeInv, [PolicingNext]_policingVars,
                      NEW j \in evicted' \ evicted
               PROVE  overs[j] = VRAM_STRIKES
    OBVIOUS
  <2>1. Evict(j) /\ j \in Jobs
    <3>1. [DaemonNext]_daemonVars
      BY DEF PolicingNext, policingVars
    <3>2. ~EnforceBegins /\ ~MemoryLost /\ ~Overlooked
      BY DEF EnforceBegins, MemoryLost, Overlooked
    <3>3. PICK i \in Jobs : Polices(i) \/ Forgiven(i)
      BY <3>1, <3>2, PolicingKinds
    <3>4. Evict(i)
      BY <3>3 DEF Polices, Forgiven, EnforceStrike
    <3> QED
      BY <3>4 DEF Evict
  <2>2. j \in todo_jobs /\ phase = "enforce" /\ vram_strikes[j] + 1 >= VRAM_STRIKES
    BY <2>1 DEF Evict, EnforceNext
  <2>3. PICK s \in 0..(VRAM_STRIKES - 1), n \in 0..VRAM_STRIKES :
           s = vram_strikes[j] /\ n = overs[j] /\ s <= n
    BY <2>1 DEF Base, TypeInv, MemoryTypes, OversOK, StrikeInv
  <2>4. n > s /\ s + 1 >= VRAM_STRIKES
    BY <2>2, <2>3 DEF StrikeInv
  <2>5. n = VRAM_STRIKES
    BY <2>3, <2>4, StrikeNumbers
  <2> QED
    BY <2>3, <2>5
<1> HIDE DEF Earned
<1>2. PolicingSpec => [][Earned]_policingVars
  BY <1>1, StrikesAlways, PTL DEF PolicingSpec
<1> QED
  BY <1>2, PTL DEF EvictionIsEarned, Earned

LEMMA NothingLost ==
    ASSUME StaysUp, Base, [DaemonNext]_daemonVars
    PROVE  ~MemoryLost
<1>1. crashes \in 0..0
  BY DEF Base, TypeInv, CrashTypes, StaysUp
<1>2. ~(crashes < MaxCrashes)
  BY <1>1 DEF StaysUp
<1> QED
  BY <1>2 DEF MemoryLost, Crash, Reboot, KillRaises, Refused, SpawnRaises, StaysUp

\* A job that was over for longer than it has strikes is being evicted, or is judged now.
OffendInv ==
    \A j \in Jobs : j \notin evicted =>
        \/ overs[j] <= vram_strikes[j]
        \/ /\ phase \in {"enforce", "evictKill"} /\ j \in todo_jobs
           /\ overs[j] <= vram_strikes[j] + 1

LEMMA OffendStep ==
    ASSUME StaysUp, Base, OversOK, OffendInv, PolicingNext
    PROVE  OffendInv'
<1>0. /\ vram_strikes \in [Jobs -> 0..(VRAM_STRIKES - 1)] /\ DaemonNext
      /\ \A j \in Jobs : overs[j] \in 0..VRAM_STRIKES
  BY DEF Base, TypeInv, MemoryTypes, PolicingNext, OversOK
<1>1. CASE EnforceBegins
  <2>1. /\ phase = "reap" /\ phase' = "enforce" /\ todo_jobs' = OverBudget /\ state' = state
        /\ \A j \in Jobs : vram_strikes'[j] = IF j \in OverBudget THEN vram_strikes[j] ELSE 0
        /\ OverBudget \subseteq Running /\ evicted' = evicted
    BY <1>1 DEF EnforceBegins, dispatchVars, ledgerVars, OverBudget
  <2> SUFFICES ASSUME NEW j \in Jobs, j \notin evicted
               PROVE  \/ overs'[j] <= vram_strikes'[j]
                      \/ j \in todo_jobs' /\ overs'[j] <= vram_strikes'[j] + 1
    BY <2>1 DEF OffendInv
  <2>2. CASE j \notin OverBudget
    <3>1. overs'[j] = 0 /\ vram_strikes'[j] = 0
      BY <2>1, <2>2, CountedNext
    <3> QED
      BY <3>1
  <2>3. CASE j \in OverBudget
    <3>1. state'[j] = "RUNNING"
      BY <2>1, <2>3 DEF Running
    <3>2. PICK s \in 0..(VRAM_STRIKES - 1), n \in 0..VRAM_STRIKES :
             s = vram_strikes[j] /\ n = overs[j] /\ n <= s
      BY <1>0, <2>1 DEF OffendInv
    <3>3. vram_strikes'[j] = s /\ overs'[j] \in {n, n + 1}
      BY <2>1, <2>3, <3>1, <3>2, CountedNext
    <3>4. n + 1 <= s + 1 /\ n <= s + 1
      BY <3>2
    <3> QED
      BY <2>1, <2>3, <3>3, <3>4
  <2> QED
    BY <2>2, <2>3
\* In the other steps the count is kept or dropped.
<1>2. ASSUME NEW j \in Jobs, ~(phase = "reap" /\ phase' = "enforce")
      PROVE  overs'[j] \in {0, overs[j]}
  BY <1>2, CountedNext
<1>3. ASSUME NEW i \in Jobs, Polices(i)
      PROVE  OffendInv'
  <2>1. /\ phase = "enforce" /\ phase' \in {"enforce", "evictKill"}
        /\ todo_jobs' = todo_jobs \ {i}
    BY <1>3 DEF Polices, EnforceStrike, Evict, EnforceNext
  <2>2. \/ evicted' = evicted /\ vram_strikes' = [vram_strikes EXCEPT ![i] = @ + 1]
        \/ evicted' = evicted \cup {i} /\ vram_strikes' = [vram_strikes EXCEPT ![i] = 0]
    BY <1>3 DEF Polices, EnforceStrike, Evict
  <2> SUFFICES ASSUME NEW j \in Jobs, j \notin evicted'
               PROVE  \/ overs'[j] <= vram_strikes'[j]
                      \/ j \in todo_jobs' /\ overs'[j] <= vram_strikes'[j] + 1
    BY <2>1 DEF OffendInv
  <2>3. PICK s \in 0..(VRAM_STRIKES - 1), n \in 0..VRAM_STRIKES :
           s = vram_strikes[j] /\ n = overs[j] /\ (n <= s \/ (j \in todo_jobs /\ n <= s + 1))
    BY <1>0, <2>2 DEF OffendInv
  <2>4. overs'[j] \in {0, n}
    BY <1>2, <2>1, <2>3
  <2>5. CASE j # i
    <3>1. vram_strikes'[j] = s
      BY <1>0, <2>2, <2>3, <2>5
    <3> QED
      BY <2>1, <2>3, <2>4, <2>5, <3>1
  <2>6. CASE j = i
    <3>1. vram_strikes'[j] = s + 1
      BY <1>0, <2>2, <2>3, <2>6
    <3> QED
      BY <2>3, <2>4, <3>1
  <2> QED
    BY <2>5, <2>6
<1>4. ASSUME NEW i \in Jobs, Forgiven(i)
      PROVE  OffendInv'
  <2>1. /\ phase \notin {"enforce", "evictKill", "reap"}
        /\ vram_strikes' = [vram_strikes EXCEPT ![i] = 0]
        /\ evicted' = evicted \ {i} /\ state'[i] # "RUNNING"
    BY <1>4 DEF Forgiven
  <2> SUFFICES ASSUME NEW j \in Jobs, j \notin evicted'
               PROVE  overs'[j] <= vram_strikes'[j]
    BY DEF OffendInv
  <2>2. CASE j = i
    <3>1. overs'[j] = 0 /\ vram_strikes'[j] = 0
      BY <1>0, <2>1, <2>2, CountedNext
    <3> QED
      BY <3>1
  <2>3. CASE j # i
    <3>1. PICK s \in 0..(VRAM_STRIKES - 1), n \in 0..VRAM_STRIKES :
             s = vram_strikes[j] /\ n = overs[j] /\ n <= s
      BY <1>0, <2>1, <2>3 DEF OffendInv
    <3>2. vram_strikes'[j] = s /\ overs'[j] \in {0, n}
      BY <1>0, <1>2, <2>1, <2>3, <3>1
    <3> QED
      BY <3>1, <3>2
  <2> QED
    BY <2>2, <2>3
<1>5. CASE Overlooked
  <2>1. /\ UNCHANGED <<vram_strikes, evicted>> /\ ~(phase = "reap" /\ phase' = "enforce")
        /\ phase \in {"enforce", "evictKill"} =>
             \/ todo_jobs = {}
             \/ phase' \in {"enforce", "evictKill"} /\ todo_jobs \ todo_jobs' \subseteq evicted
    BY <1>5 DEF Overlooked
  <2> SUFFICES ASSUME NEW j \in Jobs, j \notin evicted
               PROVE  \/ overs'[j] <= vram_strikes'[j]
                      \/ /\ phase' \in {"enforce", "evictKill"} /\ j \in todo_jobs'
                         /\ overs'[j] <= vram_strikes'[j] + 1
    BY <2>1 DEF OffendInv
  <2>2. PICK s \in 0..(VRAM_STRIKES - 1), n \in 0..VRAM_STRIKES :
           /\ s = vram_strikes[j] /\ n = overs[j]
           /\ n <= s \/ (/\ phase \in {"enforce", "evictKill"} /\ j \in todo_jobs
                         /\ n <= s + 1)
    BY <1>0 DEF OffendInv
  <2>3. overs'[j] \in {0, n} /\ vram_strikes'[j] = s
    BY <1>2, <2>1, <2>2
  <2>4. CASE n <= s
    BY <2>2, <2>3, <2>4
  <2>5. CASE /\ phase \in {"enforce", "evictKill"} /\ j \in todo_jobs /\ n <= s + 1
    <3>1. phase' \in {"enforce", "evictKill"} /\ j \in todo_jobs'
      BY <2>1, <2>5
    <3> QED
      BY <2>2, <2>3, <2>5, <3>1
  <2> QED
    BY <2>2, <2>4, <2>5
<1> QED
  BY <1>0, <1>1, <1>3, <1>4, <1>5, PolicingKinds, NothingLost

\* ... and then it is (_enforce_vram, daemon.py:212-234): while the daemon stays up, no
\* job that has been over its budget for VRAM_STRIKES policed cycles on end gets past the
\* cycle's dispatch without being evicted.
THEOREM OffendersGo ==
    ASSUME StaysUp
    PROVE  PolicingSpec => []OffendersAreEvicted
<1>1. PolicingInit => OffendInv
  BY DaemonAssumption DEF PolicingInit, DaemonInit, OffendInv
<1>2. Base /\ OversOK /\ OffendInv /\ [PolicingNext]_policingVars => OffendInv'
  <2> SUFFICES ASSUME Base, OversOK, OffendInv, [PolicingNext]_policingVars
               PROVE  OffendInv'
    OBVIOUS
  <2>1. CASE UNCHANGED policingVars
    BY <2>1 DEF policingVars, daemonVars, loopVars, memoryVars, OffendInv
  <2> QED
    BY <2>1, OffendStep
<1>3. Base /\ OversOK /\ OffendInv => OffendersAreEvicted
  <2> SUFFICES ASSUME Base, OversOK, OffendInv, phase = "dispatch",
                      NEW j \in Jobs, overs[j] = VRAM_STRIKES
               PROVE  j \in evicted /\ cancel_requested_at[j] # NULL
    BY DEF OffendersAreEvicted, Running
  <2>1. PICK s \in 0..(VRAM_STRIKES - 1), n \in 0..VRAM_STRIKES :
           s = vram_strikes[j] /\ n = overs[j]
    BY DEF Base, TypeInv, MemoryTypes, OversOK
  <2>2. ~(n <= s)
    BY <2>1, DaemonAssumption
  <2>3. j \in evicted
    BY <2>1, <2>2 DEF OffendInv
  <2> QED
    BY <2>3 DEF Base, CarryInv, NothingCarriesOver
<1> QED
  BY <1>1, <1>2, <1>3, StrikesAlways, PTL DEF PolicingSpec

\* Who asked for a cancellation: the user, or the eviction.
AskInv ==
    \A j \in Jobs : state[j] = "RUNNING" /\ cancel_requested_at[j] # NULL
                      => j \in evicted \cup asked

\* Where a cancel request comes from.
LEMMA Requests ==
    ASSUME Base, [DaemonNext]_daemonVars, NEW j \in Jobs,
           state'[j] = "RUNNING", cancel_requested_at'[j] # NULL
    PROVE  \/ state[j] = "RUNNING" /\ cancel_requested_at[j] # NULL
           \/ phase' = "cancelKill" /\ cur'.job = j
           \/ j \in evicted'
<1>0. /\ TypeInv /\ Inv /\ state \in [Jobs -> States \cup {NULL}] /\ QueueOK
      /\ cancel_requested_at \in [Jobs -> 0..(CANCEL_GRACE_S + 1) \cup {NULL}]
  BY DEF Base, Inv, DispatchTypeOK, LedgerTypeOK, TypeInv, RowTypeOK
<1>1. CASE Users
  <2>1. PICK i \in Jobs : \/ SubmitJob(i) \/ CancelQueuedJob(i)
                          \/ CancelRunningJob(i) \/ RequeueJob(i)
    BY <1>1 DEF Users
  <2>2. CASE CancelRunningJob(i)
    <3>1. /\ phase' = "cancelKill" /\ cur'.job = i /\ state' = state
          /\ cancel_requested_at' = [cancel_requested_at EXCEPT ![i] = 0]
      BY <2>2 DEF CancelRunningJob, MarkCancelRequested, About, Goto, dispatchVars, ledgerVars
    <3> QED
      BY <1>0, <3>1
  <2>3. CASE SubmitJob(i) \/ CancelQueuedJob(i) \/ RequeueJob(i)
    <3>1. IdleRow(i)
      BY <1>0, <2>3, IdleRowSteps
    <3>2. j # i /\ state[j] = "RUNNING"
      BY <3>1 DEF IdleRow
    <3>3. cancel_requested_at'[j] = cancel_requested_at[j]
      BY <1>0, <2>3, <3>2 DEF SubmitJob, CancelQueuedJob, RequeueJob, SetExitCode, ClearRun,
                              rowVars
    <3> QED
      BY <3>2, <3>3
  <2> QED
    BY <2>1, <2>2, <2>3
<1>2. CASE CycleBegins
  <2>1. state' = state
    BY <1>2 DEF CycleBegins, dispatchVars, ledgerVars
  <2>2. cancel_requested_at[j] # NULL
    BY <1>2 DEF CycleBegins, AgeRequests
  <2> QED
    BY <2>1, <2>2
<1>3. ASSUME NEW i \in Jobs, Evict(i)
      PROVE  j \in evicted' \/ (state[j] = "RUNNING" /\ cancel_requested_at[j] # NULL)
  <2>1. /\ state' = state /\ evicted' = evicted \cup {i}
        /\ cancel_requested_at' = [cancel_requested_at EXCEPT ![i] = 0]
    BY <1>3 DEF Evict, MarkCancelRequested, dispatchVars, ledgerVars
  <2> QED
    BY <1>0, <2>1
<1>4. CASE MarkRunning
  <2>1. PICK i : i = cur.job
    OBVIOUS
  <2>2. cancel_requested_at' = cancel_requested_at /\ NextAssignment(i)
    BY <1>4, <2>1 DEF MarkRunning, Launch, SetPid
  <2>3. i \in Jobs /\ \A k \in Jobs : k # i => state'[k] = state[k]
    BY <1>4, <2>1, Marked
  <2>4. state[i] = "QUEUED"
    BY <1>0, <2>2 DEF NextAssignment, QueueOK
  <2>5. cancel_requested_at[i] = NULL
    BY <2>3, <2>4 DEF Base, CarryInv, NothingCarriesOver
  <2> QED
    BY <2>2, <2>3, <2>5
<1>5. CASE ReapAdopted \/ ReapGone \/ RecoverFinalizes
  <2>1. PICK code : Finalize(cur.job, code)
    BY <1>0, <1>5, FinalizedCode
  <2>2. Finishing(cur.job)
    BY <1>0, <1>5, FinishingSteps
  <2> QED
    BY <2>1, <2>2 DEF Finalize, SetExitCode, Finishing
<1>6. ASSUME NEW i \in Jobs, SpawnFails(i)
      PROVE  state[j] = "RUNNING" /\ cancel_requested_at[j] # NULL
  <2>1. IdleRow(i)
    BY <1>0, <1>6, IdleRowSteps
  <2> QED
    BY <1>6, <2>1 DEF IdleRow, SpawnFails, SetExitCode
<1>7. CASE \/ CancelKill \/ ReapRead \/ ReapStragglers \/ ReapAlive \/ ReapEnds
           \/ EnforceBegins \/ EvictKill \/ DispatchBegins \/ DispatchPlans \/ DispatchEnds
           \/ Start \/ Readopt \/ RecoverEnds \/ Processes \/ Crash \/ Reboot
           \/ KillRaises \/ UNCHANGED daemonVars
  <2>1. cancel_requested_at' = cancel_requested_at
    BY <1>7 DEF CancelKill, ReapRead, ReapStragglers, ReapAlive, ReapEnds, EnforceBegins,
       EvictKill, DispatchBegins, DispatchPlans, DispatchEnds, Start, Readopt, RecoverEnds,
       Processes, ProcessStep, Crash, Reboot, KillRaises, Forget, daemonVars, rowVars
  <2>2. state' = state
    BY <1>7, <1>0, StillSteps, AloneStep, DownsSteps
       DEF Still, Alone, Downs, daemonVars, dispatchVars, ledgerVars, ReapRead
  <2> QED
    BY <2>1, <2>2
<1>8. CASE \E i \in Jobs : \/ ReapPoll(i) \/ EnforceEvicted(i) \/ EnforceStrike(i)
                           \/ SpawnRaises(i) \/ RecoverRead(i)
                           \/ \E p \in Pids : Spawn(i, p)
  BY <1>8 DEF ReapPoll, EnforceEvicted, EnforceStrike, SpawnRaises, RecoverRead,
       Spawn, Forget, Restart, rowVars, dispatchVars, ledgerVars
<1> QED
  BY <1>1, <1>2, <1>3, <1>4, <1>5, <1>6, <1>7, <1>8 DEF DaemonNext, LockHolder, Recovery

\* A job's clock is set back by its user, or by the eviction.
LEMMA GraceGoesOn ==
    ASSUME Base, [DaemonNext]_daemonVars, NEW j \in Jobs,
           state[j] = "RUNNING", cancel_requested_at[j] # NULL
    PROVE  \/ cancel_requested_at'[j] >= cancel_requested_at[j]
           \/ phase = "idle" /\ phase' = "cancelKill" /\ cur'.job = j
           \/ Evict(j)
<1>0. /\ TypeInv /\ Inv
      /\ cancel_requested_at \in [Jobs -> Nat \cup {NULL}]
      /\ cancel_requested_at[j] \in Nat
  BY DEF Base, CarryInv, CellsOK
<1>1. CASE Users
  <2>1. PICK i \in Jobs : \/ SubmitJob(i) \/ CancelQueuedJob(i)
                          \/ CancelRunningJob(i) \/ RequeueJob(i)
    BY <1>1 DEF Users
  <2>2. CASE CancelRunningJob(i)
    <3>1. /\ phase = "idle" /\ phase' = "cancelKill" /\ cur'.job = i
          /\ cancel_requested_at' = [cancel_requested_at EXCEPT ![i] = 0]
      BY <2>2 DEF CancelRunningJob, MarkCancelRequested, About, Goto
    <3> QED
      BY <1>0, <3>1
  <2>3. CASE SubmitJob(i) \/ CancelQueuedJob(i) \/ RequeueJob(i)
    <3>1. IdleRow(i)
      BY <1>0, <2>3, IdleRowSteps
    <3>2. cancel_requested_at'[j] = cancel_requested_at[j]
      BY <1>0, <2>3, <3>1 DEF IdleRow, SubmitJob, CancelQueuedJob, RequeueJob, SetExitCode,
                              ClearRun, rowVars
    <3> QED
      BY <1>0, <3>2
  <2> QED
    BY <2>1, <2>2, <2>3
<1>2. CASE CycleBegins
  <2>1. cancel_requested_at'[j] \in {cancel_requested_at[j], cancel_requested_at[j] + 1}
    BY <1>2 DEF CycleBegins, AgeRequests
  <2> QED
    BY <1>0, <2>1
<1>3. ASSUME NEW i \in Jobs, Evict(i), i # j
      PROVE  cancel_requested_at'[j] >= cancel_requested_at[j]
  <2>1. cancel_requested_at' = [cancel_requested_at EXCEPT ![i] = 0]
    BY <1>3 DEF Evict, MarkCancelRequested
  <2> QED
    BY <1>0, <1>3, <2>1
<1>4. CASE ReapAdopted \/ ReapGone \/ RecoverFinalizes
  <2>1. PICK code : Finalize(cur.job, code)
    BY <1>0, <1>4, FinalizedCode
  <2>2. cancel_requested_at' = cancel_requested_at
    BY <2>1 DEF Finalize, SetExitCode
  <2> QED
    BY <1>0, <2>2
<1>5. CASE \/ CancelKill \/ ReapRead \/ ReapStragglers \/ ReapAlive \/ ReapEnds
           \/ EnforceBegins \/ EvictKill \/ DispatchBegins \/ DispatchPlans \/ DispatchEnds
           \/ Start \/ Readopt \/ RecoverEnds \/ Processes \/ Crash \/ Reboot
           \/ KillRaises \/ MarkRunning \/ UNCHANGED daemonVars
  <2>1. cancel_requested_at' = cancel_requested_at
    BY <1>5 DEF CancelKill, ReapRead, ReapStragglers, ReapAlive, ReapEnds, EnforceBegins,
       EvictKill, DispatchBegins, DispatchPlans, DispatchEnds, Start, Readopt, RecoverEnds,
       Processes, ProcessStep, Crash, Reboot, KillRaises, MarkRunning, SetPid, Forget,
       daemonVars, rowVars
  <2> QED
    BY <1>0, <2>1
<1>6. CASE \E i \in Jobs : \/ ReapPoll(i) \/ EnforceEvicted(i) \/ EnforceStrike(i)
                           \/ SpawnFails(i) \/ SpawnRaises(i) \/ RecoverRead(i)
                           \/ \E p \in Pids : Spawn(i, p)
  <2>1. cancel_requested_at' = cancel_requested_at
    BY <1>6 DEF ReapPoll, EnforceEvicted, EnforceStrike, SpawnFails, SetExitCode, SpawnRaises,
       RecoverRead, Spawn, Forget, rowVars
  <2> QED
    BY <1>0, <2>1
<1> QED
  BY <1>1, <1>2, <1>3, <1>4, <1>5, <1>6 DEF DaemonNext, LockHolder, Recovery

\* An eviction is carried out (daemon.py:181-193,213-214): until the daemon restarts, an
\* evicted job stays marked, ends FAILED and not CANCELLED even if its user cancels it,
\* and no later cycle gives it a new grace, however long it is over its budget.
THEOREM EvictionsStand == DaemonSpec => EvictionStands
<1> DEFINE Stands ==
      \A j \in evicted :
          /\ Leaves(j) => state'[j] = "FAILED"
          /\ \/ state'[j] # "RUNNING" \/ phase' = "down"
             \/ /\ j \in evicted'
                /\ \/ cancel_requested_at'[j] >= cancel_requested_at[j]
                   \/ phase = "idle" /\ phase' = "cancelKill" /\ cur'.job = j
<1>1. Base /\ [DaemonNext]_daemonVars => Stands
  <2> SUFFICES ASSUME Base, [DaemonNext]_daemonVars, NEW j \in evicted
               PROVE  /\ Leaves(j) => state'[j] = "FAILED"
                      /\ \/ state'[j] # "RUNNING" \/ phase' = "down"
                         \/ /\ j \in evicted'
                            /\ \/ cancel_requested_at'[j] >= cancel_requested_at[j]
                               \/ phase = "idle" /\ phase' = "cancelKill" /\ cur'.job = j
    OBVIOUS
  <2>1. j \in Jobs /\ state[j] = "RUNNING" /\ cancel_requested_at[j] # NULL
    BY DEF Base, TypeInv, MemoryTypes, CarryInv, NothingCarriesOver, Running
  <2>2. ASSUME Leaves(j) PROVE state'[j] = "FAILED"
    <3>1. Finishing(j)
      BY <2>1, <2>2, LeavesFinishing
    <3>2. PICK code : Finalize(j, code)
      BY <3>1, FinalizedCode DEF Finishing, Base
    <3>3. state' = [state EXCEPT ![j] = FinalState(j, code)]
      BY <3>2 DEF Finalize, FinishAs, CloseRow
    <3>4. FinalState(j, code) = "FAILED"
      BY DEF FinalState
    <3> QED
      BY <2>1, <3>3, <3>4 DEF Base, Inv, DispatchTypeOK, LedgerTypeOK
  <2>3. state'[j] = "RUNNING" /\ phase' # "down" => j \in evicted'
    BY <2>1, PolicingKinds
       DEF EnforceBegins, Polices, EnforceStrike, Evict, Forgiven, Overlooked, MemoryLost
  <2>4. ~Evict(j)
    BY DEF Evict
  <2>5. \/ cancel_requested_at'[j] >= cancel_requested_at[j]
        \/ phase = "idle" /\ phase' = "cancelKill" /\ cur'.job = j
    BY <2>1, <2>4, GraceGoesOn
  <2> QED
    BY <2>2, <2>3, <2>5
<1> HIDE DEF Stands
<1>2. DaemonSpec => [][Stands]_daemonVars
  BY <1>1, BaseAlways, PTL DEF DaemonSpec
<1> QED
  BY <1>2, PTL DEF EvictionStands, Stands

LEMMA AskStep ==
    ASSUME StaysUp, Base, AskInv, PolicingNext
    PROVE  AskInv'
<1> SUFFICES ASSUME NEW j \in Jobs, state'[j] = "RUNNING", cancel_requested_at'[j] # NULL
             PROVE  j \in evicted' \cup asked'
  BY DEF AskInv
<1>1. DaemonNext /\ j \in Running'
  BY DEF PolicingNext, Running
<1>2. /\ j \in asked => j \in asked'
      /\ phase' = "cancelKill" /\ cur'.job = j => j \in asked'
  BY <1>1 DEF PolicingNext, Record
<1>3. CASE state[j] = "RUNNING" /\ cancel_requested_at[j] # NULL
  <2>1. j \in evicted \cup asked
    BY <1>3 DEF AskInv
  <2>2. j \in evicted => j \in evicted'
    BY <1>1, PolicingKinds, NothingLost
       DEF EnforceBegins, Polices, EnforceStrike, Evict, Forgiven, Overlooked
  <2> QED
    BY <1>2, <2>1, <2>2
<1> QED
  BY <1>1, <1>2, <1>3, Requests

\* _finalize (daemon.py:181-193): an eviction is a failure, so while the daemon stays up a
\* job that ends CANCELLED is one whose user asked for it in this run.
THEOREM CancelledWereAsked ==
    ASSUME StaysUp
    PROVE  PolicingSpec => CancelledMeansAsked
<1> DEFINE Asked == \A j \in Jobs : Leaves(j) /\ state'[j] = "CANCELLED" => j \in asked
<1>1. Base /\ AskInv /\ [PolicingNext]_policingVars => Asked
  <2> SUFFICES ASSUME Base, AskInv, [PolicingNext]_policingVars,
                      NEW j \in Jobs, Leaves(j), state'[j] = "CANCELLED"
               PROVE  j \in asked
    OBVIOUS
  <2>1. [DaemonNext]_daemonVars
    BY DEF PolicingNext, policingVars
  <2>2. Finishing(j)
    BY <2>1, LeavesFinishing
  <2>3. PICK code : Finalize(j, code)
    BY <2>2, FinalizedCode DEF Finishing, Base
  <2>4. state' = [state EXCEPT ![j] = FinalState(j, code)]
    BY <2>3 DEF Finalize, FinishAs, CloseRow
  <2>5. FinalState(j, code) = "CANCELLED"
    BY <2>4 DEF Base, Inv, DispatchTypeOK, LedgerTypeOK
  <2>6. j \notin evicted /\ cancel_requested_at[j] # NULL
    BY <2>5 DEF FinalState
  <2> QED
    BY <2>6 DEF AskInv, Leaves
<1> HIDE DEF Asked
<1>2. PolicingInit => AskInv
  BY DEF PolicingInit, DaemonInit, RowInit, AskInv
<1>3. Base /\ AskInv /\ [PolicingNext]_policingVars => AskInv'
  <2> SUFFICES ASSUME Base, AskInv, [PolicingNext]_policingVars
               PROVE  AskInv'
    OBVIOUS
  <2>1. CASE UNCHANGED policingVars
    BY <2>1 DEF policingVars, daemonVars, dispatchVars, ledgerVars, rowVars, memoryVars, AskInv
  <2> QED
    BY <2>1, AskStep
<1>4. PolicingSpec => [][Asked]_policingVars
  BY <1>1, <1>2, <1>3, PolicingIsDaemon, BaseAlways, PTL DEF PolicingSpec
<1> QED
  BY <1>4, PTL DEF CancelledMeansAsked, Asked
=============================================================================
