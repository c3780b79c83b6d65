---------------------------- MODULE DaemonProofs ----------------------------
(***************************************************************************)
(* Daemon implements Dispatch: whatever its processes, snapshots, crashes  *)
(* and restarts do, every step of it is a step of the queue or leaves the  *)
(* queue alone.  So what is proved of Dispatch holds of the daemon.        *)
(***************************************************************************)
EXTENDS Daemon, DispatchProofs

\* The loops visit jobs: cur names one whenever a step is about to act on it.
Visit(c) ==
    \E j \in Jobs : \E code, file : c = [job |-> j, rc |-> code, file |-> file]

Visiting == phase \in {"cancelKill", "reapRead", "reapDecide", "evictKill",
                       "spawned", "recoverDecide"}

CurOK == Visiting => Visit(cur)

LEMMA AboutVisits ==
    ASSUME NEW j \in Jobs, NEW code, NEW file
    PROVE  /\ Visit(About(j))
           /\ Visit([About(j) EXCEPT !.rc = code])
           /\ Visit([About(j) EXCEPT !.file = file])
<1>1. /\ About(j) = [job |-> j, rc |-> NULL, file |-> NULL]
      /\ [About(j) EXCEPT !.rc = code] = [job |-> j, rc |-> code, file |-> NULL]
      /\ [About(j) EXCEPT !.file = file] = [job |-> j, rc |-> NULL, file |-> file]
  BY DEF About
<1> QED
  BY <1>1 DEF Visit

LEMMA ReadingVisits ==
    ASSUME NEW c, Visit(c), NEW file
    PROVE  Visit([c EXCEPT !.file = file])
<1>1. PICK j \in Jobs : \E code, old : c = [job |-> j, rc |-> code, file |-> old]
  BY DEF Visit
<1>2. PICK code : \E old : c = [job |-> j, rc |-> code, file |-> old]
  BY <1>1
<1>3. [c EXCEPT !.file = file] = [job |-> j, rc |-> code, file |-> file]
  BY <1>2
<1> QED
  BY <1>3 DEF Visit

LEMMA VisitNamesJob ==
    ASSUME NEW c, Visit(c)
    PROVE  c.job \in Jobs
BY DEF Visit

LEMMA CurInit == DaemonInit => CurOK
BY DEF DaemonInit, CurOK, Visiting

LEMMA CurStep == CurOK /\ [DaemonNext]_daemonVars => CurOK'
<1> SUFFICES ASSUME CurOK, [DaemonNext]_daemonVars
             PROVE  CurOK'
  OBVIOUS
<1> USE DEF CurOK, Visiting
<1>1. CASE Users
  <2>1. PICK j \in Jobs : \/ SubmitJob(j) \/ CancelQueuedJob(j)
                          \/ CancelRunningJob(j) \/ RequeueJob(j)
    BY <1>1 DEF Users
  <2>2. CASE CancelRunningJob(j)
    BY <2>2, AboutVisits DEF CancelRunningJob
  <2>3. CASE SubmitJob(j) \/ CancelQueuedJob(j) \/ RequeueJob(j)
    BY <2>3 DEF SubmitJob, CancelQueuedJob, RequeueJob, loopVars
  <2> QED
    BY <2>1, <2>2, <2>3
<1>2. CASE CycleBegins
  BY <1>2 DEF CycleBegins
<1>3. ASSUME NEW j \in Jobs, ReapPoll(j)
      PROVE  CurOK'
  <2>1. PICK code : cur' = [About(j) EXCEPT !.rc = code]
    BY <1>3 DEF ReapPoll
  <2> QED
    BY <2>1, AboutVisits
<1>4. CASE ReapRead
  <2>1. Visit(cur) /\ cur' = [cur EXCEPT !.file = ReadExitCode(cur.job)]
    BY <1>4 DEF ReapRead
  <2> QED
    BY <2>1, ReadingVisits
<1>5. CASE ReapAdopted \/ ReapGone \/ ReapStragglers \/ ReapAlive
  BY <1>5 DEF ReapAdopted, ReapGone, ReapStragglers, ReapAlive, ReapNext
<1>6. CASE CancelKill \/ EvictKill \/ ReapEnds \/ EnforceBegins \/ DispatchBegins
           \/ DispatchEnds \/ MarkRunning
  BY <1>6 DEF CancelKill, EvictKill, ReapEnds, EnforceBegins, DispatchBegins,
              DispatchEnds, MarkRunning, Goto
<1>7. ASSUME NEW j \in Jobs, EnforceEvicted(j) \/ EnforceStrike(j)
      PROVE  CurOK'
  BY <1>7 DEF EnforceEvicted, EnforceStrike, EnforceNext
<1>8. ASSUME NEW j \in Jobs, Evict(j)
      PROVE  CurOK'
  BY <1>8, AboutVisits DEF Evict
<1>9. CASE DispatchPlans
  BY <1>9 DEF DispatchPlans, loopVars
<1>10. ASSUME NEW j \in Jobs, SpawnFails(j)
       PROVE  CurOK'
  BY <1>10 DEF SpawnFails, loopVars
<1>11. ASSUME NEW j \in Jobs, NEW p \in Pids, Spawn(j, p)
       PROVE  CurOK'
  BY <1>11, AboutVisits DEF Spawn
<1>12. CASE Start \/ Readopt \/ RecoverFinalizes \/ RecoverEnds
  BY <1>12 DEF Start, Readopt, RecoverFinalizes, RecoverNext, RecoverEnds, Goto
<1>13. ASSUME NEW j \in Jobs, RecoverRead(j)
       PROVE  CurOK'
  BY <1>13, AboutVisits DEF RecoverRead
<1>14. CASE Processes
  BY <1>14 DEF Processes, ProcessStep, loopVars
<1>15. CASE Crash \/ Reboot \/ KillRaises
  BY <1>15 DEF Crash, Reboot, KillRaises, Forget
<1>17. ASSUME NEW j \in Jobs, SpawnRaises(j)
       PROVE  CurOK'
  BY <1>17 DEF SpawnRaises, Forget
<1>16. CASE UNCHANGED daemonVars
  BY <1>16 DEF daemonVars, loopVars
<1> QED
  BY <1>1, <1>2, <1>3, <1>4, <1>5, <1>6, <1>7, <1>8, <1>9, <1>10, <1>11,
     <1>12, <1>13, <1>14, <1>15, <1>16, <1>17
     DEF DaemonNext, LockHolder, Recovery

\* A finalised job is a RUNNING job that ends.
LEMMA FinalizeFinishes ==
    ASSUME NEW j \in Jobs, NEW code, Finalize(j, code)
    PROVE  DispatchNext
<1>1. FinishAs(j, FinalState(j, code)) /\ FinalState(j, code) \in FINAL_STATES
  BY DEF Finalize, FinishAs, CloseRow
<1> QED
  BY <1>1 DEF DispatchNext, Work, Finish

\* Every step of the daemon is one of the queue, or none.
LEMMA DaemonSteps ==
    CurOK /\ [DaemonNext]_daemonVars => [DispatchNext]_dispatchVars
<1> SUFFICES ASSUME CurOK, [DaemonNext]_daemonVars
             PROVE  DispatchNext \/ UNCHANGED dispatchVars
  OBVIOUS
<1> USE DEF DispatchNext, Work, Cycle, Handlers
<1>1. CASE Users
  <2>1. PICK j \in Jobs : \/ SubmitJob(j) \/ CancelQueuedJob(j)
                          \/ CancelRunningJob(j) \/ RequeueJob(j)
    BY <1>1 DEF Users
  <2>2. Submit(j) \/ CancelQueued(j) \/ Requeue(j) \/ UNCHANGED dispatchVars
    BY <2>1 DEF SubmitJob, CancelQueuedJob, CancelRunningJob, RequeueJob
  <2> QED
    BY <2>2
<1>2. CASE CycleBegins \/ CancelKill \/ ReapRead \/ EnforceBegins \/ EvictKill
           \/ Start \/ RecoverEnds
  BY <1>2 DEF CycleBegins, CancelKill, ReapRead, EnforceBegins, EvictKill,
              Start, RecoverEnds
<1>3. ASSUME NEW j \in Jobs,
             ReapPoll(j) \/ EnforceEvicted(j) \/ EnforceStrike(j) \/ Evict(j)
             \/ RecoverRead(j) \/ \E p \in Pids : Spawn(j, p)
      PROVE  UNCHANGED dispatchVars
  BY <1>3 DEF ReapPoll, EnforceEvicted, EnforceStrike, Evict, RecoverRead, Spawn
<1>4. CASE ReapAdopted \/ ReapGone \/ RecoverFinalizes
  <2>1. phase \in {"reapDecide", "recoverDecide"}
    BY <1>4 DEF ReapAdopted, ReapGone, RecoverFinalizes, RecoverNext
  <2>2. cur.job \in Jobs
    BY <2>1, VisitNamesJob DEF CurOK, Visiting
  <2>3. \E code : Finalize(cur.job, code)
    BY <1>4 DEF ReapAdopted, ReapGone, RecoverFinalizes
  <2> QED
    BY <2>2, <2>3, FinalizeFinishes
<1>5. CASE ReapStragglers \/ ReapAlive \/ Readopt
  BY <1>5 DEF ReapStragglers, ReapAlive, Readopt
<1>6. CASE ReapEnds \/ DispatchBegins \/ DispatchPlans \/ DispatchEnds
  BY <1>6 DEF ReapEnds, DispatchBegins, DispatchPlans, DispatchEnds
<1>7. CASE MarkRunning
  <2>1. cur.job \in Jobs /\ Launch(cur.job)
    BY <1>7, VisitNamesJob DEF MarkRunning, CurOK, Visiting
  <2> QED
    BY <2>1
<1>8. ASSUME NEW j \in Jobs, SpawnFails(j)
      PROVE  DispatchNext
  BY <1>8 DEF SpawnFails
<1>9. CASE Processes
  BY <1>9 DEF Processes, ProcessStep
<1>10. CASE Crash \/ Reboot \/ KillRaises
  BY <1>10 DEF Crash, Reboot, KillRaises, Forget
<1>12. ASSUME NEW j \in Jobs, SpawnRaises(j)
       PROVE  DispatchNext
  BY <1>12 DEF SpawnRaises, Forget
<1>11. CASE UNCHANGED daemonVars
  BY <1>11 DEF daemonVars
<1> QED
  BY <1>1, <1>2, <1>3, <1>4, <1>5, <1>6, <1>7, <1>8, <1>9, <1>10, <1>11, <1>12
     DEF DaemonNext, LockHolder, Recovery

\* The daemon implements the queue.
THEOREM DaemonImplementsDispatch == DaemonSpec => DispatchSpec
<1>1. DaemonInit => DispatchInit /\ CurOK
  BY CurInit DEF DaemonInit
<1>2. CurOK /\ [DaemonNext]_daemonVars => CurOK'
  BY CurStep
<1>3. CurOK /\ [DaemonNext]_daemonVars => [DispatchNext]_dispatchVars
  BY DaemonSteps
<1> QED
  BY <1>1, <1>2, <1>3, PTL DEF DaemonSpec, DispatchSpec

\* So no card is committed twice whatever the daemon's processes do and
\* whenever it crashes, as far as its own table knows.
THEOREM DaemonNeverOvercommits == DaemonSpec => []NoOvercommit
BY DaemonImplementsDispatch, NeverOvercommitted, PTL

-----------------------------------------------------------------------------
(***************************************************************************)
(* Nothing of one run is left for the next.  NothingCarriesOver needs that *)
(* the loops which strike, evict and mark stragglers visit RUNNING jobs    *)
(* only, and that a row that was never inserted is as clean as a QUEUED    *)
(* one.                                                                    *)
(***************************************************************************)

CellsOK ==
    /\ popens = [j \in Jobs |-> popens[j]]
    /\ exit_code = [j \in Jobs |-> exit_code[j]]
    /\ cancel_requested_at \in [Jobs -> Nat \cup {NULL}]
    /\ vram_strikes \in [Jobs -> Nat]

FreshRows ==
    \A j \in Jobs : state[j] \in {NULL, "QUEUED"} =>
        cancel_requested_at[j] = NULL /\ exit_code[j] = NULL

LoopOK ==
    phase \in {"reap", "reapRead", "reapDecide", "enforce", "evictKill"} =>
        /\ todo_jobs \subseteq Running
        /\ phase \in {"reapRead", "reapDecide"} => cur.job \in todo_jobs

CarryInv ==
    /\ CellsOK
    /\ FreshRows
    /\ LoopOK
    /\ NothingCarriesOver

LEMMA RowStates ==
    /\ NULL \notin Nat
    /\ "RUNNING" \notin FINAL_STATES /\ "QUEUED" \notin FINAL_STATES
    /\ NULL \notin FINAL_STATES /\ NULL # "RUNNING" /\ NULL # "QUEUED"
BY LedgerAssumption DEF States, FINAL_STATES

LEMMA CarryInit == DaemonInit => CarryInv
<1> SUFFICES ASSUME DaemonInit PROVE CarryInv
  OBVIOUS
<1>1. /\ popens = [j \in Jobs |-> NULL] /\ stragglers_killed = {}
      /\ vram_strikes = [j \in Jobs |-> 0] /\ evicted = {} /\ phase = "idle"
  BY DEF DaemonInit
<1>2. exit_code = [j \in Jobs |-> NULL] /\ cancel_requested_at = [j \in Jobs |-> NULL]
  BY DEF DaemonInit, RowInit
<1>3. CellsOK
  BY <1>1, <1>2 DEF CellsOK
<1> QED
  BY <1>1, <1>2, <1>3 DEF CarryInv, FreshRows, LoopOK, NothingCarriesOver

\* A job that is not running, nor being spawned, has left nothing.
LEMMA Forgotten ==
    ASSUME CarryInv, phase # "spawned", NEW j \in Jobs, state[j] # "RUNNING"
    PROVE  /\ popens[j] = NULL /\ j \notin stragglers_killed
           /\ vram_strikes[j] = 0 /\ j \notin evicted
<1>1. j \notin Running
  BY DEF Running
<1>2. popens[j] = NULL /\ j \notin stragglers_killed /\ j \notin evicted
  BY <1>1 DEF CarryInv, NothingCarriesOver, BeingSpawned
<1>3. vram_strikes[j] \in Nat /\ ~(vram_strikes[j] > 0)
  BY <1>1 DEF CarryInv, NothingCarriesOver, CellsOK
<1> QED
  BY <1>2, <1>3

\* The rows stay in their states, and what is remembered is of RUNNING jobs.
LEMMA CarryMemory ==
    ASSUME CarryInv, phase # "spawned", UNCHANGED <<state, exit_code>>,
           cancel_requested_at' \in [Jobs -> Nat \cup {NULL}],
           \A j \in Jobs : cancel_requested_at'[j] # NULL
                             => cancel_requested_at[j] # NULL \/ j \in Running,
           popens' = [j \in Jobs |-> popens'[j]],
           \A j \in Jobs : popens'[j] # NULL => popens[j] # NULL \/ BeingSpawned(j)',
           stragglers_killed' \subseteq Running,
           vram_strikes' \in [Jobs -> Nat],
           \A j \in Jobs : vram_strikes'[j] > 0 => j \in Running,
           \A j \in evicted' : j \in Running /\ cancel_requested_at'[j] # NULL,
           LoopOK'
    PROVE  CarryInv'
<1>1. Running' = Running
  BY DEF Running
<1>2. CellsOK'
  BY DEF CellsOK, CarryInv
<1>3. FreshRows'
  BY RowStates DEF FreshRows, CarryInv, Running
<1>4. ASSUME NEW j \in Jobs, popens'[j] # NULL
      PROVE  state'[j] = "RUNNING" \/ BeingSpawned(j)'
  BY <1>4 DEF CarryInv, NothingCarriesOver, BeingSpawned
<1>5. ASSUME NEW j \in Jobs, state'[j] = "QUEUED"
      PROVE  cancel_requested_at'[j] = NULL /\ exit_code'[j] = NULL
  BY <1>3, <1>5 DEF FreshRows
<1> QED
  BY <1>1, <1>2, <1>3, <1>4, <1>5 DEF CarryInv, NothingCarriesOver

\* The row of one job moves, not to RUNNING, and nothing is remembered of it.
LEMMA CarryRow ==
    ASSUME CarryInv, phase # "spawned", NEW j \in Jobs,
           \A k \in Jobs : k # j => /\ state'[k] = state[k]
                                    /\ exit_code'[k] = exit_code[k]
                                    /\ cancel_requested_at'[k] = cancel_requested_at[k],
           exit_code' = [k \in Jobs |-> exit_code'[k]],
           cancel_requested_at' \in [Jobs -> Nat \cup {NULL}],
           state'[j] # "RUNNING",
           state'[j] \in {NULL, "QUEUED"}
             => cancel_requested_at'[j] = NULL /\ exit_code'[j] = NULL,
           popens' = [popens EXCEPT ![j] = NULL],
           stragglers_killed' = stragglers_killed \ {j},
           vram_strikes' = [vram_strikes EXCEPT ![j] = 0],
           evicted' = evicted \ {j},
           LoopOK'
    PROVE  CarryInv'
<1>1. \A k \in Jobs : k # j => (k \in Running' <=> k \in Running)
  BY DEF Running
<1>2. stragglers_killed \subseteq Jobs /\ evicted \subseteq Jobs
  BY DEF CarryInv, NothingCarriesOver, Running
<1>3. popens' = [k \in Jobs |-> IF k = j THEN NULL ELSE popens[k]]
  BY DEF CarryInv, CellsOK
<1>4. /\ vram_strikes' \in [Jobs -> Nat]
      /\ \A k \in Jobs : vram_strikes'[k] = IF k = j THEN 0 ELSE vram_strikes[k]
  BY DEF CarryInv, CellsOK
<1>5. CellsOK'
  BY <1>3, <1>4 DEF CellsOK
<1>6. FreshRows'
  BY DEF FreshRows, CarryInv
<1>7. ASSUME NEW k \in Jobs, popens'[k] # NULL
      PROVE  state'[k] = "RUNNING"
  BY <1>3, <1>7 DEF CarryInv, NothingCarriesOver, BeingSpawned
<1>8. ASSUME NEW k \in Jobs, vram_strikes'[k] > 0
      PROVE  k \in Running'
  BY <1>1, <1>4, <1>8 DEF CarryInv, NothingCarriesOver
<1>9. stragglers_killed' \subseteq Running'
  BY <1>1, <1>2 DEF CarryInv, NothingCarriesOver
<1>10. ASSUME NEW k \in evicted'
       PROVE  k \in Running' /\ cancel_requested_at'[k] # NULL
  BY <1>1, <1>2, <1>10 DEF CarryInv, NothingCarriesOver
<1> QED
  BY <1>5, <1>6, <1>7, <1>8, <1>9, <1>10 DEF CarryInv, NothingCarriesOver, FreshRows

\* _finalize forgets the job.
LEMMA CarryFinalize ==
    ASSUME CarryInv, phase # "spawned", NEW j \in Jobs, NEW code,
           Finalize(j, code), state \in [Jobs -> States \cup {NULL}],
           LoopOK'
    PROVE  CarryInv'
<1>1. /\ FinalState(j, code) \in FINAL_STATES
      /\ state' = [state EXCEPT ![j] = FinalState(j, code)]
      /\ exit_code' = [exit_code EXCEPT ![j] = code]
      /\ cancel_requested_at' = cancel_requested_at
  BY DEF Finalize, FinishAs, CloseRow, SetExitCode
<1>2. /\ state'[j] \in FINAL_STATES
      /\ \A k \in Jobs : k # j => state'[k] = state[k] /\ exit_code'[k] = exit_code[k]
      /\ exit_code' = [k \in Jobs |-> exit_code'[k]]
      /\ cancel_requested_at' \in [Jobs -> Nat \cup {NULL}]
  BY <1>1 DEF CarryInv, CellsOK
<1>3. /\ popens' = [popens EXCEPT ![j] = NULL]
      /\ stragglers_killed' = stragglers_killed \ {j}
      /\ vram_strikes' = [vram_strikes EXCEPT ![j] = 0]
      /\ evicted' = evicted \ {j}
  BY DEF Finalize
<1>4. state'[j] # "RUNNING" /\ state'[j] \notin {NULL, "QUEUED"}
  BY <1>2, RowStates
<1> QED
  BY <1>1, <1>2, <1>3, <1>4, CarryRow

\* So do the handlers and a failed launch, of a job that nothing is remembered of.
LEMMA CarryIdleRow ==
    ASSUME CarryInv, phase # "spawned", NEW j \in Jobs, state[j] # "RUNNING",
           UNCHANGED memoryVars,
           \A k \in Jobs : k # j => /\ state'[k] = state[k]
                                    /\ exit_code'[k] = exit_code[k]
                                    /\ cancel_requested_at'[k] = cancel_requested_at[k],
           exit_code' = [k \in Jobs |-> exit_code'[k]],
           cancel_requested_at' \in [Jobs -> Nat \cup {NULL}],
           state'[j] # "RUNNING",
           state'[j] \in {NULL, "QUEUED"}
             => cancel_requested_at'[j] = NULL /\ exit_code'[j] = NULL,
           LoopOK'
    PROVE  CarryInv'
<1>1. /\ popens[j] = NULL /\ j \notin stragglers_killed
      /\ vram_strikes[j] = 0 /\ j \notin evicted
  BY Forgotten
<1>2. popens' = popens /\ popens = [k \in Jobs |-> popens[k]]
  BY DEF memoryVars, CarryInv, CellsOK
<1>3. popens' = [popens EXCEPT ![j] = NULL]
  BY <1>1, <1>2
<1>4. vram_strikes' = vram_strikes /\ vram_strikes \in [Jobs -> Nat]
  BY DEF memoryVars, CarryInv, CellsOK
<1>5. vram_strikes' = [vram_strikes EXCEPT ![j] = 0]
  BY <1>1, <1>4
<1>6. stragglers_killed' = stragglers_killed \ {j} /\ evicted' = evicted \ {j}
  BY <1>1 DEF memoryVars
<1> QED
  BY <1>3, <1>5, <1>6, CarryRow

LEMMA CarryUsers ==
    ASSUME CarryInv, state \in [Jobs -> States \cup {NULL}], Users
    PROVE  CarryInv'
<1>1. PICK j \in Jobs : \/ SubmitJob(j) \/ CancelQueuedJob(j)
                        \/ CancelRunningJob(j) \/ RequeueJob(j)
  BY DEF Users
<1>2. phase = "idle"
  BY <1>1 DEF SubmitJob, CancelQueuedJob, CancelRunningJob, RequeueJob
<1>3. CASE SubmitJob(j)
  <2>1. /\ state[j] = NULL /\ state' = [state EXCEPT ![j] = "QUEUED"]
        /\ UNCHANGED <<exit_code, cancel_requested_at, memoryVars>> /\ phase' = phase
    BY <1>3 DEF SubmitJob, Submit, AddJob, rowVars, loopVars
  <2>2. cancel_requested_at[j] = NULL /\ exit_code[j] = NULL
    BY <2>1 DEF CarryInv, FreshRows
  <2>3. /\ exit_code' = [k \in Jobs |-> exit_code'[k]]
        /\ cancel_requested_at' \in [Jobs -> Nat \cup {NULL}]
    BY <2>1 DEF CarryInv, CellsOK
  <2>4. LoopOK'
    BY <1>2, <2>1 DEF LoopOK
  <2>5. state'[j] = "QUEUED" /\ \A k \in Jobs : k # j => state'[k] = state[k]
    BY <2>1
  <2>6. state[j] # "RUNNING" /\ state'[j] # "RUNNING"
    BY <2>1, <2>5, RowStates
  <2> QED
    BY <1>2, <2>1, <2>2, <2>3, <2>4, <2>5, <2>6, CarryIdleRow
<1>4. CASE CancelQueuedJob(j)
  <2>1. /\ state[j] = "QUEUED" /\ state' = [state EXCEPT ![j] = "CANCELLED"]
        /\ exit_code' = [exit_code EXCEPT ![j] = NULL]
        /\ UNCHANGED <<cancel_requested_at, memoryVars>> /\ phase' = phase
    BY <1>4 DEF CancelQueuedJob, CancelQueued, CloseRow, SetExitCode, loopVars
  <2>2. cancel_requested_at[j] = NULL
    BY <2>1 DEF CarryInv, FreshRows
  <2>3. /\ exit_code' = [k \in Jobs |-> exit_code'[k]] /\ exit_code'[j] = NULL
        /\ \A k \in Jobs : k # j => exit_code'[k] = exit_code[k]
        /\ cancel_requested_at' \in [Jobs -> Nat \cup {NULL}]
    BY <2>1 DEF CarryInv, CellsOK
  <2>4. LoopOK'
    BY <1>2, <2>1 DEF LoopOK
  <2>5. state'[j] # "RUNNING" /\ \A k \in Jobs : k # j => state'[k] = state[k]
    BY <2>1
  <2> QED
    BY <1>2, <2>1, <2>2, <2>3, <2>4, <2>5, CarryIdleRow
<1>5. CASE RequeueJob(j)
  <2>1. /\ state[j] \in FINAL_STATES /\ state' = [state EXCEPT ![j] = "QUEUED"]
        /\ exit_code' = [exit_code EXCEPT ![j] = NULL]
        /\ cancel_requested_at' = [cancel_requested_at EXCEPT ![j] = NULL]
        /\ UNCHANGED memoryVars /\ phase' = phase
    BY <1>5 DEF RequeueJob, Requeue, ReopenRow, ClearRun, loopVars
  <2>2. /\ exit_code' = [k \in Jobs |-> exit_code'[k]] /\ exit_code'[j] = NULL
        /\ \A k \in Jobs : k # j => exit_code'[k] = exit_code[k]
    BY <2>1 DEF CarryInv, CellsOK
  <2>3. /\ cancel_requested_at' \in [Jobs -> Nat \cup {NULL}]
        /\ cancel_requested_at'[j] = NULL
        /\ \A k \in Jobs : k # j => cancel_requested_at'[k] = cancel_requested_at[k]
    BY <2>1 DEF CarryInv, CellsOK
  <2>4. LoopOK'
    BY <1>2, <2>1 DEF LoopOK
  <2>5. state'[j] # "RUNNING" /\ \A k \in Jobs : k # j => state'[k] = state[k]
    BY <2>1
  <2>6. state[j] # "RUNNING"
    BY <2>1, RowStates
  <2> QED
    BY <1>2, <2>1, <2>2, <2>3, <2>4, <2>5, <2>6, CarryIdleRow
<1>6. CASE CancelRunningJob(j)
  <2>1. /\ state[j] = "RUNNING" /\ phase' = "cancelKill"
        /\ cancel_requested_at' = [cancel_requested_at EXCEPT ![j] = 0]
        /\ UNCHANGED <<state, exit_code, popens, stragglers_killed, vram_strikes, evicted>>
    BY <1>6 DEF CancelRunningJob, MarkCancelRequested, Goto, dispatchVars, ledgerVars,
                memoryVars
  <2>2. /\ cancel_requested_at' \in [Jobs -> Nat \cup {NULL}]
        /\ cancel_requested_at'[j] # NULL
        /\ \A k \in Jobs : k # j => cancel_requested_at'[k] = cancel_requested_at[k]
    BY <2>1, RowStates DEF CarryInv, CellsOK
  <2>3. LoopOK'
    BY <2>1 DEF LoopOK
  <2>4. j \in Running
    BY <2>1 DEF Running
  <2>5. evicted \subseteq Jobs
    BY DEF CarryInv, NothingCarriesOver, Running
  <2>6. \A k \in evicted' : k \in Running /\ cancel_requested_at'[k] # NULL
    BY <2>1, <2>2, <2>5 DEF CarryInv, NothingCarriesOver
  <2>7. /\ popens' = [k \in Jobs |-> popens'[k]] /\ vram_strikes' \in [Jobs -> Nat]
        /\ stragglers_killed' \subseteq Running
        /\ \A k \in Jobs : vram_strikes'[k] > 0 => k \in Running
    BY <2>1 DEF CarryInv, CellsOK, NothingCarriesOver
  <2> QED
    BY <1>2, <2>1, <2>2, <2>3, <2>4, <2>6, <2>7, CarryMemory
<1> QED
  BY <1>1, <1>3, <1>4, <1>5, <1>6

\* Steps that neither touch the rows nor what is remembered.
LEMMA CarryUnchanged ==
    ASSUME CarryInv, phase # "spawned", LoopOK',
           UNCHANGED <<state, exit_code, cancel_requested_at, memoryVars>>
    PROVE  CarryInv'
<1>1. UNCHANGED <<state, exit_code, cancel_requested_at, popens, stragglers_killed,
                  vram_strikes, evicted>>
  BY DEF memoryVars
<1> QED
  BY <1>1, CarryMemory DEF CarryInv, CellsOK, NothingCarriesOver

LEMMA CarryReaper ==
    ASSUME CarryInv, CurOK, state \in [Jobs -> States \cup {NULL}],
           \/ \E j \in Jobs : ReapPoll(j)
           \/ ReapRead \/ ReapAdopted \/ ReapGone \/ ReapStragglers \/ ReapAlive
    PROVE  CarryInv'
<1> DEFINE j == cur.job
<1>1. ASSUME phase \in {"reapRead", "reapDecide"}
      PROVE  Visit(cur) /\ j \in Jobs /\ j \in todo_jobs /\ todo_jobs \subseteq Running
  <2>1. Visit(cur)
    BY <1>1 DEF CurOK, Visiting
  <2> QED
    BY <1>1, <2>1, VisitNamesJob DEF CarryInv, LoopOK
<1> HIDE DEF j
<1>2. ASSUME NEW k \in Jobs, ReapPoll(k)
      PROVE  CarryInv'
  <2>1. /\ phase = "reap" /\ phase' = "reapRead" /\ k \in todo_jobs /\ todo_jobs' = todo_jobs
        /\ UNCHANGED <<state, exit_code, cancel_requested_at, stragglers_killed,
                       vram_strikes, evicted>>
    BY <1>2 DEF ReapPoll, Goto, dispatchVars, ledgerVars, rowVars
  <2>2. PICK status : cur' = [About(k) EXCEPT !.rc = status]
    BY <1>2 DEF ReapPoll
  <2>3. cur'.job = k
    BY <2>2 DEF About
  <2>4. LoopOK'
    <3>1. Running' = Running
      BY <2>1 DEF Running
    <3> QED
      BY <2>1, <2>3, <3>1 DEF CarryInv, LoopOK
  <2>5. \/ popens' = popens
        \/ popens[k] # NULL /\ \E rc : popens' = [popens EXCEPT ![k].returncode = rc]
    BY <1>2 DEF ReapPoll
  <2>6. /\ popens' = [i \in Jobs |-> popens'[i]]
        /\ \A i \in Jobs : popens'[i] # NULL => popens[i] # NULL
    <3>1. popens = [i \in Jobs |-> popens[i]]
      BY DEF CarryInv, CellsOK
    <3>2. CASE popens' = popens
      BY <3>1, <3>2
    <3>3. CASE popens[k] # NULL /\ \E rc : popens' = [popens EXCEPT ![k].returncode = rc]
      <4>1. PICK po : popens' = [popens EXCEPT ![k] = po]
        BY <3>3
      <4>2. popens' = [i \in Jobs |-> IF i = k THEN po ELSE popens[i]]
        BY <3>1, <4>1
      <4> QED
        BY <3>3, <4>2
    <3> QED
      BY <2>5, <3>2, <3>3
  <2> QED
    BY <2>1, <2>4, <2>6, CarryMemory DEF CarryInv, CellsOK, NothingCarriesOver
<1>3. CASE ReapRead
  <2>1. /\ phase = "reapRead" /\ phase' = "reapDecide" /\ todo_jobs' = todo_jobs
        /\ cur' = [cur EXCEPT !.file = ReadExitCode(cur.job)]
        /\ UNCHANGED <<state, exit_code, cancel_requested_at, memoryVars>>
    BY <1>3 DEF ReapRead, Goto, dispatchVars, ledgerVars, rowVars
  <2>2. PICK c : cur' = [cur EXCEPT !.file = c]
    BY <2>1
  <2>3. Running' = Running
    BY <2>1 DEF Running
  <2>4. cur'.job = j
    BY <1>1, <2>1, <2>2 DEF Visit, j
  <2>5. LoopOK'
    BY <1>1, <2>1, <2>3, <2>4 DEF LoopOK
  <2> QED
    BY <2>1, <2>5, CarryUnchanged
<1>4. CASE ReapAdopted \/ ReapGone
  <2>1. /\ phase = "reapDecide" /\ phase' = "reap" /\ todo_jobs' = todo_jobs \ {j}
        /\ \E code : Finalize(j, code)
    BY <1>4 DEF ReapAdopted, ReapGone, ReapNext, j
  <2>2. PICK code : Finalize(j, code)
    BY <2>1
  <2>3. \A k \in Jobs : k # j => state'[k] = state[k]
    BY <2>2 DEF Finalize, FinishAs, CloseRow
  <2>4. LoopOK'
    BY <1>1, <2>1, <2>3 DEF LoopOK, Running
  <2> QED
    BY <1>1, <2>1, <2>2, <2>4, CarryFinalize
<1>5. CASE ReapStragglers
  <2>1. /\ phase = "reapDecide" /\ phase' = "reap" /\ todo_jobs' = todo_jobs \ {j}
        /\ stragglers_killed' = stragglers_killed \cup {j}
        /\ UNCHANGED <<state, exit_code, cancel_requested_at, popens, vram_strikes, evicted>>
    BY <1>5 DEF ReapStragglers, ReapNext, dispatchVars, ledgerVars, rowVars, j
  <2>2. Running' = Running
    BY <2>1 DEF Running
  <2>3. LoopOK' /\ stragglers_killed' \subseteq Running
    BY <1>1, <2>1, <2>2 DEF LoopOK, CarryInv, NothingCarriesOver
  <2> QED
    BY <2>1, <2>3, CarryMemory DEF CarryInv, CellsOK, NothingCarriesOver
<1>6. CASE ReapAlive
  <2>1. /\ phase = "reapDecide" /\ phase' = "reap" /\ todo_jobs' = todo_jobs \ {j}
        /\ UNCHANGED <<state, exit_code, cancel_requested_at, memoryVars>>
    BY <1>6 DEF ReapAlive, ReapNext, dispatchVars, ledgerVars, rowVars, j
  <2>2. Running' = Running
    BY <2>1 DEF Running
  <2>3. LoopOK'
    BY <1>1, <2>1, <2>2 DEF LoopOK
  <2> QED
    BY <2>1, <2>3, CarryUnchanged
<1> QED
  BY <1>2, <1>3, <1>4, <1>5, <1>6

LEMMA CarryPolicing ==
    ASSUME CarryInv,
           \/ CycleBegins \/ EnforceBegins \/ EvictKill
           \/ \E j \in Jobs : EnforceEvicted(j) \/ EnforceStrike(j) \/ Evict(j)
    PROVE  CarryInv'
<1>1. CASE CycleBegins
  <2>1. /\ phase = "idle" /\ phase' = "reap" /\ todo_jobs' = Running
        /\ UNCHANGED <<state, exit_code, popens, stragglers_killed, vram_strikes, evicted>>
    BY <1>1 DEF CycleBegins, AgeRequests, dispatchVars, ledgerVars, memoryVars
  <2>2. Running' = Running /\ \A j \in Jobs : j \in Running <=> state[j] = "RUNNING"
    BY <2>1 DEF Running
  <2>3. cancel_requested_at' =
          [j \in Jobs |-> IF /\ state[j] = "RUNNING" /\ cancel_requested_at[j] # NULL
                             /\ cancel_requested_at[j] <= CANCEL_GRACE_S
                          THEN cancel_requested_at[j] + 1 ELSE cancel_requested_at[j]]
    BY <1>1 DEF CycleBegins, AgeRequests
  <2>4. /\ cancel_requested_at' \in [Jobs -> Nat \cup {NULL}]
        /\ \A j \in Jobs : cancel_requested_at'[j] # NULL <=> cancel_requested_at[j] # NULL
    <3>1. cancel_requested_at \in [Jobs -> Nat \cup {NULL}]
      BY DEF CarryInv, CellsOK
    <3>2. ASSUME NEW j \in Jobs
          PROVE  /\ cancel_requested_at'[j] \in Nat \cup {NULL}
                 /\ cancel_requested_at'[j] # NULL <=> cancel_requested_at[j] # NULL
      <4>1. CASE cancel_requested_at[j] \in Nat
        <5>1. cancel_requested_at'[j] \in {cancel_requested_at[j], cancel_requested_at[j] + 1}
          BY <2>3
        <5>2. cancel_requested_at'[j] \in Nat
          BY <4>1, <5>1
        <5> QED
          BY <4>1, <5>2, RowStates
      <4>2. CASE cancel_requested_at[j] = NULL
        BY <2>3, <4>2
      <4> QED
        BY <3>1, <4>1, <4>2
    <3>3. DOMAIN cancel_requested_at' = Jobs
      BY <2>3
    <3>4. cancel_requested_at' = [j \in Jobs |-> cancel_requested_at'[j]]
      BY <2>3, <3>3
    <3> QED
      BY <3>2, <3>4
  <2>5. LoopOK'
    BY <2>1, <2>2 DEF LoopOK
  <2>6. \A j \in evicted' : j \in Running /\ cancel_requested_at'[j] # NULL
    <3>1. evicted \subseteq Jobs
      BY DEF CarryInv, NothingCarriesOver, Running
    <3> QED
      BY <2>1, <2>4, <3>1 DEF CarryInv, NothingCarriesOver
  <2>7. /\ popens' = [k \in Jobs |-> popens'[k]] /\ vram_strikes' \in [Jobs -> Nat]
        /\ stragglers_killed' \subseteq Running
        /\ \A k \in Jobs : vram_strikes'[k] > 0 => k \in Running
    BY <2>1 DEF CarryInv, CellsOK, NothingCarriesOver
  <2> QED
    BY <2>1, <2>4, <2>5, <2>6, <2>7, CarryMemory
<1>2. CASE EnforceBegins
  <2>1. /\ phase = "reap" /\ phase' = "enforce" /\ todo_jobs' = OverBudget
        /\ vram_strikes' = [j \in Jobs |-> IF j \in OverBudget THEN vram_strikes[j] ELSE 0]
        /\ UNCHANGED <<state, exit_code, cancel_requested_at, popens, stragglers_killed,
                       evicted>>
    BY <1>2 DEF EnforceBegins, dispatchVars, ledgerVars, rowVars
  <2>2. OverBudget \subseteq Running /\ Running' = Running
    BY <2>1 DEF OverBudget, Running
  <2>3. LoopOK'
    BY <2>1, <2>2 DEF LoopOK
  <2>4. vram_strikes' \in [Jobs -> Nat] /\ \A j \in Jobs : vram_strikes'[j] > 0 => j \in Running
    <3>1. vram_strikes \in [Jobs -> Nat]
      BY DEF CarryInv, CellsOK
    <3>2. vram_strikes' \in [Jobs -> Nat]
      BY <2>1, <3>1
    <3>3. \A j \in Jobs : vram_strikes'[j] > 0 => j \in OverBudget
      BY <2>1
    <3> QED
      BY <2>2, <3>2, <3>3
  <2> QED
    BY <2>1, <2>3, <2>4, CarryMemory DEF CarryInv, CellsOK, NothingCarriesOver
<1>3. CASE EvictKill
  <2>1. /\ phase = "evictKill" /\ phase' = "enforce" /\ todo_jobs' = todo_jobs
        /\ UNCHANGED <<state, exit_code, cancel_requested_at, memoryVars>>
    BY <1>3 DEF EvictKill, Goto, dispatchVars, ledgerVars, rowVars
  <2>2. LoopOK'
    BY <2>1 DEF LoopOK, CarryInv, Running
  <2> QED
    BY <2>1, <2>2, CarryUnchanged
<1>4. ASSUME NEW j \in Jobs, EnforceEvicted(j) \/ EnforceStrike(j) \/ Evict(j)
      PROVE  CarryInv'
  <2>1. /\ phase = "enforce" /\ phase' \in {"enforce", "evictKill"}
        /\ j \in todo_jobs /\ todo_jobs' = todo_jobs \ {j}
        /\ UNCHANGED <<state, exit_code, popens, stragglers_killed>>
    BY <1>4 DEF EnforceEvicted, EnforceStrike, Evict, EnforceNext, MarkCancelRequested,
                dispatchVars, ledgerVars, rowVars, memoryVars
  <2>2. j \in Running /\ Running' = Running
    BY <2>1 DEF CarryInv, LoopOK, Running
  <2>3. LoopOK'
    BY <2>1, <2>2 DEF LoopOK, CarryInv
  <2>4. CASE EnforceEvicted(j)
    BY <2>1, <2>3, <2>4, CarryUnchanged DEF EnforceEvicted, rowVars
  <2>5. /\ vram_strikes \in [Jobs -> Nat] /\ cancel_requested_at \in [Jobs -> Nat \cup {NULL}]
        /\ \A k \in Jobs : vram_strikes[k] > 0 => k \in Running
    BY DEF CarryInv, CellsOK, NothingCarriesOver
  <2>6. CASE EnforceStrike(j)
    <3>1. /\ vram_strikes' = [vram_strikes EXCEPT ![j] = vram_strikes[j] + 1]
          /\ UNCHANGED <<cancel_requested_at, evicted>>
      BY <2>6 DEF EnforceStrike, rowVars
    <3>2. vram_strikes' \in [Jobs -> Nat]
      BY <2>5, <3>1
    <3>3. \A k \in Jobs : vram_strikes'[k] > 0 => k \in Running
      BY <2>2, <2>5, <3>1
    <3> QED
      BY <2>1, <2>3, <3>1, <3>2, <3>3, CarryMemory DEF CarryInv, CellsOK, NothingCarriesOver
  <2>7. CASE Evict(j)
    <3>1. /\ vram_strikes' = [vram_strikes EXCEPT ![j] = 0]
          /\ cancel_requested_at' = [cancel_requested_at EXCEPT ![j] = 0]
          /\ evicted' = evicted \cup {j}
      BY <2>7 DEF Evict, MarkCancelRequested
    <3>2. vram_strikes' \in [Jobs -> Nat] /\ \A k \in Jobs : vram_strikes'[k] > 0 => k \in Running
      BY <2>5, <3>1
    <3>3. /\ cancel_requested_at' \in [Jobs -> Nat \cup {NULL}]
          /\ cancel_requested_at'[j] # NULL
          /\ \A k \in Jobs : k # j => cancel_requested_at'[k] = cancel_requested_at[k]
      BY <2>5, <3>1, RowStates
    <3>4. evicted \subseteq Jobs
      BY DEF CarryInv, NothingCarriesOver, Running
    <3>5. \A k \in evicted' : k \in Running /\ cancel_requested_at'[k] # NULL
      BY <2>2, <3>1, <3>3, <3>4 DEF CarryInv, NothingCarriesOver
    <3>6. \A k \in Jobs : cancel_requested_at'[k] # NULL
                            => cancel_requested_at[k] # NULL \/ k \in Running
      BY <2>2, <3>3
    <3> QED
      BY <2>1, <2>3, <3>2, <3>3, <3>5, <3>6, CarryMemory
         DEF CarryInv, CellsOK, NothingCarriesOver
  <2> QED
    BY <1>4, <2>4, <2>6, <2>7
<1> QED
  BY <1>1, <1>2, <1>3, <1>4

LEMMA CarryDispatch ==
    ASSUME CarryInv, CurOK, QueueOK, state \in [Jobs -> States \cup {NULL}],
           \/ CancelKill \/ ReapEnds \/ DispatchBegins \/ DispatchPlans \/ DispatchEnds
           \/ MarkRunning
           \/ \E j \in Jobs : SpawnFails(j) \/ \E p \in Pids : Spawn(j, p)
    PROVE  CarryInv'
<1>1. CASE CancelKill \/ ReapEnds \/ DispatchBegins \/ DispatchPlans \/ DispatchEnds
  <2>1. /\ phase # "spawned"
        /\ phase' \in {"idle", "dispatch"}
        /\ UNCHANGED <<state, exit_code, cancel_requested_at, memoryVars>>
    <3>1. CASE CancelKill \/ ReapEnds \/ DispatchEnds
      BY <3>1 DEF CancelKill, ReapEnds, DispatchEnds, CycleWithoutSnapshot, CycleEnds,
                  Goto, dispatchVars, ledgerVars, rowVars
    <3>2. CASE DispatchBegins
      BY <3>2 DEF DispatchBegins, PlanBegins, Goto, ledgerVars, rowVars
    <3>3. CASE DispatchPlans
      BY <3>3 DEF DispatchPlans, PlanNextJob, PlanEnds, ledgerVars, rowVars, loopVars
    <3> QED
      BY <1>1, <3>1, <3>2, <3>3
  <2>2. LoopOK'
    BY <2>1 DEF LoopOK
  <2> QED
    BY <2>1, <2>2, CarryUnchanged
<1>2. CASE MarkRunning
  <2> DEFINE j == cur.job
  <2>1. /\ phase = "spawned" /\ phase' = "dispatch"
        /\ state' = [state EXCEPT ![j] = "RUNNING"]
        /\ UNCHANGED <<exit_code, cancel_requested_at, popens, stragglers_killed,
                       vram_strikes, evicted>>
    BY <1>2 DEF MarkRunning, Launch, AssignGpus, SetPid, Goto, memoryVars
  <2>2. j \in Jobs
    BY <2>1, VisitNamesJob DEF CurOK, Visiting
  <2> HIDE DEF j
  <2>3. state'[j] = "RUNNING" /\ \A k \in Jobs : k # j => state'[k] = state[k]
    BY <2>1, <2>2
  <2>4. Running \subseteq Running'
    BY <2>3 DEF Running
  <2>5. CellsOK'
    BY <2>1 DEF CellsOK, CarryInv
  <2>6. FreshRows'
    BY <2>1, <2>3, RowStates DEF FreshRows, CarryInv
  <2>7. LoopOK'
    BY <2>1 DEF LoopOK
  <2>8. ASSUME NEW k \in Jobs, popens'[k] # NULL
        PROVE  state'[k] = "RUNNING"
    BY <2>1, <2>3, <2>8 DEF CarryInv, NothingCarriesOver, BeingSpawned, j
  <2>9. ASSUME NEW k \in Jobs, vram_strikes'[k] > 0
        PROVE  k \in Running'
    BY <2>1, <2>4, <2>9 DEF CarryInv, NothingCarriesOver
  <2>10. /\ stragglers_killed' \subseteq Running'
         /\ \A k \in evicted' : k \in Running' /\ cancel_requested_at'[k] # NULL
    BY <2>1, <2>4 DEF CarryInv, NothingCarriesOver
  <2> QED
    BY <2>5, <2>6, <2>7, <2>8, <2>9, <2>10 DEF CarryInv, NothingCarriesOver, FreshRows
<1>3. ASSUME NEW j \in Jobs, SpawnFails(j)
      PROVE  CarryInv'
  <2>1. /\ phase = "dispatch" /\ phase' = phase /\ NextAssignment(j)
        /\ state' = [state EXCEPT ![j] = "FAILED"]
        /\ exit_code' = [exit_code EXCEPT ![j] = NULL]
        /\ UNCHANGED <<cancel_requested_at, memoryVars>>
    BY <1>3 DEF SpawnFails, LaunchFails, CloseRow, SetExitCode, loopVars
  <2>2. state[j] = "QUEUED"
    BY <2>1 DEF NextAssignment, QueueOK
  <2>3. /\ exit_code' = [k \in Jobs |-> exit_code'[k]] /\ exit_code'[j] = NULL
        /\ \A k \in Jobs : k # j => exit_code'[k] = exit_code[k]
        /\ cancel_requested_at' \in [Jobs -> Nat \cup {NULL}]
    BY <2>1 DEF CarryInv, CellsOK
  <2>4. state'[j] = "FAILED" /\ \A k \in Jobs : k # j => state'[k] = state[k]
    BY <2>1
  <2>5. state'[j] \notin {NULL, "QUEUED", "RUNNING"}
    BY <2>4, RowStates DEF FINAL_STATES
  <2>6. LoopOK'
    BY <2>1 DEF LoopOK
  <2> QED
    BY <2>1, <2>2, <2>3, <2>4, <2>5, <2>6, CarryIdleRow
<1>4. ASSUME NEW j \in Jobs, NEW p \in Pids, Spawn(j, p)
      PROVE  CarryInv'
  <2>1. /\ phase = "dispatch" /\ phase' = "spawned" /\ cur' = About(j)
        /\ popens' = [popens EXCEPT ![j] = [pid |-> p, returncode |-> NULL]]
        /\ UNCHANGED <<state, exit_code, cancel_requested_at, stragglers_killed,
                       vram_strikes, evicted>>
    BY <1>4 DEF Spawn, Goto, dispatchVars, ledgerVars, rowVars
  <2>2. BeingSpawned(j)'
    BY <2>1 DEF BeingSpawned, About
  <2>3. PICK po : popens' = [popens EXCEPT ![j] = po]
    BY <2>1
  <2>4. popens' = [k \in Jobs |-> IF k = j THEN po ELSE popens[k]]
    BY <2>3 DEF CarryInv, CellsOK
  <2>5. /\ popens' = [k \in Jobs |-> popens'[k]]
        /\ \A k \in Jobs : popens'[k] # NULL => popens[k] # NULL \/ BeingSpawned(k)'
    BY <2>2, <2>4
  <2>6. LoopOK'
    BY <2>1 DEF LoopOK
  <2> QED
    BY <2>1, <2>5, <2>6, CarryMemory DEF CarryInv, CellsOK, NothingCarriesOver
<1> QED
  BY <1>1, <1>2, <1>3, <1>4

LEMMA CarryRestart ==
    ASSUME CarryInv, CurOK, state \in [Jobs -> States \cup {NULL}],
           \/ Recovery \/ Crash \/ Reboot \/ KillRaises
           \/ \E j \in Jobs : SpawnRaises(j)
    PROVE  CarryInv'
<1>1. CASE \/ Crash \/ Reboot \/ KillRaises \/ \E j \in Jobs : SpawnRaises(j)
  <2>1. Forget
    BY <1>1 DEF Crash, Reboot, KillRaises, SpawnRaises
  <2>2. /\ phase' = "down" /\ UNCHANGED <<state, exit_code, cancel_requested_at>>
        /\ popens' = [j \in Jobs |-> NULL] /\ stragglers_killed' = {}
        /\ vram_strikes' = [j \in Jobs |-> 0] /\ evicted' = {}
    BY <2>1 DEF Forget, Restart, EmptyMemory, ledgerVars, rowVars
  <2>3. CellsOK'
    BY <2>2 DEF CellsOK, CarryInv
  <2>4. FreshRows' /\ LoopOK'
    BY <2>2 DEF FreshRows, LoopOK, CarryInv
  <2> QED
    BY <2>2, <2>3, <2>4 DEF CarryInv, NothingCarriesOver, FreshRows
<1>2. CASE \/ Start \/ Readopt \/ RecoverEnds \/ \E j \in Jobs : RecoverRead(j)
  <2>1. /\ phase # "spawned" /\ phase' \in {"idle", "recover", "recoverDecide"}
        /\ UNCHANGED <<state, exit_code, cancel_requested_at, memoryVars>>
    BY <1>2 DEF Start, Readopt, RecoverNext, RecoverEnds, RecoverRead, Goto,
                dispatchVars, ledgerVars, rowVars
  <2>2. LoopOK'
    BY <2>1 DEF LoopOK
  <2> QED
    BY <2>1, <2>2, CarryUnchanged
<1>3. CASE RecoverFinalizes
  <2>1. phase = "recoverDecide" /\ phase' = "recover" /\ Finalize(cur.job, cur.file)
    BY <1>3 DEF RecoverFinalizes, RecoverNext
  <2>2. LoopOK'
    BY <2>1 DEF LoopOK
  <2>3. cur.job \in Jobs
    BY <2>1, VisitNamesJob DEF CurOK, Visiting
  <2> QED
    BY <2>1, <2>2, <2>3, CarryFinalize
<1> QED
  BY <1>1, <1>2, <1>3 DEF Recovery

LEMMA CarryStep ==
    CarryInv /\ CurOK /\ Inv /\ [DaemonNext]_daemonVars => CarryInv'
<1> SUFFICES ASSUME CarryInv, CurOK, Inv, [DaemonNext]_daemonVars
             PROVE  CarryInv'
  OBVIOUS
<1>1. state \in [Jobs -> States \cup {NULL}] /\ QueueOK
  BY DEF Inv, DispatchTypeOK, LedgerTypeOK
<1>2. CASE Users
  BY <1>1, <1>2, CarryUsers
<1>3. CASE CycleBegins
  BY <1>3, CarryPolicing
<1>4. CASE LockHolder
  BY <1>1, <1>4, CarryReaper, CarryPolicing, CarryDispatch, CarryRestart DEF LockHolder
<1>5. CASE Recovery \/ Crash \/ Reboot
  BY <1>1, <1>5, CarryRestart
<1>6. CASE Processes \/ UNCHANGED daemonVars
  <2>1. UNCHANGED <<state, exit_code, cancel_requested_at, popens, stragglers_killed,
                    vram_strikes, evicted, phase, todo_jobs, cur>>
    BY <1>6 DEF Processes, ProcessStep, daemonVars, dispatchVars, ledgerVars, rowVars,
                loopVars, memoryVars
  <2> QED
    BY <2>1 DEF CarryInv, CellsOK, FreshRows, LoopOK, NothingCarriesOver, Running,
                BeingSpawned
<1> QED
  BY <1>2, <1>3, <1>4, <1>5, <1>6 DEF DaemonNext

\* Handles, straggler marks, strikes, evictions and cancel requests of one run are
\* gone before the next, whenever the daemon crashes, also between launch() and
\* mark_running (_finalize, requeue, mark_finished).
THEOREM RunsAreSeparate == DaemonSpec => []NothingCarriesOver
<1>1. DaemonInit => CurOK /\ CarryInv
  BY CurInit, CarryInit
<1>2. CurOK /\ [DaemonNext]_daemonVars => CurOK'
  BY CurStep
<1>3. CarryInv /\ CurOK /\ Inv /\ [DaemonNext]_daemonVars => CarryInv'
  BY CarryStep
<1>4. CarryInv => NothingCarriesOver
  BY DEF CarryInv
<1>5. DaemonSpec => []Inv
  BY DaemonImplementsDispatch, Invariance, PTL
<1> QED
  BY <1>1, <1>2, <1>3, <1>4, <1>5, PTL DEF DaemonSpec

-----------------------------------------------------------------------------
(***************************************************************************)
(* The ledger is the truth about the machine while the daemon stays up.    *)
(* A restart is what the code is not safe against (a crash after a launch, *)
(* stragglers of adopted jobs), so StaysUp excludes it: no crash, and no   *)
(* job whose launch, or whose group's kill, ends the daemon.  Then         *)
(* every RUNNING job has its Popen, so the reaper never takes the exit     *)
(* file for the end of the job, and a group keeps its row until it is      *)
(* gone.                                                                   *)
(***************************************************************************)

StaysUp == MaxCrashes = 0 /\ Unlaunchable = {} /\ OutOfReach = {}

Charged(p) ==
    LET j == group[p].owner IN
    \/ j = FOREIGN /\ group[p].gpus = {}
    \/ j \in Jobs /\ state[j] = "RUNNING" /\ pid[j] = p /\ gpu_ids[j] = group[p].gpus
    \/ j \in Jobs /\ BeingSpawned(j) /\ popens[j].pid = p /\ out[j] = group[p].gpus

UpInv ==
    /\ phase \notin {"down", "recover", "recoverDecide"}
    /\ group \in [Pids -> Group \cup {NULL}]
    /\ pid = [j \in Jobs |-> pid[j]]
    /\ popens = [j \in Jobs |-> popens[j]]
    /\ \A j \in Jobs : state[j] = "RUNNING" \/ BeingSpawned(j) => popens[j] \in Popen
    /\ \A p \in Pids : group[p] # NULL => Charged(p)

CountOK == crashes \in Nat

\* No job leaves the state RUNNING before its last process has gone.
NoneLeft ==
    \A j \in Jobs : Leaves(j) => \A p \in Pids : group[p] # NULL => group[p].owner # j

\* What a step may make of a group: whose it is and where it runs stays, and a
\* wrapper that is over does not come back.
Becomes(g, h) ==
    \/ h = NULL
    \/ /\ h \in Group /\ h.owner = g.owner /\ h.gpus = g.gpus
       /\ h.wrapper = "running" => g.wrapper = "running"

Strangers(h) == h \in Group /\ h.owner = FOREIGN /\ h.gpus = {} /\ h.wrapper = "gone"

GroupsMove ==
    /\ group' = [p \in Pids |-> group'[p]]
    /\ \A p \in Pids : \/ group'[p] = group[p]
                       \/ group[p] # NULL /\ Becomes(group[p], group'[p])
                       \/ group[p] = NULL /\ Strangers(group'[p])

LEMMA SweptBecomes ==
    ASSUME NEW g, NEW h \in Group, h.owner = g.owner, h.gpus = g.gpus,
           h.wrapper = "running" => g.wrapper = "running"
    PROVE  Becomes(g, Swept(h))
BY DEF Becomes, Swept

LEMMA WrapperField ==
    ASSUME NEW g \in Group, NEW w \in {"running", "zombie", "gone"}
    PROVE  /\ [g EXCEPT !.wrapper = w] \in Group
           /\ [g EXCEPT !.wrapper = w].owner = g.owner
           /\ [g EXCEPT !.wrapper = w].gpus = g.gpus
           /\ [g EXCEPT !.wrapper = w].wrapper = w
BY DEF Group

LEMMA RestField ==
    ASSUME NEW g \in Group, NEW r \in {"alive", "dying", "gone"}
    PROVE  /\ [g EXCEPT !.rest = r] \in Group
           /\ [g EXCEPT !.rest = r].owner = g.owner
           /\ [g EXCEPT !.rest = r].gpus = g.gpus
           /\ [g EXCEPT !.rest = r].wrapper = g.wrapper
BY DEF Group

LEMMA WrapperDeadFields ==
    ASSUME NEW g \in Group, NEW c \in Codes
    PROVE  /\ WrapperDead(g, c) \in Group
           /\ WrapperDead(g, c).owner = g.owner
           /\ WrapperDead(g, c).gpus = g.gpus
           /\ WrapperDead(g, c).wrapper # "running"
<1>1. PICK w \in {"zombie", "gone"} :
         WrapperDead(g, c) = [g EXCEPT !.wrapper = w, !.rc = c]
  <2>1. CASE g.child
    BY <2>1 DEF WrapperDead
  <2>2. CASE ~g.child
    BY <2>2 DEF WrapperDead
  <2> QED
    BY <2>1, <2>2
<1> QED
  BY <1>1 DEF Group

LEMMA SignalledFields ==
    ASSUME NEW g \in Group, NEW sig
    PROVE  Becomes(g, Signalled(g, sig))
<1> DEFINE h == IF g.wrapper = "running" THEN WrapperDead(g, SIGNALLED) ELSE g
<1>1. /\ h \in Group /\ h.owner = g.owner /\ h.gpus = g.gpus
      /\ h.wrapper # "running"
  BY WrapperDeadFields DEF Codes
<1>2. Signalled(g, sig) = IF sig = "KILL" /\ h.rest = "alive" /\ h.owner \notin OutOfReach
                          THEN [h EXCEPT !.rest = "dying"] ELSE h
  BY DEF Signalled
<1> HIDE DEF h
<1>3. /\ [h EXCEPT !.rest = "dying"] \in Group
      /\ [h EXCEPT !.rest = "dying"].owner = h.owner
      /\ [h EXCEPT !.rest = "dying"].gpus = h.gpus
      /\ [h EXCEPT !.rest = "dying"].wrapper = h.wrapper
  BY <1>1, RestField
<1> QED
  BY <1>1, <1>2, <1>3 DEF Becomes

\* One group changes.
LEMMA OneMoves ==
    ASSUME group \in [Pids -> Group \cup {NULL}], NEW p, NEW h,
           group' = [group EXCEPT ![p] = h],
           p \in Pids => \/ group[p] # NULL /\ Becomes(group[p], h)
                         \/ group[p] = NULL /\ Strangers(h)
    PROVE  GroupsMove
BY DEF GroupsMove

LEMMA KillMoves ==
    ASSUME group \in [Pids -> Group \cup {NULL}], NEW p, NEW sig, KillTree(p, sig)
    PROVE  GroupsMove
<1>1. CASE group[p] = NULL \/ Refused(p) \/ p \notin Pids
  <2>1. group' = group
    BY <1>1 DEF KillTree
  <2> QED
    BY <2>1 DEF GroupsMove
<1>2. CASE group[p] # NULL /\ ~Refused(p) /\ p \in Pids
  <2>1. group[p] \in Group /\ group' = [group EXCEPT ![p] = Signalled(group[p], sig)]
    BY <1>2 DEF KillTree
  <2>2. Becomes(group[p], Signalled(group[p], sig))
    BY <2>1, SignalledFields
  <2> QED
    BY <1>2, <2>1, <2>2, OneMoves
<1> QED
  BY <1>1, <1>2

LEMMA ReapMoves ==
    ASSUME group \in [Pids -> Group \cup {NULL}], NEW p, p \in Pids => group[p] # NULL,
           ReapZombie(p)
    PROVE  GroupsMove
<1>1. group' = [group EXCEPT ![p] = Swept([group[p] EXCEPT !.wrapper = "gone"])]
  BY DEF ReapZombie
<1>2. ASSUME p \in Pids
      PROVE  Becomes(group[p], Swept([group[p] EXCEPT !.wrapper = "gone"]))
  <2>1. group[p] \in Group
    BY <1>2
  <2> QED
    BY <2>1, WrapperField, SweptBecomes
<1> QED
  BY <1>1, <1>2, OneMoves

LEMMA ProcessesMove ==
    ASSUME group \in [Pids -> Group \cup {NULL}], Processes
    PROVE  GroupsMove
<1>1. PICK p \in Pids : \/ ScriptEnds(p) \/ WrapperKilled(p) \/ RestExits(p)
                        \/ RestDies(p) \/ PidTaken(p)
  BY DEF Processes, ProcessStep
<1>2. CASE ScriptEnds(p) \/ WrapperKilled(p)
  <2>1. group[p] \in Group /\ group[p] # NULL
    BY <1>2 DEF ScriptEnds, WrapperKilled
  <2>2. PICK c \in Codes, left \in {"alive", "gone"} :
           group' = [group EXCEPT ![p] = Swept([WrapperDead(group[p], c) EXCEPT !.rest = left])]
    BY <1>2 DEF ScriptEnds, WrapperKilled, Codes
  <2>3. Becomes(group[p], Swept([WrapperDead(group[p], c) EXCEPT !.rest = left]))
    <3>1. PICK g : g = WrapperDead(group[p], c)
      OBVIOUS
    <3>2. /\ g \in Group /\ g.owner = group[p].owner /\ g.gpus = group[p].gpus
          /\ g.wrapper # "running"
      BY <2>1, <3>1, WrapperDeadFields
    <3>3. PICK h : h = [g EXCEPT !.rest = left]
      OBVIOUS
    <3>4. /\ h \in Group /\ h.owner = group[p].owner /\ h.gpus = group[p].gpus
          /\ h.wrapper # "running"
      BY <3>2, <3>3, RestField
    <3>5. Becomes(group[p], Swept(h))
      BY <3>4, SweptBecomes
    <3> QED
      BY <3>1, <3>3, <3>5
  <2> QED
    BY <2>1, <2>2, <2>3, OneMoves
<1>3. CASE RestExits(p) \/ RestDies(p)
  <2>1. /\ group[p] \in Group /\ group[p] # NULL
        /\ group' = [group EXCEPT ![p] = Swept([group[p] EXCEPT !.rest = "gone"])]
    BY <1>3 DEF RestExits, RestDies
  <2>2. Becomes(group[p], Swept([group[p] EXCEPT !.rest = "gone"]))
    BY <2>1, RestField, SweptBecomes
  <2> QED
    BY <2>1, <2>2, OneMoves
<1>4. CASE PidTaken(p)
  <2>1. PICK h : /\ group' = [group EXCEPT ![p] = h] /\ group[p] = NULL
                 /\ h = [owner |-> FOREIGN, wrapper |-> "gone", rest |-> "alive",
                         rc |-> NULL, child |-> FALSE, gpus |-> {}]
    BY <1>4 DEF PidTaken
  <2>2. Strangers(h)
    BY <2>1 DEF Strangers, Group
  <2> QED
    BY <2>1, <2>2, OneMoves
<1> QED
  BY <1>1, <1>2, <1>3, <1>4

LEMMA UpInit == DaemonInit => UpInv
<1> SUFFICES ASSUME DaemonInit PROVE UpInv
  OBVIOUS
<1>1. /\ phase = "idle" /\ group = [p \in Pids |-> NULL] /\ pid = [j \in Jobs |-> NULL]
      /\ popens = [j \in Jobs |-> NULL]
  BY DEF DaemonInit, RunnerInit, RowInit
<1>2. \A j \in Jobs : state[j] # "RUNNING"
  BY RowStates DEF DaemonInit, DispatchInit, LedgerInit
<1> QED
  BY <1>1, <1>2 DEF UpInv, BeingSpawned

\* Groups move while the rows stay, ...
LEMMA UpQuiet ==
    ASSUME UpInv, GroupsMove, UNCHANGED <<state, pid, gpu_ids>>,
           popens' = [j \in Jobs |-> popens'[j]],
           \A j \in Jobs : popens[j] \in Popen => popens'[j] \in Popen,
           \/ phase # "spawned" /\ phase' # "spawned"
           \/ UNCHANGED <<phase, cur, popens, out>>,
           phase' \notin {"down", "recover", "recoverDecide"}
    PROVE  UpInv' /\ NoneLeft
<1>1. NoneLeft
  BY DEF NoneLeft, Leaves
<1>2. group' \in [Pids -> Group \cup {NULL}]
  BY DEF UpInv, GroupsMove, Becomes, Strangers
<1>3. ASSUME NEW p \in Pids, group'[p] # NULL
      PROVE  Charged(p)'
  <2>1. CASE group[p] = NULL /\ Strangers(group'[p])
    BY <2>1 DEF Strangers, Charged
  <2>2. CASE group[p] # NULL
    <3>1. group'[p].owner = group[p].owner /\ group'[p].gpus = group[p].gpus
      BY <1>3, <2>2 DEF GroupsMove, Becomes
    <3>2. Charged(p)
      BY <2>2 DEF UpInv
    <3> QED
      BY <3>1, <3>2 DEF Charged, BeingSpawned
  <2> QED
    BY <1>3, <2>1, <2>2 DEF GroupsMove
<1>4. pid' = [j \in Jobs |-> pid'[j]]
  BY DEF UpInv
<1>5. \A j \in Jobs : state'[j] = "RUNNING" \/ BeingSpawned(j)' => popens'[j] \in Popen
  BY DEF UpInv, BeingSpawned
<1> QED
  BY <1>1, <1>2, <1>3, <1>4, <1>5 DEF UpInv

\* ... and the row of one job moves that has no process (any more).
LEMMA UpRow ==
    ASSUME UpInv, NEW j \in Jobs, group' = group, phase # "spawned",
           \A p \in Pids : group[p] # NULL => group[p].owner # j,
           \A k \in Jobs : k # j => /\ state'[k] = state[k] /\ pid'[k] = pid[k]
                                    /\ gpu_ids'[k] = gpu_ids[k]
                                    /\ popens'[k] = popens[k],
           pid' = [k \in Jobs |-> pid'[k]],
           popens' = [k \in Jobs |-> popens'[k]],
           state'[j] # "RUNNING",
           phase' \notin {"spawned", "down", "recover", "recoverDecide"}
    PROVE  UpInv' /\ NoneLeft
<1>1. NoneLeft
  BY DEF NoneLeft, Leaves
<1>2. ASSUME NEW p \in Pids, group'[p] # NULL
      PROVE  Charged(p)'
  <2>1. Charged(p) /\ group[p].owner # j
    BY <1>2 DEF UpInv
  <2> QED
    BY <2>1 DEF Charged, BeingSpawned
<1>3. \A k \in Jobs : state'[k] = "RUNNING" \/ BeingSpawned(k)' => popens'[k] \in Popen
  BY DEF UpInv, BeingSpawned
<1> QED
  BY <1>1, <1>2, <1>3 DEF UpInv

\* A job that is not running has no process.
LEMMA NotRunningNoGroup ==
    ASSUME UpInv, phase # "spawned", NEW j \in Jobs, state[j] # "RUNNING"
    PROVE  \A p \in Pids : group[p] # NULL => group[p].owner # j
BY RunnerAssumption DEF UpInv, Charged, BeingSpawned

\* A row that leaves a state other than RUNNING for one.
LEMMA UpIdleRow ==
    ASSUME UpInv, state \in [Jobs -> States \cup {NULL}], NEW j \in Jobs, NEW s \in States,
           state[j] # "RUNNING", s # "RUNNING", state' = [state EXCEPT ![j] = s],
           group' = group, popens' = popens, phase # "spawned",
           pid' = pid \/ pid' = [pid EXCEPT ![j] = NULL],
           \A k \in Jobs : k # j => gpu_ids'[k] = gpu_ids[k],
           phase' = phase
    PROVE  UpInv' /\ NoneLeft
<1>1. state'[j] # "RUNNING" /\ \A k \in Jobs : k # j => state'[k] = state[k]
  OBVIOUS
<1>2. /\ pid' = [k \in Jobs |-> pid'[k]]
      /\ \A k \in Jobs : k # j => pid'[k] = pid[k]
  BY DEF UpInv
<1>3. \A p \in Pids : group[p] # NULL => group[p].owner # j
  BY NotRunningNoGroup
<1>4. popens' = [k \in Jobs |-> popens'[k]]
  BY DEF UpInv
<1>5. phase' \notin {"spawned", "down", "recover", "recoverDecide"}
  BY DEF UpInv
<1> QED
  BY <1>1, <1>2, <1>3, <1>4, <1>5, UpRow

LEMMA UpUsers ==
    ASSUME UpInv, Users, state \in [Jobs -> States \cup {NULL}],
           gpu_ids \in [Jobs -> (SUBSET Gpus) \cup {NULL}]
    PROVE  UpInv' /\ NoneLeft
<1>1. PICK j \in Jobs : \/ SubmitJob(j) \/ CancelQueuedJob(j)
                        \/ CancelRunningJob(j) \/ RequeueJob(j)
  BY DEF Users
<1>2. CASE CancelRunningJob(j)
  <2>1. /\ phase = "idle" /\ phase' = "cancelKill"
        /\ UNCHANGED <<state, pid, gpu_ids, popens, group>>
    BY <1>2 DEF CancelRunningJob, MarkCancelRequested, Goto, dispatchVars, ledgerVars,
                memoryVars, runnerVars
  <2>2. GroupsMove
    BY <2>1 DEF GroupsMove, UpInv
  <2>3. popens' = [k \in Jobs |-> popens'[k]]
    BY <2>1 DEF UpInv
  <2> QED
    BY <2>1, <2>2, <2>3, UpQuiet
<1>3. CASE SubmitJob(j)
  <2>1. /\ phase = "idle" /\ phase' = phase /\ state[j] = NULL
        /\ state' = [state EXCEPT ![j] = "QUEUED"]
        /\ UNCHANGED <<gpu_ids, pid, popens, group>>
    BY <1>3 DEF SubmitJob, Submit, AddJob, loopVars, memoryVars, runnerVars, rowVars
  <2> QED
    BY <2>1, RowStates, UpIdleRow DEF States
<1>4. CASE CancelQueuedJob(j)
  <2>1. /\ phase = "idle" /\ phase' = phase /\ state[j] = "QUEUED"
        /\ state' = [state EXCEPT ![j] = "CANCELLED"]
        /\ UNCHANGED <<gpu_ids, pid, popens, group>>
    BY <1>4 DEF CancelQueuedJob, CancelQueued, CloseRow, SetExitCode, loopVars,
                memoryVars, runnerVars
  <2> QED
    BY <2>1, UpIdleRow DEF States, FINAL_STATES
<1>5. CASE RequeueJob(j)
  <2>1. /\ phase = "idle" /\ phase' = phase /\ state[j] \in FINAL_STATES
        /\ state' = [state EXCEPT ![j] = "QUEUED"]
        /\ gpu_ids' = [gpu_ids EXCEPT ![j] = NULL] /\ pid' = [pid EXCEPT ![j] = NULL]
        /\ UNCHANGED <<popens, group>>
    BY <1>5 DEF RequeueJob, Requeue, ReopenRow, ClearRun, loopVars, memoryVars, runnerVars
  <2>2. \A k \in Jobs : k # j => gpu_ids'[k] = gpu_ids[k]
    BY <2>1
  <2>3. state[j] # "RUNNING"
    BY <2>1 DEF FINAL_STATES
  <2> QED
    BY <2>1, <2>2, <2>3, UpIdleRow DEF States
<1> QED
  BY <1>1, <1>2, <1>3, <1>4, <1>5

LEMMA UpPoll ==
    ASSUME UpInv, CarryInv, NEW j \in Jobs, ReapPoll(j)
    PROVE  UpInv' /\ NoneLeft
<1>1. /\ phase = "reap" /\ phase' = "reapRead" /\ j \in todo_jobs
      /\ UNCHANGED <<state, pid, gpu_ids>>
  BY DEF ReapPoll, Goto, dispatchVars, ledgerVars, rowVars
<1>2. popens[j] \in Popen
  BY <1>1 DEF CarryInv, LoopOK, Running, UpInv
<1>3. PICK p \in Pids : p = popens[j].pid
  BY <1>2 DEF Popen
<1>4. \/ UNCHANGED <<group, popens>>
      \/ /\ group[p] # NULL /\ ReapZombie(p)
         /\ popens' = [popens EXCEPT ![j].returncode = group[p].rc]
  BY <1>2, <1>3, PopenAssumption DEF ReapPoll, runnerVars
<1>5. CASE UNCHANGED <<group, popens>>
  <2>1. GroupsMove /\ popens' = [k \in Jobs |-> popens'[k]]
    BY <1>5 DEF GroupsMove, UpInv
  <2> QED
    BY <1>1, <1>5, <2>1, UpQuiet
<1>6. CASE /\ group[p] # NULL /\ ReapZombie(p)
           /\ popens' = [popens EXCEPT ![j].returncode = group[p].rc]
  <2>1. GroupsMove
    BY <1>6, ReapMoves DEF UpInv
  <2>2. group[p].rc \in Codes \cup {NULL}
    BY <1>6 DEF UpInv, Group
  <2>3. PICK po \in Popen : popens' = [popens EXCEPT ![j] = po]
    <3>1. [popens[j] EXCEPT !.returncode = group[p].rc] \in Popen
      BY <1>2, <2>2 DEF Popen
    <3> QED
      BY <1>6, <3>1
  <2>4. popens' = [k \in Jobs |-> IF k = j THEN po ELSE popens[k]]
    BY <2>3 DEF UpInv
  <2>5. /\ popens' = [k \in Jobs |-> popens'[k]]
        /\ \A k \in Jobs : popens[k] \in Popen => popens'[k] \in Popen
    BY <2>4
  <2> QED
    BY <1>1, <2>1, <2>5, UpQuiet
<1> QED
  BY <1>4, <1>5, <1>6

LEMMA UpReaper ==
    ASSUME UpInv, CarryInv, CurOK, state \in [Jobs -> States \cup {NULL}],
           ReapRead \/ ReapAdopted \/ ReapGone \/ ReapStragglers \/ ReapAlive
    PROVE  UpInv' /\ NoneLeft
<1>1. CASE ReapRead \/ ReapStragglers \/ ReapAlive
  <2>1. /\ phase \in {"reapRead", "reapDecide"} /\ phase' \in {"reap", "reapDecide"}
        /\ UNCHANGED <<state, pid, gpu_ids, popens>>
    BY <1>1 DEF ReapRead, ReapStragglers, ReapAlive, ReapNext, Goto, dispatchVars,
                ledgerVars, rowVars, memoryVars
  <2>2. group' = group \/ KillTree(pid[cur.job], "KILL")
    BY <1>1 DEF ReapRead, ReapStragglers, ReapAlive, runnerVars
  <2>3. GroupsMove
    BY <2>2, KillMoves DEF GroupsMove, UpInv
  <2>4. popens' = [k \in Jobs |-> popens'[k]]
    BY <2>1 DEF UpInv
  <2> QED
    BY <2>1, <2>3, <2>4, UpQuiet
<1> DEFINE j == cur.job
<1>2. ASSUME phase = "reapDecide"
      PROVE  j \in Jobs /\ state[j] = "RUNNING" /\ popens[j] \in Popen
  <2>1. j \in Jobs
    BY <1>2, VisitNamesJob DEF CurOK, Visiting
  <2>2. state[j] = "RUNNING"
    BY <1>2, <2>1 DEF CarryInv, LoopOK, Running
  <2> QED
    BY <2>1, <2>2 DEF UpInv
\* The reaper never takes the exit file for the end of a job it has a Popen of.
<1>3. ~ReapAdopted
  BY <1>2, PopenAssumption DEF ReapAdopted
<1>4. CASE ReapGone
  <2>1. phase = "reapDecide" /\ phase' = "reap" /\ group' = group /\ group[pid[j]] = NULL
    BY <1>4 DEF ReapGone, ReapNext, GroupAlive, runnerVars
  <2>2. \E code : Finalize(j, code)
    BY <1>4 DEF ReapGone
  <2> HIDE DEF j
  <2>3. PICK code : Finalize(j, code)
    BY <2>2
  <2>4. PICK s \in FINAL_STATES : state' = [state EXCEPT ![j] = s]
    BY <2>3 DEF Finalize, FinishAs, CloseRow
  <2>5. gpu_ids' = gpu_ids /\ pid' = pid /\ popens' = [popens EXCEPT ![j] = NULL]
    BY <2>3 DEF Finalize, FinishAs, CloseRow, SetExitCode
  <2>6. /\ j \in Jobs /\ pid' = [k \in Jobs |-> pid'[k]]
        /\ popens' = [k \in Jobs |-> popens'[k]]
        /\ \A k \in Jobs : k # j => popens'[k] = popens[k]
    BY <1>2, <2>1, <2>5 DEF UpInv
  <2>7. state'[j] # "RUNNING" /\ \A k \in Jobs : k # j => state'[k] = state[k]
    <3>1. state'[j] = s
      BY <2>4, <2>6
    <3> QED
      BY <2>4, <2>6, <3>1, RowStates DEF FINAL_STATES
  <2>8. ASSUME NEW p \in Pids, group[p] # NULL
        PROVE  group[p].owner # j
    <3>1. Charged(p)
      BY <2>8 DEF UpInv
    <3> QED
      BY <2>1, <2>6, <2>8, <3>1, RunnerAssumption DEF Charged, BeingSpawned
  <2> QED
    BY <2>1, <2>5, <2>6, <2>7, <2>8, UpRow
<1> QED
  BY <1>1, <1>3, <1>4

\* Steps of the lock holder that at most signal one group.
LEMMA UpSignals ==
    ASSUME UpInv,
           \/ CancelKill \/ EvictKill \/ CycleBegins \/ ReapEnds \/ EnforceBegins
           \/ \E j \in Jobs : EnforceEvicted(j) \/ EnforceStrike(j) \/ Evict(j)
           \/ DispatchBegins \/ DispatchPlans \/ DispatchEnds
    PROVE  UpInv' /\ NoneLeft
<1>1. /\ phase # "spawned" /\ phase' \notin {"spawned", "down", "recover", "recoverDecide"}
      /\ UNCHANGED <<state, pid, gpu_ids, popens>>
      /\ group' = group \/ KillTree(pid[cur.job], "TERM")
  <2>1. CASE CancelKill \/ EvictKill
    BY <2>1 DEF CancelKill, EvictKill, Goto, dispatchVars, ledgerVars, rowVars, memoryVars
  <2>2. CASE CycleBegins \/ EnforceBegins
    BY <2>2 DEF CycleBegins, EnforceBegins, AgeRequests, dispatchVars, ledgerVars, rowVars,
                memoryVars, runnerVars
  <2>3. CASE ReapEnds \/ DispatchEnds
    BY <2>3 DEF ReapEnds, DispatchEnds, CycleWithoutSnapshot, CycleEnds, Goto, ledgerVars,
                rowVars, memoryVars, runnerVars
  <2>4. CASE \E j \in Jobs : EnforceEvicted(j) \/ EnforceStrike(j)
    BY <2>4 DEF EnforceEvicted, EnforceStrike, EnforceNext, dispatchVars, ledgerVars,
                rowVars, memoryVars, runnerVars
  <2>5. CASE \E j \in Jobs : Evict(j)
    BY <2>5 DEF Evict, EnforceNext, MarkCancelRequested, dispatchVars, ledgerVars, runnerVars
  <2>6. CASE DispatchBegins
    BY <2>6 DEF DispatchBegins, PlanBegins, Goto, ledgerVars, rowVars, memoryVars, runnerVars
  <2>7. CASE DispatchPlans
    BY <2>7 DEF DispatchPlans, PlanNextJob, PlanEnds, ledgerVars, rowVars, loopVars,
                memoryVars, runnerVars
  <2> QED
    BY <2>1, <2>2, <2>3, <2>4, <2>5, <2>6, <2>7
<1>2. GroupsMove
  BY <1>1, KillMoves DEF GroupsMove, UpInv
<1>3. popens' = [k \in Jobs |-> popens'[k]]
  BY <1>1 DEF UpInv
<1> QED
  BY <1>1, <1>2, <1>3, UpQuiet

LEMMA UpSpawn ==
    ASSUME UpInv, QueueOK, NEW j \in Jobs, NEW p \in Pids, Spawn(j, p),
           out \in [Jobs -> (SUBSET Gpus) \cup {NULL}]
    PROVE  UpInv' /\ NoneLeft
<1>1. /\ phase = "dispatch" /\ phase' = "spawned" /\ cur' = About(j) /\ out[j] # NULL
      /\ state[j] = "QUEUED" /\ group[p] = NULL
      /\ popens' = [popens EXCEPT ![j] = [pid |-> p, returncode |-> NULL]]
      /\ UNCHANGED <<state, pid, gpu_ids, out>>
  BY DEF Spawn, StartGroup, NextAssignment, QueueOK, Goto, dispatchVars, ledgerVars,
         planVars, rowVars
<1>2. PICK g : /\ g = [owner |-> j, wrapper |-> "running", rest |-> "alive", rc |-> NULL,
                       child |-> TRUE, gpus |-> out[j]]
               /\ group' = [group EXCEPT ![p] = g]
  BY DEF Spawn, StartGroup
<1>3. g \in Group /\ g.owner = j /\ g.gpus = out[j]
  BY <1>1, <1>2 DEF Group
<1>4. PICK po \in Popen : po.pid = p /\ popens' = [popens EXCEPT ![j] = po]
  <2>1. /\ [pid |-> p, returncode |-> NULL] \in Popen
        /\ [pid |-> p, returncode |-> NULL].pid = p
    BY DEF Popen
  <2> QED
    BY <1>1, <2>1
<1>5. cur'.job = j
  BY <1>1 DEF About
<1>6. popens' = [k \in Jobs |-> IF k = j THEN po ELSE popens[k]]
  BY <1>4 DEF UpInv
<1>7. group' = [q \in Pids |-> IF q = p THEN g ELSE group[q]]
  BY <1>2 DEF UpInv
<1>8. \A k \in Jobs : state'[k] = "RUNNING" \/ BeingSpawned(k)' => popens'[k] \in Popen
  BY <1>1, <1>5, <1>6 DEF UpInv, BeingSpawned
<1>9. ASSUME NEW q \in Pids, group'[q] # NULL
      PROVE  Charged(q)'
  <2>1. CASE q = p
    <3>1. group'[q] = g /\ popens'[j] = po
      BY <1>6, <1>7, <2>1
    <3> QED
      BY <1>1, <1>3, <1>4, <1>5, <2>1, <3>1 DEF Charged, BeingSpawned
  <2>2. CASE q # p
    <3>1. group'[q] = group[q]
      BY <1>7, <2>2
    <3>2. Charged(q)
      BY <1>9, <3>1 DEF UpInv
    <3> QED
      BY <1>1, <3>1, <3>2 DEF Charged, BeingSpawned
  <2> QED
    BY <2>1, <2>2
<1>10. NoneLeft
  BY <1>1 DEF NoneLeft, Leaves
<1>11. group' \in [Pids -> Group \cup {NULL}]
  BY <1>3, <1>7 DEF UpInv
<1>12. /\ popens' = [k \in Jobs |-> popens'[k]] /\ pid' = [k \in Jobs |-> pid'[k]]
       /\ phase' \notin {"down", "recover", "recoverDecide"}
  BY <1>1, <1>6 DEF UpInv
<1> QED
  BY <1>8, <1>9, <1>10, <1>11, <1>12 DEF UpInv

LEMMA UpMark ==
    ASSUME UpInv, CurOK, QueueOK, MarkRunning, state \in [Jobs -> States \cup {NULL}],
           gpu_ids \in [Jobs -> (SUBSET Gpus) \cup {NULL}]
    PROVE  UpInv' /\ NoneLeft
<1>1. PICK j : j = cur.job
  OBVIOUS
<1>2. /\ phase = "spawned" /\ phase' = "dispatch" /\ state[j] = "QUEUED"
      /\ state' = [state EXCEPT ![j] = "RUNNING"]
      /\ gpu_ids' = [gpu_ids EXCEPT ![j] = out[j]]
      /\ pid' = [pid EXCEPT ![j] = popens[j].pid]
      /\ UNCHANGED <<popens, group>>
  BY <1>1 DEF MarkRunning, Launch, NextAssignment, QueueOK, AssignGpus, SetPid, Goto,
              memoryVars, runnerVars
<1>3. j \in Jobs
  BY <1>1, <1>2, VisitNamesJob DEF CurOK, Visiting
<1>4. /\ pid' = [k \in Jobs |-> IF k = j THEN popens[j].pid ELSE pid[k]]
      /\ \A k \in Jobs : k # j => state'[k] = state[k] /\ gpu_ids'[k] = gpu_ids[k]
      /\ state'[j] = "RUNNING" /\ gpu_ids'[j] = out[j]
  BY <1>2, <1>3 DEF UpInv
<1>5. \A k \in Jobs : BeingSpawned(k) <=> k = j
  BY <1>1, <1>2 DEF BeingSpawned
<1>6. ASSUME NEW p \in Pids, group'[p] # NULL
      PROVE  Charged(p)'
  <2>1. Charged(p)
    BY <1>2, <1>6 DEF UpInv
  <2> QED
    BY <1>2, <1>3, <1>4, <1>5, <2>1 DEF Charged
<1>7. \A k \in Jobs : state'[k] = "RUNNING" \/ BeingSpawned(k)' => popens'[k] \in Popen
  BY <1>2, <1>3, <1>4, <1>5 DEF UpInv, BeingSpawned
<1>8. NoneLeft
  BY <1>2, <1>4 DEF NoneLeft, Leaves
<1>9. /\ pid' = [k \in Jobs |-> pid'[k]] /\ popens' = [k \in Jobs |-> popens'[k]]
      /\ group' \in [Pids -> Group \cup {NULL}]
      /\ phase' \notin {"down", "recover", "recoverDecide"}
  BY <1>2, <1>4 DEF UpInv
<1> QED
  BY <1>6, <1>7, <1>8, <1>9 DEF UpInv

\* Only a crash counts as one.
LEMMA CrashCount ==
    ASSUME CountOK, [DaemonNext]_daemonVars
    PROVE  CountOK'
<1> USE DEF CountOK
<1>1. CASE Crash \/ Reboot
  <2>1. crashes' = crashes + 1
    BY <1>1 DEF Crash, Reboot
  <2> QED
    BY <2>1
<1>2. CASE Users
  BY <1>2 DEF Users, SubmitJob, CancelQueuedJob, CancelRunningJob, RequeueJob
<1>3. CASE LockHolder \/ CycleBegins
  BY <1>3 DEF LockHolder, CycleBegins, CancelKill, ReapPoll, ReapRead, ReapAdopted, ReapGone,
              ReapStragglers, ReapAlive, ReapNext, ReapEnds, EnforceBegins, EnforceEvicted,
              EnforceStrike, Evict, EvictKill, DispatchBegins, DispatchPlans, SpawnFails,
              SpawnRaises, KillRaises, Spawn, MarkRunning, DispatchEnds
<1>4. CASE Recovery \/ Processes
  BY <1>4 DEF Recovery, Start, RecoverRead, Readopt, RecoverFinalizes, RecoverNext,
              RecoverEnds, Processes, ProcessStep
<1>5. CASE UNCHANGED daemonVars
  BY <1>5 DEF daemonVars
<1> QED
  BY <1>1, <1>2, <1>3, <1>4, <1>5 DEF DaemonNext

LEMMA UpStep ==
    ASSUME StaysUp, UpInv, CarryInv, CurOK, Inv, CountOK, [DaemonNext]_daemonVars
    PROVE  UpInv' /\ NoneLeft
<1>1. /\ state \in [Jobs -> States \cup {NULL}] /\ QueueOK
      /\ gpu_ids \in [Jobs -> (SUBSET Gpus) \cup {NULL}]
      /\ out \in [Jobs -> (SUBSET Gpus) \cup {NULL}]
  BY DEF Inv, DispatchTypeOK, LedgerTypeOK, SchedulerTypeOK
<1>2. CASE Users
  BY <1>1, <1>2, UpUsers
<1>3. CASE LockHolder \/ CycleBegins
  <2>1. CASE \/ CancelKill \/ EvictKill \/ CycleBegins \/ ReapEnds \/ EnforceBegins
             \/ \E j \in Jobs : EnforceEvicted(j) \/ EnforceStrike(j) \/ Evict(j)
             \/ DispatchBegins \/ DispatchPlans \/ DispatchEnds
    BY <2>1, UpSignals
  <2>2. CASE \E j \in Jobs : ReapPoll(j)
    BY <2>2, UpPoll
  <2>3. CASE ReapRead \/ ReapAdopted \/ ReapGone \/ ReapStragglers \/ ReapAlive
    BY <1>1, <2>3, UpReaper
  <2>4. CASE MarkRunning
    BY <1>1, <2>4, UpMark
  <2>5. ASSUME NEW j \in Jobs, SpawnFails(j)
        PROVE  UpInv' /\ NoneLeft
    <3>1. /\ phase = "dispatch" /\ phase' = phase /\ state[j] = "QUEUED"
          /\ state' = [state EXCEPT ![j] = "FAILED"]
          /\ UNCHANGED <<gpu_ids, pid, popens, group>>
      BY <1>1, <2>5 DEF SpawnFails, LaunchFails, NextAssignment, QueueOK, CloseRow,
                        SetExitCode, LaunchError, loopVars, memoryVars
    <3> QED
      BY <1>1, <3>1, UpIdleRow DEF States, FINAL_STATES
  <2>6. ASSUME NEW j \in Jobs, NEW p \in Pids, Spawn(j, p)
        PROVE  UpInv' /\ NoneLeft
    BY <1>1, <2>6, UpSpawn
  <2>7. ASSUME NEW j \in Jobs, SpawnRaises(j)
        PROVE  FALSE
    BY <2>7 DEF SpawnRaises, StaysUp
  <2>8. ~KillRaises
    BY DEF KillRaises, Refused, StaysUp
  <2> QED
    BY <1>3, <2>1, <2>2, <2>3, <2>4, <2>5, <2>6, <2>7, <2>8 DEF LockHolder
<1>4. CASE Processes
  <2>1. GroupsMove
    BY <1>4, ProcessesMove DEF UpInv
  <2>2. UNCHANGED <<state, pid, gpu_ids, popens, phase, cur, out>>
    BY <1>4 DEF Processes, ProcessStep, dispatchVars, ledgerVars, planVars, rowVars,
                loopVars, memoryVars
  <2>3. /\ popens' = [k \in Jobs |-> popens'[k]]
        /\ phase' \notin {"down", "recover", "recoverDecide"}
    BY <2>2 DEF UpInv
  <2> QED
    BY <2>1, <2>2, <2>3, UpQuiet
<1>5. ~Recovery
  BY DEF UpInv, Recovery, Start, RecoverRead, Readopt, RecoverFinalizes, RecoverNext,
         RecoverEnds
<1>6. ~Crash /\ ~Reboot
  <2>1. ~(crashes < MaxCrashes)
    BY DEF StaysUp, CountOK
  <2> QED
    BY <2>1 DEF Crash, Reboot
<1>7. CASE UNCHANGED daemonVars
  <2>1. /\ GroupsMove /\ popens' = [k \in Jobs |-> popens'[k]]
        /\ phase' \notin {"down", "recover", "recoverDecide"}
    BY <1>7 DEF GroupsMove, UpInv, daemonVars, runnerVars, loopVars, memoryVars
  <2> QED
    BY <1>7, <2>1, UpQuiet DEF daemonVars, dispatchVars, ledgerVars, planVars, rowVars,
                               loopVars, memoryVars
<1> QED
  BY <1>2, <1>3, <1>4, <1>5, <1>6, <1>7 DEF DaemonNext

\* A group of a job stands on GPUs its job holds in the ledger.
LEMMA ChargedHolds ==
    ASSUME UpInv, NEW p \in Pids, group[p] # NULL, NEW g \in group[p].gpus
    PROVE  group[p].owner \in Holders(g)
<1>1. group[p].gpus \in SUBSET Gpus /\ Charged(p)
  BY DEF UpInv, Group
<1> QED
  BY <1>1, LedgerAssumption DEF Charged, Holders, Tenants

LEMMA UpNotMixed ==
    ASSUME UpInv, NoOvercommit
    PROVE  CardsAreNotMixed
<1> SUFFICES ASSUME NEW p \in Pids, NEW q \in Pids, group[p] # NULL, group[q] # NULL,
                    group[p].gpus \cap group[q].gpus # {},
                    group[p].owner # group[q].owner
             PROVE  ~Exclusive(group[p].owner)
  BY DEF CardsAreNotMixed
<1>1. PICK g : g \in group[p].gpus /\ g \in group[q].gpus
  OBVIOUS
<1>2. g \in Gpus
  BY <1>1 DEF UpInv, Group
<1>3. group[p].owner \in Holders(g) /\ group[q].owner \in Holders(g)
  BY <1>1, ChargedHolds
<1> QED
  BY <1>2, <1>3 DEF NoOvercommit

LEMMA UpAlways ==
    ASSUME StaysUp
    PROVE  DaemonSpec => [](UpInv /\ NoOvercommit) /\ [][NoneLeft]_daemonVars
<1>1. DaemonInit => CurOK /\ CarryInv /\ UpInv /\ CountOK
  BY CurInit, CarryInit, UpInit DEF DaemonInit, CountOK
<1>2. CurOK /\ [DaemonNext]_daemonVars => CurOK'
  BY CurStep
<1>3. CarryInv /\ CurOK /\ Inv /\ [DaemonNext]_daemonVars => CarryInv'
  BY CarryStep
<1>4. CountOK /\ [DaemonNext]_daemonVars => CountOK'
  BY CrashCount
<1>5. UpInv /\ CarryInv /\ CurOK /\ Inv /\ CountOK /\ [DaemonNext]_daemonVars
        => UpInv' /\ NoneLeft
  BY UpStep
<1>6. Inv => NoOvercommit
  BY DEF Inv
<1>7. DaemonSpec => []Inv
  BY DaemonImplementsDispatch, Invariance, PTL
<1> QED
  BY <1>1, <1>2, <1>3, <1>4, <1>5, <1>6, <1>7, PTL DEF DaemonSpec

\* While the daemon stays up, whatever is left of a job is charged for: its row is
\* RUNNING, names that group and holds the GPUs the group runs on (_reap finalises a
\* job of this daemon only when group_alive says its group is gone).
THEOREM GroupsAreCharged ==
    ASSUME StaysUp
    PROVE  DaemonSpec => []LiveGroupsAreCharged
<1>1. UpInv => LiveGroupsAreCharged
  BY DEF UpInv, Charged, LiveGroupsAreCharged
<1> QED
  BY <1>1, UpAlways, PTL

\* While the daemon stays up, a job leaves RUNNING only when its whole process group
\* is gone, zombies and stragglers included (docs/how-it-works.md:34-37).
THEOREM FinishedJobsAreGone ==
    ASSUME StaysUp
    PROVE  DaemonSpec => FinishedMeansGone
<1>1. NoneLeft => \A j \in Jobs : Leaves(j) =>
                    \A p \in Pids : group[p] # NULL => group[p].owner # j
  BY DEF NoneLeft
<1> QED
  BY <1>1, UpAlways, PTL DEF FinishedMeansGone

\* While the daemon stays up, the ledger's promise holds on the cards themselves: no
\* process of another job is on a card that an exclusive job's process is on.
THEOREM CardsStayApart ==
    ASSUME StaysUp
    PROVE  DaemonSpec => []CardsAreNotMixed
<1>1. UpInv /\ NoOvercommit => CardsAreNotMixed
  BY UpNotMixed
<1> QED
  BY <1>1, UpAlways, PTL

=============================================================================
