------------------------------ MODULE Dispatch ------------------------------
(***************************************************************************)
(* The queue as its users see it: Ledger and Scheduler composed the way    *)
(* gpu_queue/daemon.py composes them (submit, cancel, requeue, _dispatch,  *)
(* cycle), with a job's processes abstracted away: a RUNNING job may end   *)
(* whenever no cycle is in its planning half.                              *)
(*                                                                         *)
(* Daemon.lock is held for a whole cycle and by every API handler, so the  *)
(* handlers are steps of the states with pc = "idle".                      *)
(***************************************************************************)
EXTENDS Scheduler

CONSTANT ExtGpus      \* the GPUs that people outside gpu-queue may use

ASSUME DispatchAssumption == ExtGpus \subseteq Gpus

VARIABLES
    pc,               \* "idle", "plan" (in plan()) or "launch" (its caller's loop)
    external          \* the externally busy GPUs of the snapshot planned with

dispatchVars == <<ledgerVars, planVars, pc, external>>

DispatchTypeOK ==
    /\ LedgerTypeOK
    /\ SchedulerTypeOK
    /\ pc \in {"idle", "plan", "launch"}
    /\ external \in SUBSET ExtGpus

DispatchInit ==
    /\ LedgerInit
    /\ SchedulerInit
    /\ pc = "idle"
    /\ external = {}

-----------------------------------------------------------------------------
(* API handlers. *)

\* What submit() lets in.  The checks read the snapshot's totals only.
Accepted(j) ==
    /\ ~Exclusive(j) => /\ gpus_requested[j] <= 1
                        /\ \E g \in Gpus : vram_mb[j] <= mem_total_mb[g]
    /\ gpus_requested[j] <= Cardinality(Gpus)

Submit(j) ==
    /\ pc = "idle"
    /\ Accepted(j)
    /\ AddJob(j)
    /\ UNCHANGED <<planVars, pc, external>>

CancelQueued(j) ==
    /\ pc = "idle"
    /\ state[j] = "QUEUED"
    /\ CloseRow(j, "CANCELLED")
    /\ UNCHANGED <<planVars, pc, external>>

Requeue(j) ==
    /\ pc = "idle"
    /\ state[j] \in FINAL_STATES
    /\ ReopenRow(j)
    /\ UNCHANGED <<planVars, pc, external>>

-----------------------------------------------------------------------------
(* The cycle. *)

\* _finalize: a RUNNING job reaches the final state s.
FinishAs(j, s) ==
    /\ pc = "idle"
    /\ state[j] = "RUNNING"
    /\ CloseRow(j, s)
    /\ UNCHANGED <<planVars, pc, external>>

Finish(j) == \E s \in FINAL_STATES : FinishAs(j, s)

\* A cycle whose snapshot fails skips dispatch; the blocked job's clock goes on.
CycleWithoutSnapshot ==
    /\ pc = "idle"
    /\ head_blocked_since' = Aged(head_blocked_since)
    /\ UNCHANGED <<ledgerVars, todo, avail, out, head_blocked, pc, external>>

PlanBegins ==
    /\ pc = "idle"
    /\ pc' = "plan"
    /\ external' \in SUBSET ExtGpus
    /\ head_blocked_since' = Aged(head_blocked_since)
    /\ PlanCall(queue, FreeGpus(external'))
    /\ UNCHANGED ledgerVars

PlanNextJob ==
    /\ pc = "plan"
    /\ PlanJob
    /\ UNCHANGED <<ledgerVars, pc, external>>

PlanEnds ==
    /\ pc = "plan"
    /\ PlanReturn(queue)
    /\ pc' = "launch"
    /\ UNCHANGED <<ledgerVars, external>>

\* plan() returns its assignments in queue order and they are launched in it.
NextAssignment(j) ==
    \E i \in 1..Len(queue) :
        /\ queue[i] = j
        /\ out[j] # NULL
        /\ \A k \in 1..(i-1) : out[queue[k]] = NULL

Launch(j) ==
    /\ pc = "launch"
    /\ NextAssignment(j)
    /\ AssignGpus(j, out[j])
    /\ out' = [out EXCEPT ![j] = NULL]
    /\ UNCHANGED <<head_blocked_since, todo, avail, head_blocked, pc, external>>

LaunchFails_KeepsRow(j) ==
    /\ pc = "launch"
    /\ NextAssignment(j)
    /\ out' = [out EXCEPT ![j] = NULL]
    /\ UNCHANGED <<ledgerVars, head_blocked_since, todo, avail, head_blocked, pc, external>>

LaunchFails(j) ==
    /\ pc = "launch"
    /\ NextAssignment(j)
    /\ CloseRow(j, "FAILED")
    /\ out' = [out EXCEPT ![j] = NULL]
    /\ UNCHANGED <<head_blocked_since, todo, avail, head_blocked, pc, external>>

CycleEnds ==
    /\ pc = "launch"
    /\ out = NoAssignment
    /\ pc' = "idle"
    /\ external' = {}
    /\ UNCHANGED <<ledgerVars, planVars>>

\* The daemon process dies and comes back: the rows stay, its memory does not.
Restart ==
    /\ head_blocked_since' = [j \in Jobs |-> NULL]
    /\ todo' = <<>>
    /\ avail' = NoSlots
    /\ out' = NoAssignment
    /\ head_blocked' = FALSE
    /\ pc' = "idle"
    /\ external' = {}
    /\ UNCHANGED ledgerVars

-----------------------------------------------------------------------------
Cycle == \/ CycleWithoutSnapshot
         \/ PlanBegins
         \/ PlanNextJob
         \/ PlanEnds
         \/ \E j \in Jobs : Launch(j) \/ LaunchFails(j)
         \/ CycleEnds

Handlers == \E j \in Jobs : Submit(j) \/ CancelQueued(j) \/ Requeue(j)

Work == Cycle \/ Handlers \/ \E j \in Jobs : Finish(j)

DispatchNext == Work \/ Restart

DispatchSpec == DispatchInit /\ [][DispatchNext]_dispatchVars

(***************************************************************************)
(* Fairness.  run() calls cycle() again and again and nothing inside a     *)
(* cycle blocks, so a cycle that can go on does (the snapshot that never   *)
(* works again is excluded: PlanBegins is fair by itself).  A RUNNING job  *)
(* ends; a cycle disables Finish over and over, hence strong fairness.     *)
(* The daemon is taken to stay up.                                         *)
(***************************************************************************)
Fairness ==
    /\ WF_dispatchVars(PlanBegins)
    /\ WF_dispatchVars(PlanNextJob \/ PlanEnds \/ CycleEnds)
    /\ WF_dispatchVars(\E j \in Jobs : Launch(j) \/ LaunchFails(j))
    /\ \A j \in Jobs : SF_dispatchVars(Finish(j))

FairDispatchSpec == DispatchInit /\ [][Work]_dispatchVars /\ Fairness

-----------------------------------------------------------------------------
(* Properties. *)

\* The jobs that hold, or have just been assigned, GPU g.
Holders(g) == Tenants(g) \cup {j \in Jobs : out[j] # NULL /\ g \in out[j]}

\* A card is either one exclusive job's, or its share jobs fit into it
\* together with their overhead and the card's headroom.
NoOvercommit ==
    \A g \in Gpus :
        /\ \A j \in Holders(g) : Exclusive(j) => Holders(g) = {j}
        /\ (Holders(g) # {} /\ \A j \in Holders(g) : ~Exclusive(j))
              => Reserved(Holders(g)) <= Capacity(g)

\* A RUNNING or assigned job holds as many GPUs as it asked for: N whole
\* ones, or one to share.
Granted(j, G) ==
    Cardinality(G) = IF Exclusive(j) THEN gpus_requested[j] ELSE 1

GetsWhatItAsked ==
    \A j \in Jobs : /\ out[j] # NULL => Granted(j, out[j])
                    /\ state[j] = "RUNNING" => Granted(j, gpu_ids[j])

\* No job is put on a GPU on which the snapshot shows someone else.
OffLimits == \A j \in Jobs : out[j] # NULL => out[j] \cap external = {}

Decided == pc = "launch"
Unplaced == {i \in 1..Len(queue) : out[queue[i]] = NULL}

\* j asks for no less than k, of the same kind.
AtLeast(j, k) ==
    IF Exclusive(k) THEN Exclusive(j) /\ gpus_requested[j] >= gpus_requested[k]
                    ELSE ~Exclusive(j) /\ vram_mb[j] >= vram_mb[k]

\* FIFO: whenever a job is assigned GPUs, so is every job queued before it
\* that asks for no more of the same kind.  Backfill only passes bigger ones.
NoOvertaking ==
    Decided =>
        \A i, k \in 1..Len(queue) :
            (i < k /\ out[queue[k]] # NULL /\ AtLeast(queue[k], queue[i]))
                => out[queue[i]] # NULL

\* Starvation guard: behind a first blocked job that has waited
\* RESERVE_AFTER_S, no job is given a GPU.
ReservationHonoured ==
    Decided =>
        \A i \in Unplaced :
            (/\ \A h \in Unplaced : h >= i
             /\ head_blocked_since[queue[i]] = RESERVE_AFTER_S)
            => \A k \in (i+1)..Len(queue) : out[queue[k]] \in {NULL, {}}

\* The pool that the ledger and the assignments made so far leave.
Leftover ==
    [g \in Gpus |->
        IF g \in external \/ \E j \in Holders(g) : Exclusive(j)
        THEN NULL
        ELSE [free_mb |-> Capacity(g) - Reserved(Holders(g)),
              empty   |-> Holders(g) = {}]]

Starving(j) == head_blocked_since[j] = RESERVE_AFTER_S

\* Backfill leaves nothing idle that a queued job could have: when plan()
\* returns, no job it left out fits what is left, unless capacity is being
\* reserved for one that starves.
WorkConserving ==
    [][(pc = "plan" /\ pc' = "launch")
          => \/ \E i \in Unplaced' : Starving(queue[i])'
             \/ \A i \in Unplaced' : ~Fits(queue[i], Leftover)']_dispatchVars

\* The starving job's clock is never lost or set back while it stays queued
\* (and the daemon stays up), whatever is submitted, cancelled or requeued.
ClockKept ==
    [][\A j \in Jobs :
          head_blocked_since[j] # NULL =>
             \/ state'[j] # "QUEUED"
             \/ out'[j] # NULL
             \/ head_blocked_since'[j] # NULL
                /\ head_blocked_since'[j] >= head_blocked_since[j]]_dispatchVars

\* Best fit (scheduler.py:273-275, docs/how-it-works.md:95-97): a share job
\* opens an empty card only if no card in use has room for it.
EmptyCardsStayEmpty ==
    [][\A j \in Jobs, g \in Gpus :
          (/\ ~Exclusive(j) /\ out[j] = NULL /\ out'[j] # NULL /\ g \in out'[j]
           /\ Holders(g) = {})
          => ~\E h \in Gpus : /\ Leftover[h] # NULL
                              /\ ~Leftover[h].empty
                              /\ Leftover[h].free_mb >= Need(j)]_dispatchVars

\* A job that fits the machine when nothing else is on it leaves the queue
\* in the end, however much is submitted and requeued behind it.
Placeable(j) ==
    IF Exclusive(j) THEN gpus_requested[j] <= Cardinality(Gpus)
                    ELSE \E g \in Gpus : Need(j) <= Capacity(g)

NoStarvation ==
    \A j \in Jobs :
        Placeable(j) => (state[j] = "QUEUED" ~> state[j] # "QUEUED")
=============================================================================
