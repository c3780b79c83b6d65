----------------------------- MODULE Scheduler ------------------------------
(***************************************************************************)
(* gpu_queue/scheduler.py: which GPUs are dispatchable (free_gpus), where  *)
(* one job goes (_place), and FIFO with backfill and a starvation guard    *)
(* (plan).  plan() loops over the queued jobs; the model takes one step    *)
(* per job so that what holds between two placements can be stated.        *)
(*                                                                         *)
(* Memory is counted in units the job owns: a job that reserves n units    *)
(* owns the n pairs <<job, 1>> .. <<job, n>>, and what a set of jobs       *)
(* reserves is the cardinality of the union.                               *)
(***************************************************************************)
EXTENDS Ledger

CONSTANTS
    mem_total_mb,        \* [Gpus -> Nat]
    VRAM_HEADROOM_MB,
    VRAM_OVERHEAD_MB,
    RESERVE_AFTER_S      \* in scheduler cycles

ASSUME SchedulerAssumption ==
    /\ mem_total_mb \in [Gpus -> Nat]
    /\ VRAM_HEADROOM_MB \in Nat
    /\ VRAM_OVERHEAD_MB \in Nat
    /\ RESERVE_AFTER_S \in Nat
    /\ NULL \notin [free_mb : Int, empty : BOOLEAN]

VARIABLES
    head_blocked_since,  \* [Jobs -> cycles since it first headed the blocked
                         \*          jobs (saturating), or NULL]
    todo,                \* the queued jobs plan() has not looked at yet
    avail,               \* [Gpus -> GpuSlot, or NULL when not in the pool]
    out,                 \* [Jobs -> GPUs of its Assignment, or NULL]
    head_blocked         \* plan() has met a blocked job

planVars == <<head_blocked_since, todo, avail, out, head_blocked>>

GpuSlot == [free_mb : Int, empty : BOOLEAN]
NoSlots == [g \in Gpus |-> NULL]
NoAssignment == [j \in Jobs |-> NULL]

SchedulerTypeOK ==
    /\ head_blocked_since \in [Jobs -> (0..RESERVE_AFTER_S) \cup {NULL}]
    /\ todo \in Seq(Jobs)
    /\ avail \in [Gpus -> GpuSlot \cup {NULL}]
    /\ out \in [Jobs -> (SUBSET Gpus) \cup {NULL}]
    /\ head_blocked \in BOOLEAN

SchedulerInit ==
    /\ head_blocked_since = [j \in Jobs |-> NULL]
    /\ todo = <<>>
    /\ avail = NoSlots
    /\ out = NoAssignment
    /\ head_blocked = FALSE

-----------------------------------------------------------------------------
(* Capacity and the pool of slots. *)

Need(j) == vram_mb[j] + VRAM_OVERHEAD_MB
Owned(S) == UNION {{j} \X (1..Need(j)) : j \in S}
Reserved(S) == Cardinality(Owned(S))
Capacity(g) == mem_total_mb[g] - VRAM_HEADROOM_MB

FreeGpus_External(external) ==
    [g \in Gpus |->
        IF \E j \in Tenants(g) : Exclusive(j)
        THEN NULL
        ELSE [free_mb |-> Capacity(g) - Reserved(Tenants(g)),
              empty   |-> Tenants(g) = {}]]

FreeGpus_Exclusive(external) ==
    [g \in Gpus |->
        IF g \in external THEN NULL
        ELSE LET T == {j \in Tenants(g) : ~Exclusive(j)} IN
             [free_mb |-> Capacity(g) - Reserved(T), empty |-> T = {}]]

\* free_gpus, given the GPUs on which the snapshot shows someone else.
FreeGpus(external) ==
    [g \in Gpus |->
        IF g \in external \/ \E j \in Tenants(g) : Exclusive(j)
        THEN NULL
        ELSE [free_mb |-> Capacity(g) - Reserved(Tenants(g)),
              empty   |-> Tenants(g) = {}]]

EmptySlots(pool) == {g \in Gpus : pool[g] # NULL /\ pool[g].empty}
Candidates(j, pool) == {g \in Gpus : pool[g] # NULL /\ pool[g].free_mb >= Need(j)}

FirstSlots_OneMore(n, S) == {g \in S : Cardinality({h \in S : h < g}) <= n}

\* The n slots of S that come first in the pool, which is in index order.
FirstSlots(n, S) == {g \in S : Cardinality({h \in S : h < g}) < n}

Tightest_Loosest(S, pool) ==
    CHOOSE g \in S : \A h \in S : \/ pool[g].free_mb > pool[h].free_mb
                                  \/ pool[g].free_mb = pool[h].free_mb /\ g <= h

\* min(candidates, key=free_mb): the tightest, the first of equals.
Tightest(S, pool) ==
    CHOOSE g \in S : \A h \in S : \/ pool[g].free_mb < pool[h].free_mb
                                  \/ pool[g].free_mb = pool[h].free_mb /\ g <= h

\* _place: whether the job fits, where it goes, and what it leaves.
Fits(j, pool) ==
    IF Exclusive(j) THEN Cardinality(EmptySlots(pool)) >= gpus_requested[j]
                    ELSE Candidates(j, pool) # {}

Placement(j, pool) ==
    IF Exclusive(j) THEN FirstSlots(gpus_requested[j], EmptySlots(pool))
                    ELSE {Tightest(Candidates(j, pool), pool)}

DrawDown_Forgets(j, G, pool) ==
    [g \in Gpus |->
        IF g \notin G THEN pool[g]
        ELSE IF Exclusive(j) THEN NULL
        ELSE [free_mb |-> pool[g].free_mb, empty |-> FALSE]]

DrawDown(j, G, pool) ==
    [g \in Gpus |->
        IF g \notin G THEN pool[g]
        ELSE IF Exclusive(j) THEN NULL
        ELSE [free_mb |-> pool[g].free_mb - Need(j), empty |-> FALSE]]

-----------------------------------------------------------------------------
(* One call of plan(): PlanCall, a PlanJob for each queued job, PlanReturn. *)

\* The clock moves on by one cycle.
Aged(since) ==
    [j \in Jobs |-> IF since[j] # NULL /\ since[j] < RESERVE_AFTER_S
                    THEN since[j] + 1 ELSE since[j]]

PlanCall_NewestFirst(queued, slots) ==
    /\ todo' = Reverse(queued)
    /\ avail' = slots
    /\ out' = NoAssignment
    /\ head_blocked' = FALSE

PlanCall(queued, slots) ==
    /\ todo' = queued
    /\ avail' = slots
    /\ out' = NoAssignment
    /\ head_blocked' = FALSE

PlanPlaces(j) ==
    LET G == Placement(j, avail) IN
    /\ Fits(j, avail)
    /\ out' = [out EXCEPT ![j] = G]
    /\ avail' = DrawDown(j, G, avail)
    /\ head_blocked_since' = [head_blocked_since EXCEPT ![j] = NULL]
    /\ UNCHANGED head_blocked

PlanBlocksHead_NoReserve(j) ==
    LET since == IF head_blocked_since[j] = NULL THEN 0 ELSE head_blocked_since[j] IN
    /\ ~Fits(j, avail)
    /\ ~head_blocked
    /\ head_blocked' = TRUE
    /\ head_blocked_since' = [head_blocked_since EXCEPT ![j] = since]
    /\ UNCHANGED <<avail, out>>

PlanBlocksHead_NoBackfill(j) ==
    LET since == IF head_blocked_since[j] = NULL THEN 0 ELSE head_blocked_since[j] IN
    /\ ~Fits(j, avail)
    /\ ~head_blocked
    /\ head_blocked' = TRUE
    /\ head_blocked_since' = [head_blocked_since EXCEPT ![j] = since]
    /\ avail' = NoSlots
    /\ UNCHANGED out

PlanBlocksHead_Restamps(j) ==
    /\ ~Fits(j, avail)
    /\ ~head_blocked
    /\ head_blocked' = TRUE
    /\ head_blocked_since' = [head_blocked_since EXCEPT ![j] = 0]
    /\ avail' = IF RESERVE_AFTER_S = 0 THEN NoSlots ELSE avail
    /\ UNCHANGED out

\* The first blocked job starts, or keeps, its clock; once it has waited
\* RESERVE_AFTER_S nothing is left for the jobs behind it.
PlanBlocksHead(j) ==
    LET since == IF head_blocked_since[j] = NULL THEN 0 ELSE head_blocked_since[j] IN
    /\ ~Fits(j, avail)
    /\ ~head_blocked
    /\ head_blocked' = TRUE
    /\ head_blocked_since' = [head_blocked_since EXCEPT ![j] = since]
    /\ avail' = IF since >= RESERVE_AFTER_S THEN NoSlots ELSE avail
    /\ UNCHANGED out

PlanPassesOver(j) ==
    /\ ~Fits(j, avail)
    /\ head_blocked
    /\ UNCHANGED <<head_blocked_since, avail, out, head_blocked>>

PlanJob ==
    /\ todo # <<>>
    /\ todo' = Tail(todo)
    /\ \/ PlanPlaces(Head(todo))
       \/ PlanBlocksHead(Head(todo))
       \/ PlanPassesOver(Head(todo))

\* plan() forgets the jobs that are scheduled or no longer queued.
PlanReturn(queued) ==
    /\ todo = <<>>
    /\ head_blocked_since' =
         [j \in Jobs |-> IF j \in ToSet(queued) /\ out[j] = NULL
                         THEN head_blocked_since[j] ELSE NULL]
    /\ avail' = NoSlots
    /\ head_blocked' = FALSE
    /\ UNCHANGED <<todo, out>>
=============================================================================
