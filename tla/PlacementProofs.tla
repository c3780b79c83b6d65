-------------------------- MODULE PlacementProofs --------------------------
(***************************************************************************)
(* Who gets which cards, and when: every job gets as many as it asked for, *)
(* the queue keeps the promise of Allocation, and plan() is first come,    *)
(* first served with a starvation guard, wastes nothing and opens no card  *)
(* it need not.  The daemon does so too, by DaemonImplementsDispatch.      *)
(***************************************************************************)
EXTENDS Grants, DaemonProofs

(***************************************************************************)
(* Every job gets what it asked for.  GetsWhatItAsked is inductive beside  *)
(* Inv: a placement takes as many slots as the job needs (PlacementCount), *)
(* and a launch writes down what was placed.                               *)
(***************************************************************************)

LEMMA AskedInit == DispatchInit => GetsWhatItAsked
<1>1. NULL # "RUNNING"
  BY LedgerAssumption DEF States
<1> QED
  BY <1>1 DEF DispatchInit, LedgerInit, SchedulerInit, NoAssignment, GetsWhatItAsked

\* A step that neither assigns cards nor starts a job disturbs nothing.
LEMMA AskedKept ==
    ASSUME GetsWhatItAsked,
           \A k \in Jobs : out'[k] \in {NULL, out[k]},
           \A k \in Jobs : state'[k] = "RUNNING"
                             => state[k] = "RUNNING" /\ gpu_ids'[k] = gpu_ids[k]
    PROVE  GetsWhatItAsked'
BY DEF GetsWhatItAsked, Granted, Exclusive

LEMMA AskedStep ==
    Inv /\ GetsWhatItAsked /\ [DispatchNext]_dispatchVars => GetsWhatItAsked'
<1> SUFFICES ASSUME Inv, GetsWhatItAsked, [DispatchNext]_dispatchVars
             PROVE  GetsWhatItAsked'
  OBVIOUS
<1>1. /\ state \in [Jobs -> States \cup {NULL}]
      /\ gpu_ids \in [Jobs -> (SUBSET Gpus) \cup {NULL}]
      /\ out \in [Jobs -> (SUBSET Gpus) \cup {NULL}]
  BY DEF Inv, DispatchTypeOK, LedgerTypeOK, SchedulerTypeOK
<1>2. "RUNNING" \notin FINAL_STATES
  BY DEF FINAL_STATES
<1>3. ASSUME NEW j \in Jobs, Submit(j) \/ CancelQueued(j) \/ Requeue(j) \/ Finish(j)
      PROVE  GetsWhatItAsked'
  <2>1. out' = out
    BY <1>3 DEF Submit, CancelQueued, Requeue, Finish, FinishAs, planVars
  <2>2. \A k \in Jobs : state'[k] = "RUNNING"
                          => state[k] = "RUNNING" /\ gpu_ids'[k] = gpu_ids[k]
    <3>1. CASE Submit(j)
      BY <1>1, <3>1 DEF Submit, AddJob
    <3>2. CASE Requeue(j)
      BY <1>1, <3>2 DEF Requeue, ReopenRow
    <3>3. CASE CancelQueued(j) \/ Finish(j)
      <4>1. PICK s \in FINAL_STATES : CloseRow(j, s)
        BY <3>3 DEF CancelQueued, Finish, FinishAs, FINAL_STATES
      <4> QED
        BY <1>1, <1>2, <4>1 DEF CloseRow
    <3> QED
      BY <1>3, <3>1, <3>2, <3>3
  <2> QED
    BY <2>1, <2>2, AskedKept
<1>4. CASE \/ CycleWithoutSnapshot \/ PlanBegins \/ PlanEnds \/ CycleEnds
           \/ Restart \/ UNCHANGED dispatchVars
  <2>1. state' = state /\ gpu_ids' = gpu_ids /\ out' \in {out, NoAssignment}
    BY <1>4 DEF CycleWithoutSnapshot, PlanBegins, PlanCall, PlanEnds, PlanReturn,
                CycleEnds, Restart, dispatchVars, ledgerVars, planVars
  <2>2. \A k \in Jobs : out'[k] \in {NULL, out[k]}
    BY <2>1 DEF NoAssignment
  <2> QED
    BY <2>1, <2>2, AskedKept
<1>5. CASE PlanNextJob
  <2> DEFINE j == Head(todo)
  <2>1. j \in Jobs
    BY <1>5, HeadTailProperties
       DEF PlanNextJob, PlanJob, Inv, DispatchTypeOK, SchedulerTypeOK
  <2>2. /\ state' = state /\ gpu_ids' = gpu_ids
        /\ PlanPlaces(j) \/ out' = out
    BY <1>5 DEF PlanNextJob, PlanJob, PlanBlocksHead, PlanPassesOver, ledgerVars
  <2> HIDE DEF j
  <2>3. CASE PlanPlaces(j)
    <3>1. avail \in Pools
      BY DEF Inv, DispatchTypeOK, SchedulerTypeOK, Pools
    <3>2. Granted(j, Placement(j, avail)) /\ out' = [out EXCEPT ![j] = Placement(j, avail)]
      BY <2>1, <2>3, <3>1, PlacementCount DEF PlanPlaces, Granted
    <3>3. \A k \in Jobs : out'[k] # NULL => Granted(k, out'[k])
      BY <1>1, <3>2 DEF GetsWhatItAsked
    <3> QED
      BY <2>2, <3>3 DEF GetsWhatItAsked, Granted, Exclusive
  <2>4. CASE out' = out
    BY <2>2, <2>4, AskedKept
  <2> QED
    BY <2>2, <2>3, <2>4
<1>6. ASSUME NEW j \in Jobs, Launch(j) \/ LaunchFails(j)
      PROVE  GetsWhatItAsked'
  <2>1. out[j] # NULL /\ out' = [out EXCEPT ![j] = NULL]
    BY <1>6 DEF Launch, LaunchFails, NextAssignment
  <2>2. \A k \in Jobs : out'[k] \in {NULL, out[k]}
    BY <1>1, <2>1
  <2>3. CASE LaunchFails(j)
    <3>1. state' = [state EXCEPT ![j] = "FAILED"] /\ gpu_ids' = gpu_ids
      BY <2>3 DEF LaunchFails, CloseRow
    <3> QED
      BY <1>1, <2>2, <3>1, AskedKept
  <2>4. CASE Launch(j)
    <3>1. /\ state' = [state EXCEPT ![j] = "RUNNING"]
          /\ gpu_ids' = [gpu_ids EXCEPT ![j] = out[j]]
      BY <2>4 DEF Launch, AssignGpus
    <3>2. \A k \in Jobs : state'[k] = "RUNNING" => Granted(k, gpu_ids'[k])
      <4>1. Granted(j, out[j])
        BY <2>1 DEF GetsWhatItAsked
      <4>2. \A k \in Jobs : k # j => state'[k] = state[k] /\ gpu_ids'[k] = gpu_ids[k]
        BY <1>1, <3>1
      <4>3. gpu_ids'[j] = out[j]
        BY <1>1, <3>1
      <4> QED
        BY <4>1, <4>2, <4>3 DEF GetsWhatItAsked
    <3>3. \A k \in Jobs : out'[k] # NULL => Granted(k, out'[k])
      BY <2>2 DEF GetsWhatItAsked
    <3> QED
      BY <3>2, <3>3 DEF GetsWhatItAsked, Granted, Exclusive
  <2> QED
    BY <1>6, <2>3, <2>4
<1> QED
  BY <1>3, <1>4, <1>5, <1>6 DEF DispatchNext, Work, Cycle, Handlers

\* A job is given as many GPUs as it asked for, N whole ones or one to share,
\* and runs on no more and no fewer (scheduler.py:262-284).
THEOREM EveryJobGetsWhatItAsked == DispatchSpec => []GetsWhatItAsked
<1>1. DispatchInit => GetsWhatItAsked
  BY AskedInit
<1>2. Inv /\ GetsWhatItAsked /\ [DispatchNext]_dispatchVars => GetsWhatItAsked'
  BY AskedStep
<1> QED
  BY <1>1, <1>2, Invariance, PTL DEF DispatchSpec

-----------------------------------------------------------------------------
(***************************************************************************)
(* The refinement.  Every step but a placement leaves each job with the    *)
(* cards it holds or with none, which is a Release; a placement is a Grant *)
(* because the pool it draws on is what the holders leave (PoolOK).        *)
(***************************************************************************)

\* Allocation counts as Dispatch does.
LEMMA SameCount == \A S : Promise!Cardinality(S) = Cardinality(S)
BY DEF Promise!Cardinality, Cardinality

\* The holders of a card are the same on both levels.
LEMMA SameHolders ==
    ASSUME OutOK, NEW g
    PROVE  Promise!On(g) = Holders(g)
<1>1. ASSUME NEW k \in Jobs
      PROVE  k \in Promise!On(g) <=> k \in Holders(g)
  <2>1. Held[k] = IF state[k] = "RUNNING" THEN gpu_ids[k] ELSE out[k]
    BY DEF Held
  <2>2. k \in Promise!On(g) <=> Held[k] # NULL /\ g \in Held[k]
    BY DEF Promise!On
  <2>3. out[k] # NULL => state[k] # "RUNNING"
    BY DEF OutOK
  <2> QED
    BY <2>1, <2>2, <2>3 DEF Holders, Tenants
<1> QED
  BY <1>1 DEF Promise!On, Holders, Tenants

\* So is what share jobs are promised.
LEMMA SamePromise ==
    ASSUME NEW S, Share(S)
    PROVE  Promise!Promised(S) = Reserved(S)
<1>1. \A j \in S : {j} \X (1..Budget[j]) = {j} \X (1..Need(j))
  BY DEF Share, Budget
<1>2. {{j} \X (1..Budget[j]) : j \in S} = {{j} \X (1..Need(j)) : j \in S}
  BY <1>1
<1> QED
  BY <1>2, SameCount DEF Promise!Promised, Reserved, Owned

LEMMA PromiseInit == DispatchInit => Promise!Init
<1>1. NULL # "RUNNING"
  BY LedgerAssumption DEF States
<1> QED
  BY <1>1 DEF DispatchInit, LedgerInit, SchedulerInit, NoAssignment, Held, Promise!Init

\* A step after which no job holds cards it did not hold is a Release.
LEMMA Releases ==
    ASSUME \A k \in Jobs : Held'[k] \in {Held[k], NULL}
    PROVE  Promise!Next
<1> DEFINE S == {k \in Jobs : Held'[k] = NULL}
<1>1. Held' = [k \in Jobs |-> Held'[k]]
  BY DEF Held
<1>2. Held' = [k \in Jobs |-> IF k \in S THEN NULL ELSE Held[k]]
  BY <1>1
<1>3. Promise!Release(S)
  BY <1>2 DEF Promise!Release
<1>4. S \in SUBSET Jobs
  OBVIOUS
<1> HIDE DEF S
<1> QED
  BY <1>3, <1>4 DEF Promise!Next

\* A placement is a Grant.
LEMMA PlacementGrants ==
    ASSUME Inv, NEW j \in Jobs, PlanPlaces(j), pc = "plan",
           state[j] = "QUEUED", out[j] = NULL, UNCHANGED ledgerVars
    PROVE  Promise!Next
<1> DEFINE G == Placement(j, avail)
<1>1. avail \in Pools /\ out \in [Jobs -> (SUBSET Gpus) \cup {NULL}]
  BY DEF Inv, DispatchTypeOK, SchedulerTypeOK, Pools
<1>2. /\ G \in SUBSET Gpus
      /\ \A g \in G : /\ avail[g] \in GpuSlot
                      /\ Exclusive(j) => avail[g].empty
                      /\ ~Exclusive(j) => avail[g].free_mb >= Need(j)
  BY <1>1, PlacementProperties DEF PlanPlaces
<1>3. Cardinality(G) = Wanted[j]
  BY <1>1, PlacementCount DEF PlanPlaces, Wanted
<1>4. out' = [out EXCEPT ![j] = G] /\ state' = state /\ gpu_ids' = gpu_ids
  BY DEF PlanPlaces, ledgerVars
<1> HIDE DEF G
<1>5. Held[j] = NULL /\ Held' = [Held EXCEPT ![j] = G]
  BY <1>1, <1>4 DEF Held
<1>6. ASSUME NEW g \in G
      PROVE  Promise!Free(g, j)
  <2>1. g \in Gpus /\ SlotOK(g)
    BY <1>2, SchedulerAssumption DEF GpuSlot, Inv, PoolOK
  <2>2. Promise!On(g) = Holders(g) /\ Holders(g) \in SUBSET Jobs
    BY SameHolders, HoldersType DEF Inv
  <2>3. CASE Exclusive(j)
    <3>1. Budget[j] = NULL
      BY <2>3 DEF Budget
    <3>2. Holders(g) = {}
      BY <1>2, <2>1, <2>3 DEF SlotOK
    <3> QED
      BY <2>2, <3>1, <3>2 DEF Promise!Free
  <2>4. CASE ~Exclusive(j)
    <3>1. Share(Holders(g)) /\ Share(Holders(g) \cup {j})
      BY <2>1, <2>2, <2>4 DEF SlotOK, Share
    <3>2. \A k \in Holders(g) \cup {j} : Budget[k] \in Nat
      BY <3>1, NeedType DEF Budget, Share
    <3>3. j \notin Holders(g)
      BY DEF Holders, Tenants
    <3>4. /\ Reserved(Holders(g) \cup {j}) = Reserved(Holders(g)) + Need(j)
          /\ Reserved(Holders(g)) \in Nat /\ Need(j) \in Nat /\ Capacity(g) \in Int
      BY <2>1, <2>2, <2>4, <3>1, <3>3, ReservedAdds, ReservedType, NeedType, CapacityType
    <3>5. avail[g].free_mb = Capacity(g) - Reserved(Holders(g)) /\ avail[g].free_mb >= Need(j)
      BY <1>2, <2>1, <2>4 DEF SlotOK
    <3>6. Reserved(Holders(g) \cup {j}) <= Capacity(g)
      BY <3>4, <3>5
    <3>7. Promise!Promised(Promise!On(g) \cup {j}) <= Room[g]
      BY <2>1, <2>2, <3>1, <3>6, SamePromise DEF Room
    <3>8. \A k \in Holders(g) \cup {j} : Budget[k] # NULL
      BY <3>2, LedgerAssumption
    <3> QED
      BY <2>2, <3>7, <3>8 DEF Promise!Free
  <2> QED
    BY <2>3, <2>4
<1>7. Promise!Grant(j, G)
  BY <1>3, <1>5, <1>6, SameCount DEF Promise!Grant
<1> QED
  BY <1>2, <1>7 DEF Promise!Next

LEMMA PromiseStep == Inv /\ [DispatchNext]_dispatchVars => [Promise!Next]_Held
<1> SUFFICES ASSUME Inv, [DispatchNext]_dispatchVars
             PROVE  Promise!Next \/ Held' = Held
  OBVIOUS
<1>1. /\ state \in [Jobs -> States \cup {NULL}]
      /\ gpu_ids \in [Jobs -> (SUBSET Gpus) \cup {NULL}]
      /\ out \in [Jobs -> (SUBSET Gpus) \cup {NULL}]
  BY DEF Inv, DispatchTypeOK, LedgerTypeOK, SchedulerTypeOK
<1>2. "RUNNING" \notin FINAL_STATES
  BY DEF FINAL_STATES
<1>3. \A k \in Jobs : out[k] # NULL => state[k] = "QUEUED" /\ pc # "idle"
  BY DEF Inv, OutOK
<1>4. \A k \in Jobs :
         /\ Held[k] = IF state[k] = "RUNNING" THEN gpu_ids[k] ELSE out[k]
         /\ Held'[k] = IF state'[k] = "RUNNING" THEN gpu_ids'[k] ELSE out'[k]
  BY DEF Held
<1>5. ASSUME NEW j \in Jobs, Submit(j) \/ CancelQueued(j) \/ Requeue(j) \/ Finish(j)
      PROVE  Promise!Next
  <2>1. \A k \in Jobs : out'[k] = NULL
    BY <1>3, <1>5 DEF Submit, CancelQueued, Requeue, Finish, FinishAs, planVars
  <2>2. \A k \in Jobs : state'[k] = "RUNNING"
                          => state[k] = "RUNNING" /\ gpu_ids'[k] = gpu_ids[k]
    <3>1. CASE Submit(j)
      BY <1>1, <3>1 DEF Submit, AddJob
    <3>2. CASE Requeue(j)
      BY <1>1, <3>2 DEF Requeue, ReopenRow
    <3>3. CASE CancelQueued(j) \/ Finish(j)
      <4>1. PICK s \in FINAL_STATES : CloseRow(j, s)
        BY <3>3 DEF CancelQueued, Finish, FinishAs, FINAL_STATES
      <4> QED
        BY <1>1, <1>2, <4>1 DEF CloseRow
    <3> QED
      BY <1>5, <3>1, <3>2, <3>3
  <2> QED
    BY <1>4, <2>1, <2>2, Releases
<1>6. CASE \/ CycleWithoutSnapshot \/ PlanBegins \/ PlanEnds \/ CycleEnds
           \/ Restart \/ UNCHANGED dispatchVars
  <2>1. state' = state /\ gpu_ids' = gpu_ids /\ out' \in {out, NoAssignment}
    BY <1>6 DEF CycleWithoutSnapshot, PlanBegins, PlanCall, PlanEnds, PlanReturn,
                CycleEnds, Restart, dispatchVars, ledgerVars, planVars
  <2>2. \A k \in Jobs : out'[k] \in {out[k], NULL}
    BY <2>1 DEF NoAssignment
  <2> QED
    BY <1>4, <2>1, <2>2, Releases
<1>7. CASE PlanNextJob
  <2> DEFINE j == Head(todo)
  <2>1. todo \in Seq(Jobs) /\ todo # <<>>
    BY <1>7 DEF PlanNextJob, PlanJob, Inv, DispatchTypeOK, SchedulerTypeOK
  <2>2. j = todo[1] /\ 1 \in 1..Len(todo) /\ j \in Jobs
    BY <2>1, HeadTailProperties, LenProperties, EmptySeq
  <2>3. state[j] = "QUEUED" /\ out[j] = NULL
    BY <2>2 DEF Inv, TodoOK
  <2>4. /\ pc = "plan" /\ UNCHANGED ledgerVars
        /\ PlanPlaces(j) \/ out' = out
    BY <1>7 DEF PlanNextJob, PlanJob, PlanBlocksHead, PlanPassesOver
  <2> HIDE DEF j
  <2>5. CASE PlanPlaces(j)
    BY <2>2, <2>3, <2>4, <2>5, PlacementGrants
  <2>6. CASE out' = out
    BY <2>4, <2>6 DEF Held, ledgerVars
  <2> QED
    BY <2>4, <2>5, <2>6
<1>8. ASSUME NEW j \in Jobs, Launch(j) \/ LaunchFails(j)
      PROVE  Promise!Next
  <2>1. /\ out[j] # NULL /\ out' = [out EXCEPT ![j] = NULL]
        /\ \/ /\ state' = [state EXCEPT ![j] = "RUNNING"]
              /\ gpu_ids' = [gpu_ids EXCEPT ![j] = out[j]]
           \/ /\ state' = [state EXCEPT ![j] = "FAILED"]
              /\ gpu_ids' = gpu_ids
    BY <1>8 DEF Launch, LaunchFails, NextAssignment, AssignGpus, CloseRow
  <2>2. \A k \in Jobs : k # j => Held'[k] = Held[k]
    BY <1>1, <1>4, <2>1
  <2>3. Held[j] = out[j]
    BY <1>3, <1>4, <2>1
  <2>4. Held'[j] \in {out[j], NULL}
    BY <1>1, <1>4, <2>1
  <2> QED
    BY <2>2, <2>3, <2>4, Releases
<1> QED
  BY <1>5, <1>6, <1>7, <1>8 DEF DispatchNext, Work, Cycle, Handlers

\* The queue implements Allocation: cards are granted all at once, only when
\* they are free for the job, and are kept until the job is over or its
\* grant is lost before it was launched (scheduler.py:289-327, daemon.py:277-292).
THEOREM DispatchKeepsPromise == DispatchSpec => KeepsPromise
<1>1. DispatchInit => Promise!Init
  BY PromiseInit
<1>2. Inv /\ [DispatchNext]_dispatchVars => [Promise!Next]_Held
  BY PromiseStep
<1> QED
  BY <1>1, <1>2, Invariance, PTL DEF DispatchSpec, KeepsPromise, Promise!Spec

\* So does the daemon with all its processes, crashes and restarts, and under
\* it too every job gets the cards it asked for.
THEOREM DaemonKeepsPromise == DaemonSpec => KeepsPromise /\ []GetsWhatItAsked
BY DaemonImplementsDispatch, DispatchKeepsPromise, EveryJobGetsWhatItAsked, PTL

-----------------------------------------------------------------------------
(***************************************************************************)
(* The order in which plan() serves the queue: NoOvertaking and            *)
(* ReservationHonoured.  plan() has met the first jobs of the queue; what  *)
(* both need of it is that the pool only shrinks as it goes on, so a job   *)
(* that was left out would still not fit.                                  *)
(***************************************************************************)

-----------------------------------------------------------------------------
(* Pools that shrink. *)

\* Every slot of p is one of q, with no more room.
Smaller(p, q) ==
    \A g \in Gpus : p[g] # NULL => /\ q[g] # NULL
                                   /\ p[g].free_mb <= q[g].free_mb
                                   /\ p[g].empty => q[g].empty

\* What fits the smaller pool fits the larger.
LEMMA SmallerFits ==
    ASSUME NEW p \in Pools, NEW q \in Pools, Smaller(p, q),
           NEW j \in Jobs, Fits(j, p)
    PROVE  Fits(j, q)
<1>1. CASE Exclusive(j)
  <2>1. EmptySlots(p) \subseteq EmptySlots(q) /\ EmptySlots(q) \subseteq Gpus
    BY DEF Smaller, EmptySlots
  <2>2. IsFiniteSet(EmptySlots(q)) /\ IsFiniteSet(EmptySlots(p))
    BY <2>1, FS_Subset, LedgerAssumption
  <2>3. Cardinality(EmptySlots(p)) <= Cardinality(EmptySlots(q))
    BY <2>1, <2>2, FS_Subset
  <2>4. Cardinality(EmptySlots(p)) \in Nat /\ Cardinality(EmptySlots(q)) \in Nat
    BY <2>2, FS_CardinalityType
  <2>5. Cardinality(EmptySlots(p)) >= gpus_requested[j] /\ gpus_requested[j] \in Nat
    BY <1>1, LedgerAssumption DEF Fits
  <2>6. Cardinality(EmptySlots(q)) >= gpus_requested[j]
    BY <2>3, <2>4, <2>5
  <2> QED
    BY <1>1, <2>6 DEF Fits
<1>2. CASE ~Exclusive(j)
  <2>1. PICK g \in Gpus : p[g] # NULL /\ p[g].free_mb >= Need(j)
    BY <1>2 DEF Fits, Candidates
  <2>2. p[g] \in GpuSlot /\ q[g] # NULL /\ q[g] \in GpuSlot /\ p[g].free_mb <= q[g].free_mb
    BY <2>1 DEF Smaller, Pools
  <2>3. p[g].free_mb \in Int /\ q[g].free_mb \in Int /\ Need(j) \in Nat
    BY <1>2, <2>2, NeedType DEF GpuSlot
  <2>4. q[g].free_mb >= Need(j)
    BY <2>1, <2>2, <2>3
  <2> QED
    BY <1>2, <2>2, <2>4 DEF Fits, Candidates
<1> QED
  BY <1>1, <1>2

\* A job that asks for no more fits wherever the other does.
LEMMA AtLeastFits ==
    ASSUME NEW j \in Jobs, NEW k \in Jobs, AtLeast(j, k),
           NEW pool \in Pools, Fits(j, pool)
    PROVE  Fits(k, pool)
<1>1. CASE Exclusive(k)
  <2>1. Exclusive(j) /\ gpus_requested[j] >= gpus_requested[k]
    BY <1>1 DEF AtLeast
  <2>2. IsFiniteSet(EmptySlots(pool))
    BY FS_Subset, LedgerAssumption DEF EmptySlots
  <2>3. Cardinality(EmptySlots(pool)) \in Nat
    BY <2>2, FS_CardinalityType
  <2>4. Cardinality(EmptySlots(pool)) >= gpus_requested[j]
    BY <2>1 DEF Fits
  <2>5. gpus_requested[j] \in Nat /\ gpus_requested[k] \in Nat
    BY LedgerAssumption
  <2>6. Cardinality(EmptySlots(pool)) >= gpus_requested[k]
    BY <2>1, <2>3, <2>4, <2>5
  <2> QED
    BY <1>1, <2>6 DEF Fits
<1>2. CASE ~Exclusive(k)
  <2>1. ~Exclusive(j) /\ vram_mb[j] >= vram_mb[k]
    BY <1>2 DEF AtLeast
  <2>2. vram_mb[j] \in Nat /\ vram_mb[k] \in Nat
    BY <1>2, <2>1, LedgerAssumption DEF Exclusive
  <2>3. Need(j) >= Need(k) /\ Need(j) \in Nat /\ Need(k) \in Nat
    BY <2>1, <2>2, SchedulerAssumption DEF Need
  <2>4. PICK g \in Gpus : pool[g] # NULL /\ pool[g].free_mb >= Need(j)
    BY <2>1 DEF Fits, Candidates
  <2>5. pool[g].free_mb \in Int
    BY <2>4 DEF Pools, GpuSlot
  <2>6. pool[g].free_mb >= Need(k)
    BY <2>3, <2>4, <2>5
  <2> QED
    BY <1>2, <2>4, <2>6 DEF Fits, Candidates
<1> QED
  BY <1>1, <1>2

LEMMA PoolShrinks ==
    ASSUME NEW j \in Jobs, NEW pool \in Pools, Fits(j, pool)
    PROVE  /\ DrawDown(j, Placement(j, pool), pool) \in Pools
           /\ Smaller(DrawDown(j, Placement(j, pool), pool), pool)
<1> DEFINE G == Placement(j, pool)
           p == DrawDown(j, G, pool)
<1>1. G \subseteq Gpus /\ \A g \in G : pool[g] \in GpuSlot
  BY PlacementProperties
<1> HIDE DEF G
<1>2. p \in Pools
  BY <1>1, DrawDownType
<1>3. ASSUME NEW g \in Gpus, p[g] # NULL
      PROVE  /\ pool[g] # NULL
             /\ p[g].free_mb <= pool[g].free_mb
             /\ p[g].empty => pool[g].empty
  <2>1. CASE g \notin G
    <3>1. p[g] = pool[g]
      BY <2>1 DEF DrawDown
    <3>2. pool[g] # NULL /\ pool[g].free_mb \in Int
      BY <1>3, <3>1 DEF Pools, GpuSlot
    <3>3. p[g].free_mb <= pool[g].free_mb
      BY <3>1, <3>2
    <3>4. p[g].empty => pool[g].empty
      BY <3>1
    <3> QED
      BY <3>2, <3>3, <3>4
  <2>2. CASE g \in G
    <3>1. ~Exclusive(j) /\ p[g] = [free_mb |-> pool[g].free_mb - Need(j), empty |-> FALSE]
      BY <1>3, <2>2 DEF DrawDown
    <3>2. pool[g] # NULL /\ pool[g].free_mb \in Int
      BY <1>1, <2>2, SchedulerAssumption DEF GpuSlot
    <3>3. Need(j) \in Nat /\ p[g].free_mb = pool[g].free_mb - Need(j)
      BY <3>1, NeedType
    <3>4. p[g].free_mb <= pool[g].free_mb
      BY <3>2, <3>3
    <3>5. ~p[g].empty
      BY <3>1
    <3> QED
      BY <3>2, <3>4, <3>5
  <2> QED
    BY <2>1, <2>2
<1>4. Smaller(p, pool)
  BY <1>3 DEF Smaller
<1> QED
  BY <1>2, <1>4 DEF G

\* Of no slots nobody gets one.
LEMMA NothingFromNoSlots ==
    /\ NoSlots \in Pools
    /\ \A pool : Smaller(NoSlots, pool)
    /\ \A j \in Jobs : Fits(j, NoSlots)
          => /\ Placement(j, NoSlots) = {}
             /\ DrawDown(j, Placement(j, NoSlots), NoSlots) = NoSlots
<1>1. NoSlots \in Pools /\ \A g \in Gpus : NoSlots[g] = NULL
  BY DEF NoSlots, Pools
<1>2. \A pool : Smaller(NoSlots, pool)
  BY <1>1 DEF Smaller
<1>3. ASSUME NEW j \in Jobs, Fits(j, NoSlots)
      PROVE  Placement(j, NoSlots) = {}
  <2>1. \A g \in Placement(j, NoSlots) : g \in Gpus /\ NoSlots[g] \in GpuSlot
    BY <1>1, <1>3, PlacementProperties
  <2> QED
    BY <1>1, <2>1, SchedulerAssumption DEF GpuSlot
<1>4. \A j \in Jobs : DrawDown(j, {}, NoSlots) = NoSlots
  BY DEF DrawDown, NoSlots
<1> QED
  BY <1>1, <1>2, <1>3, <1>4

-----------------------------------------------------------------------------
\* Taking the row at position i out of the queue keeps the order of the others.
LEMMA OthersKeepOrder ==
    ASSUME NEW S, NEW q \in Seq(S), Distinct(q), NEW i \in 1..Len(q)
    PROVE  /\ Len(RemoveFirst(q, q[i])) = Len(q) - 1
           /\ \A a \in 1..(Len(q) - 1) :
                 RemoveFirst(q, q[i])[a] = IF a < i THEN q[a] ELSE q[a + 1]
<1> DEFINE I == {a \in 1..Len(q) : q[a] = q[i]}
<1>1. Len(q) \in Nat
  BY LenProperties
<1>2. I = {i}
  BY DEF Distinct
<1>3. Min(I) = i
  <2>1. I # {} /\ I \subseteq Nat
    BY <1>1, <1>2
  <2>2. Min(I) \in I
    BY <2>1, MinProperties
  <2> QED
    BY <1>2, <2>2
<1>4. SelectInSeq(q, LAMBDA v : v = q[i]) = i
  BY <1>2, <1>3 DEF SelectInSeq
<1>5. RemoveFirst(q, q[i]) = RemoveAt(q, i)
  BY <1>4 DEF RemoveFirst
<1> QED
  BY <1>5, RemoveAtProperties

-----------------------------------------------------------------------------
(* What plan() has done with the first n rows of the queue. *)

\* How many it has met.
Met == Len(queue) - Len(todo)

\* The row at position i is the first one left out.
FirstLeft(i) ==
    /\ out[queue[i]] = NULL
    /\ \A h \in 1..(i - 1) : out[queue[h]] # NULL

\* No row among them was overtaken by one that asks for as much.
InOrder(n) ==
    \A i, k \in 1..n :
        (i < k /\ out[queue[k]] # NULL /\ AtLeast(queue[k], queue[i]))
            => out[queue[i]] # NULL

\* Behind a first one that starves no GPU was given away.
Reserving(n) ==
    \A i \in 1..n :
        (FirstLeft(i) /\ head_blocked_since[queue[i]] = RESERVE_AFTER_S)
            => \A k \in (i + 1)..n : out[queue[k]] \in {NULL, {}}

\* The rows left out do not fit what is left; nothing is left behind one that
\* starves.
LeftOut(n) ==
    /\ \A i \in 1..n : out[queue[i]] = NULL => ~Fits(queue[i], avail)
    /\ head_blocked => \E i \in 1..n : out[queue[i]] = NULL
    /\ ~head_blocked => \A i \in 1..n : out[queue[i]] # NULL
    /\ \A i \in 1..n :
          (FirstLeft(i) /\ head_blocked_since[queue[i]] = RESERVE_AFTER_S)
              => avail = NoSlots

\* The rows plan() has still to meet are the last ones of the queue.
TodoIsRest ==
    /\ Len(todo) <= Len(queue)
    /\ \A a \in 1..Len(todo) : todo[a] = queue[Met + a]

FifoInv ==
    /\ Inv
    /\ pc = "plan" => TodoIsRest /\ LeftOut(Met) /\ InOrder(Met) /\ Reserving(Met)
    /\ pc = "launch" => InOrder(Len(queue)) /\ Reserving(Len(queue))

\* The state that plan() starts from.
LEMMA FifoBegins ==
    ASSUME FifoInv, PlanBegins
    PROVE  FifoInv'
<1>1. Inv'
  BY InvPlanBegins DEF FifoInv
<1>2. pc' = "plan" /\ todo' = queue /\ queue' = queue /\ head_blocked' = FALSE
  BY DEF PlanBegins, PlanCall, ledgerVars
<1>3. Len(queue) \in Nat
  BY LenProperties DEF FifoInv, Inv, DispatchTypeOK, LedgerTypeOK
<1>4. Met' = 0 /\ \A a \in 1..Len(queue) : queue[0 + a] = queue[a]
  BY <1>2, <1>3 DEF Met
<1>5. TodoIsRest'
  BY <1>2, <1>3, <1>4 DEF TodoIsRest
<1>6. LeftOut(Met)' /\ InOrder(Met)' /\ Reserving(Met)'
  BY <1>2, <1>4 DEF LeftOut, InOrder, Reserving
<1> QED
  BY <1>1, <1>2, <1>5, <1>6 DEF FifoInv

\* plan() meets the next row.
LEMMA FifoNextJob ==
    ASSUME FifoInv, PlanNextJob
    PROVE  FifoInv'
<1> DEFINE j == Head(todo)
<1>0. PICK n : n = Met
  OBVIOUS
<1>1. Inv' /\ Inv
  BY InvPlanNextJob DEF FifoInv
<1>2. /\ pc = "plan" /\ todo # <<>> /\ todo' = Tail(todo) /\ pc' = "plan"
      /\ PlanPlaces(j) \/ PlanBlocksHead(j) \/ PlanPassesOver(j)
      /\ queue' = queue
  BY DEF PlanNextJob, PlanJob, ledgerVars
<1>3. /\ todo \in Seq(Jobs) /\ queue \in Seq(Jobs) /\ avail \in Pools /\ avail' \in Pools
      /\ out \in [Jobs -> (SUBSET Gpus) \cup {NULL}]
      /\ head_blocked_since \in [Jobs -> (0..RESERVE_AFTER_S) \cup {NULL}]
  BY <1>1 DEF Inv, DispatchTypeOK, LedgerTypeOK, SchedulerTypeOK, Pools
<1>4. /\ Len(todo) \in Nat /\ Len(todo) # 0 /\ Len(queue) \in Nat
      /\ \A a \in 1..Len(queue) : queue[a] \in Jobs
      /\ j = todo[1]
      /\ Len(todo') = Len(todo) - 1
      /\ \A a \in 1..(Len(todo) - 1) : todo'[a] = todo[a + 1]
  BY <1>2, <1>3, LenProperties, ElementOfSeq, EmptySeq, HeadTailProperties
<1>5. TodoIsRest /\ LeftOut(n) /\ InOrder(n) /\ Reserving(n)
  BY <1>0, <1>2 DEF FifoInv
<1>6. /\ n \in Nat /\ n = Len(queue) - Len(todo) /\ n + 1 \in 1..Len(queue)
      /\ \A a \in 1..Len(todo) : todo[a] = queue[n + a]
      /\ Met' = n + 1
  BY <1>0, <1>2, <1>4, <1>5 DEF TodoIsRest, Met
<1> HIDE DEF j
<1>7. j = queue[n + 1] /\ j \in Jobs
  BY <1>4, <1>6
<1>8. out[j] = NULL /\ \A i \in 1..n : queue[i] \in Jobs /\ queue[i] # j
  <2>1. out[j] = NULL
    BY <1>1, <1>4 DEF Inv, TodoOK
  <2>2. ASSUME NEW i \in 1..n
        PROVE  queue[i] \in Jobs /\ queue[i] # j
    <3>1. i \in 1..Len(queue) /\ i # n + 1
      BY <1>4, <1>6
    <3> QED
      BY <1>1, <1>4, <1>6, <1>7, <3>1 DEF Inv, QueueOK, Distinct
  <2> QED
    BY <2>1, <2>2
\* What the three ways on have in common.
<1>9. /\ \A k \in Jobs : k # j => out'[k] = out[k] /\ head_blocked_since'[k] = head_blocked_since[k]
      /\ Smaller(avail', avail)
      /\ out'[j] # NULL => Fits(j, avail)
      /\ out'[j] = NULL => ~Fits(j, avail) /\ head_blocked'
      /\ avail = NoSlots => avail' = NoSlots /\ out'[j] \in {NULL, {}}
      /\ head_blocked => head_blocked'
      /\ (out'[j] # NULL /\ head_blocked') => head_blocked
      /\ (out'[j] = NULL /\ ~head_blocked /\ head_blocked_since'[j] = RESERVE_AFTER_S)
            => avail' = NoSlots
  <2>1. CASE PlanPlaces(j)
    <3> DEFINE G == Placement(j, avail)
    <3>1. /\ Fits(j, avail) /\ out' = [out EXCEPT ![j] = G]
          /\ avail' = DrawDown(j, G, avail)
          /\ head_blocked_since' = [head_blocked_since EXCEPT ![j] = NULL]
          /\ head_blocked' = head_blocked
      BY <2>1 DEF PlanPlaces
    <3>2. G \subseteq Gpus /\ G # NULL
      BY <1>3, <1>7, <3>1, PlacementProperties, LedgerAssumption
    <3>3. Smaller(avail', avail)
      BY <1>3, <1>7, <3>1, PoolShrinks
    <3>4. avail = NoSlots => avail' = NoSlots /\ G = {}
      BY <1>7, <3>1, NothingFromNoSlots
    <3> HIDE DEF G
    <3>5. /\ out'[j] = G
          /\ \A k \in Jobs : k # j => /\ out'[k] = out[k]
                                   /\ head_blocked_since'[k] = head_blocked_since[k]
      BY <1>3, <1>7, <3>1
    <3> QED
      BY <3>1, <3>2, <3>3, <3>4, <3>5
  <2>2. CASE PlanBlocksHead(j)
    <3> DEFINE since == IF head_blocked_since[j] = NULL THEN 0 ELSE head_blocked_since[j]
    <3>1. /\ ~Fits(j, avail) /\ ~head_blocked /\ head_blocked' = TRUE
          /\ head_blocked_since' = [head_blocked_since EXCEPT ![j] = since]
          /\ avail' = IF since >= RESERVE_AFTER_S THEN NoSlots ELSE avail
          /\ out' = out
      BY <2>2 DEF PlanBlocksHead
    <3> HIDE DEF since
    <3>2. /\ head_blocked_since'[j] = since
          /\ \A k \in Jobs : k # j => head_blocked_since'[k] = head_blocked_since[k]
      BY <1>3, <1>7, <3>1
    <3>3. since = RESERVE_AFTER_S => avail' = NoSlots
      BY <3>1, SchedulerAssumption
    <3>4. Smaller(avail, avail)
      BY <1>3 DEF Smaller, Pools, GpuSlot
    <3>5. Smaller(avail', avail) /\ (avail = NoSlots => avail' = NoSlots)
      BY <3>1, <3>4, NothingFromNoSlots
    <3> QED
      BY <1>8, <3>1, <3>2, <3>3, <3>5
  <2>3. CASE PlanPassesOver(j)
    <3>1. /\ ~Fits(j, avail) /\ head_blocked
          /\ UNCHANGED <<head_blocked_since, avail, out, head_blocked>>
      BY <2>3 DEF PlanPassesOver
    <3>2. Smaller(avail, avail)
      BY <1>3 DEF Smaller, Pools, GpuSlot
    <3> QED
      BY <1>8, <3>1, <3>2
  <2> QED
    BY <1>2, <2>1, <2>2, <2>3
<1>10. /\ \A i \in 1..n : /\ out'[queue[i]] = out[queue[i]]
                          /\ head_blocked_since'[queue[i]] = head_blocked_since[queue[i]]
       /\ \A i \in 1..(n + 1) : i \in 1..n \/ i = n + 1
       /\ \A i \in 1..n : i \in 1..(n + 1)
       /\ n + 1 \in 1..(n + 1)
  <2>1. /\ \A i \in 1..(n + 1) : i \in 1..n \/ i = n + 1
        /\ \A i \in 1..n : i \in 1..(n + 1)
        /\ n + 1 \in 1..(n + 1)
    <3>1. n \in Nat
      BY <1>6
    <3> QED
      BY <3>1
  <2> QED
    BY <1>8, <1>9, <2>1
<1>11. TodoIsRest'
  <2>1. Len(todo') <= Len(queue)
    BY <1>4, <1>6
  <2>2. ASSUME NEW a \in 1..(Len(todo) - 1)
        PROVE  todo'[a] = queue[n + 1 + a]
    <3>1. a + 1 \in 1..Len(todo) /\ n + (a + 1) = n + 1 + a
      <4>1. Len(todo) \in Nat
        BY <1>4
      <4>2. n \in Nat
        BY <1>6
      <4> QED
        BY <4>1, <4>2
    <3>2. todo'[a] = queue[n + (a + 1)]
      BY <1>4, <1>6, <3>1
    <3> QED
      BY <3>1, <3>2
  <2> QED
    BY <1>2, <1>4, <1>6, <2>1, <2>2 DEF TodoIsRest
<1>12. \A i \in 1..(n + 1) : out'[queue[i]] = NULL => ~Fits(queue[i], avail')
  <2>1. ASSUME NEW i \in 1..(n + 1), out'[queue[i]] = NULL, Fits(queue[i], avail')
        PROVE  FALSE
    <3>1. queue[i] \in Jobs
      BY <1>7, <1>8, <1>10
    <3>2. Fits(queue[i], avail)
      BY <1>3, <1>9, <2>1, <3>1, SmallerFits
    <3>3. CASE i \in 1..n
      BY <1>5, <1>10, <2>1, <3>2, <3>3 DEF LeftOut
    <3>4. CASE i = n + 1
      BY <1>7, <1>9, <2>1, <3>2, <3>4
    <3> QED
      BY <1>10, <3>3, <3>4
  <2> QED
    BY <2>1
<1>13. ASSUME NEW i \in 1..n
       PROVE  FirstLeft(i)' <=> FirstLeft(i)
  <2>1. \A h \in 1..(i - 1) : h \in 1..n
    BY <1>6
  <2> QED
    BY <1>2, <1>10, <2>1 DEF FirstLeft
<1>14. FirstLeft(n + 1)' => out'[j] = NULL /\ ~head_blocked
  <2>1. SUFFICES ASSUME FirstLeft(n + 1)' PROVE out'[j] = NULL /\ ~head_blocked
    OBVIOUS
  <2>2. out'[queue'[n + 1]] = NULL /\ \A h \in 1..((n + 1) - 1) : out'[queue'[h]] # NULL
    BY <2>1 DEF FirstLeft
  <2>3. \A h \in 1..n : h \in 1..((n + 1) - 1)
    <3>1. n \in Nat
      BY <1>6
    <3> QED
      BY <3>1
  <2>4. \A h \in 1..n : out[queue[h]] # NULL
    BY <1>2, <1>10, <2>2, <2>3
  <2> QED
    BY <1>2, <1>5, <1>7, <2>2, <2>4 DEF LeftOut
<1>15. LeftOut(n + 1)'
  <2>1. head_blocked' => \E i \in 1..(n + 1) : out'[queue[i]] = NULL
    <3>1. CASE out'[j] = NULL
      BY <1>7, <1>10, <3>1
    <3>2. CASE out'[j] # NULL
      BY <1>5, <1>9, <1>10, <3>2 DEF LeftOut
    <3> QED
      BY <3>1, <3>2
  <2>2. ~head_blocked' => \A i \in 1..(n + 1) : out'[queue[i]] # NULL
    BY <1>5, <1>7, <1>9, <1>10 DEF LeftOut
  <2>3. ASSUME NEW i \in 1..(n + 1), FirstLeft(i)',
               head_blocked_since'[queue[i]] = RESERVE_AFTER_S
        PROVE  avail' = NoSlots
    <3>1. CASE i \in 1..n
      BY <1>5, <1>9, <1>10, <1>13, <2>3, <3>1 DEF LeftOut
    <3>2. CASE i = n + 1
      BY <1>7, <1>9, <1>14, <2>3, <3>2
    <3> QED
      BY <1>10, <3>1, <3>2
  <2> QED
    BY <1>2, <1>12, <2>1, <2>2, <2>3 DEF LeftOut
<1>16. InOrder(n + 1)'
  <2>1. ASSUME NEW i \in 1..(n + 1), NEW k \in 1..(n + 1), i < k,
               out'[queue[k]] # NULL, AtLeast(queue[k], queue[i])
        PROVE  out'[queue[i]] # NULL
    <3>1. i \in 1..n
      BY <1>6, <2>1
    <3>2. CASE k \in 1..n
      BY <1>5, <1>10, <2>1, <3>1, <3>2 DEF InOrder
    <3>3. CASE k = n + 1
      <4>1. Fits(queue[k], avail) /\ queue[k] \in Jobs /\ queue[i] \in Jobs
        BY <1>7, <1>8, <1>9, <2>1, <3>1, <3>3
      <4>2. Fits(queue[i], avail)
        BY <1>3, <2>1, <4>1, AtLeastFits
      <4> QED
        BY <1>5, <1>10, <3>1, <4>2 DEF LeftOut
    <3> QED
      BY <1>10, <3>2, <3>3
  <2> QED
    BY <1>2, <2>1 DEF InOrder, AtLeast
<1>17. Reserving(n + 1)'
  <2>1. ASSUME NEW i \in 1..(n + 1), FirstLeft(i)',
               head_blocked_since'[queue[i]] = RESERVE_AFTER_S,
               NEW k \in (i + 1)..(n + 1)
        PROVE  out'[queue[k]] \in {NULL, {}}
    <3>1. i \in 1..n /\ (k \in (i + 1)..n \/ k = n + 1) /\ (k \in (i + 1)..n => k \in 1..n)
      <4>1. n \in Nat
        BY <1>6
      <4>2. i \in Nat /\ k \in Int /\ 1 <= i /\ i <= n + 1 /\ i + 1 <= k /\ k <= n + 1
        BY <4>1
      <4> QED
        BY <4>1, <4>2
    <3>2. FirstLeft(i) /\ head_blocked_since[queue[i]] = RESERVE_AFTER_S
      BY <1>10, <1>13, <2>1, <3>1
    <3>3. CASE k \in (i + 1)..n
      BY <1>5, <1>10, <3>1, <3>2, <3>3 DEF Reserving
    <3>4. CASE k = n + 1
      BY <1>5, <1>7, <1>9, <3>1, <3>2, <3>4 DEF LeftOut
    <3> QED
      BY <3>1, <3>3, <3>4
  <2> QED
    BY <1>2, <2>1 DEF Reserving
<1> QED
  BY <1>1, <1>2, <1>6, <1>11, <1>15, <1>16, <1>17 DEF FifoInv, LeftOut, InOrder, Reserving

\* plan() returns: it has met the whole queue.
LEMMA FifoEnds ==
    ASSUME FifoInv, PlanEnds
    PROVE  FifoInv'
<1>1. Inv'
  BY InvOthers DEF FifoInv
<1>2. /\ pc = "plan" /\ pc' = "launch" /\ todo = <<>> /\ out' = out /\ queue' = queue
      /\ head_blocked_since' =
           [k \in Jobs |-> IF k \in ToSet(queue) /\ out[k] = NULL
                           THEN head_blocked_since[k] ELSE NULL]
  BY DEF PlanEnds, PlanReturn, ledgerVars
<1>3. queue \in Seq(Jobs) /\ Len(queue) \in Nat /\ \A i \in 1..Len(queue) : queue[i] \in Jobs
  BY LenProperties, ElementOfSeq DEF FifoInv, Inv, DispatchTypeOK, LedgerTypeOK
<1>4. Met = Len(queue)
  <2>1. Len(<<>>) = 0
    BY EmptySeq
  <2> QED
    BY <1>2, <1>3, <2>1 DEF Met
<1>5. InOrder(Len(queue)) /\ Reserving(Len(queue))
  BY <1>2, <1>4 DEF FifoInv
<1>6. ASSUME NEW i \in 1..Len(queue), out[queue[i]] = NULL
      PROVE  head_blocked_since'[queue[i]] = head_blocked_since[queue[i]]
  BY <1>2, <1>3, <1>6 DEF ToSet
<1>7. InOrder(Len(queue))'
  BY <1>2, <1>5 DEF InOrder, AtLeast
<1>8. Reserving(Len(queue))'
  <2>1. ASSUME NEW i \in 1..Len(queue), FirstLeft(i)',
               head_blocked_since'[queue[i]] = RESERVE_AFTER_S
        PROVE  \A k \in (i + 1)..Len(queue) : out[queue[k]] \in {NULL, {}}
    <3>1. FirstLeft(i)
      BY <1>2, <2>1 DEF FirstLeft
    <3>2. head_blocked_since[queue[i]] = RESERVE_AFTER_S
      BY <1>6, <2>1, <3>1 DEF FirstLeft
    <3> QED
      BY <1>5, <3>1, <3>2 DEF Reserving
  <2> QED
    BY <1>2, <2>1 DEF Reserving
<1> QED
  BY <1>1, <1>2, <1>7, <1>8 DEF FifoInv

\* A row leaves the queue; the others keep their order, and the row was not
\* one that was left out.
LEMMA FifoLaunch ==
    ASSUME FifoInv, NEW j \in Jobs, Launch(j) \/ LaunchFails(j)
    PROVE  FifoInv'
<1>1. Inv' /\ Inv
  BY InvLaunch DEF FifoInv
<1>2. /\ pc = "launch" /\ pc' = "launch"
      /\ out[j] # NULL /\ out' = [out EXCEPT ![j] = NULL]
      /\ queue' = RemoveFirst(queue, j)
      /\ head_blocked_since' = head_blocked_since
  BY DEF Launch, LaunchFails, NextAssignment, AssignGpus, CloseRow
<1>3. PICK i \in 1..Len(queue) : queue[i] = j
  BY DEF Launch, LaunchFails, NextAssignment
<1>4. /\ queue \in Seq(Jobs) /\ Distinct(queue)
      /\ out \in [Jobs -> (SUBSET Gpus) \cup {NULL}]
      /\ \A a \in 1..Len(queue) : queue[a] \in Jobs
  BY <1>1, ElementOfSeq DEF Inv, DispatchTypeOK, LedgerTypeOK, SchedulerTypeOK, QueueOK
<1>5. InOrder(Len(queue)) /\ Reserving(Len(queue))
  BY <1>2 DEF FifoInv
<1>6. PICK m : m = Len(queue)
  OBVIOUS
<1>7. m \in Nat /\ i \in 1..m
  BY <1>3, <1>4, <1>6, LenProperties
<1>8. /\ Len(queue') = m - 1
      /\ \A a \in 1..(m - 1) : queue'[a] = IF a < i THEN queue[a] ELSE queue[a + 1]
  BY <1>2, <1>3, <1>4, <1>6, OthersKeepOrder
<1> DEFINE f(a) == IF a < i THEN a ELSE a + 1
<1>9. /\ \A a \in 1..(m - 1) : f(a) \in 1..m /\ f(a) # i
      /\ \A a, b \in 1..(m - 1) : a < b => f(a) < f(b) /\ f(b) \in (f(a) + 1)..m
      /\ \A a \in 1..(m - 1) : \A h \in 1..(f(a) - 1) :
            h = i \/ \E b \in 1..(a - 1) : b \in 1..(m - 1) /\ f(b) = h
  <2>1. /\ \A a \in 1..(m - 1) : f(a) \in 1..m /\ f(a) # i
        /\ \A a, b \in 1..(m - 1) : a < b => f(a) < f(b) /\ f(b) \in (f(a) + 1)..m
    BY <1>7
  <2>2. ASSUME NEW a \in 1..(m - 1), NEW h \in 1..(f(a) - 1), h # i
        PROVE  \E b \in 1..(a - 1) : b \in 1..(m - 1) /\ f(b) = h
    <3>1. CASE h < i
      <4>1. h \in 1..(a - 1) /\ h \in 1..(m - 1) /\ f(h) = h
        BY <1>7, <3>1
      <4> QED
        BY <4>1
    <3>2. CASE ~(h < i)
      <4>1. h - 1 \in 1..(a - 1) /\ h - 1 \in 1..(m - 1) /\ f(h - 1) = h
        BY <1>7, <2>2, <3>2
      <4> QED
        BY <4>1
    <3> QED
      BY <3>1, <3>2
  <2> QED
    BY <2>1, <2>2
<1>10. \A a \in 1..(m - 1) : queue'[a] = queue[f(a)]
  BY <1>8
<1> HIDE DEF f
<1>11. \A a \in 1..(m - 1) : out'[queue'[a]] = out[queue[f(a)]]
  <2>1. ASSUME NEW a \in 1..(m - 1)
        PROVE  queue[f(a)] \in Jobs /\ queue[f(a)] # j
    BY <1>3, <1>4, <1>6, <1>9 DEF Distinct
  <2> QED
    BY <1>2, <1>4, <1>10, <2>1
<1>12. InOrder(m - 1)'
  <2>1. ASSUME NEW a \in 1..(m - 1), NEW b \in 1..(m - 1), a < b,
               out'[queue'[b]] # NULL, AtLeast(queue'[b], queue'[a])
        PROVE  out'[queue'[a]] # NULL
    <3>1. /\ f(a) \in 1..m /\ f(b) \in 1..m /\ f(a) < f(b)
          /\ out[queue[f(b)]] # NULL /\ AtLeast(queue[f(b)], queue[f(a)])
      BY <1>9, <1>10, <1>11, <2>1
    <3>2. out[queue[f(a)]] # NULL
      BY <1>5, <1>6, <3>1 DEF InOrder
    <3> QED
      BY <1>11, <3>2
  <2> QED
    BY <2>1 DEF InOrder
<1>13. Reserving(m - 1)'
  <2>1. ASSUME NEW a \in 1..(m - 1), FirstLeft(a)',
               head_blocked_since'[queue'[a]] = RESERVE_AFTER_S,
               NEW b \in (a + 1)..(m - 1)
        PROVE  out'[queue'[b]] \in {NULL, {}}
    <3>1. out'[queue'[a]] = NULL /\ \A h \in 1..(a - 1) : out'[queue'[h]] # NULL
      BY <2>1 DEF FirstLeft
    <3>2. ASSUME NEW h \in 1..(f(a) - 1)
          PROVE  out[queue[h]] # NULL
      <4>1. CASE h = i
        BY <1>2, <1>3, <4>1
      <4>2. CASE h # i
        <5>1. PICK c \in 1..(a - 1) : c \in 1..(m - 1) /\ f(c) = h
          BY <1>9, <4>2
        <5> QED
          BY <1>11, <3>1, <5>1
      <4> QED
        BY <4>1, <4>2
    <3>3. FirstLeft(f(a))
      BY <1>11, <3>1, <3>2 DEF FirstLeft
    <3>4. b \in 1..(m - 1) /\ a < b
      <4>1. m \in Nat
        BY <1>7
      <4> QED
        BY <4>1
    <3>5. f(a) \in 1..m /\ f(b) \in (f(a) + 1)..m
      BY <1>9, <3>4
    <3>6. head_blocked_since[queue[f(a)]] = RESERVE_AFTER_S
      BY <1>2, <1>10, <2>1
    <3>7. out[queue[f(b)]] \in {NULL, {}}
      BY <1>5, <1>6, <3>3, <3>5, <3>6 DEF Reserving
    <3> QED
      BY <1>11, <3>4, <3>7
  <2> QED
    BY <2>1 DEF Reserving
<1>14. InOrder(Len(queue))' /\ Reserving(Len(queue))'
  <2>1. Len(queue)' = m - 1
    BY <1>8
  <2>2. InOrder(Len(queue))'
    BY <1>12, <2>1 DEF InOrder
  <2>3. Reserving(Len(queue))'
    BY <1>13, <2>1 DEF Reserving
  <2> QED
    BY <2>2, <2>3
<1> QED
  BY <1>1, <1>2, <1>14 DEF FifoInv

LEMMA FifoStep == FifoInv /\ [DispatchNext]_dispatchVars => FifoInv'
<1> SUFFICES ASSUME FifoInv, [DispatchNext]_dispatchVars PROVE FifoInv'
  OBVIOUS
<1>1. Inv'
  BY InvStep DEF FifoInv
<1>2. CASE PlanBegins
  BY <1>2, FifoBegins
<1>3. CASE PlanNextJob
  BY <1>3, FifoNextJob
<1>4. CASE PlanEnds
  BY <1>4, FifoEnds
<1>5. CASE \E j \in Jobs : Launch(j) \/ LaunchFails(j)
  BY <1>5, FifoLaunch
<1>6. CASE \/ \E j \in Jobs : Submit(j) \/ CancelQueued(j) \/ Requeue(j) \/ Finish(j)
           \/ CycleWithoutSnapshot \/ CycleEnds \/ Restart
  <2>1. pc' = "idle"
    BY <1>6 DEF Submit, CancelQueued, Requeue, Finish, FinishAs,
                CycleWithoutSnapshot, CycleEnds, Restart
  <2> QED
    BY <1>1, <2>1 DEF FifoInv
<1>7. CASE UNCHANGED dispatchVars
  BY <1>1, <1>7 DEF dispatchVars, ledgerVars, planVars, FifoInv, TodoIsRest, Met,
                    LeftOut, InOrder, Reserving, FirstLeft, AtLeast, Fits,
                    EmptySlots, Candidates
<1> QED
  BY <1>2, <1>3, <1>4, <1>5, <1>6, <1>7 DEF DispatchNext, Work, Cycle, Handlers

LEMMA FifoInvariance == DispatchSpec => []FifoInv
<1>1. DispatchInit => FifoInv
  BY InvInit DEF DispatchInit, FifoInv
<1> QED
  BY <1>1, FifoStep, PTL DEF DispatchSpec

\* FIFO with backfill: whatever is submitted, cancelled and requeued, plan()
\* never gives GPUs to a job and leaves out one queued before it that asks for
\* no more of the same kind (scheduler.py:305-316).
THEOREM PlanIsFifo == DispatchSpec => []NoOvertaking
<1>1. FifoInv => NoOvertaking
  BY DEF FifoInv, InOrder, NoOvertaking, Decided
<1> QED
  BY <1>1, FifoInvariance, PTL

\* The starvation guard: behind the first job left out, once it has waited
\* RESERVE_AFTER_S, no job is given a GPU (scheduler.py:311-316).
THEOREM GuardHolds == DispatchSpec => []ReservationHonoured
<1>1. FifoInv => ReservationHonoured
  <2> SUFFICES ASSUME FifoInv, Decided,
                      NEW i \in Unplaced, \A h \in Unplaced : h >= i,
                      head_blocked_since[queue[i]] = RESERVE_AFTER_S,
                      NEW k \in (i + 1)..Len(queue)
               PROVE  out[queue[k]] \in {NULL, {}}
    BY DEF ReservationHonoured
  <2>1. Reserving(Len(queue)) /\ Len(queue) \in Nat
    BY LenProperties DEF FifoInv, Decided, Inv, DispatchTypeOK, LedgerTypeOK
  <2>2. i \in 1..Len(queue) /\ out[queue[i]] = NULL
    BY DEF Unplaced
  <2>3. ASSUME NEW h \in 1..(i - 1), out[queue[h]] = NULL
        PROVE  FALSE
    <3>1. h \in 1..Len(queue) /\ ~(h >= i)
      BY <2>1, <2>2
    <3> QED
      BY <2>3, <3>1 DEF Unplaced
  <2>4. FirstLeft(i)
    BY <2>2, <2>3 DEF FirstLeft
  <2> QED
    BY <2>1, <2>2, <2>4 DEF Reserving
<1> QED
  BY <1>1, FifoInvariance, PTL

\* Both hold of the daemon with its processes, crashes and restarts.
THEOREM DaemonIsFair == DaemonSpec => [](NoOvertaking /\ ReservationHonoured)
BY DaemonImplementsDispatch, PlanIsFifo, GuardHolds, PTL

-----------------------------------------------------------------------------
(***************************************************************************)
(* What plan() leaves idle, and what it opens: WorkConserving and          *)
(* EmptyCardsStayEmpty.  PoolOK says that the pool shows no slot that is   *)
(* not there; here it is needed that the pool hides none that is, unless   *)
(* all of it is reserved for a job that starves.                           *)
(***************************************************************************)

\* Every card that could take a job is in the pool.
NothingHidden ==
    \A g \in Gpus : avail[g] = NULL => \/ g \in external
                                       \/ \E k \in Holders(g) : Exclusive(k)

\* The pool is withheld for a job that plan() has left out.
Withheld ==
    /\ avail = NoSlots
    /\ \E i \in 1..Met : out[queue[i]] = NULL /\ Starving(queue[i])

WasteInv == FifoInv /\ (pc = "plan" => NothingHidden \/ Withheld)

\* A job that would fit what the ledger and the assignments leave fits the pool.
LEMMA LeftoverIsInPool ==
    ASSUME Inv, pc = "plan", NothingHidden
    PROVE  /\ Leftover \in Pools /\ avail \in Pools
           /\ Smaller(Leftover, avail)
           /\ \A g \in Gpus : Leftover[g] # NULL => SlotOK(g) /\ avail[g] # NULL
<1>1. avail \in Pools
  BY DEF Inv, DispatchTypeOK, SchedulerTypeOK, Pools
<1>2. ASSUME NEW g \in Gpus
      PROVE  Leftover[g] \in GpuSlot \cup {NULL}
  <2>1. CASE g \in external \/ \E k \in Holders(g) : Exclusive(k)
    BY <2>1 DEF Leftover
  <2>2. CASE ~(g \in external \/ \E k \in Holders(g) : Exclusive(k))
    <3>1. Leftover[g] = [free_mb |-> Capacity(g) - Reserved(Holders(g)),
                         empty   |-> Holders(g) = {}]
      BY <2>2 DEF Leftover
    <3>2. Reserved(Holders(g)) \in Nat /\ Capacity(g) \in Int
      BY <2>2, HoldersType, ReservedType, CapacityType DEF Share
    <3> QED
      BY <3>1, <3>2 DEF GpuSlot
  <2> QED
    BY <2>1, <2>2
<1>3. ASSUME NEW g \in Gpus, Leftover[g] # NULL
      PROVE  /\ SlotOK(g) /\ avail[g] # NULL
             /\ Leftover[g].free_mb <= avail[g].free_mb
             /\ Leftover[g].empty => avail[g].empty
  <2>1. ~(g \in external \/ \E k \in Holders(g) : Exclusive(k))
    BY <1>3 DEF Leftover
  <2>2. avail[g] # NULL /\ SlotOK(g)
    BY <2>1 DEF NothingHidden, Inv, PoolOK
  <2>3. /\ Leftover[g].free_mb = Capacity(g) - Reserved(Holders(g))
        /\ Leftover[g].empty = (Holders(g) = {})
    BY <2>1 DEF Leftover
  <2>4. Reserved(Holders(g)) \in Nat /\ Capacity(g) \in Int
    BY <2>1, HoldersType, ReservedType, CapacityType DEF Share
  <2>5. Leftover[g].free_mb <= avail[g].free_mb
    <3>1. avail[g].free_mb = Capacity(g) - Reserved(Holders(g))
      BY <2>2 DEF SlotOK
    <3>2. Leftover[g].free_mb = avail[g].free_mb /\ Leftover[g].free_mb \in Int
      BY <2>3, <2>4, <3>1
    <3> QED
      BY <3>2
  <2>6. Leftover[g].empty => avail[g].empty
    BY <2>2, <2>3 DEF SlotOK
  <2> QED
    BY <2>2, <2>5, <2>6
<1>4. Leftover \in Pools
  BY <1>2 DEF Leftover, Pools
<1> QED
  BY <1>1, <1>3, <1>4 DEF Smaller

LEMMA WasteNextJob ==
    ASSUME WasteInv, PlanNextJob
    PROVE  NothingHidden' \/ Withheld'
<1> DEFINE j == Head(todo)
<1>0. PICK n : n = Met
  OBVIOUS
<1>1. Inv /\ FifoInv /\ (NothingHidden \/ Withheld) /\ pc = "plan"
  BY DEF WasteInv, FifoInv, PlanNextJob
<1>2. /\ todo # <<>> /\ todo' = Tail(todo)
      /\ PlanPlaces(j) \/ PlanBlocksHead(j) \/ PlanPassesOver(j)
      /\ state' = state /\ gpu_ids' = gpu_ids /\ queue' = queue /\ external' = external
  BY DEF PlanNextJob, PlanJob, ledgerVars
<1>3. /\ todo \in Seq(Jobs) /\ queue \in Seq(Jobs) /\ avail \in Pools
      /\ out \in [Jobs -> (SUBSET Gpus) \cup {NULL}]
      /\ head_blocked_since \in [Jobs -> (0..RESERVE_AFTER_S) \cup {NULL}]
  BY <1>1 DEF Inv, DispatchTypeOK, LedgerTypeOK, SchedulerTypeOK, Pools
<1>4. /\ Len(todo) \in Nat /\ Len(todo) # 0 /\ Len(queue) \in Nat
      /\ \A a \in 1..Len(queue) : queue[a] \in Jobs
      /\ j = todo[1]
      /\ Len(todo') = Len(todo) - 1
  BY <1>2, <1>3, LenProperties, ElementOfSeq, EmptySeq, HeadTailProperties
<1>5. TodoIsRest
  BY <1>1 DEF FifoInv
<1>6. /\ n \in Nat /\ n + 1 \in 1..Len(queue) /\ n + 1 \in 1..(n + 1)
      /\ \A i \in 1..n : i \in 1..Len(queue) /\ i \in 1..(n + 1) /\ i # n + 1
      /\ j = queue[n + 1]
      /\ Met' = n + 1
  <2>1. n \in Nat /\ n + 1 \in 1..Len(queue) /\ n + 1 \in 1..(n + 1) /\ 1 \in 1..Len(todo)
    BY <1>0, <1>4, <1>5 DEF TodoIsRest, Met
  <2>2. todo[1] = queue[n + 1]
    BY <1>0, <1>5, <2>1 DEF TodoIsRest
  <2>3. Met' = n + 1
    BY <1>0, <1>2, <1>4 DEF Met
  <2>4. \A i \in 1..n : i \in 1..Len(queue) /\ i \in 1..(n + 1) /\ i # n + 1
    BY <1>4, <2>1
  <2> QED
    BY <1>4, <2>1, <2>2, <2>3, <2>4
<1> HIDE DEF j
<1>7. j \in Jobs /\ out[j] = NULL /\ \A i \in 1..n : queue[i] \in Jobs /\ queue[i] # j
  <2>1. out[j] = NULL
    BY <1>1, <1>4 DEF Inv, TodoOK
  <2> QED
    BY <1>1, <1>4, <1>6, <2>1 DEF Inv, QueueOK, Distinct
\* The rows that were met keep what they have.
<1>8. \A k \in Jobs : k # j => out'[k] = out[k] /\ head_blocked_since'[k] = head_blocked_since[k]
  BY <1>2, <1>3 DEF PlanPlaces, PlanBlocksHead, PlanPassesOver
<1>9. \A g : Holders(g) \subseteq Holders(g)'
  BY <1>2, <1>7, <1>8 DEF Holders, Tenants
<1>10. CASE Withheld
  <2>1. avail' = NoSlots
    <3>1. CASE PlanPlaces(j)
      BY <1>7, <1>10, <3>1, NothingFromNoSlots DEF PlanPlaces, Withheld
    <3>2. CASE PlanBlocksHead(j) \/ PlanPassesOver(j)
      BY <1>10, <3>2 DEF PlanBlocksHead, PlanPassesOver, Withheld
    <3> QED
      BY <1>2, <3>1, <3>2
  <2>2. PICK i \in 1..n : out[queue[i]] = NULL /\ Starving(queue[i])
    BY <1>0, <1>10 DEF Withheld
  <2>3. /\ i \in 1..(n + 1) /\ out'[queue'[i]] = NULL
        /\ head_blocked_since'[queue'[i]] = RESERVE_AFTER_S
    BY <1>2, <1>6, <1>7, <1>8, <2>2 DEF Starving
  <2> QED
    BY <1>6, <2>1, <2>3 DEF Withheld, Starving
<1>11. CASE NothingHidden
  <2>1. CASE PlanPlaces(j)
    <3> DEFINE G == Placement(j, avail)
    <3>1. avail' = DrawDown(j, G, avail) /\ out' = [out EXCEPT ![j] = G]
      BY <2>1 DEF PlanPlaces
    <3>2. G \subseteq Gpus /\ G # NULL /\ \A g \in G : avail[g] \in GpuSlot
      BY <1>3, <1>7, <2>1, PlacementProperties, LedgerAssumption DEF PlanPlaces
    <3> HIDE DEF G
    <3>3. ASSUME NEW g \in Gpus, avail'[g] = NULL
          PROVE  g \in external' \/ \E k \in Holders(g)' : Exclusive(k)
      <4>1. CASE g \notin G
        <5>1. avail[g] = NULL
          BY <3>1, <3>3, <4>1 DEF DrawDown
        <5> QED
          BY <1>2, <1>9, <1>11, <5>1 DEF NothingHidden
      <4>2. CASE g \in G
        <5>1. Exclusive(j)
          <6>1. CASE ~Exclusive(j)
            <7>1. avail'[g] = [free_mb |-> avail[g].free_mb - Need(j), empty |-> FALSE]
              BY <3>1, <4>2, <6>1 DEF DrawDown
            <7>2. avail[g].free_mb \in Int /\ Need(j) \in Nat
              BY <1>7, <3>2, <4>2, <6>1, NeedType DEF GpuSlot
            <7>3. avail'[g] \in GpuSlot
              BY <7>1, <7>2 DEF GpuSlot
            <7> QED
              BY <3>3, <7>3, SchedulerAssumption DEF GpuSlot
          <6> QED
            BY <6>1
        <5>2. j \in Holders(g)'
          BY <1>3, <1>7, <3>1, <3>2, <4>2 DEF Holders
        <5> QED
          BY <5>1, <5>2
      <4> QED
        BY <4>1, <4>2
    <3> QED
      BY <3>3 DEF NothingHidden, Exclusive
  <2>2. CASE avail' = avail
    BY <1>2, <1>9, <1>11, <2>2 DEF NothingHidden, Exclusive
  <2>3. CASE PlanBlocksHead(j) /\ avail' # avail
    <3> DEFINE since == IF head_blocked_since[j] = NULL THEN 0 ELSE head_blocked_since[j]
    <3>1. /\ avail' = NoSlots /\ since >= RESERVE_AFTER_S /\ out' = out
          /\ head_blocked_since' = [head_blocked_since EXCEPT ![j] = since]
      BY <2>3 DEF PlanBlocksHead
    <3>2. since \in 0..RESERVE_AFTER_S
      BY <1>3, <1>7, SchedulerAssumption
    <3>3. since = RESERVE_AFTER_S
      BY <3>1, <3>2, SchedulerAssumption
    <3> HIDE DEF since
    <3>4. out'[queue'[n + 1]] = NULL /\ head_blocked_since'[queue'[n + 1]] = RESERVE_AFTER_S
      BY <1>2, <1>3, <1>6, <1>7, <3>1, <3>3
    <3> QED
      BY <1>6, <3>1, <3>4 DEF Withheld, Starving
  <2> QED
    BY <1>2, <2>1, <2>2, <2>3 DEF PlanPassesOver
<1> QED
  BY <1>1, <1>10, <1>11

LEMMA WasteStep == WasteInv /\ [DispatchNext]_dispatchVars => WasteInv'
<1> SUFFICES ASSUME WasteInv, [DispatchNext]_dispatchVars PROVE WasteInv'
  OBVIOUS
<1>1. FifoInv'
  BY FifoStep DEF WasteInv
<1>2. CASE PlanNextJob
  BY <1>1, <1>2, WasteNextJob DEF WasteInv
<1>3. CASE PlanBegins
  <2>1. /\ pc = "idle" /\ avail' = FreeGpus(external') /\ out' = NoAssignment
        /\ state' = state /\ gpu_ids' = gpu_ids
    BY <1>3 DEF PlanBegins, PlanCall, ledgerVars
  <2>2. \A g : Holders(g)' = Tenants(g)
    BY <2>1 DEF Holders, Tenants, NoAssignment
  <2>3. ASSUME NEW g \in Gpus, avail'[g] = NULL
        PROVE  g \in external' \/ \E k \in Tenants(g) : Exclusive(k)
    <3> SUFFICES ASSUME ~(g \in external' \/ \E k \in Tenants(g) : Exclusive(k))
                 PROVE  FALSE
      OBVIOUS
    <3>1. avail'[g] = [free_mb |-> Capacity(g) - Reserved(Tenants(g)),
                       empty   |-> Tenants(g) = {}]
      BY <2>1 DEF FreeGpus
    <3>2. Reserved(Tenants(g)) \in Nat /\ Capacity(g) \in Int
      BY ReservedType, CapacityType DEF Share, Tenants
    <3>3. avail'[g] \in GpuSlot
      BY <3>1, <3>2 DEF GpuSlot
    <3> QED
      BY <2>3, <3>3, SchedulerAssumption DEF GpuSlot
  <2>4. NothingHidden'
    BY <2>2, <2>3 DEF NothingHidden, Exclusive
  <2> QED
    BY <1>1, <2>4 DEF WasteInv
<1>4. CASE UNCHANGED dispatchVars
  <2>1. pc' = "plan" => pc = "plan"
    BY <1>4 DEF dispatchVars
  <2>2. NothingHidden => NothingHidden'
    BY <1>4 DEF dispatchVars, ledgerVars, planVars, NothingHidden, Holders, Tenants, Exclusive
  <2>3. Withheld => Withheld'
    BY <1>4 DEF dispatchVars, ledgerVars, planVars, Withheld, Met, Starving
  <2> QED
    BY <1>1, <2>1, <2>2, <2>3 DEF WasteInv
<1>5. CASE \/ \E j \in Jobs : \/ Submit(j) \/ CancelQueued(j) \/ Requeue(j)
                              \/ Finish(j) \/ Launch(j) \/ LaunchFails(j)
           \/ CycleWithoutSnapshot \/ PlanEnds \/ CycleEnds \/ Restart
  <2>1. pc' # "plan"
    BY <1>5 DEF Submit, CancelQueued, Requeue, Finish, FinishAs, Launch, LaunchFails,
                CycleWithoutSnapshot, PlanEnds, CycleEnds, Restart
  <2> QED
    BY <1>1, <2>1 DEF WasteInv
<1> QED
  BY <1>2, <1>3, <1>4, <1>5 DEF DispatchNext, Work, Cycle, Handlers

LEMMA WasteInvariance == DispatchSpec => []WasteInv
<1>1. DispatchInit => WasteInv
  BY InvInit DEF DispatchInit, FifoInv, WasteInv
<1> QED
  BY <1>1, WasteStep, PTL DEF DispatchSpec

\* Backfill leaves nothing idle that a queued job could have (plan(),
\* scheduler.py:299-320): no job that it leaves out fits what it leaves, unless
\* the rest of the machine is kept for a job that starves.
THEOREM PlanWastesNothing == DispatchSpec => WorkConserving
<1> DEFINE Busy ==
      (pc = "plan" /\ pc' = "launch")
          => \/ \E i \in Unplaced' : Starving(queue[i])'
             \/ \A i \in Unplaced' : ~Fits(queue[i], Leftover)'
<1>1. WasteInv /\ [DispatchNext]_dispatchVars => Busy
  <2> SUFFICES ASSUME WasteInv, [DispatchNext]_dispatchVars, pc = "plan", pc' = "launch"
               PROVE  \/ \E i \in Unplaced' : Starving(queue[i])'
                      \/ \A i \in Unplaced' : ~Fits(queue[i], Leftover)'
    OBVIOUS
  <2>1. PlanEnds
    BY DEF DispatchNext, Work, Cycle, Handlers, Submit, CancelQueued, Requeue, Finish,
           FinishAs, Launch, LaunchFails, CycleWithoutSnapshot, PlanBegins, PlanNextJob,
           CycleEnds, Restart, dispatchVars
  <2>2. Inv /\ FifoInv /\ LeftOut(Met) /\ (NothingHidden \/ Withheld)
    BY DEF WasteInv, FifoInv
  <2>3. /\ todo = <<>> /\ out' = out /\ queue' = queue /\ state' = state
        /\ gpu_ids' = gpu_ids /\ external' = external
        /\ head_blocked_since' =
             [k \in Jobs |-> IF k \in ToSet(queue) /\ out[k] = NULL
                             THEN head_blocked_since[k] ELSE NULL]
    BY <2>1 DEF PlanEnds, PlanReturn, ledgerVars
  <2>4. /\ Len(queue) \in Nat /\ \A i \in 1..Len(queue) : queue[i] \in Jobs
    BY <2>2, LenProperties, ElementOfSeq DEF Inv, DispatchTypeOK, LedgerTypeOK
  <2>5. Met = Len(queue)
    <3>1. Len(<<>>) = 0
      BY EmptySeq
    <3> QED
      BY <2>3, <2>4, <3>1 DEF Met
  <2>6. Unplaced' = Unplaced /\ \A i \in Unplaced : i \in 1..Len(queue) /\ out[queue[i]] = NULL
    BY <2>3 DEF Unplaced
  <2>7. CASE Withheld
    <3>1. PICK i \in 1..Len(queue) : out[queue[i]] = NULL /\ Starving(queue[i])
      BY <2>5, <2>7 DEF Withheld
    <3>2. head_blocked_since'[queue'[i]] = RESERVE_AFTER_S
      BY <2>3, <2>4, <3>1 DEF Starving, ToSet
    <3>3. i \in Unplaced'
      BY <2>6, <3>1 DEF Unplaced
    <3> QED
      BY <3>2, <3>3 DEF Starving
  <2>8. CASE NothingHidden
    <3>1. Leftover \in Pools /\ avail \in Pools /\ Smaller(Leftover, avail)
      BY <2>2, <2>8, LeftoverIsInPool
    <3>2. ASSUME NEW i \in Unplaced
          PROVE  ~Fits(queue[i], Leftover)
      <4>1. queue[i] \in Jobs /\ ~Fits(queue[i], avail)
        BY <2>2, <2>4, <2>5, <2>6 DEF LeftOut
      <4> QED
        BY <3>1, <4>1, SmallerFits
    <3>3. Leftover' = Leftover
      BY <2>3 DEF Leftover, Holders, Tenants, Exclusive, Capacity, Reserved, Owned, Need
    <3> HIDE DEF Leftover
    <3>4. \A i \in Unplaced' : ~Fits(queue'[i], Leftover')
      BY <2>3, <2>6, <3>2, <3>3
    <3> QED
      BY <3>4
  <2> QED
    BY <2>2, <2>7, <2>8
<1> HIDE DEF Busy
<1>2. DispatchSpec => [][Busy]_dispatchVars
  BY <1>1, WasteInvariance, PTL DEF DispatchSpec
<1> QED
  BY <1>2, PTL DEF WorkConserving, Busy

\* What the theorem below needs of the machine: cards of one size, and a margin
\* for every tenant (scheduler.py:30).  With cards of two sizes the tightest
\* slot may be that of an empty small one.
CardsAreEqual ==
    /\ \A g, h \in Gpus : mem_total_mb[g] = mem_total_mb[h]
    /\ VRAM_OVERHEAD_MB > 0

\* A share job makes a card in use tighter than an empty one of the same size.
LEMMA TenantsTakeRoom ==
    ASSUME CardsAreEqual, NEW g \in Gpus, NEW h \in Gpus,
           NEW S, Share(S), S # {}
    PROVE  Capacity(h) - Reserved(S) < Capacity(g) - Reserved({})
<1>1. PICK k \in S : TRUE
  OBVIOUS
<1>2. k \in Jobs /\ ~Exclusive(k) /\ Share({k}) /\ Share({}) /\ {k} \subseteq S
  BY DEF Share
<1>3. Need(k) \in Nat /\ Need(k) > 0
  <2>1. vram_mb[k] \in Nat /\ VRAM_OVERHEAD_MB \in Nat /\ VRAM_OVERHEAD_MB > 0
    BY <1>2, LedgerAssumption, SchedulerAssumption DEF Exclusive, CardsAreEqual
  <2> QED
    BY <2>1 DEF Need
<1>4. Reserved({} \cup {k}) = Reserved({}) + Need(k)
  BY <1>2, ReservedAdds
<1>5. Reserved({}) \in Nat /\ Reserved({k}) \in Nat /\ Reserved(S) \in Nat
  BY <1>2, ReservedType
<1>6. Reserved({k}) <= Reserved(S)
  BY <1>2, ReservedMonotone
<1>7. {} \cup {k} = {k}
  OBVIOUS
<1>8. Capacity(g) = Capacity(h) /\ Capacity(h) \in Int
  BY CapacityType DEF CardsAreEqual, Capacity
<1>9. Reserved({}) < Reserved(S)
  BY <1>3, <1>4, <1>5, <1>6, <1>7
<1> QED
  BY <1>5, <1>8, <1>9

\* Best fit (_place, scheduler.py:273-284): on a machine of equal cards a share job
\* opens an empty one only when no card in use has room for it, so that cards
\* stay empty for exclusive jobs (docs/how-it-works.md:95-97).
THEOREM BestFitOpensNoCard ==
    ASSUME CardsAreEqual
    PROVE  DispatchSpec => EmptyCardsStayEmpty
<1> DEFINE Tight ==
      \A j \in Jobs, g \in Gpus :
          (/\ ~Exclusive(j) /\ out[j] = NULL /\ out'[j] # NULL /\ g \in out'[j]
           /\ Holders(g) = {})
          => ~\E h \in Gpus : /\ Leftover[h] # NULL
                              /\ ~Leftover[h].empty
                              /\ Leftover[h].free_mb >= Need(j)
<1>1. WasteInv /\ [DispatchNext]_dispatchVars => Tight
  <2> SUFFICES ASSUME WasteInv, [DispatchNext]_dispatchVars,
                      NEW j \in Jobs, NEW g \in Gpus,
                      ~Exclusive(j), out[j] = NULL, out'[j] # NULL, g \in out'[j],
                      Holders(g) = {},
                      NEW h \in Gpus, Leftover[h] # NULL, ~Leftover[h].empty,
                      Leftover[h].free_mb >= Need(j)
               PROVE  FALSE
    OBVIOUS
  <2>1. Inv /\ FifoInv
    BY DEF WasteInv, FifoInv
  <2>2. out \in [Jobs -> (SUBSET Gpus) \cup {NULL}] /\ avail \in Pools
    BY <2>1 DEF Inv, DispatchTypeOK, SchedulerTypeOK, Pools
  <2>3. pc = "plan" /\ PlanPlaces(j)
    <3>1. CASE PlanNextJob
      BY <2>2, <3>1 DEF PlanNextJob, PlanJob, PlanPlaces, PlanBlocksHead, PlanPassesOver
    <3>2. CASE \E k \in Jobs : Launch(k) \/ LaunchFails(k)
      BY <2>2, <3>2 DEF Launch, LaunchFails
    <3>3. CASE \/ \E k \in Jobs : Submit(k) \/ CancelQueued(k) \/ Requeue(k) \/ Finish(k)
               \/ CycleWithoutSnapshot \/ PlanBegins \/ PlanEnds \/ CycleEnds \/ Restart
               \/ UNCHANGED dispatchVars
      BY <3>3 DEF Submit, CancelQueued, Requeue, Finish, FinishAs, CycleWithoutSnapshot,
                  PlanBegins, PlanCall, PlanEnds, PlanReturn, CycleEnds, Restart,
                  NoAssignment, planVars, dispatchVars
    <3> QED
      BY <3>1, <3>2, <3>3 DEF DispatchNext, Work, Cycle, Handlers
  <2> DEFINE C == Candidates(j, avail)
  <2>4. Fits(j, avail) /\ out'[j] = {Tightest(C, avail)}
    BY <2>2, <2>3 DEF PlanPlaces, Placement
  <2>5. g = Tightest(C, avail)
    BY <2>4
  <2>6. NothingHidden
    <3>1. ~Withheld
      BY <2>4 DEF Withheld, Fits, Candidates, NoSlots
    <3> QED
      BY <2>3, <3>1 DEF WasteInv
  <2>7. SlotOK(h) /\ avail[h] # NULL /\ Leftover[h].free_mb <= avail[h].free_mb
    BY <2>1, <2>3, <2>6, LeftoverIsInPool DEF Smaller
  <2>8. /\ C # {} /\ C \subseteq Gpus
        /\ \A c \in C : avail[c] # NULL /\ avail[c].free_mb \in Nat
    <3>1. Need(j) \in Nat
      BY NeedType
    <3>2. ASSUME NEW c \in C
          PROVE  avail[c] # NULL /\ avail[c].free_mb \in Nat
      <4>1. avail[c] # NULL /\ avail[c] \in GpuSlot /\ avail[c].free_mb >= Need(j)
        BY <2>2 DEF Candidates, Pools
      <4>2. avail[c].free_mb \in Int
        BY <4>1 DEF GpuSlot
      <4> QED
        BY <3>1, <4>1, <4>2
    <3> QED
      BY <2>4, <3>2 DEF Fits, Candidates
  <2>9. h \in C
    <3>1. Need(j) \in Nat /\ avail[h].free_mb \in Int /\ Leftover[h].free_mb \in Int
      <4>1. Leftover \in Pools /\ avail \in Pools
        BY <2>1, <2>3, <2>6, LeftoverIsInPool
      <4>2. Leftover[h] \in GpuSlot /\ avail[h] \in GpuSlot
        BY <2>7, <4>1 DEF Pools
      <4> QED
        BY <4>2, NeedType DEF GpuSlot
    <3>2. avail[h].free_mb >= Need(j)
      BY <2>7, <3>1
    <3> QED
      BY <2>7, <3>2 DEF Candidates
  <2> HIDE DEF C
  <2>10. g \in C /\ avail[g].free_mb <= avail[h].free_mb
    BY <2>5, <2>8, <2>9, TightestIsOne
  <2>11. avail[g].free_mb = Capacity(g) - Reserved({})
    BY <2>1, <2>3, <2>8, <2>10 DEF Inv, PoolOK, SlotOK
  <2>12. /\ avail[h].free_mb = Capacity(h) - Reserved(Holders(h))
         /\ Share(Holders(h))
    BY <2>7, HoldersType DEF SlotOK, Share
  <2>13. Holders(h) # {}
    BY <2>7 DEF Leftover, SlotOK
  <2>14. avail[h].free_mb < avail[g].free_mb
    BY <2>11, <2>12, <2>13, TenantsTakeRoom
  <2>15. avail[g].free_mb \in Nat /\ avail[h].free_mb \in Nat
    BY <2>8, <2>9, <2>10
  <2> QED
    BY <2>10, <2>14, <2>15
<1> HIDE DEF Tight
<1>2. DispatchSpec => [][Tight]_dispatchVars
  BY <1>1, WasteInvariance, PTL DEF DispatchSpec
<1> QED
  BY <1>2, PTL DEF EmptyCardsStayEmpty, Tight

-----------------------------------------------------------------------------
(***************************************************************************)
(* The clock of the starving job: ClockKept.  plan() drops the clocks of   *)
(* the jobs that are not queued, so what is needed is that every QUEUED    *)
(* job is in the queue; with QueueOK the queue is the QUEUED rows.         *)
(***************************************************************************)

QueueComplete ==
    \A j \in Jobs : state[j] = "QUEUED" => \E a \in 1..Len(queue) : queue[a] = j

\* The row that changes is in order if it ends QUEUED only in the queue; the
\* others stay where they were.
LEMMA OneRowMoves ==
    ASSUME LedgerTypeOK, QueueComplete, NEW j \in Jobs, NEW s,
           state' = [state EXCEPT ![j] = s],
           \/ queue' = Append(queue, j)
           \/ queue' = RemoveFirst(queue, j) /\ s # "QUEUED"
    PROVE  QueueComplete'
<1>1. /\ state \in [Jobs -> States \cup {NULL}]
      /\ queue \in Seq(Jobs) /\ Len(queue) \in Nat
  BY LenProperties DEF LedgerTypeOK
<1>2. CASE queue' = Append(queue, j)
  <2>1. /\ Len(queue') = Len(queue) + 1
        /\ \A a \in 1..Len(queue) : queue'[a] = queue[a]
        /\ queue'[Len(queue) + 1] = j
    BY <1>1, <1>2, AppendProperties
  <2>2. Len(queue) + 1 \in 1..Len(queue') /\ \A a \in 1..Len(queue) : a \in 1..Len(queue')
    BY <1>1, <2>1
  <2>3. ASSUME NEW k \in Jobs, state'[k] = "QUEUED"
        PROVE  \E a \in 1..Len(queue') : queue'[a] = k
    <3>1. CASE k = j
      BY <2>1, <2>2, <3>1
    <3>2. CASE k # j
      <4>1. PICK a \in 1..Len(queue) : queue[a] = k
        BY <1>1, <2>3, <3>2 DEF QueueComplete
      <4> QED
        BY <2>1, <2>2, <4>1
    <3> QED
      BY <3>1, <3>2
  <2> QED
    BY <2>3 DEF QueueComplete
<1>3. CASE queue' = RemoveFirst(queue, j) /\ s # "QUEUED"
  <2>1. ASSUME NEW k \in Jobs, state'[k] = "QUEUED"
        PROVE  \E a \in 1..Len(queue') : queue'[a] = k
    <3>1. k # j /\ state[k] = "QUEUED"
      BY <1>1, <1>3, <2>1
    <3>2. PICK b \in 1..Len(queue) : queue[b] = k
      BY <3>1 DEF QueueComplete
    <3>3. \E a \in 1..Len(RemoveFirst(queue, j)) : RemoveFirst(queue, j)[a] = queue[b]
      BY <1>1, <3>1, <3>2, RemoveFirstKeeps
    <3> QED
      BY <1>3, <3>2, <3>3
  <2> QED
    BY <2>1 DEF QueueComplete
<1> QED
  BY <1>2, <1>3

LEMMA CompleteStep == LedgerTypeOK /\ QueueComplete /\ [DispatchNext]_dispatchVars => QueueComplete'
<1> SUFFICES ASSUME LedgerTypeOK, QueueComplete, [DispatchNext]_dispatchVars
             PROVE  QueueComplete'
  OBVIOUS
<1>1. ASSUME NEW j \in Jobs,
             \/ Submit(j) \/ CancelQueued(j) \/ Requeue(j) \/ Finish(j)
             \/ Launch(j) \/ LaunchFails(j)
      PROVE  QueueComplete'
  <2>1. CASE Submit(j) \/ Requeue(j)
    BY <2>1, OneRowMoves DEF Submit, Requeue, AddJob, ReopenRow
  <2>2. CASE CancelQueued(j) \/ Finish(j) \/ LaunchFails(j)
    <3>1. PICK s \in FINAL_STATES : CloseRow(j, s)
      BY <2>2 DEF CancelQueued, Finish, FinishAs, LaunchFails, FINAL_STATES
    <3>2. s # "QUEUED"
      BY DEF FINAL_STATES
    <3> QED
      BY <3>1, <3>2, OneRowMoves DEF CloseRow
  <2>3. CASE Launch(j)
    BY <2>3, OneRowMoves DEF Launch, AssignGpus
  <2> QED
    BY <1>1, <2>1, <2>2, <2>3
<1>2. CASE \/ CycleWithoutSnapshot \/ PlanBegins \/ PlanNextJob \/ PlanEnds
           \/ CycleEnds \/ Restart \/ UNCHANGED dispatchVars
  <2>1. state' = state /\ queue' = queue
    BY <1>2 DEF CycleWithoutSnapshot, PlanBegins, PlanNextJob, PlanEnds, CycleEnds,
                Restart, dispatchVars, ledgerVars
  <2> QED
    BY <2>1 DEF QueueComplete
<1> QED
  BY <1>1, <1>2 DEF DispatchNext, Work, Cycle, Handlers

LEMMA Completeness == DispatchSpec => [](Inv /\ QueueComplete)
<1>1. DispatchInit => QueueComplete
  <2>1. NULL # "QUEUED"
    BY LedgerAssumption DEF States
  <2> QED
    BY <2>1 DEF DispatchInit, LedgerInit, QueueComplete
<1>2. Inv => LedgerTypeOK
  BY DEF Inv, DispatchTypeOK
<1> QED
  BY <1>1, <1>2, CompleteStep, Invariance, PTL DEF DispatchSpec

\* While the daemon stays up a job that waits keeps its clock.
ClockGoesOn ==
    \A j \in Jobs :
        head_blocked_since[j] # NULL =>
           \/ state'[j] # "QUEUED"
           \/ out'[j] # NULL
           \/ head_blocked_since'[j] # NULL
              /\ head_blocked_since'[j] >= head_blocked_since[j]

LEMMA ClockStep == Inv /\ QueueComplete /\ [Work]_dispatchVars => ClockGoesOn
<1> SUFFICES ASSUME Inv, QueueComplete, [Work]_dispatchVars,
                    NEW j \in Jobs, head_blocked_since[j] # NULL,
                    state'[j] = "QUEUED", out'[j] = NULL
             PROVE  /\ head_blocked_since'[j] # NULL
                    /\ head_blocked_since'[j] >= head_blocked_since[j]
  BY DEF ClockGoesOn
<1>1. /\ head_blocked_since \in [Jobs -> (0..RESERVE_AFTER_S) \cup {NULL}]
      /\ out \in [Jobs -> (SUBSET Gpus) \cup {NULL}]
      /\ RESERVE_AFTER_S \in Nat
  BY SchedulerAssumption DEF Inv, DispatchTypeOK, SchedulerTypeOK
<1>2. head_blocked_since[j] \in Nat /\ head_blocked_since[j] <= RESERVE_AFTER_S
  BY <1>1
<1>3. \A n \in Nat : n # NULL /\ n >= n /\ n + 1 # NULL /\ n + 1 >= n
  BY LedgerAssumption
<1>4. head_blocked_since'[j] \in {head_blocked_since[j], head_blocked_since[j] + 1}
  <2>1. CASE CycleWithoutSnapshot \/ PlanBegins
    BY <2>1 DEF CycleWithoutSnapshot, PlanBegins, Aged
  <2>2. CASE PlanNextJob
    <3>1. CASE PlanPlaces(Head(todo))
      <4> DEFINE G == Placement(Head(todo), avail)
      <4>1. /\ out' = [out EXCEPT ![Head(todo)] = G]
            /\ head_blocked_since' = [head_blocked_since EXCEPT ![Head(todo)] = NULL]
        BY <3>1 DEF PlanPlaces
      <4>2. G # NULL
        <5>1. avail \in Pools /\ todo \in Seq(Jobs) /\ todo # <<>> /\ Fits(Head(todo), avail)
          BY <2>2, <3>1 DEF PlanNextJob, PlanJob, PlanPlaces, Inv, DispatchTypeOK,
                            SchedulerTypeOK, Pools
        <5>2. Head(todo) \in Jobs
          BY <5>1, HeadTailProperties
        <5> QED
          BY <5>1, <5>2, PlacementProperties, LedgerAssumption
      <4> HIDE DEF G
      <4>3. Head(todo) # j
        BY <1>1, <4>1, <4>2
      <4> QED
        BY <1>1, <4>1, <4>3
    <3>2. CASE PlanBlocksHead(Head(todo))
      BY <1>1, <3>2 DEF PlanBlocksHead
    <3>3. CASE PlanPassesOver(Head(todo))
      BY <3>3 DEF PlanPassesOver
    <3> QED
      BY <2>2, <3>1, <3>2, <3>3 DEF PlanNextJob, PlanJob
  <2>3. CASE PlanEnds
    <3>1. state' = state /\ out' = out
      BY <2>3 DEF PlanEnds, PlanReturn, ledgerVars
    <3>2. j \in ToSet(queue)
      BY <3>1 DEF QueueComplete, ToSet
    <3> QED
      BY <2>3, <3>1, <3>2 DEF PlanEnds, PlanReturn
  <2>4. CASE \/ \E k \in Jobs : \/ Submit(k) \/ CancelQueued(k) \/ Requeue(k)
                                \/ Finish(k) \/ Launch(k) \/ LaunchFails(k)
             \/ CycleEnds \/ UNCHANGED dispatchVars
    BY <2>4 DEF Submit, CancelQueued, Requeue, Finish, FinishAs, Launch, LaunchFails,
                CycleEnds, planVars, dispatchVars
  <2> QED
    BY <2>1, <2>2, <2>3, <2>4 DEF Work, Cycle, Handlers
<1> QED
  BY <1>2, <1>3, <1>4

\* The clock by which a job gets the rest of the machine reserved (plan(),
\* scheduler.py:311-323) is never lost nor set back while the job waits and the
\* daemon stays up, whatever is submitted, cancelled or requeued around it; a
\* cycle that skips dispatch does not stop it.
THEOREM WaitingCounts == FairDispatchSpec => ClockKept
<1>1. [Work]_dispatchVars => [DispatchNext]_dispatchVars
  BY DEF DispatchNext
<1>2. FairDispatchSpec => DispatchSpec
  BY <1>1, PTL DEF FairDispatchSpec, DispatchSpec
<1>3. FairDispatchSpec => [][ClockGoesOn]_dispatchVars
  BY <1>2, ClockStep, Completeness, PTL DEF FairDispatchSpec
<1> QED
  BY <1>3, PTL DEF ClockKept, ClockGoesOn

\* The daemon with its processes, crashes and restarts wastes nothing either:
\* its _dispatch (daemon.py:274-289) hands plan() the pool that PlanBegins does.
THEOREM DaemonWastesNothing == DaemonSpec => WorkConserving
BY DaemonImplementsDispatch, PlanWastesNothing, PTL

\* ... and opens no card it need not (_place, scheduler.py:273-284).
THEOREM DaemonOpensNoCard ==
    ASSUME CardsAreEqual
    PROVE  DaemonSpec => EmptyCardsStayEmpty
BY DaemonImplementsDispatch, BestFitOpensNoCard, PTL
=============================================================================
