--------------------------- MODULE DispatchProofs ---------------------------
(***************************************************************************)
(* Dispatch keeps its types, commits no card twice and stays off the cards *)
(* of others, for every machine, every set of jobs and every request.      *)
(***************************************************************************)
EXTENDS Dispatch, SchedulerTheorems

(***************************************************************************)
(* Type correctness.                                                       *)
(***************************************************************************)

LEMMA TypeInit == DispatchInit => DispatchTypeOK
<1> SUFFICES ASSUME DispatchInit PROVE DispatchTypeOK
  OBVIOUS
<1> USE DEF DispatchInit, LedgerInit, SchedulerInit
<1>1. LedgerTypeOK
  BY EmptySeq DEF LedgerTypeOK
<1>2. SchedulerTypeOK
  BY EmptySeq DEF SchedulerTypeOK, NoSlots, NoAssignment
<1> QED
  BY <1>1, <1>2 DEF DispatchTypeOK

\* The operations on the table keep its types.
LEMMA LedgerSteps ==
    ASSUME LedgerTypeOK, NEW j \in Jobs,
           \/ AddJob(j)
           \/ \E G \in SUBSET Gpus : AssignGpus(j, G)
           \/ \E s \in FINAL_STATES : CloseRow(j, s)
           \/ ReopenRow(j)
    PROVE  LedgerTypeOK'
<1>1. /\ RemoveFirst(queue, j) \in Seq(Jobs)
      /\ Append(queue, j) \in Seq(Jobs)
  BY RemoveFirstProperties, AppendProperties DEF LedgerTypeOK
<1>2. FINAL_STATES \subseteq States /\ "QUEUED" \in States /\ "RUNNING" \in States
  BY DEF States
<1> QED
  BY <1>1, <1>2 DEF LedgerTypeOK, AddJob, AssignGpus, CloseRow, ReopenRow

\* The clock stays within its range.
LEMMA AgedType ==
    ASSUME NEW since \in [Jobs -> (0..RESERVE_AFTER_S) \cup {NULL}]
    PROVE  Aged(since) \in [Jobs -> (0..RESERVE_AFTER_S) \cup {NULL}]
<1>1. ASSUME NEW j \in Jobs, since[j] # NULL, since[j] < RESERVE_AFTER_S
      PROVE  since[j] + 1 \in 0..RESERVE_AFTER_S
  BY <1>1, SchedulerAssumption
<1> QED
  BY <1>1 DEF Aged

LEMMA TypeNextJob ==
    ASSUME DispatchTypeOK, PlanNextJob
    PROVE  DispatchTypeOK'
<1> DEFINE j == Head(todo)
<1>1. j \in Jobs /\ todo' \in Seq(Jobs)
  BY HeadTailProperties DEF PlanNextJob, PlanJob, DispatchTypeOK, SchedulerTypeOK
<1>2. avail \in Pools /\ NoSlots \in Pools
  BY DEF DispatchTypeOK, SchedulerTypeOK, Pools, NoSlots
<1>3. LedgerTypeOK' /\ pc' = pc /\ external' = external
  BY DEF PlanNextJob, DispatchTypeOK, LedgerTypeOK, ledgerVars
<1> HIDE DEF j
<1>4. CASE PlanPlaces(j)
  <2> DEFINE G == Placement(j, avail)
  <2>1. G \in SUBSET Gpus /\ \A g \in G : avail[g] \in GpuSlot
    BY <1>1, <1>2, <1>4, PlacementProperties DEF PlanPlaces
  <2>2. DrawDown(j, G, avail) \in Pools
    BY <1>1, <1>2, <2>1, DrawDownType
  <2>3. /\ out' = [out EXCEPT ![j] = G]
        /\ avail' = DrawDown(j, G, avail)
        /\ head_blocked_since' = [head_blocked_since EXCEPT ![j] = NULL]
        /\ head_blocked' = head_blocked
    BY <1>4 DEF PlanPlaces
  <2> HIDE DEF G
  <2> QED
    BY <1>1, <1>3, <2>1, <2>2, <2>3 DEF DispatchTypeOK, SchedulerTypeOK, Pools
<1>5. CASE PlanBlocksHead(j)
  <2> DEFINE since == IF head_blocked_since[j] = NULL THEN 0 ELSE head_blocked_since[j]
  <2>1. since \in 0..RESERVE_AFTER_S
    BY <1>1, SchedulerAssumption DEF DispatchTypeOK, SchedulerTypeOK
  <2>2. /\ head_blocked' = TRUE
        /\ head_blocked_since' = [head_blocked_since EXCEPT ![j] = since]
        /\ avail' \in {NoSlots, avail}
        /\ out' = out
    BY <1>5 DEF PlanBlocksHead
  <2> HIDE DEF since
  <2> QED
    BY <1>1, <1>2, <1>3, <2>1, <2>2 DEF DispatchTypeOK, SchedulerTypeOK, Pools
<1>6. CASE PlanPassesOver(j)
  BY <1>1, <1>3, <1>6 DEF PlanPassesOver, DispatchTypeOK, SchedulerTypeOK
<1> QED
  BY <1>4, <1>5, <1>6 DEF PlanNextJob, PlanJob, j

LEMMA TypeStep == DispatchTypeOK /\ [DispatchNext]_dispatchVars => DispatchTypeOK'
<1> SUFFICES ASSUME DispatchTypeOK, [DispatchNext]_dispatchVars
             PROVE  DispatchTypeOK'
  OBVIOUS
<1> USE DEF dispatchVars, ledgerVars, planVars
<1>1. ASSUME NEW j \in Jobs, Submit(j) \/ CancelQueued(j) \/ Requeue(j) \/ Finish(j)
      PROVE  DispatchTypeOK'
  <2>1. LedgerTypeOK'
    <3>1. \/ AddJob(j) \/ ReopenRow(j)
          \/ \E s \in FINAL_STATES : CloseRow(j, s)
      BY <1>1 DEF Submit, CancelQueued, Requeue, Finish, FinishAs, FINAL_STATES
    <3> QED
      BY <3>1, LedgerSteps DEF DispatchTypeOK
  <2>2. UNCHANGED <<planVars, pc, external>>
    BY <1>1 DEF Submit, CancelQueued, Requeue, Finish, FinishAs
  <2> QED
    BY <2>1, <2>2 DEF DispatchTypeOK, SchedulerTypeOK
<1>2. CASE CycleWithoutSnapshot
  BY <1>2, AgedType DEF CycleWithoutSnapshot, DispatchTypeOK, LedgerTypeOK, SchedulerTypeOK
<1>3. CASE PlanBegins
  <2>1. FreeGpus(external') \in Pools
    BY FreeGpusType DEF DispatchTypeOK
  <2>2. head_blocked_since' \in [Jobs -> (0..RESERVE_AFTER_S) \cup {NULL}]
    BY <1>3, AgedType DEF PlanBegins, DispatchTypeOK, SchedulerTypeOK
  <2>3. /\ todo' = queue /\ avail' = FreeGpus(external')
        /\ out' = NoAssignment /\ head_blocked' = FALSE
        /\ pc' = "plan" /\ external' \in SUBSET ExtGpus
        /\ UNCHANGED ledgerVars
    BY <1>3 DEF PlanBegins, PlanCall
  <2> QED
    BY <2>1, <2>2, <2>3 DEF DispatchTypeOK, LedgerTypeOK, SchedulerTypeOK, Pools, NoAssignment
<1>4. CASE PlanNextJob
  BY <1>4, TypeNextJob
<1>5. CASE PlanEnds
  BY <1>5 DEF PlanEnds, PlanReturn, DispatchTypeOK, LedgerTypeOK, SchedulerTypeOK, NoSlots
<1>6. ASSUME NEW j \in Jobs, Launch(j) \/ LaunchFails(j)
      PROVE  DispatchTypeOK'
  <2>1. out[j] \in SUBSET Gpus
    <3>1. out[j] # NULL
      BY <1>6 DEF Launch, LaunchFails, NextAssignment
    <3> QED
      BY <3>1 DEF DispatchTypeOK, SchedulerTypeOK
  <2>2. LedgerTypeOK'
    <3>1. \/ \E G \in SUBSET Gpus : AssignGpus(j, G)
          \/ \E s \in FINAL_STATES : CloseRow(j, s)
      BY <1>6, <2>1 DEF Launch, LaunchFails, FINAL_STATES
    <3> QED
      BY <3>1, LedgerSteps DEF DispatchTypeOK
  <2>3. /\ out' = [out EXCEPT ![j] = NULL]
        /\ UNCHANGED <<head_blocked_since, todo, avail, head_blocked, pc, external>>
    BY <1>6 DEF Launch, LaunchFails
  <2> QED
    BY <2>2, <2>3 DEF DispatchTypeOK, SchedulerTypeOK
<1>7. CASE CycleEnds
  BY <1>7 DEF CycleEnds, DispatchTypeOK, LedgerTypeOK, SchedulerTypeOK
<1>8. CASE Restart
  BY <1>8, EmptySeq DEF Restart, DispatchTypeOK, LedgerTypeOK, SchedulerTypeOK, NoSlots, NoAssignment
<1>9. CASE UNCHANGED dispatchVars
  BY <1>9 DEF DispatchTypeOK, LedgerTypeOK, SchedulerTypeOK
<1> QED
  BY <1>1, <1>2, <1>3, <1>4, <1>5, <1>6, <1>7, <1>8, <1>9
     DEF DispatchNext, Work, Cycle, Handlers

\* Every variable keeps its type, and every pool of slots is one.
THEOREM TypeCorrect == DispatchSpec => []DispatchTypeOK
<1>1. DispatchInit => DispatchTypeOK
  BY TypeInit
<1>2. DispatchTypeOK /\ [DispatchNext]_dispatchVars => DispatchTypeOK'
  BY TypeStep
<1> QED
  BY <1>1, <1>2, PTL DEF DispatchSpec

-----------------------------------------------------------------------------
(***************************************************************************)
(* No card is committed twice.                                             *)
(*                                                                         *)
(* NoOvercommit is not inductive: a pool that shows more room than the     *)
(* ledger and the assignments leave would break it at the next placement,  *)
(* and a job that is planned twice, or is RUNNING already, would be        *)
(* counted once.  Inv says that neither happens.                           *)
(***************************************************************************)

\* No row is queued twice, and the queued rows are QUEUED.
QueueOK ==
    /\ Distinct(queue)
    /\ \A a \in 1..Len(queue) : state[queue[a]] = "QUEUED"

\* plan() has each job before it once, QUEUED and without an assignment.
TodoOK ==
    /\ pc # "plan" => todo = <<>>
    /\ Distinct(todo)
    /\ \A a \in 1..Len(todo) : state[todo[a]] = "QUEUED" /\ out[todo[a]] = NULL

\* Only a QUEUED job has an assignment, and only within a cycle.
OutOK == \A j \in Jobs : out[j] # NULL => state[j] = "QUEUED" /\ pc # "idle"

\* What the pool shows of card g is what its holders leave of it.
SlotOK(g) ==
    /\ g \notin external
    /\ \A j \in Holders(g) : ~Exclusive(j)
    /\ avail[g].free_mb = Capacity(g) - Reserved(Holders(g))
    /\ avail[g].empty <=> Holders(g) = {}

PoolOK == pc = "plan" => \A g \in Gpus : avail[g] # NULL => SlotOK(g)

Inv ==
    /\ DispatchTypeOK
    /\ QueueOK
    /\ TodoOK
    /\ OutOK
    /\ PoolOK
    /\ NoOvercommit
    /\ OffLimits

\* What NoOvercommit says of one card and the set of its holders.
Fair(H, g) ==
    /\ \A j \in H : Exclusive(j) => H = {j}
    /\ (H # {} /\ \A j \in H : ~Exclusive(j)) => Reserved(H) <= Capacity(g)

LEMMA NoOvercommitIsFair == NoOvercommit <=> \A g \in Gpus : Fair(Holders(g), g)
BY DEF NoOvercommit, Fair

LEMMA HoldersType == \A g : Holders(g) \subseteq Jobs
BY DEF Holders, Tenants

LEMMA CapacityType == \A g \in Gpus : Capacity(g) \in Int
BY SchedulerAssumption DEF Capacity

\* A card that loses holders stays as it should be.
LEMMA FewerHolders ==
    ASSUME NEW g \in Gpus, NEW T \in SUBSET Jobs, NEW S \in SUBSET T, Fair(T, g)
    PROVE  Fair(S, g)
<1>1. \A j \in S : Exclusive(j) => S = {j}
  BY DEF Fair
<1>2. ASSUME S # {}, \A j \in S : ~Exclusive(j)
      PROVE  Reserved(S) <= Capacity(g)
  <2>1. T # {} /\ \A j \in T : ~Exclusive(j)
    BY <1>2 DEF Fair
  <2>2. Share(T) /\ Share(S)
    BY <2>1 DEF Share
  <2>3. Reserved(S) \in Nat /\ Reserved(T) \in Nat
    BY <2>2, ReservedType
  <2>4. Reserved(S) =< Reserved(T)
    BY <2>2, ReservedMonotone
  <2>5. Reserved(T) <= Capacity(g)
    BY <2>1 DEF Fair
  <2> QED
    BY <2>3, <2>4, <2>5, CapacityType
<1> QED
  BY <1>1, <1>2 DEF Fair

LEMMA ShrinkingHolders ==
    ASSUME NoOvercommit, \A g \in Gpus : Holders(g)' \subseteq Holders(g)
    PROVE  NoOvercommit'
<1>1. ASSUME NEW g \in Gpus PROVE Fair(Holders(g)', g)
  <2>1. Fair(Holders(g), g)
    BY NoOvercommitIsFair
  <2>2. Holders(g) \in SUBSET Jobs /\ Holders(g)' \in SUBSET Holders(g)
    BY HoldersType
  <2> QED
    BY <2>1, <2>2, FewerHolders
<1> QED
  BY <1>1 DEF NoOvercommit, Fair

\* A card that has room for a share job stays as it should be when it gets it.
LEMMA OneMoreHolder ==
    ASSUME NEW g \in Gpus, NEW H \in SUBSET Jobs, Share(H),
           NEW j \in Jobs, ~Exclusive(j), j \notin H,
           Capacity(g) - Reserved(H) >= Need(j)
    PROVE  Fair(H \cup {j}, g)
<1>1. Reserved(H) \in Nat /\ Need(j) \in Nat /\ Capacity(g) \in Int
  BY ReservedType, NeedType, CapacityType
<1>2. Reserved(H \cup {j}) = Reserved(H) + Need(j)
  BY ReservedAdds
<1>3. \A k \in H \cup {j} : ~Exclusive(k)
  BY DEF Share
<1> QED
  BY <1>1, <1>2, <1>3 DEF Fair

LEMMA InvInit == DispatchInit => Inv
<1> SUFFICES ASSUME DispatchInit PROVE Inv
  OBVIOUS
<1>1. DispatchTypeOK
  BY TypeInit
<1>2. queue = <<>> /\ todo = <<>> /\ Len(<<>>) = 0
  BY EmptySeq DEF DispatchInit, LedgerInit, SchedulerInit
<1>3. QueueOK /\ TodoOK
  BY <1>2 DEF QueueOK, TodoOK, Distinct
<1>4. /\ pc = "idle"
      /\ \A j \in Jobs : state[j] = NULL /\ out[j] = NULL
  BY DEF DispatchInit, LedgerInit, SchedulerInit, NoAssignment
<1>5. OutOK /\ PoolOK /\ OffLimits
  BY <1>4 DEF OutOK, PoolOK, OffLimits
<1>6. NULL # "RUNNING"
  BY LedgerAssumption DEF States
<1>7. \A g \in Gpus : Holders(g) = {}
  BY <1>4, <1>6 DEF Holders, Tenants
<1>8. NoOvercommit
  BY <1>7 DEF NoOvercommit
<1> QED
  BY <1>1, <1>3, <1>5, <1>8 DEF Inv

\* A row that leaves the queue, in whatever state, leaves it in order.
LEMMA RowLeavesQueue ==
    ASSUME LedgerTypeOK, QueueOK, NEW j \in Jobs, NEW s,
           queue' = RemoveFirst(queue, j), state' = [state EXCEPT ![j] = s]
    PROVE  QueueOK'
<1>1. /\ state \in [Jobs -> States \cup {NULL}]
      /\ queue \in Seq(Jobs)
      /\ \A a \in 1..Len(queue) : queue[a] \in Jobs
  BY ElementOfSeq DEF LedgerTypeOK
<1>2. Distinct(queue) /\ \A a \in 1..Len(queue) : state[queue[a]] = "QUEUED"
  BY DEF QueueOK
<1>3. /\ Distinct(queue')
      /\ \A a \in 1..Len(queue') :
            queue'[a] # j /\ \E b \in 1..Len(queue) : queue'[a] = queue[b]
  BY <1>1, <1>2, RemoveFirstProperties
<1>4. \A a \in 1..Len(queue') : state'[queue'[a]] = "QUEUED"
  BY <1>1, <1>2, <1>3
<1> QED
  BY <1>3, <1>4 DEF QueueOK

\* The steps taken between cycles.
LEMMA InvHandlers ==
    ASSUME Inv, NEW j \in Jobs,
           Submit(j) \/ CancelQueued(j) \/ Requeue(j) \/ Finish(j)
    PROVE  Inv'
<1>1. DispatchTypeOK'
  <2>1. [DispatchNext]_dispatchVars
    BY DEF DispatchNext, Work, Handlers
  <2> QED
    BY <2>1, TypeStep DEF Inv
<1>2. /\ pc = "idle" /\ UNCHANGED <<planVars, pc, external>>
      /\ \/ AddJob(j)
         \/ ReopenRow(j) /\ state[j] \in FINAL_STATES
         \/ \E s \in FINAL_STATES : CloseRow(j, s)
  BY DEF Submit, CancelQueued, Requeue, Finish, FinishAs, FINAL_STATES
<1>3. \A k \in Jobs : out[k] = NULL /\ out'[k] = NULL
  BY <1>2 DEF Inv, OutOK, planVars
<1>4. TodoOK' /\ OutOK' /\ PoolOK' /\ OffLimits'
  <2>1. todo' = <<>> /\ Len(<<>>) = 0
    BY <1>2, EmptySeq DEF Inv, TodoOK, planVars
  <2>2. TodoOK'
    BY <2>1 DEF TodoOK, Distinct
  <2> QED
    BY <1>2, <1>3, <2>2 DEF OutOK, PoolOK, OffLimits
<1>5. NULL \notin States /\ "QUEUED" \notin FINAL_STATES /\ "RUNNING" \notin FINAL_STATES
  BY LedgerAssumption DEF States, FINAL_STATES
<1>6. /\ state \in [Jobs -> States \cup {NULL}]
      /\ gpu_ids \in [Jobs -> (SUBSET Gpus) \cup {NULL}]
      /\ queue \in Seq(Jobs) /\ Len(queue) \in Nat
      /\ \A a \in 1..Len(queue) : queue[a] \in Jobs
  BY LenProperties, ElementOfSeq DEF Inv, DispatchTypeOK, LedgerTypeOK
<1>7. Distinct(queue) /\ \A a \in 1..Len(queue) : state[queue[a]] = "QUEUED"
  BY DEF Inv, QueueOK
<1>8. QueueOK'
  <2>1. CASE AddJob(j) \/ (ReopenRow(j) /\ state[j] \in FINAL_STATES)
    <3>1. queue' = Append(queue, j) /\ state' = [state EXCEPT ![j] = "QUEUED"]
      BY <2>1 DEF AddJob, ReopenRow
    <3>2. \A a \in 1..Len(queue) : queue[a] # j
      BY <1>2, <1>5, <1>7, <2>1 DEF AddJob, States
    <3>3. Distinct(queue')
      BY <1>6, <1>7, <3>1, <3>2, AppendNew
    <3>4. /\ Len(queue') = Len(queue) + 1
          /\ \A a \in 1..Len(queue) : queue'[a] = queue[a]
          /\ queue'[Len(queue) + 1] = j
      BY <1>6, <3>1, AppendProperties
    <3>5. \A a \in 1..Len(queue') : state'[queue'[a]] = "QUEUED"
      BY <1>6, <1>7, <3>1, <3>4
    <3> QED
      BY <3>3, <3>5 DEF QueueOK
  <2>2. ASSUME NEW s \in FINAL_STATES, CloseRow(j, s)
        PROVE  QueueOK'
    BY <2>2, RowLeavesQueue DEF CloseRow, Inv, DispatchTypeOK
  <2> QED
    BY <1>2, <2>1, <2>2
<1>9. NoOvercommit'
  <2>1. \A k \in Jobs : state'[k] = "RUNNING"
                          => state[k] = "RUNNING" /\ gpu_ids'[k] = gpu_ids[k]
    <3>1. CASE AddJob(j)
      BY <1>6, <3>1 DEF AddJob
    <3>2. CASE ReopenRow(j)
      BY <1>6, <3>2 DEF ReopenRow
    <3>3. ASSUME NEW s \in FINAL_STATES, CloseRow(j, s)
          PROVE  \A k \in Jobs : state'[k] = "RUNNING"
                          => state[k] = "RUNNING" /\ gpu_ids'[k] = gpu_ids[k]
      BY <1>5, <1>6, <3>3 DEF CloseRow
    <3> QED
      BY <1>2, <3>1, <3>2, <3>3
  <2>2. \A g \in Gpus : Holders(g)' \subseteq Holders(g)
    BY <1>3, <2>1 DEF Holders, Tenants
  <2> QED
    BY <2>2, ShrinkingHolders DEF Inv
<1> QED
  BY <1>1, <1>4, <1>8, <1>9 DEF Inv

\* plan() is called: the pool is made from the ledger alone, and nothing is
\* assigned yet.
LEMMA InvPlanBegins ==
    ASSUME Inv, PlanBegins
    PROVE  Inv'
<1>1. DispatchTypeOK'
  <2>1. [DispatchNext]_dispatchVars
    BY DEF DispatchNext, Work, Cycle
  <2> QED
    BY <2>1, TypeStep DEF Inv
<1>2. /\ pc = "idle" /\ pc' = "plan"
      /\ todo' = queue /\ avail' = FreeGpus(external') /\ out' = NoAssignment
      /\ UNCHANGED <<state, gpu_ids, queue>>
  BY DEF PlanBegins, PlanCall, ledgerVars
<1>3. \A k \in Jobs : out[k] = NULL /\ out'[k] = NULL
  BY <1>2 DEF Inv, OutOK, NoAssignment
<1>4. \A g : Tenants(g)' = Tenants(g) /\ Holders(g) = Tenants(g) /\ Holders(g)' = Tenants(g)
  BY <1>2, <1>3 DEF Holders, Tenants
<1>5. QueueOK'
  BY <1>2 DEF Inv, QueueOK
<1>6. TodoOK'
  <2>1. \A a \in 1..Len(queue) : queue[a] \in Jobs
    BY ElementOfSeq DEF Inv, DispatchTypeOK, LedgerTypeOK
  <2> QED
    BY <1>2, <1>3, <2>1 DEF Inv, QueueOK, TodoOK
<1>7. OutOK' /\ OffLimits'
  BY <1>3 DEF OutOK, OffLimits
<1>8. PoolOK'
  <2>1. ASSUME NEW g \in Gpus, avail'[g] # NULL
        PROVE  SlotOK(g)'
    <3>1. /\ ~(g \in external' \/ \E j \in Tenants(g) : Exclusive(j))
          /\ avail'[g] = [free_mb |-> Capacity(g) - Reserved(Tenants(g)),
                          empty   |-> Tenants(g) = {}]
      BY <1>2, <2>1 DEF FreeGpus
    <3>2. avail'[g].free_mb = Capacity(g) - Reserved(Tenants(g))
      BY <3>1
    <3>3. avail'[g].empty <=> Tenants(g) = {}
      <4>1. avail'[g].empty = (Tenants(g) = {})
        BY <3>1
      <4> QED
        BY <4>1
    <3> QED
      BY <1>4, <3>1, <3>2, <3>3 DEF SlotOK
  <2> QED
    BY <2>1 DEF PoolOK
<1>9. NoOvercommit'
  BY <1>4, ShrinkingHolders DEF Inv
<1> QED
  BY <1>1, <1>5, <1>6, <1>7, <1>8, <1>9 DEF Inv

\* A job that plan() assigned is launched, or its launch fails.
LEMMA InvLaunch ==
    ASSUME Inv, NEW j \in Jobs, Launch(j) \/ LaunchFails(j)
    PROVE  Inv'
<1>1. DispatchTypeOK'
  <2>1. [DispatchNext]_dispatchVars
    BY DEF DispatchNext, Work, Cycle
  <2> QED
    BY <2>1, TypeStep DEF Inv
<1>2. /\ pc = "launch" /\ UNCHANGED <<todo, pc, external>>
      /\ out[j] # NULL /\ out' = [out EXCEPT ![j] = NULL]
      /\ queue' = RemoveFirst(queue, j)
      /\ \/ /\ state' = [state EXCEPT ![j] = "RUNNING"]
            /\ gpu_ids' = [gpu_ids EXCEPT ![j] = out[j]]
         \/ /\ state' = [state EXCEPT ![j] = "FAILED"]
            /\ gpu_ids' = gpu_ids
  BY DEF Launch, LaunchFails, NextAssignment, AssignGpus, CloseRow
<1>3. /\ state \in [Jobs -> States \cup {NULL}]
      /\ gpu_ids \in [Jobs -> (SUBSET Gpus) \cup {NULL}]
      /\ out \in [Jobs -> (SUBSET Gpus) \cup {NULL}]
  BY DEF Inv, DispatchTypeOK, LedgerTypeOK, SchedulerTypeOK
<1>4. QueueOK'
  BY <1>2, RowLeavesQueue DEF Inv, DispatchTypeOK
<1>5. TodoOK'
  <2>1. todo' = <<>> /\ Len(<<>>) = 0
    BY <1>2, EmptySeq DEF Inv, TodoOK
  <2> QED
    BY <2>1 DEF TodoOK, Distinct
<1>6. \A k \in Jobs : out'[k] # NULL => k # j /\ out'[k] = out[k] /\ state'[k] = state[k]
  BY <1>2, <1>3
<1>7. OutOK' /\ PoolOK' /\ OffLimits'
  BY <1>2, <1>6 DEF Inv, OutOK, PoolOK, OffLimits
<1>8. \A g \in Gpus : Holders(g)' \subseteq Holders(g)
  <2>1. ASSUME NEW g \in Gpus, NEW k \in Holders(g)'
        PROVE  k \in Holders(g)
    <3>1. CASE k = j
      <4>1. j \in Tenants(g)'
        BY <1>2, <1>3, <2>1, <3>1 DEF Holders
      <4>2. state'[j] = "RUNNING" /\ g \in gpu_ids'[j]
        BY <4>1 DEF Tenants
      <4>3. gpu_ids'[j] = out[j]
        BY <1>2, <1>3, <4>2
      <4> QED
        BY <1>2, <3>1, <4>2, <4>3 DEF Holders
    <3>2. CASE k # j
      <4>1. k \in Jobs /\ state'[k] = state[k] /\ gpu_ids'[k] = gpu_ids[k] /\ out'[k] = out[k]
        BY <1>2, <1>3, <2>1, <3>2 DEF Holders, Tenants
      <4> QED
        BY <2>1, <4>1 DEF Holders, Tenants
    <3> QED
      BY <3>1, <3>2
  <2> QED
    BY <2>1
<1>9. NoOvercommit'
  BY <1>8, ShrinkingHolders DEF Inv
<1> QED
  BY <1>1, <1>4, <1>5, <1>7, <1>9 DEF Inv

\* plan() places a job: the slots it takes show room for it, and its share of
\* them is drawn down.
LEMMA InvPlaces ==
    ASSUME Inv, NEW j \in Jobs, PlanPlaces(j), pc = "plan",
           state[j] = "QUEUED", out[j] = NULL,
           UNCHANGED <<ledgerVars, pc, external>>
    PROVE  OutOK' /\ PoolOK' /\ NoOvercommit' /\ OffLimits'
<1> DEFINE G == Placement(j, avail)
<1>1. avail \in Pools /\ out \in [Jobs -> (SUBSET Gpus) \cup {NULL}]
  BY DEF Inv, DispatchTypeOK, SchedulerTypeOK, Pools
<1>2. /\ G \subseteq Gpus
      /\ \A g \in G : /\ avail[g] \in GpuSlot
                      /\ Exclusive(j) => avail[g].empty
                      /\ ~Exclusive(j) => avail[g].free_mb >= Need(j)
  BY <1>1, PlacementProperties DEF PlanPlaces
<1>3. out' = [out EXCEPT ![j] = G] /\ avail' = DrawDown(j, G, avail)
  BY DEF PlanPlaces
<1> HIDE DEF G
<1>4. state' = state /\ gpu_ids' = gpu_ids /\ pc' = pc /\ external' = external
  BY DEF ledgerVars
<1>5. G # NULL /\ out'[j] = G /\ \A k \in Jobs : k # j => out'[k] = out[k]
  BY <1>1, <1>2, <1>3, LedgerAssumption
<1>6. \A g \in G : avail[g] # NULL /\ SlotOK(g)
  <2>1. \A g \in G : avail[g] # NULL
    BY <1>2, SchedulerAssumption DEF GpuSlot
  <2> QED
    BY <1>2, <2>1 DEF Inv, PoolOK
<1>7. \A g : j \notin Holders(g)
  BY DEF Holders, Tenants
<1>8. \A g : /\ g \in G => Holders(g)' = Holders(g) \cup {j}
             /\ g \notin G => Holders(g)' = Holders(g)
  BY <1>4, <1>5 DEF Holders, Tenants
<1>9. OutOK'
  BY <1>4, <1>5 DEF Inv, OutOK
<1>10. OffLimits'
  <2>1. G \cap external = {}
    BY <1>6 DEF SlotOK
  <2> QED
    BY <1>4, <1>5, <2>1 DEF Inv, OffLimits
<1>11. ASSUME NEW g \in Gpus, g \in G, Exclusive(j)
       PROVE  Holders(g)' = {j}
  <2>1. Holders(g) = {}
    BY <1>2, <1>6, <1>11 DEF SlotOK
  <2> QED
    BY <1>8, <1>11, <2>1
<1>12. \A g \in Gpus : Holders(g) \in SUBSET Jobs
  BY HoldersType
<1>13. ASSUME NEW g \in Gpus, g \in G, ~Exclusive(j)
       PROVE  /\ Share(Holders(g))
              /\ Reserved(Holders(g)) \in Nat /\ Need(j) \in Nat /\ Capacity(g) \in Int
              /\ avail[g].free_mb = Capacity(g) - Reserved(Holders(g))
              /\ avail[g].free_mb >= Need(j)
              /\ Reserved(Holders(g) \cup {j}) = Reserved(Holders(g)) + Need(j)
  <2>1. Share(Holders(g))
    BY <1>6, <1>12, <1>13 DEF SlotOK, Share
  <2>2. Reserved(Holders(g)) \in Nat /\ Need(j) \in Nat /\ Capacity(g) \in Int
    BY <1>13, <2>1, ReservedType, NeedType, CapacityType
  <2>3. Reserved(Holders(g) \cup {j}) = Reserved(Holders(g)) + Need(j)
    BY <1>7, <1>13, <2>1, ReservedAdds
  <2> QED
    BY <1>2, <1>6, <1>13, <2>1, <2>2, <2>3 DEF SlotOK
<1>14. NoOvercommit'
  <2>1. ASSUME NEW g \in Gpus PROVE Fair(Holders(g)', g)
    <3>1. CASE g \notin G
      BY <1>8, <3>1, NoOvercommitIsFair DEF Inv
    <3>2. CASE g \in G /\ Exclusive(j)
      BY <1>11, <3>2 DEF Fair
    <3>3. CASE g \in G /\ ~Exclusive(j)
      <4>1. Capacity(g) - Reserved(Holders(g)) >= Need(j)
        BY <1>13, <3>3
      <4>2. Share(Holders(g)) /\ Holders(g) \in SUBSET Jobs /\ j \notin Holders(g)
        BY <1>7, <1>12, <1>13, <3>3
      <4>3. Fair(Holders(g) \cup {j}, g)
        BY <3>3, <4>1, <4>2, OneMoreHolder
      <4> QED
        BY <1>8, <3>3, <4>3
    <3> QED
      BY <3>1, <3>2, <3>3
  <2> QED
    BY <2>1 DEF NoOvercommit, Fair
<1>15. PoolOK'
  <2>1. ASSUME NEW g \in Gpus, avail'[g] # NULL
        PROVE  SlotOK(g)'
    <3>1. CASE g \notin G
      <4>1. avail'[g] = avail[g] /\ Holders(g)' = Holders(g)
        BY <1>3, <1>8, <3>1 DEF DrawDown
      <4>2. SlotOK(g)
        BY <2>1, <4>1 DEF Inv, PoolOK
      <4> QED
        BY <1>4, <4>1, <4>2 DEF SlotOK
    <3>2. CASE g \in G
      <4>1. /\ ~Exclusive(j)
            /\ avail'[g] = [free_mb |-> avail[g].free_mb - Need(j), empty |-> FALSE]
        BY <1>3, <2>1, <3>2 DEF DrawDown
      <4>2. avail'[g].free_mb = avail[g].free_mb - Need(j) /\ ~avail'[g].empty
        BY <4>1
      <4>3. Holders(g)' = Holders(g) \cup {j}
        BY <1>8, <3>2
      <4>4. Reserved(Holders(g)') = Reserved(Holders(g)) + Need(j)
        BY <1>13, <3>2, <4>1, <4>3
      <4>5. avail'[g].free_mb = Capacity(g) - Reserved(Holders(g)')
        <5>1. /\ Reserved(Holders(g)) \in Nat /\ Need(j) \in Nat /\ Capacity(g) \in Int
              /\ avail[g].free_mb = Capacity(g) - Reserved(Holders(g))
          BY <1>13, <3>2, <4>1
        <5>2. avail'[g].free_mb = Capacity(g) - Reserved(Holders(g)) - Need(j)
          BY <4>2, <5>1
        <5> QED
          BY <4>4, <5>1, <5>2
      <4>6. g \notin external' /\ \A k \in Holders(g)' : ~Exclusive(k)
        BY <1>4, <1>6, <3>2, <4>1, <4>3 DEF SlotOK
      <4> QED
        BY <4>2, <4>3, <4>5, <4>6 DEF SlotOK
    <3> QED
      BY <3>1, <3>2
  <2> QED
    BY <2>1 DEF PoolOK
<1> QED
  BY <1>9, <1>10, <1>14, <1>15

LEMMA InvPlanNextJob ==
    ASSUME Inv, PlanNextJob
    PROVE  Inv'
<1> DEFINE j == Head(todo)
<1>1. DispatchTypeOK'
  BY TypeNextJob DEF Inv
<1>2. /\ pc = "plan" /\ todo # <<>> /\ todo' = Tail(todo)
      /\ PlanPlaces(j) \/ PlanBlocksHead(j) \/ PlanPassesOver(j)
      /\ UNCHANGED <<ledgerVars, pc, external>>
  BY DEF PlanNextJob, PlanJob
<1>3. todo \in Seq(Jobs) /\ out \in [Jobs -> (SUBSET Gpus) \cup {NULL}]
  BY DEF Inv, DispatchTypeOK, SchedulerTypeOK
<1>4. /\ Len(todo) \in Nat /\ Len(todo) # 0
      /\ \A a \in 1..Len(todo) : todo[a] \in Jobs
      /\ j = todo[1]
      /\ Len(Tail(todo)) = Len(todo) - 1
      /\ \A a \in 1..(Len(todo) - 1) : Tail(todo)[a] = todo[a + 1]
  BY <1>2, <1>3, LenProperties, ElementOfSeq, EmptySeq, HeadTailProperties
<1> HIDE DEF j
<1>5. /\ Distinct(todo)
      /\ \A a \in 1..Len(todo) : state[todo[a]] = "QUEUED" /\ out[todo[a]] = NULL
  BY DEF Inv, TodoOK
<1>6. j \in Jobs /\ state[j] = "QUEUED" /\ out[j] = NULL
  BY <1>4, <1>5
<1>7. \A k \in Jobs : k # j => out'[k] = out[k]
  BY <1>2, <1>3 DEF PlanPlaces, PlanBlocksHead, PlanPassesOver
<1>8. QueueOK'
  BY <1>2 DEF Inv, QueueOK, ledgerVars
<1>9. TodoOK'
  <2>1. ASSUME NEW a \in 1..(Len(todo) - 1)
        PROVE  /\ todo'[a] = todo[a + 1] /\ a + 1 \in 1..Len(todo) /\ a + 1 # 1
               /\ todo'[a] \in Jobs /\ todo'[a] # j
    BY <1>2, <1>4, <1>5 DEF Distinct
  <2>2. Len(todo') = Len(todo) - 1
    BY <1>2, <1>4
  <2>3. Distinct(todo')
    <3>1. ASSUME NEW a \in 1..(Len(todo) - 1), NEW b \in 1..(Len(todo) - 1),
                 todo'[a] = todo'[b]
          PROVE  a = b
      <4>1. a + 1 = b + 1
        BY <1>5, <2>1, <3>1 DEF Distinct
      <4> QED
        BY <4>1
    <3> QED
      BY <2>2, <3>1 DEF Distinct
  <2>4. \A a \in 1..Len(todo') : state'[todo'[a]] = "QUEUED" /\ out'[todo'[a]] = NULL
    BY <1>2, <1>5, <1>7, <2>1, <2>2 DEF ledgerVars
  <2> QED
    BY <1>2, <2>3, <2>4 DEF TodoOK
<1>10. OutOK' /\ PoolOK' /\ NoOvercommit' /\ OffLimits'
  <2>1. CASE PlanPlaces(j)
    BY <1>2, <1>6, <2>1, InvPlaces
  <2>2. CASE PlanBlocksHead(j) \/ PlanPassesOver(j)
    <3>1. /\ out' = out /\ avail' \in {NoSlots, avail}
          /\ state' = state /\ gpu_ids' = gpu_ids /\ pc' = pc /\ external' = external
      BY <1>2, <2>2 DEF PlanBlocksHead, PlanPassesOver, ledgerVars
    <3>2. \A g : Holders(g)' = Holders(g)
      BY <3>1 DEF Holders, Tenants
    <3>3. OutOK' /\ OffLimits'
      BY <3>1 DEF Inv, OutOK, OffLimits
    <3>4. NoOvercommit'
      BY <3>2, ShrinkingHolders DEF Inv
    <3>5. PoolOK'
      <4>1. ASSUME NEW g \in Gpus, avail'[g] # NULL
            PROVE  avail' = avail
        BY <3>1, <4>1 DEF NoSlots
      <4> QED
        BY <1>2, <3>1, <3>2, <4>1 DEF Inv, PoolOK, SlotOK
    <3> QED
      BY <3>3, <3>4, <3>5
  <2> QED
    BY <1>2, <2>1, <2>2
<1> QED
  BY <1>1, <1>8, <1>9, <1>10 DEF Inv

\* The steps that touch neither the table nor the pool, and at most forget
\* the assignments.
LEMMA InvOthers ==
    ASSUME Inv,
           \/ CycleWithoutSnapshot \/ PlanEnds \/ CycleEnds \/ Restart
           \/ UNCHANGED dispatchVars
    PROVE  Inv'
<1>1. DispatchTypeOK'
  <2>1. [DispatchNext]_dispatchVars
    BY DEF DispatchNext, Work, Cycle
  <2> QED
    BY <2>1, TypeStep DEF Inv
<1>2. /\ UNCHANGED <<state, gpu_ids, queue>>
      /\ out' = NoAssignment \/ (out' = out /\ external' = external /\ (pc' = "idle" => pc = "idle"))
      /\ \/ /\ UNCHANGED <<todo, avail, out, pc, external>>
         \/ pc' # "plan" /\ todo' = <<>>
  <2>1. CASE CycleWithoutSnapshot
    BY <2>1 DEF CycleWithoutSnapshot, ledgerVars
  <2>2. CASE PlanEnds
    BY <2>2 DEF PlanEnds, PlanReturn, ledgerVars
  <2>3. CASE CycleEnds
    BY <2>3 DEF CycleEnds, ledgerVars, planVars, Inv, TodoOK
  <2>4. CASE Restart
    BY <2>4 DEF Restart, ledgerVars
  <2>5. CASE UNCHANGED dispatchVars
    BY <2>5 DEF dispatchVars, ledgerVars, planVars
  <2> QED
    BY <2>1, <2>2, <2>3, <2>4, <2>5
<1>3. \A k \in Jobs : out'[k] = NULL \/ (out'[k] = out[k] /\ out' = out)
  BY <1>2 DEF NoAssignment
<1>4. QueueOK'
  BY <1>2 DEF Inv, QueueOK
<1>5. TodoOK'
  <2>1. CASE UNCHANGED <<todo, avail, out, pc, external>>
    BY <1>2, <2>1 DEF Inv, TodoOK
  <2>2. CASE pc' # "plan" /\ todo' = <<>>
    <3>1. Len(<<>>) = 0
      BY EmptySeq
    <3> QED
      BY <2>2, <3>1 DEF TodoOK, Distinct
  <2> QED
    BY <1>2, <2>1, <2>2
<1>6. OutOK' /\ OffLimits'
  <2>1. NoAssignment # out' => out' = out /\ external' = external /\ (pc' = "idle" => pc = "idle")
    BY <1>2
  <2>2. CASE out' = NoAssignment
    BY <2>2 DEF NoAssignment, OutOK, OffLimits
  <2>3. CASE out' # NoAssignment
    BY <1>2, <2>1, <2>3 DEF Inv, OutOK, OffLimits
  <2> QED
    BY <2>2, <2>3
<1>7. \A g \in Gpus : Holders(g)' \subseteq Holders(g)
  BY <1>2, <1>3 DEF Holders, Tenants
<1>8. NoOvercommit'
  BY <1>7, ShrinkingHolders DEF Inv
<1>9. PoolOK'
  <2>1. CASE UNCHANGED <<todo, avail, out, pc, external>>
    BY <1>2, <2>1 DEF Inv, PoolOK, SlotOK, Holders, Tenants
  <2>2. CASE pc' # "plan"
    BY <2>2 DEF PoolOK
  <2> QED
    BY <1>2, <2>1, <2>2
<1> QED
  BY <1>1, <1>4, <1>5, <1>6, <1>8, <1>9 DEF Inv

\* Every step of the queue preserves the invariant.
LEMMA InvStep == Inv /\ [DispatchNext]_dispatchVars => Inv'
<1> SUFFICES ASSUME Inv, [DispatchNext]_dispatchVars
             PROVE  Inv'
  OBVIOUS
<1>1. ASSUME NEW j \in Jobs, Submit(j) \/ CancelQueued(j) \/ Requeue(j) \/ Finish(j)
      PROVE  Inv'
  BY <1>1, InvHandlers
<1>2. CASE PlanBegins
  BY <1>2, InvPlanBegins
<1>3. CASE PlanNextJob
  BY <1>3, InvPlanNextJob
<1>4. ASSUME NEW j \in Jobs, Launch(j) \/ LaunchFails(j)
      PROVE  Inv'
  BY <1>4, InvLaunch
<1>5. CASE CycleWithoutSnapshot \/ PlanEnds \/ CycleEnds \/ Restart \/ UNCHANGED dispatchVars
  BY <1>5, InvOthers
<1> QED
  BY <1>1, <1>2, <1>3, <1>4, <1>5 DEF DispatchNext, Work, Cycle, Handlers

\* The inductive invariant holds of every behaviour.
THEOREM Invariance == DispatchSpec => []Inv
<1>1. DispatchInit => Inv
  BY InvInit
<1>2. Inv /\ [DispatchNext]_dispatchVars => Inv'
  BY InvStep
<1> QED
  BY <1>1, <1>2, PTL DEF DispatchSpec

\* No card is committed twice: an exclusive job has its cards to itself, and
\* the share jobs on a card fit into it (docs/how-it-works.md:92-93, 123-124).
THEOREM NeverOvercommitted == DispatchSpec => []NoOvercommit
<1>1. Inv => NoOvercommit
  BY DEF Inv
<1> QED
  BY <1>1, Invariance, PTL

\* plan() gives no job a card on which the snapshot shows someone else.
THEOREM KeepsOffOthersCards == DispatchSpec => []OffLimits
<1>1. Inv => OffLimits
  BY DEF Inv
<1> QED
  BY <1>1, Invariance, PTL
=============================================================================
