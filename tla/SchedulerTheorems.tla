------------------------- MODULE SchedulerTheorems -------------------------
(***************************************************************************)
(* Facts about the operators of Scheduler: what a set of share jobs        *)
(* reserves, and where _place puts a job that fits.                        *)
(***************************************************************************)
EXTENDS Scheduler, QueueTheorems, FiniteSetTheorems

Pools == [Gpus -> GpuSlot \cup {NULL}]
Share(S) == S \subseteq Jobs /\ \A j \in S : ~Exclusive(j)

\* A share job needs a natural number of units.
LEMMA NeedType ==
    ASSUME NEW j \in Jobs, ~Exclusive(j)
    PROVE  Need(j) \in Nat
BY LedgerAssumption, SchedulerAssumption DEF Need, Exclusive

\* What one share job owns.
LEMMA OwnedByOne ==
    ASSUME NEW j \in Jobs, ~Exclusive(j)
    PROVE  /\ IsFiniteSet({j} \X (1..Need(j)))
           /\ Cardinality({j} \X (1..Need(j))) = Need(j)
<1>1. Need(j) \in Nat
  BY NeedType
<1>2. IsFiniteSet({j}) /\ Cardinality({j}) = 1
  BY FS_Singleton
<1>3. IsFiniteSet(1..Need(j)) /\ Cardinality(1..Need(j)) = Need(j)
  BY <1>1, FS_Interval
<1>4. /\ IsFiniteSet({j} \X (1..Need(j)))
      /\ Cardinality({j} \X (1..Need(j))) = Cardinality({j}) * Cardinality(1..Need(j))
  BY <1>2, <1>3, FS_Product
<1> QED
  BY <1>1, <1>2, <1>3, <1>4

\* Share jobs own finitely many units, so what they reserve is a number.
LEMMA ReservedType ==
    ASSUME NEW S, Share(S)
    PROVE  IsFiniteSet(Owned(S)) /\ Reserved(S) \in Nat
<1> DEFINE f == [j \in S |-> {j} \X (1..Need(j))]
           T == {{j} \X (1..Need(j)) : j \in S}
<1>1. IsFiniteSet(S)
  BY LedgerAssumption, FS_Subset DEF Share
<1>2. f \in Surjection(S, T)
  BY DEF Surjection
<1>3. IsFiniteSet(T)
  BY <1>1, <1>2, FS_Surjection
<1>4. \A U \in T : IsFiniteSet(U)
  BY OwnedByOne DEF Share
<1>5. IsFiniteSet(UNION T)
  BY <1>3, <1>4, FS_UNION
<1>6. IsFiniteSet(Owned(S))
  BY <1>5 DEF Owned
<1> QED
  BY <1>6, FS_CardinalityType DEF Reserved

\* Fewer jobs reserve no more.
LEMMA ReservedMonotone ==
    ASSUME NEW S, NEW T, Share(T), S \subseteq T
    PROVE  Reserved(S) =< Reserved(T)
<1>1. Owned(S) \in SUBSET Owned(T)
  BY DEF Owned
<1> QED
  BY <1>1, ReservedType, FS_Subset DEF Reserved

\* One more job reserves what it needs.
LEMMA ReservedAdds ==
    ASSUME NEW S, Share(S), NEW j \in Jobs, ~Exclusive(j), j \notin S
    PROVE  Reserved(S \cup {j}) = Reserved(S) + Need(j)
<1> DEFINE U == {j} \X (1..Need(j))
<1>1. Owned(S \cup {j}) = Owned(S) \cup U
  BY DEF Owned
<1>2. Owned(S) \cap U = {}
  BY DEF Owned
<1>3. IsFiniteSet(Owned(S)) /\ Reserved(S) \in Nat
  BY ReservedType
<1>4. IsFiniteSet(U) /\ Cardinality(U) = Need(j) /\ Need(j) \in Nat
  BY OwnedByOne, NeedType
<1> HIDE DEF U
<1>5. Cardinality(Owned(S) \cup U)
        = Cardinality(Owned(S)) + Cardinality(U) - Cardinality(Owned(S) \cap U)
  BY <1>3, <1>4, FS_Union
<1>6. Cardinality(Owned(S) \cap U) = 0
  BY <1>2, FS_EmptySet
<1>7. Cardinality(Owned(S)) = Reserved(S) /\ Cardinality(Owned(S) \cup U) = Reserved(S \cup {j})
  BY <1>1 DEF Reserved
<1> QED
  BY <1>3, <1>4, <1>5, <1>6, <1>7

\* The tightest of the slots with room is one of them.
LEMMA TightestIsOne ==
    ASSUME NEW S, S # {}, S \subseteq Gpus, NEW pool,
           \A g \in S : pool[g].free_mb \in Nat
    PROVE  /\ Tightest(S, pool) \in S
           /\ \A h \in S : pool[Tightest(S, pool)].free_mb <= pool[h].free_mb
<1> DEFINE V == {pool[g].free_mb : g \in S}
<1>1. PICK v \in V : \A w \in V : v =< w
  <2>1. V \subseteq Nat /\ V # {}
    OBVIOUS
  <2> HIDE DEF V
  <2> QED
    BY <2>1, LeastNatural
<1> DEFINE B == {g \in S : pool[g].free_mb = v}
<1>2. PICK g \in B : \A h \in B : g =< h
  <2>1. B \subseteq Nat /\ B # {}
    BY LedgerAssumption
  <2> HIDE DEF B
  <2> QED
    BY <2>1, LeastNatural
<1>3. g \in S /\ \A h \in S : \/ pool[g].free_mb < pool[h].free_mb
                              \/ pool[g].free_mb = pool[h].free_mb /\ g <= h
  <2>1. g \in S /\ pool[g].free_mb = v
    BY <1>2
  <2>2. ASSUME NEW h \in S
        PROVE  \/ pool[g].free_mb < pool[h].free_mb
               \/ pool[g].free_mb = pool[h].free_mb /\ g <= h
    <3>1. pool[h].free_mb \in Nat /\ v \in Nat /\ v =< pool[h].free_mb
      BY <1>1
    <3>2. pool[h].free_mb = v => g <= h
      BY <1>2
    <3> QED
      BY <2>1, <3>1, <3>2
  <2> QED
    BY <2>1, <2>2
<1>4. LET t == Tightest(S, pool) IN
      t \in S /\ \A h \in S : \/ pool[t].free_mb < pool[h].free_mb
                              \/ pool[t].free_mb = pool[h].free_mb /\ t <= h
  BY <1>3 DEF Tightest
<1>5. \A n, m \in Nat : n < m \/ n = m => n <= m
  OBVIOUS
<1> QED
  BY <1>4, <1>5

\* A job that fits is put on slots of the pool: an exclusive one on empty
\* slots, a share job on one slot with room for it.
LEMMA PlacementProperties ==
    ASSUME NEW j \in Jobs, NEW pool \in Pools, Fits(j, pool)
    PROVE  /\ Placement(j, pool) \subseteq Gpus
           /\ \A g \in Placement(j, pool) :
                 /\ pool[g] \in GpuSlot
                 /\ Exclusive(j) => pool[g].empty
                 /\ ~Exclusive(j) => pool[g].free_mb >= Need(j)
<1>1. CASE Exclusive(j)
  <2>1. Placement(j, pool) \subseteq EmptySlots(pool)
    BY <1>1 DEF Placement, FirstSlots
  <2> QED
    BY <1>1, <2>1 DEF EmptySlots, Pools
<1>2. CASE ~Exclusive(j)
  <2> DEFINE C == Candidates(j, pool)
  <2>1. C # {} /\ C \subseteq Gpus
    BY <1>2 DEF Fits, Candidates
  <2>2. Need(j) \in Nat
    BY <1>2, NeedType
  <2>3. \A g \in C : pool[g] \in GpuSlot /\ pool[g].free_mb >= Need(j)
    BY DEF Candidates, Pools
  <2>4. \A g \in C : pool[g].free_mb \in Nat
    BY <2>2, <2>3 DEF GpuSlot
  <2>5. Placement(j, pool) = {Tightest(C, pool)}
    BY <1>2 DEF Placement
  <2> HIDE DEF C
  <2>6. Tightest(C, pool) \in C
    BY <2>1, <2>4, TightestIsOne
  <2> QED
    BY <1>2, <2>1, <2>3, <2>5, <2>6
<1> QED
  BY <1>1, <1>2

\* A job that needs n slots gets n: the first n elements of S are n, however
\* the indices of the cards are spread.  (Were there a least n for which they
\* are not, the least element not among the first n - 1 would settle it.)
LEMMA FirstSlotsCount ==
    ASSUME NEW S, S \subseteq Nat, IsFiniteSet(S),
           NEW n \in Nat, n <= Cardinality(S)
    PROVE  FirstSlots(n, S) \subseteq S /\ Cardinality(FirstSlots(n, S)) = n
<1> DEFINE Below(g) == {h \in S : h < g}
           F(k) == FirstSlots(k, S)
<1>1. /\ Cardinality(S) \in Nat
      /\ \A T : T \subseteq S => IsFiniteSet(T)
      /\ \A T, U : T \subseteq U /\ U \subseteq S
            => Cardinality(T) \in Nat /\ Cardinality(T) <= Cardinality(U)
  BY FS_CardinalityType, FS_Subset
<1>2. \A g : Below(g) \subseteq S /\ Cardinality(Below(g)) \in Nat
  BY <1>1
<1>3. \A k : F(k) \subseteq S
  BY DEF FirstSlots
<1>4. \A k : \A g \in S : g \in F(k) <=> Cardinality(Below(g)) < k
  BY DEF FirstSlots
<1>5. \A g, h : h \in Below(g) <=> h \in S /\ h < g
  OBVIOUS
<1> HIDE DEF Below, F
<1>6. ASSUME NEW k \in Nat, k + 1 <= Cardinality(S), Cardinality(F(k)) = k
      PROVE  Cardinality(F(k + 1)) = k + 1
  <2> DEFINE R == S \ F(k)
  <2>1. R # {} /\ R \subseteq Nat
    <3>1. S # F(k)
      BY <1>1, <1>6
    <3> QED
      BY <1>3, <3>1
  <2>2. \A h : h \in R <=> h \in S /\ h \notin F(k)
    OBVIOUS
  <2> HIDE DEF R
  <2>3. PICK m \in R : \A h \in R : m =< h
    BY <2>1, LeastNatural
  <2>4. m \in S /\ m \in Nat /\ m \notin F(k)
    BY <2>2, <2>3
  <2>5. \A g \in F(k) : g \in S /\ g < m
    <3> SUFFICES ASSUME NEW g \in F(k), ~(g < m) PROVE FALSE
      BY <1>3
    <3>1. g \in S /\ g \in Nat /\ Cardinality(Below(g)) < k
      BY <1>3, <1>4
    <3>2. Below(m) \subseteq Below(g)
      <4>1. ASSUME NEW h \in Below(m) PROVE h \in Below(g)
        <5>1. h \in S /\ h \in Nat /\ h < m
          BY <1>5, <4>1
        <5>2. h < g
          BY <2>4, <3>1, <5>1
        <5> QED
          BY <1>5, <5>1, <5>2
      <4> QED
        BY <4>1
    <3>3. Cardinality(Below(m)) <= Cardinality(Below(g))
      BY <1>1, <1>2, <3>2
    <3>4. ~(Cardinality(Below(m)) < k)
      BY <1>4, <2>4
    <3> QED
      BY <1>2, <3>1, <3>3, <3>4
  <2>6. Below(m) = F(k)
    <3>1. ASSUME NEW h \in S, h < m PROVE h \in F(k)
      <4>1. h \in R => m =< h
        BY <2>3
      <4>2. h \in Nat
        OBVIOUS
      <4> QED
        BY <2>2, <2>4, <3>1, <4>1, <4>2
    <3> QED
      BY <1>5, <2>5, <3>1
  <2>7. F(k + 1) = F(k) \cup {m}
    <3>1. ASSUME NEW g \in F(k) \cup {m} PROVE g \in F(k + 1)
      <4>1. g \in S /\ Cardinality(Below(g)) < k + 1
        <5>1. CASE g \in F(k)
          <6>1. g \in S /\ Cardinality(Below(g)) < k
            BY <1>3, <1>4, <5>1
          <6> QED
            BY <1>2, <6>1
        <5>2. CASE g = m
          BY <1>6, <2>4, <2>6, <5>2
        <5> QED
          BY <5>1, <5>2
      <4> QED
        BY <1>4, <4>1
    <3>2. ASSUME NEW g \in F(k + 1), g \notin F(k) \cup {m}
          PROVE  FALSE
      <4>1. g \in S /\ g \in Nat /\ g # m /\ Cardinality(Below(g)) < k + 1
        BY <1>3, <1>4, <3>2
      <4>2. m =< g
        BY <2>2, <2>3, <3>2, <4>1
      <4>3. m < g
        BY <2>4, <4>1, <4>2
      <4>4. \A h \in F(k) : h < g
        <5>1. ASSUME NEW h \in F(k) PROVE h < g
          <6>1. h \in S /\ h \in Nat /\ h < m
            BY <2>5
          <6> QED
            BY <2>4, <4>1, <4>3, <6>1
        <5> QED
          BY <5>1
      <4>5. F(k) \cup {m} \subseteq Below(g)
        BY <1>5, <2>4, <2>5, <4>3, <4>4
      <4>6. Cardinality(F(k) \cup {m}) = k + 1
        BY <1>1, <1>3, <1>6, <2>4, FS_AddElement
      <4>7. k + 1 <= Cardinality(Below(g))
        BY <1>1, <1>2, <4>5, <4>6
      <4> QED
        BY <1>2, <4>1, <4>7
    <3> QED
      BY <3>1, <3>2
  <2>8. IsFiniteSet(F(k))
    BY <1>1, <1>3
  <2> QED
    BY <1>6, <2>4, <2>7, <2>8, FS_AddElement
<1>7. Cardinality(F(0)) = 0
  <2>1. F(0) = {}
    <3>1. ASSUME NEW g \in F(0) PROVE FALSE
      <4>1. g \in S
        BY <1>3
      <4>2. Cardinality(Below(g)) < 0
        BY <1>4, <4>1
      <4> QED
        BY <1>2, <4>2
    <3> QED
      BY <3>1
  <2> QED
    BY <2>1, FS_EmptySet
<1> DEFINE Bad == {k \in Nat : k <= Cardinality(S) /\ Cardinality(F(k)) # k}
<1>8. Bad \subseteq Nat /\ \A k \in Nat :
         k \in Bad <=> k <= Cardinality(S) /\ Cardinality(F(k)) # k
  OBVIOUS
<1> HIDE DEF Bad
<1>9. Bad = {}
  <2> SUFFICES ASSUME Bad # {} PROVE FALSE
    OBVIOUS
  <2>1. PICK b \in Bad : \A c \in Bad : b =< c
    BY <1>8, LeastNatural
  <2>2. b \in Nat /\ b <= Cardinality(S) /\ Cardinality(F(b)) # b
    BY <1>8
  <2>3. b # 0
    BY <1>7, <2>2
  <2> DEFINE a == b - 1
  <2>4. a \in Nat /\ a + 1 = b /\ a <= Cardinality(S) /\ ~(b =< a)
    BY <1>1, <2>2, <2>3
  <2> HIDE DEF a
  <2>5. Cardinality(F(a)) = a
    BY <1>8, <2>1, <2>4
  <2>6. Cardinality(F(a + 1)) = a + 1
    BY <1>6, <2>2, <2>4, <2>5
  <2> QED
    BY <2>2, <2>4, <2>6
<1> QED
  BY <1>3, <1>8, <1>9 DEF F

\* A job that fits gets as many slots as it needs.
LEMMA PlacementCount ==
    ASSUME NEW j \in Jobs, NEW pool \in Pools, Fits(j, pool)
    PROVE  Cardinality(Placement(j, pool)) = IF Exclusive(j) THEN gpus_requested[j] ELSE 1
<1>1. CASE Exclusive(j)
  <2>1. /\ EmptySlots(pool) \subseteq Nat /\ IsFiniteSet(EmptySlots(pool))
        /\ gpus_requested[j] \in Nat
    BY LedgerAssumption, FS_Subset DEF EmptySlots
  <2>2. /\ gpus_requested[j] <= Cardinality(EmptySlots(pool))
        /\ Placement(j, pool) = FirstSlots(gpus_requested[j], EmptySlots(pool))
    BY <1>1, <2>1, FS_CardinalityType DEF Fits, Placement
  <2> QED
    BY <1>1, <2>1, <2>2, FirstSlotsCount
<1>2. CASE ~Exclusive(j)
  BY <1>2, FS_Singleton DEF Placement
<1> QED
  BY <1>1, <1>2

\* Drawing a placement down leaves a pool.
LEMMA DrawDownType ==
    ASSUME NEW j \in Jobs, NEW pool \in Pools, NEW G,
           \A g \in G : pool[g] \in GpuSlot
    PROVE  DrawDown(j, G, pool) \in Pools
<1>1. ASSUME NEW g \in Gpus, g \in G, ~Exclusive(j)
      PROVE  [free_mb |-> pool[g].free_mb - Need(j), empty |-> FALSE] \in GpuSlot
  <2>1. pool[g].free_mb \in Int /\ Need(j) \in Nat
    BY <1>1, NeedType DEF GpuSlot
  <2> QED
    BY <2>1 DEF GpuSlot
<1> QED
  BY <1>1 DEF DrawDown, Pools

\* free_gpus returns a pool.
LEMMA FreeGpusType ==
    ASSUME LedgerTypeOK, NEW E
    PROVE  FreeGpus(E) \in Pools
<1>1. ASSUME NEW g \in Gpus, \A j \in Tenants(g) : ~Exclusive(j)
      PROVE  [free_mb |-> Capacity(g) - Reserved(Tenants(g)),
              empty   |-> Tenants(g) = {}] \in GpuSlot
  <2>1. Reserved(Tenants(g)) \in Nat
    BY <1>1, ReservedType DEF Share, Tenants
  <2>2. Capacity(g) \in Int
    BY SchedulerAssumption DEF Capacity
  <2> QED
    BY <2>1, <2>2 DEF GpuSlot
<1> QED
  BY <1>1 DEF FreeGpus, Pools
=============================================================================
