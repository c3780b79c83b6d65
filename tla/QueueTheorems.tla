--------------------------- MODULE QueueTheorems ---------------------------
(***************************************************************************)
(* Facts about the operators that Ledger and Scheduler are built from: the *)
(* queue without repetitions, from which a row is taken and to which one   *)
(* is appended, the least element of a set of naturals, and induction.     *)
(***************************************************************************)
EXTENDS Integers, FiniteSets, SequencesExt, SequenceTheorems,
        WellFoundedInduction, TLAPS

\* No element occurs twice.
Distinct(q) == \A a, b \in 1..Len(q) : q[a] = q[b] => a = b

\* A set of naturals with an element has a least one.
LEMMA LeastNatural ==
    ASSUME NEW S, S \subseteq Nat, S # {}
    PROVE  \E x \in S : \A y \in S : x =< y
<1> DEFINE R == OpToRel(<, Nat)
<1>1. IsWellFoundedOn(R, Nat)
  BY NatLessThanWellFounded
<1>2. PICK x \in S : \A y \in S : <<y, x>> \notin R
  BY <1>1, WFMin
<1>3. ASSUME NEW y \in S PROVE x =< y
  <2>1. x \in Nat /\ y \in Nat
    OBVIOUS
  <2>2. ~(y < x)
    BY <1>2, <2>1 DEF OpToRel
  <2> QED
    BY <2>1, <2>2
<1> QED
  BY <1>3

\* Induction, for a set of naturals.
LEMMA AllNaturals ==
    ASSUME NEW S, S \subseteq Nat, 0 \in S, \A n \in S : n + 1 \in S
    PROVE  S = Nat
<1> DEFINE Bad == Nat \ S
<1>1. Bad \subseteq Nat /\ \A n \in Nat : n \in Bad <=> n \notin S
  OBVIOUS
<1> HIDE DEF Bad
<1>2. Bad = {}
  <2> SUFFICES ASSUME Bad # {} PROVE FALSE
    OBVIOUS
  <2>1. PICK n \in Bad : \A m \in Bad : n <= m
    BY <1>1, LeastNatural
  <2>2. n \in Nat /\ n # 0 /\ n - 1 \in Nat /\ ~(n <= n - 1) /\ (n - 1) + 1 = n
    BY <1>1, <2>1
  <2>3. n - 1 \in S
    BY <1>1, <2>1, <2>2
  <2>4. n \in S
    BY <2>2, <2>3
  <2> QED
    BY <1>1, <2>1, <2>2, <2>4
<1> QED
  BY <1>1, <1>2

\* The last of the first n positions.
LEMMA MaxOfPositions ==
    ASSUME NEW n \in Nat, NEW s \in SUBSET (1..n), n \in s
    PROVE  Max(s) = n
<1>1. \A y \in s : y \in Nat /\ n >= y
  OBVIOUS
<1>2. \E x \in s : \A y \in s : x >= y
  BY <1>1
<1>3. Max(s) \in s /\ \A y \in s : Max(s) >= y
  BY <1>2 DEF Max
<1>4. Max(s) \in Nat /\ n >= Max(s) /\ Max(s) >= n
  BY <1>1, <1>3
<1> QED
  BY <1>4

LEMMA LastPosition ==
    ASSUME NEW n \in Nat, NEW i \in 1..n
    PROVE  /\ Max(1..i) = i /\ (1..i) \ {i} = 1..(i - 1)
           /\ 1..i # {} /\ 1..i \in SUBSET (1..n)
<1>1. i \in Nat /\ 1 <= i /\ i <= n
  OBVIOUS
<1>2. ASSUME NEW k PROVE k \in (1..i) \ {i} <=> k \in 1..(i - 1)
  BY <1>1
<1>3. i \in 1..i /\ \A k \in 1..i : k \in 1..n
  BY <1>1
<1> QED
  BY <1>1, <1>2, <1>3, MaxOfPositions

\* Min picks that element.
LEMMA MinProperties ==
    ASSUME NEW S, S \subseteq Nat, S # {}
    PROVE  Min(S) \in S /\ \A y \in S : Min(S) =< y
BY LeastNatural DEF Min

\* Taking out position i.
LEMMA RemoveAtProperties ==
    ASSUME NEW S, NEW q \in Seq(S), NEW i \in 1..Len(q)
    PROVE  /\ RemoveAt(q, i) \in Seq(S)
           /\ Len(RemoveAt(q, i)) = Len(q) - 1
           /\ \A a \in 1..(Len(q) - 1) :
                 RemoveAt(q, i)[a] = IF a < i THEN q[a] ELSE q[a + 1]
<1> DEFINE l == SubSeq(q, 1, i - 1)
           r == SubSeq(q, i + 1, Len(q))
<1>1. Len(q) \in Nat /\ \A a \in 1..Len(q) : q[a] \in S
  BY LenProperties, ElementOfSeq
<1>2. /\ l \in Seq(S)
      /\ Len(l) = i - 1
      /\ \A a \in 1..(i - 1) : l[a] = q[a]
  <2>1. i - 1 \in Int /\ \A a \in 1..(i - 1) : q[a] \in S
    BY <1>1
  <2>2. /\ l \in Seq(S)
        /\ Len(l) = IF 1 <= i - 1 THEN (i - 1) - 1 + 1 ELSE 0
        /\ \A a \in 1..((i - 1) - 1 + 1) : l[a] = q[1 + a - 1]
    BY <2>1, SubSeqProperties
  <2> QED
    BY <1>1, <2>2
<1>3. /\ r \in Seq(S)
      /\ Len(r) = Len(q) - i
      /\ \A a \in 1..(Len(q) - i) : r[a] = q[a + i]
  <2>1. i + 1 \in Int /\ Len(q) \in Int /\ \A a \in (i + 1)..Len(q) : q[a] \in S
    BY <1>1
  <2>2. /\ r \in Seq(S)
        /\ Len(r) = IF i + 1 <= Len(q) THEN Len(q) - (i + 1) + 1 ELSE 0
        /\ \A a \in 1..(Len(q) - (i + 1) + 1) : r[a] = q[(i + 1) + a - 1]
    BY <2>1, SubSeqProperties
  <2> QED
    BY <1>1, <2>2
<1>4. RemoveAt(q, i) = l \o r
  BY DEF RemoveAt
<1> HIDE DEF l, r
<1>5. /\ l \o r \in Seq(S)
      /\ Len(l \o r) = Len(l) + Len(r)
      /\ \A a \in 1..(Len(l) + Len(r)) :
            (l \o r)[a] = IF a <= Len(l) THEN l[a] ELSE r[a - Len(l)]
  BY <1>2, <1>3, ConcatProperties
<1>6. Len(l) + Len(r) = Len(q) - 1
  BY <1>1, <1>2, <1>3
<1>7. ASSUME NEW a \in 1..(Len(q) - 1)
      PROVE  (l \o r)[a] = IF a < i THEN q[a] ELSE q[a + 1]
  <2>1. CASE a < i
    BY <1>1, <1>2, <1>5, <1>6, <2>1
  <2>2. CASE ~(a < i)
    <3>1. (l \o r)[a] = r[a - (i - 1)]
      BY <1>1, <1>2, <1>5, <1>6, <2>2
    <3>2. a - (i - 1) \in 1..(Len(q) - i) /\ a - (i - 1) + i = a + 1
      BY <1>1, <2>2
    <3> QED
      BY <1>3, <2>2, <3>1, <3>2
  <2> QED
    BY <2>1, <2>2
<1> QED
  BY <1>4, <1>5, <1>6, <1>7

\* RemoveFirst keeps a queue a queue; of a queue without repetitions it
\* leaves the elements other than e.
LEMMA RemoveFirstProperties ==
    ASSUME NEW S, NEW q \in Seq(S), NEW e
    PROVE  /\ RemoveFirst(q, e) \in Seq(S)
           /\ Distinct(q) =>
                /\ Distinct(RemoveFirst(q, e))
                /\ \A a \in 1..Len(RemoveFirst(q, e)) :
                      /\ RemoveFirst(q, e)[a] # e
                      /\ \E b \in 1..Len(q) : RemoveFirst(q, e)[a] = q[b]
<1> DEFINE I == {a \in 1..Len(q) : q[a] = e}
<1>1. Len(q) \in Nat
  BY LenProperties
<1>2. CASE \E a \in 1..Len(q) : q[a] = e
  <2> DEFINE i == Min(I)
             t == RemoveAt(q, i)
  <2>1. I # {} /\ I \subseteq Nat
    BY <1>1, <1>2
  <2>2. i \in 1..Len(q) /\ q[i] = e
    BY <2>1, MinProperties
  <2>3. RemoveFirst(q, e) = t
    <3>1. SelectInSeq(q, LAMBDA v : v = e) = i
      BY <2>1 DEF SelectInSeq
    <3> QED
      BY <1>2, <3>1 DEF RemoveFirst
  <2> HIDE DEF i
  <2>4. /\ t \in Seq(S)
        /\ Len(t) = Len(q) - 1
        /\ \A a \in 1..(Len(q) - 1) : t[a] = IF a < i THEN q[a] ELSE q[a + 1]
    BY <2>2, RemoveAtProperties
  <2> HIDE DEF t
  <2>5. ASSUME Distinct(q)
        PROVE  /\ Distinct(t)
               /\ \A a \in 1..Len(t) : t[a] # e /\ \E b \in 1..Len(q) : t[a] = q[b]
    <3>1. ASSUME NEW a \in 1..Len(t)
          PROVE  t[a] # e /\ \E b \in 1..Len(q) : t[a] = q[b]
      <4>1. PICK b \in 1..Len(q) : t[a] = q[b] /\ b # i
        BY <1>1, <2>2, <2>4
      <4> QED
        BY <2>2, <2>5, <4>1 DEF Distinct
    <3>2. ASSUME NEW a \in 1..Len(t), NEW b \in 1..Len(t), t[a] = t[b]
          PROVE  a = b
      <4> DEFINE x == IF a < i THEN a ELSE a + 1
                 y == IF b < i THEN b ELSE b + 1
      <4>1. /\ a \in 1..(Len(q) - 1) /\ b \in 1..(Len(q) - 1)
            /\ x \in 1..Len(q) /\ y \in 1..Len(q)
        BY <1>1, <2>2, <2>4
      <4>2. t[a] = q[x] /\ t[b] = q[y]
        BY <2>4, <4>1
      <4>3. q[x] = q[y]
        BY <3>2, <4>2
      <4>4. x = y
        BY <2>5, <4>1, <4>3 DEF Distinct
      <4> QED
        BY <1>1, <2>2, <4>1, <4>4
    <3> QED
      BY <3>1, <3>2 DEF Distinct
  <2> QED
    BY <2>3, <2>4, <2>5
<1>3. CASE ~ \E a \in 1..Len(q) : q[a] = e
  <2>1. RemoveFirst(q, e) = q
    BY <1>3 DEF RemoveFirst
  <2> QED
    BY <1>3, <2>1
<1> QED
  BY <1>2, <1>3

\* The other elements stay.
LEMMA RemoveFirstKeeps ==
    ASSUME NEW S, NEW q \in Seq(S), NEW e, NEW b \in 1..Len(q), q[b] # e
    PROVE  \E a \in 1..Len(RemoveFirst(q, e)) : RemoveFirst(q, e)[a] = q[b]
<1> DEFINE I == {a \in 1..Len(q) : q[a] = e}
           i == Min(I)
<1>1. Len(q) \in Nat
  BY LenProperties
<1>2. CASE \E a \in 1..Len(q) : q[a] = e
  <2>1. I # {} /\ I \subseteq Nat
    BY <1>1, <1>2
  <2>2. i \in 1..Len(q) /\ q[i] = e
    BY <2>1, MinProperties
  <2>3. RemoveFirst(q, e) = RemoveAt(q, i)
    <3>1. SelectInSeq(q, LAMBDA v : v = e) = i
      BY <2>1 DEF SelectInSeq
    <3> QED
      BY <1>2, <3>1 DEF RemoveFirst
  <2> HIDE DEF i
  <2>4. /\ Len(RemoveFirst(q, e)) = Len(q) - 1
        /\ \A a \in 1..(Len(q) - 1) :
              RemoveFirst(q, e)[a] = IF a < i THEN q[a] ELSE q[a + 1]
    BY <2>2, <2>3, RemoveAtProperties
  <2>5. b # i
    BY <2>2
  <2>6. CASE b < i
    <3>1. b \in 1..(Len(q) - 1)
      BY <1>1, <2>2, <2>6
    <3> QED
      BY <2>4, <2>6, <3>1
  <2>7. CASE i < b
    <3>1. b - 1 \in 1..(Len(q) - 1) /\ ~(b - 1 < i) /\ (b - 1) + 1 = b
      BY <1>1, <2>2, <2>7
    <3> QED
      BY <2>4, <3>1
  <2> QED
    BY <1>1, <2>2, <2>5, <2>6, <2>7
<1>3. CASE ~ \E a \in 1..Len(q) : q[a] = e
  BY <1>3 DEF RemoveFirst
<1> QED
  BY <1>2, <1>3

\* Append keeps a queue without repetitions so, for a new element.
LEMMA AppendNew ==
    ASSUME NEW S, NEW q \in Seq(S), NEW e \in S,
           Distinct(q), \A a \in 1..Len(q) : q[a] # e
    PROVE  Distinct(Append(q, e))
<1>1. Len(q) \in Nat
  BY LenProperties
<1>2. /\ Len(Append(q, e)) = Len(q) + 1
      /\ \A a \in 1..Len(q) : Append(q, e)[a] = q[a]
      /\ Append(q, e)[Len(q) + 1] = e
  BY AppendProperties
<1> QED
  BY <1>1, <1>2 DEF Distinct
=============================================================================
