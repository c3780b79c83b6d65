---------------------------- MODULE ClientProofs ----------------------------
(***************************************************************************)
(* What the clients of the daemon do with the job table, for every table,  *)
(* every log and every option: gq submit, the extension's notifications,   *)
(* its log documents and gq logs.                                          *)
(***************************************************************************)
EXTENDS LogFollower, LogTailer, Notifier, Submission,
        QueueTheorems, FiniteSetTheorems, TLAPS

\* The rows keep their types, whatever becomes of them.
LEMMA RowTypes ==
    ASSUME LedgerTypeOK, NEW j \in Jobs,
           \/ AddJob(j) \/ AssignGpus(j, NULL) \/ ReopenRow(j)
           \/ \E s \in FINAL_STATES : CloseRow(j, s)
    PROVE  LedgerTypeOK'
<1>1. /\ RemoveFirst(queue, j) \in Seq(Jobs)
      /\ Append(queue, j) \in Seq(Jobs)
  BY RemoveFirstProperties, AppendProperties DEF LedgerTypeOK
<1>2. FINAL_STATES \subseteq States /\ "QUEUED" \in States /\ "RUNNING" \in States
  BY DEF States
<1> QED
  BY <1>1, <1>2 DEF LedgerTypeOK, AddJob, AssignGpus, CloseRow, ReopenRow

-----------------------------------------------------------------------------
(***************************************************************************)
(* Scripts.  Set and the loop of parse_directives are folds over a         *)
(* sequence, which the library defines by a recursive function on the sets *)
(* of its positions.  That there is such a function, and what it has come  *)
(* to after n elements, is shown by induction over n: first for the pairs  *)
(* of a line, then for the lines of a script.                              *)
(***************************************************************************)

\* g is the recursive function with which FoldLeft computes Set, for n pairs.
SetFolds(g, n, out, pairs) ==
    g = [s \in SUBSET (1..n) |->
           IF s = {} THEN out
           ELSE Assign(g[s \ {Max(s)}], pairs[Max(s)])]

LEMMA MorePairs ==
    ASSUME NEW pairs, NEW out, NEW n \in Nat, NEW g, SetFolds(g, n, out, pairs)
    PROVE  \E f : SetFolds(f, n + 1, out, pairs)
<1> DEFINE f == [s \in SUBSET (1..(n + 1)) |->
                   IF n + 1 \in s THEN Assign(g[s \ {n + 1}], pairs[n + 1]) ELSE g[s]]
<1>1. ASSUME NEW s \in SUBSET (1..(n + 1))
      PROVE  f[s] = IF s = {} THEN out ELSE Assign(f[s \ {Max(s)}], pairs[Max(s)])
  <2>1. CASE n + 1 \in s
    <3>1. Max(s) = n + 1
      <4>1. n + 1 \in Nat
        OBVIOUS
      <4> QED
        BY <2>1, <4>1, MaxOfPositions
    <3>2. s \ {n + 1} \in SUBSET (1..n) /\ n + 1 \notin s \ {n + 1}
      OBVIOUS
    <3>3. f[s \ {n + 1}] = g[s \ {n + 1}]
      BY <3>2
    <3> QED
      BY <2>1, <3>1, <3>3
  <2>2. CASE n + 1 \notin s
    <3>1. s \in SUBSET (1..n)
      BY <2>2
    <3>2. \A t \in SUBSET (1..n) : n + 1 \notin t /\ t \in SUBSET (1..(n + 1))
      OBVIOUS
    <3>3. \A t \in SUBSET (1..n) : f[t] = g[t]
      BY <3>2
    <3>4. s \ {Max(s)} \in SUBSET (1..n)
      BY <3>1
    <3>5. g[s] = IF s = {} THEN out ELSE Assign(g[s \ {Max(s)}], pairs[Max(s)])
      BY <3>1 DEF SetFolds
    <3> QED
      BY <3>1, <3>3, <3>4, <3>5
  <2> QED
    BY <2>1, <2>2
<1>2. SetFolds(f, n + 1, out, pairs)
  BY <1>1 DEF SetFolds
<1> QED
  BY <1>2

\* What Set has come to after each of the pairs.
LEMMA SetRuns ==
    ASSUME NEW S, NEW pairs \in Seq(S), NEW out
    PROVE  \E h : /\ h[0] = out
                  /\ \A i \in 1..Len(pairs) :
                        h[i] = Assign(h[i - 1], pairs[i])
                  /\ Set(out, pairs) = h[Len(pairs)]
<1> DEFINE N == {n \in Nat : \E g : SetFolds(g, n, out, pairs)}
<1>1. 0 \in N
  <2>1. SetFolds([s \in SUBSET (1..0) |-> out], 0, out, pairs)
    BY DEF SetFolds
  <2> QED
    BY <2>1
<1>2. \A n \in N : n + 1 \in N
  BY MorePairs
<1>3. N = Nat
  <2>1. N \subseteq Nat
    OBVIOUS
  <2> HIDE DEF N
  <2> QED
    BY <1>1, <1>2, <2>1, AllNaturals
<1> DEFINE iter == CHOOSE g : SetFolds(g, Len(pairs), out, pairs)
<1>4. Len(pairs) \in Nat /\ DOMAIN pairs = 1..Len(pairs)
  BY LenProperties
<1>5. SetFolds(iter, Len(pairs), out, pairs)
  BY <1>3, <1>4
<1>6. Set(out, pairs) = iter[1..Len(pairs)]
  BY <1>4 DEF Set, FoldLeft, MapThenFoldSet, SetFolds
<1> HIDE DEF iter
<1>7. iter[{}] = out
  BY <1>4, <1>5 DEF SetFolds
<1>8. ASSUME NEW i \in 1..Len(pairs)
      PROVE  iter[1..i] = Assign(iter[1..(i - 1)], pairs[i])
  <2>1. /\ Max(1..i) = i /\ (1..i) \ {i} = 1..(i - 1)
        /\ 1..i # {} /\ 1..i \in SUBSET (1..Len(pairs))
    BY <1>4, LastPosition
  <2>2. iter[1..i] = IF 1..i = {} THEN out
                     ELSE Assign(iter[(1..i) \ {Max(1..i)}], pairs[Max(1..i)])
    BY <1>5, <2>1 DEF SetFolds
  <2> QED
    BY <2>1, <2>2
<1> DEFINE h == [i \in 0..Len(pairs) |-> iter[1..i]]
<1>9. h[0] = out /\ h[Len(pairs)] = iter[1..Len(pairs)]
  BY <1>4, <1>7
<1>10. \A i \in 1..Len(pairs) : h[i] = Assign(h[i - 1], pairs[i])
  BY <1>4, <1>8
<1> QED
  BY <1>6, <1>9, <1>10

\* Position i is the last of the first n with the key.
LastOf(pairs, i, n, key) ==
    /\ i \in 1..n /\ pairs[i].key = key
    /\ \A k \in (i + 1)..n : pairs[k].key # key

\* A line gives each key its last value, and leaves the others alone.
LEMMA SetProperties ==
    ASSUME NEW S, NEW pairs \in Seq(S), NEW out, NEW key
    PROVE  \/ /\ \A i \in 1..Len(pairs) : pairs[i].key # key
              /\ key \in DOMAIN Set(out, pairs) <=> key \in DOMAIN out
              /\ key \in DOMAIN out => Set(out, pairs)[key] = out[key]
           \/ /\ key \in DOMAIN Set(out, pairs)
              /\ \E i \in 1..Len(pairs) : /\ LastOf(pairs, i, Len(pairs), key)
                                          /\ Set(out, pairs)[key] = pairs[i].value
<1>1. PICK h : /\ h[0] = out
               /\ \A i \in 1..Len(pairs) : h[i] = Assign(h[i - 1], pairs[i])
               /\ Set(out, pairs) = h[Len(pairs)]
  BY SetRuns
<1>2. Len(pairs) \in Nat
  BY LenProperties
<1> DEFINE P(n) ==
      \/ /\ \A i \in 1..n : pairs[i].key # key
         /\ key \in DOMAIN h[n] <=> key \in DOMAIN out
         /\ key \in DOMAIN out => h[n][key] = out[key]
      \/ /\ key \in DOMAIN h[n]
         /\ \E i \in 1..n : LastOf(pairs, i, n, key) /\ h[n][key] = pairs[i].value
<1>3. P(0)
  BY <1>1
<1>4. ASSUME NEW n \in Nat, n < Len(pairs), P(n) PROVE P(n + 1)
  <2>1. n + 1 \in 1..Len(pairs) /\ (n + 1) - 1 = n
    BY <1>2, <1>4
  <2>2. h[n + 1] = Assign(h[n], pairs[n + 1])
    BY <1>1, <2>1
  <2>3. /\ DOMAIN h[n + 1] = {pairs[n + 1].key} \cup DOMAIN h[n]
        /\ \A x \in DOMAIN h[n + 1] :
              h[n + 1][x] = IF x = pairs[n + 1].key THEN pairs[n + 1].value ELSE h[n][x]
    BY <2>2 DEF Assign
  <2>4. CASE pairs[n + 1].key = key
    <3>1. LastOf(pairs, n + 1, n + 1, key)
      BY <1>4, <2>4 DEF LastOf
    <3> QED
      BY <2>3, <2>4, <3>1
  <2>5. CASE pairs[n + 1].key # key
    <3>1. /\ key \in DOMAIN h[n + 1] <=> key \in DOMAIN h[n]
          /\ key \in DOMAIN h[n] => h[n + 1][key] = h[n][key]
      BY <2>3, <2>5
    <3>2. \A i \in 1..(n + 1) : i \in 1..n \/ i = n + 1
      OBVIOUS
    <3>3. \A i \in 1..n : LastOf(pairs, i, n, key) => LastOf(pairs, i, n + 1, key) /\ i \in 1..(n + 1)
      BY <2>5 DEF LastOf
    <3> QED
      BY <1>4, <2>5, <3>1, <3>2, <3>3
  <2> QED
    BY <2>4, <2>5
<1> DEFINE N == {n \in Nat : n <= Len(pairs) => P(n)}
<1>5. N = Nat
  <2> HIDE DEF P
  <2>1. N \subseteq Nat /\ 0 \in N
    BY <1>3
  <2>2. \A n \in N : n + 1 \in N
    BY <1>2, <1>4
  <2> HIDE DEF N
  <2> QED
    BY <2>1, <2>2, AllNaturals
<1>6. P(Len(pairs))
  <2> HIDE DEF P
  <2> QED
    BY <1>2, <1>5
<1> QED
  BY <1>1, <1>6

\* The same for the loop over the lines.
ScanFolds(g, n, start, lines) ==
    g = [s \in SUBSET (1..n) |->
           IF s = {} THEN start
           ELSE Scan(g[s \ {Max(s)}], lines[Max(s)])]

LEMMA MoreLines ==
    ASSUME NEW lines, NEW start, NEW n \in Nat, NEW g, ScanFolds(g, n, start, lines)
    PROVE  \E f : ScanFolds(f, n + 1, start, lines)
<1> DEFINE f == [s \in SUBSET (1..(n + 1)) |->
                   IF n + 1 \in s THEN Scan(g[s \ {n + 1}], lines[n + 1]) ELSE g[s]]
<1>1. ASSUME NEW s \in SUBSET (1..(n + 1))
      PROVE  f[s] = IF s = {} THEN start ELSE Scan(f[s \ {Max(s)}], lines[Max(s)])
  <2>1. CASE n + 1 \in s
    <3>1. Max(s) = n + 1
      <4>1. n + 1 \in Nat
        OBVIOUS
      <4> QED
        BY <2>1, <4>1, MaxOfPositions
    <3>2. s \ {n + 1} \in SUBSET (1..n) /\ n + 1 \notin s \ {n + 1}
      OBVIOUS
    <3>3. f[s \ {n + 1}] = g[s \ {n + 1}]
      BY <3>2
    <3> QED
      BY <2>1, <3>1, <3>3
  <2>2. CASE n + 1 \notin s
    <3>1. s \in SUBSET (1..n)
      BY <2>2
    <3>2. \A t \in SUBSET (1..n) : n + 1 \notin t /\ t \in SUBSET (1..(n + 1))
      OBVIOUS
    <3>3. \A t \in SUBSET (1..n) : f[t] = g[t]
      BY <3>2
    <3>4. s \ {Max(s)} \in SUBSET (1..n)
      BY <3>1
    <3>5. g[s] = IF s = {} THEN start ELSE Scan(g[s \ {Max(s)}], lines[Max(s)])
      BY <3>1 DEF ScanFolds
    <3> QED
      BY <3>1, <3>3, <3>4, <3>5
  <2> QED
    BY <2>1, <2>2
<1>2. ScanFolds(f, n + 1, start, lines)
  BY <1>1 DEF ScanFolds
<1> QED
  BY <1>2

\* What it has come to after each of the lines.
LEMMA ScanRuns ==
    ASSUME NEW S, NEW lines \in Seq(S), NEW start
    PROVE  \E h : /\ h[0] = start
                  /\ \A i \in 1..Len(lines) :
                        h[i] = Scan(h[i - 1], lines[i])
                  /\ FoldLeft(Scan, start, lines) = h[Len(lines)]
<1> DEFINE N == {n \in Nat : \E g : ScanFolds(g, n, start, lines)}
<1>1. 0 \in N
  <2>1. ScanFolds([s \in SUBSET (1..0) |-> start], 0, start, lines)
    BY DEF ScanFolds
  <2> QED
    BY <2>1
<1>2. \A n \in N : n + 1 \in N
  BY MoreLines
<1>3. N = Nat
  <2>1. N \subseteq Nat
    OBVIOUS
  <2> HIDE DEF N
  <2> QED
    BY <1>1, <1>2, <2>1, AllNaturals
<1> DEFINE iter == CHOOSE g : ScanFolds(g, Len(lines), start, lines)
<1>4. Len(lines) \in Nat /\ DOMAIN lines = 1..Len(lines)
  BY LenProperties
<1>5. ScanFolds(iter, Len(lines), start, lines)
  BY <1>3, <1>4
<1>6. FoldLeft(Scan, start, lines) = iter[1..Len(lines)]
  BY <1>4 DEF FoldLeft, MapThenFoldSet, ScanFolds
<1> HIDE DEF iter
<1>7. iter[{}] = start
  BY <1>4, <1>5 DEF ScanFolds
<1>8. ASSUME NEW i \in 1..Len(lines)
      PROVE  iter[1..i] = Scan(iter[1..(i - 1)], lines[i])
  <2>1. /\ Max(1..i) = i /\ (1..i) \ {i} = 1..(i - 1)
        /\ 1..i # {} /\ 1..i \in SUBSET (1..Len(lines))
    BY <1>4, LastPosition
  <2>2. iter[1..i] = IF 1..i = {} THEN start
                     ELSE Scan(iter[(1..i) \ {Max(1..i)}], lines[Max(1..i)])
    BY <1>5, <2>1 DEF ScanFolds
  <2> QED
    BY <2>1, <2>2
<1> DEFINE h == [i \in 0..Len(lines) |-> iter[1..i]]
<1>9. h[0] = start /\ h[Len(lines)] = iter[1..Len(lines)]
  BY <1>4, <1>7
<1>10. \A i \in 1..Len(lines) : h[i] = Scan(h[i - 1], lines[i])
  BY <1>4, <1>8
<1> QED
  BY <1>6, <1>9, <1>10


Value(q) == script[q[1]].pairs[q[2]].value
Before(q, r) == q[1] < r[1] \/ (q[1] = r[1] /\ q[2] <= r[2])

LEMMA LineIs ==
    ASSUME script \in Seq(Lines), NEW i \in 1..Len(script)
    PROVE  /\ script[i].kind \in {"blank", "comment", "directive", "body"}
           /\ script[i].pairs \in Seq([key : STRING, value : Texts])
           /\ Len(script[i].pairs) \in Nat
           /\ DOMAIN script[i].pairs = 1..Len(script[i].pairs)
<1>1. script[i] \in Lines
  BY ElementOfSeq
<1>2. /\ script[i].kind \in {"blank", "comment", "directive", "body"}
      /\ script[i].pairs \in Seq([key : STRING, value : Texts])
  BY <1>1 DEF Lines
<1> QED
  BY <1>2, LenProperties

LEMMA PlacesAre ==
    ASSUME script \in Seq(Lines), NEW key, NEW q
    PROVE  q \in Places(key) <=>
              \E i \in 1..Len(script) : \E k \in 1..Len(script[i].pairs) :
                 /\ q = <<i, k>>
                 /\ InHeader(i) /\ script[i].kind = "directive"
                 /\ script[i].pairs[k].key = key
<1>1. DOMAIN script = 1..Len(script)
  BY LenProperties
<1>2. \A i \in 1..Len(script) : DOMAIN script[i].pairs = 1..Len(script[i].pairs)
  BY LineIs
<1> QED
  BY <1>1, <1>2 DEF Places

\* The setting of the key after n lines is that of the last place so far.
KeyOK(p, n, key) ==
    \/ /\ key \notin DOMAIN p.out
       /\ \A q \in Places(key) : q[1] > n
    \/ /\ key \in DOMAIN p.out
       /\ \E q \in Places(key) : /\ q[1] <= n
                                 /\ \A r \in Places(key) : r[1] <= n => Before(r, q)
                                 /\ p.out[key] = Value(q)

\* What parse_directives knows after n lines.
ScanOK(p, n) ==
    /\ p = [over |-> p.over, failed |-> p.failed, out |-> p.out]
    /\ p.over \in BOOLEAN /\ p.failed \in BOOLEAN
    /\ p.failed => p.over
    /\ ~p.failed =>
          /\ p.over <=> \E k \in 1..n : script[k].kind = "body"
          /\ \A i \in 1..n : InHeader(i) /\ script[i].kind = "directive"
                               => WellFormed(script[i].pairs)
          /\ \A key : KeyOK(p, n, key)

\* A line that sets nothing changes no setting.
LEMMA SameSettings ==
    ASSUME script \in Seq(Lines), NEW n \in Nat, NEW p, NEW r, NEW key,
           KeyOK(p, n, key), r.out = p.out, \A q \in Places(key) : q[1] # n + 1
    PROVE  KeyOK(r, n + 1, key)
<1>1. \A q \in Places(key) : q[1] \in Nat
  BY PlacesAre, LenProperties
<1>2. \A q \in Places(key) : (q[1] <= n + 1 <=> q[1] <= n) /\ (q[1] > n => q[1] > n + 1)
  BY <1>1
<1> QED
  BY <1>2 DEF KeyOK

\* A directive's settings replace those of the lines before.
LEMMA NewSettings ==
    ASSUME script \in Seq(Lines), NEW n \in Nat, n + 1 \in 1..Len(script),
           InHeader(n + 1), script[n + 1].kind = "directive",
           NEW p, NEW r, NEW key, KeyOK(p, n, key),
           r.out = Set(p.out, script[n + 1].pairs)
    PROVE  KeyOK(r, n + 1, key)
<1> DEFINE pairs == script[n + 1].pairs
<1>1. pairs \in Seq([key : STRING, value : Texts]) /\ Len(pairs) \in Nat
  BY LineIs
<1>2. \A q \in Places(key) : q[1] \in Nat /\ (q[1] <= n + 1 <=> q[1] <= n \/ q[1] = n + 1)
                             /\ (q[1] > n /\ q[1] # n + 1 => q[1] > n + 1)
  BY PlacesAre, LenProperties
<1>3. \A q : q \in Places(key) /\ q[1] = n + 1
               <=> \E k \in 1..Len(pairs) : q = <<n + 1, k>> /\ pairs[k].key = key
  BY PlacesAre
<1> HIDE DEF pairs
<1>4. CASE /\ \A i \in 1..Len(pairs) : pairs[i].key # key
           /\ key \in DOMAIN Set(p.out, pairs) <=> key \in DOMAIN p.out
           /\ key \in DOMAIN p.out => Set(p.out, pairs)[key] = p.out[key]
  <2>1. \A q \in Places(key) : q[1] # n + 1
    BY <1>3, <1>4
  <2>2. /\ key \in DOMAIN r.out <=> key \in DOMAIN p.out
        /\ key \in DOMAIN p.out => r.out[key] = p.out[key]
    BY <1>4 DEF pairs
  <2> QED
    BY <1>2, <2>1, <2>2 DEF KeyOK
<1>5. ASSUME NEW i \in 1..Len(pairs), LastOf(pairs, i, Len(pairs), key),
             key \in DOMAIN Set(p.out, pairs), Set(p.out, pairs)[key] = pairs[i].value
      PROVE  KeyOK(r, n + 1, key)
  <2> DEFINE q == <<n + 1, i>>
  <2>1. q \in Places(key) /\ q[1] = n + 1 /\ q[2] = i
    BY <1>3, <1>5 DEF LastOf
  <2>2. ASSUME NEW s \in Places(key), s[1] <= n + 1 PROVE Before(s, q)
    <3>1. CASE s[1] <= n
      BY <1>2, <3>1, <2>1 DEF Before
    <3>2. CASE s[1] = n + 1
      <4>1. PICK k \in 1..Len(pairs) : s = <<n + 1, k>> /\ pairs[k].key = key
        BY <1>3, <3>2
      <4>2. k <= i
        BY <1>1, <1>5, <4>1 DEF LastOf
      <4> QED
        BY <2>1, <4>1, <4>2 DEF Before
    <3> QED
      BY <1>2, <2>2, <3>1, <3>2
  <2>3. Value(q) = pairs[i].value
    BY <2>1 DEF Value, pairs
  <2> HIDE DEF q
  <2>4. key \in DOMAIN r.out /\ r.out[key] = Value(q)
    BY <1>5, <2>3 DEF pairs
  <2>5. q[1] <= n + 1
    BY <2>1
  <2> QED
    BY <2>1, <2>2, <2>4, <2>5 DEF KeyOK
<1>6. \/ /\ \A i \in 1..Len(pairs) : pairs[i].key # key
         /\ key \in DOMAIN Set(p.out, pairs) <=> key \in DOMAIN p.out
         /\ key \in DOMAIN p.out => Set(p.out, pairs)[key] = p.out[key]
      \/ /\ key \in DOMAIN Set(p.out, pairs)
         /\ \E i \in 1..Len(pairs) : /\ LastOf(pairs, i, Len(pairs), key)
                                     /\ Set(p.out, pairs)[key] = pairs[i].value
  BY <1>1, SetProperties
<1> QED
  BY <1>4, <1>5, <1>6

\* One more line.
LEMMA ScanLine ==
    ASSUME script \in Seq(Lines), NEW n \in Nat, n + 1 \in 1..Len(script),
           NEW p, ScanOK(p, n)
    PROVE  ScanOK(Scan(p, script[n + 1]), n + 1)
<1> DEFINE line == script[n + 1]
           r == Scan(p, line)
<1>0. /\ line.kind \in {"blank", "comment", "directive", "body"}
      /\ \A k \in 1..(n + 1) : k \in 1..n \/ k = n + 1
      /\ \A k \in 1..n : k \in 1..(n + 1)
      /\ n + 1 \in 1..(n + 1)
  BY LineIs
<1>1. \A key : \A q \in Places(key) :
         q[1] = n + 1 => InHeader(n + 1) /\ line.kind = "directive"
  BY PlacesAre
<1>2. /\ p = [over |-> p.over, failed |-> p.failed, out |-> p.out]
      /\ p.over \in BOOLEAN /\ p.failed \in BOOLEAN /\ (p.failed => p.over)
  BY DEF ScanOK
<1>3. CASE p.failed
  BY <1>2, <1>3 DEF Scan, ScanOK
<1>4. ASSUME ~p.failed, r.out = p.out, r.failed = FALSE, r = [over |-> r.over, failed |-> r.failed, out |-> r.out],
             r.over \in BOOLEAN,
             r.over <=> p.over \/ line.kind = "body",
             ~(InHeader(n + 1) /\ line.kind = "directive")
      PROVE  ScanOK(r, n + 1)
  <2>1. r.over <=> \E k \in 1..(n + 1) : script[k].kind = "body"
    BY <1>0, <1>4 DEF ScanOK
  <2>2. \A i \in 1..(n + 1) : InHeader(i) /\ script[i].kind = "directive"
                                => WellFormed(script[i].pairs)
    BY <1>0, <1>4 DEF ScanOK
  <2>3. \A key : KeyOK(r, n + 1, key)
    <3> TAKE key
    <3>1. \A q \in Places(key) : q[1] # n + 1
      BY <1>1, <1>4
    <3>2. KeyOK(p, n, key)
      BY <1>4 DEF ScanOK
    <3> HIDE DEF r
    <3> QED
      BY <1>4, <3>1, <3>2, SameSettings
  <2> HIDE DEF r
  <2> QED
    BY <1>4, <2>1, <2>2, <2>3 DEF ScanOK
<1>5. CASE ~p.failed /\ p.over
  <2>1. r = p
    BY <1>5 DEF Scan
  <2>2. ~InHeader(n + 1)
    BY <1>0, <1>5 DEF ScanOK, InHeader
  <2> QED
    BY <1>2, <1>4, <1>5, <2>1, <2>2
<1>6. CASE ~p.failed /\ ~p.over /\ line.kind \in {"blank", "comment"}
  <2>1. r = p
    BY <1>6 DEF Scan
  <2> QED
    BY <1>2, <1>4, <1>6, <2>1
<1>7. CASE ~p.failed /\ ~p.over /\ line.kind = "body"
  <2>1. r = [over |-> TRUE, failed |-> p.failed, out |-> p.out]
    BY <1>2, <1>7 DEF Scan
  <2>2. r.over = TRUE /\ r.failed = FALSE /\ r.out = p.out
    BY <1>2, <1>7, <2>1
  <2> QED
    BY <1>4, <1>7, <2>1, <2>2
<1>8. CASE ~p.failed /\ ~p.over /\ line.kind = "directive" /\ ~WellFormed(line.pairs)
  <2>1. r = [over |-> TRUE, failed |-> TRUE, out |-> p.out]
    BY <1>2, <1>8 DEF Scan
  <2> QED
    BY <2>1 DEF ScanOK
<1>9. CASE ~p.failed /\ ~p.over /\ line.kind = "directive" /\ WellFormed(line.pairs)
  <2>1. r = [over |-> FALSE, failed |-> FALSE, out |-> Set(p.out, line.pairs)]
    BY <1>2, <1>9 DEF Scan
  <2>2. InHeader(n + 1) /\ ~\E k \in 1..(n + 1) : script[k].kind = "body"
    BY <1>0, <1>9 DEF ScanOK, InHeader
  <2>3. \A i \in 1..(n + 1) : InHeader(i) /\ script[i].kind = "directive"
                                => WellFormed(script[i].pairs)
    BY <1>0, <1>9 DEF ScanOK
  <2>4. \A key : KeyOK(r, n + 1, key)
    <3> TAKE key
    <3>1. KeyOK(p, n, key) /\ r.out = Set(p.out, line.pairs)
      BY <1>9, <2>1 DEF ScanOK
    <3> HIDE DEF r
    <3> QED
      BY <1>9, <2>2, <3>1, NewSettings
  <2>5. /\ r = [over |-> r.over, failed |-> r.failed, out |-> r.out]
        /\ r.over = FALSE /\ r.failed = FALSE
    BY <2>1
  <2> HIDE DEF r
  <2>6. ScanOK(r, n + 1)
    BY <2>2, <2>3, <2>4, <2>5 DEF ScanOK
  <2> QED
    BY <2>6 DEF r
<1>10. line.kind \in {"blank", "comment"} \/ line.kind = "body" \/ line.kind = "directive"
  BY <1>0
<1> QED
  BY <1>10, <1>3, <1>5, <1>6, <1>7, <1>8, <1>9

\* parse_directives: unless it fails, each key has the value of its last place in the
\* header, and each directive there is well formed.
LEMMA DirectivesAreLast ==
    ASSUME script \in Seq(Lines), ~Directives.failed
    PROVE  /\ \A i \in 1..Len(script) : InHeader(i) /\ script[i].kind = "directive"
                                          => WellFormed(script[i].pairs)
           /\ \A key : KeyOK(Directives, Len(script), key)
<1> DEFINE start == [over |-> FALSE, failed |-> FALSE, out |-> <<>>]
           end == FoldLeft(Scan, start, script)
<1>1. /\ Directives.out = end.out
      /\ ~end.failed
  BY DEF Directives, ParseDirectives
<1>2. PICK h : /\ h[0] = start
               /\ \A i \in 1..Len(script) : h[i] = Scan(h[i - 1], script[i])
               /\ end = h[Len(script)]
  BY ScanRuns
<1> HIDE DEF end
<1>3. Len(script) \in Nat
  BY LenProperties
<1>4. ScanOK(start, 0)
  <2>1. \A key : \A q \in Places(key) : q[1] > 0
    BY PlacesAre, LenProperties
  <2>2. \A key : KeyOK(start, 0, key)
    BY <2>1 DEF KeyOK
  <2> QED
    BY <2>2 DEF ScanOK
<1> HIDE DEF start
<1> DEFINE N == {n \in Nat : n <= Len(script) => ScanOK(h[n], n)}
<1>5. \A n \in N : n + 1 \in N
  <2> SUFFICES ASSUME NEW n \in Nat, n + 1 <= Len(script), ScanOK(h[n], n)
               PROVE  ScanOK(h[n + 1], n + 1)
    BY <1>3
  <2>1. n + 1 \in 1..Len(script) /\ (n + 1) - 1 = n
    BY <1>3
  <2>2. h[n + 1] = Scan(h[n], script[n + 1])
    BY <1>2, <2>1
  <2> QED
    BY <2>1, <2>2, ScanLine
<1>6. N = Nat
  <2>1. N \subseteq Nat /\ 0 \in N
    BY <1>2, <1>4
  <2> HIDE DEF N
  <2> QED
    BY <1>5, <2>1, AllNaturals
<1>7. ScanOK(end, Len(script))
  BY <1>2, <1>3, <1>6
<1> QED
  BY <1>1, <1>7 DEF ScanOK, KeyOK

\* The last place is the one that is before no other.
LEMMA LastPlaceIs ==
    ASSUME script \in Seq(Lines), NEW key, NEW q \in Places(key),
           \A r \in Places(key) : Before(r, q)
    PROVE  LastPlace(key) = q
<1>1. \A r \in Places(key) : r = <<r[1], r[2]>> /\ r[1] \in Nat /\ r[2] \in Nat
  BY PlacesAre, LenProperties
<1>2. /\ LastPlace(key) \in Places(key)
      /\ \A r \in Places(key) : Before(r, LastPlace(key))
  BY DEF LastPlace, Before
<1>3. Before(LastPlace(key), q) /\ Before(q, LastPlace(key))
  BY <1>2
<1>4. LastPlace(key)[1] = q[1] /\ LastPlace(key)[2] = q[2]
  BY <1>1, <1>2, <1>3 DEF Before
<1> QED
  BY <1>1, <1>2, <1>4

\* What the command takes from the header is what the header says last.
LEMMA GivenIsMeant ==
    ASSUME script \in Seq(Lines), ~Directives.failed, NEW key
    PROVE  /\ key \in DOMAIN Directives.out <=> Places(key) # {}
           /\ key \in DOMAIN Directives.out =>
                 Directives.out[key] = Value(LastPlace(key)) /\ Directives.out[key] \in Texts
<1>1. \A q \in Places(key) : q[1] \in Nat /\ q[1] <= Len(script) /\ ~(q[1] > Len(script))
  BY PlacesAre, LenProperties
<1>2. KeyOK(Directives, Len(script), key)
  BY DirectivesAreLast
<1>3. ASSUME NEW q \in Places(key), \A r \in Places(key) : Before(r, q)
      PROVE  LastPlace(key) = q /\ Value(q) \in Texts
  <2>1. PICK i \in 1..Len(script) : \E k \in 1..Len(script[i].pairs) : q = <<i, k>>
    BY PlacesAre
  <2>4. PICK k \in 1..Len(script[i].pairs) : q = <<i, k>>
    BY <2>1
  <2>2. script[i].pairs \in Seq([key : STRING, value : Texts])
    BY LineIs
  <2>3. script[i].pairs[k] \in [key : STRING, value : Texts]
    BY <2>2, ElementOfSeq
  <2> QED
    BY <1>3, <2>4, <2>3, LastPlaceIs DEF Value
<1> QED
  BY <1>1, <1>2, <1>3 DEF KeyOK

-----------------------------------------------------------------------------
(***************************************************************************)
(* gq submit.  What a row asks for has passed two checks: the sizes are    *)
(* the client's (parse_size), the limits the daemon's (submit).  And it is *)
(* what the user has set, because nobody changes it after it was posted.   *)
(***************************************************************************)

Checked(r) ==
    /\ r.gpus \in Int
    /\ r.vram_mb # NULL => r.vram_mb \in Nat \ {0}

SubmissionInv ==
    /\ args \in Args /\ script \in Scripts
    /\ request # NULL => Checked(request)
    /\ row # NULL => Checked(row) /\ Passes(row)
    /\ RequestMeansTheScript

\* What parse_size accepts is a positive number of MiB.
LEMMA SizesArePositive ==
    ASSUME NEW text \in Texts, ParsesAsSize(text)
    PROVE  Mebibytes(text) \in Nat \ {0}
BY DEF Texts, ParsesAsSize, Mebibytes

\* What a legible command line and script ask for.
LEMMA LegibleIsMeant ==
    ASSUME args \in Args, script \in Scripts, Legible
    PROVE  /\ Workdir = Meant("workdir", NULL, cwd)
           /\ GpuCount = IF args.gpus # NULL THEN args.gpus
                         ELSE Meant("gpus", NULL, [number |-> 1, unit |-> ""]).number
           /\ Vram = Meant("vram", args.vram, NULL)
           /\ args.saw_dashdash \/ \A i \in DOMAIN script :
                 InHeader(i) /\ script[i].kind = "directive" => WellFormed(script[i].pairs)
           /\ GpuCount \in Int
           /\ Vram # NULL => Mebibytes(Vram) \in Nat \ {0}
<1>1. /\ script \in Seq(Lines) /\ DOMAIN script = 1..Len(script)
      /\ args.gpus \in Int \cup {NULL} /\ args.vram \in Texts \cup {NULL}
  BY SubmissionAssumption, LenProperties
<1>2. ~args.saw_dashdash => ~Directives.failed
  BY DEF Legible
<1>3. ASSUME NEW key, Given(key)
      PROVE  /\ Places(key) # {} /\ ~args.saw_dashdash
             /\ Directives.out[key] = Value(LastPlace(key))
             /\ Directives.out[key] \in Texts
  BY <1>1, <1>2, <1>3, GivenIsMeant DEF Given
<1>4. ASSUME NEW key, ~Given(key)
      PROVE  args.saw_dashdash \/ Places(key) = {}
  BY <1>1, <1>2, <1>4, GivenIsMeant DEF Given
<1>5. ASSUME NEW key, NEW default
      PROVE  Meant(key, NULL, default)
                = IF Given(key) THEN Directives.out[key] ELSE default
  BY <1>3, <1>4 DEF Meant, Value
<1>6. Workdir = Meant("workdir", NULL, cwd)
  BY <1>5 DEF Workdir
<1> DEFINE one == [number |-> 1, unit |-> ""]
           gpus == Meant("gpus", NULL, one)
<1>7. GpuCount \in Int /\ GpuCount = IF args.gpus # NULL THEN args.gpus ELSE gpus.number
  <2>1. one.number = 1
    OBVIOUS
  <2> HIDE DEF one
  <2>2. gpus = IF Given("gpus") THEN Directives.out["gpus"] ELSE one
    BY <1>5
  <2> HIDE DEF gpus
  <2>3. CASE args.gpus # NULL
    BY <1>1, <2>3 DEF GpuCount
  <2>4. CASE args.gpus = NULL /\ Given("gpus")
    <3>1. Directives.out["gpus"].number \in Int
      BY <1>3, <2>4 DEF Texts
    <3> QED
      BY <2>2, <2>4, <3>1 DEF GpuCount
  <2>5. CASE args.gpus = NULL /\ ~Given("gpus")
    BY <2>1, <2>2, <2>5 DEF GpuCount
  <2> QED
    BY <2>3, <2>4, <2>5
<1>8. /\ Vram = Meant("vram", args.vram, NULL)
      /\ Vram # NULL => Vram \in Texts
  <2>1. CASE args.vram # NULL
    BY <1>1, <2>1 DEF Vram, Meant
  <2>2. CASE args.vram = NULL
    BY <1>3, <1>5, <2>2 DEF Vram
  <2> QED
    BY <2>1, <2>2
<1>9. Vram # NULL => Mebibytes(Vram) \in Nat \ {0}
  BY <1>8, SizesArePositive DEF Legible
<1>10. args.saw_dashdash \/ \A i \in DOMAIN script :
          InHeader(i) /\ script[i].kind = "directive" => WellFormed(script[i].pairs)
  BY <1>1, <1>2, DirectivesAreLast
<1> QED
  BY <1>6, <1>7, <1>8, <1>9, <1>10

\* What a script and a command line mean depends on nothing else.
LEMMA SameMeaning ==
    ASSUME UNCHANGED <<args, script>>
    PROVE  /\ \A key, option, default :
                 Meant(key, option, default)' = Meant(key, option, default)
           /\ \A i : InHeader(i)' = InHeader(i)
<1>1. \A i : InHeader(i)' = InHeader(i)
  BY DEF InHeader
<1>2. ASSUME NEW key PROVE Places(key)' = Places(key)
  BY <1>1 DEF Places
<1>3. ASSUME NEW key PROVE LastPlace(key)' = LastPlace(key)
  BY <1>2 DEF LastPlace
<1>4. ASSUME NEW key, NEW option, NEW default
      PROVE  Meant(key, option, default)' = Meant(key, option, default)
  BY <1>2, <1>3 DEF Meant
<1> QED
  BY <1>1, <1>4

LEMMA SubmissionStep ==
    SubmissionInv /\ [SubmissionNext]_submissionVars => SubmissionInv'
<1> SUFFICES ASSUME SubmissionInv, [SubmissionNext]_submissionVars
             PROVE  SubmissionInv'
  OBVIOUS
<1>0. /\ args \in Args /\ script \in Scripts
      /\ request # NULL => Checked(request)
      /\ row # NULL => Checked(row) /\ Passes(row)
      /\ RequestMeansTheScript
  BY DEF SubmissionInv
<1>1. CASE Post
  <2>1. /\ request' = [gpus |-> GpuCount, workdir |-> Workdir,
                       vram_mb |-> IF Vram = NULL THEN NULL ELSE Mebibytes(Vram)]
        /\ UNCHANGED <<args, script, row>>
        /\ Legible
    BY <1>1 DEF Post
  <2>2. Checked(request')
    BY <1>0, <2>1, LegibleIsMeant DEF Checked
  <2>3. RequestMeansTheScript'
    <3> DEFINE workdir == Meant("workdir", NULL, cwd)
               gpus == Meant("gpus", NULL, [number |-> 1, unit |-> ""])
               size == Meant("vram", args.vram, NULL)
               header == \A i \in DOMAIN script :
                  InHeader(i) /\ script[i].kind = "directive" => WellFormed(script[i].pairs)
    <3>1. /\ request'.workdir = workdir
          /\ request'.gpus = IF args.gpus # NULL THEN args.gpus ELSE gpus.number
          /\ IF size = NULL THEN request'.vram_mb = NULL
                            ELSE request'.vram_mb = Mebibytes(size)
          /\ args.saw_dashdash \/ header
      BY <1>0, <2>1, LegibleIsMeant
    <3>2. workdir' = workdir /\ gpus' = gpus /\ size' = size /\ (header => header')
      BY <2>1, SameMeaning
    <3>3. args' = args
      BY <2>1
    <3> QED
      BY <3>1, <3>2, <3>3 DEF RequestMeansTheScript
  <2> QED
    BY <1>0, <2>1, <2>2, <2>3 DEF SubmissionInv
<1>2. CASE InsertRow
  <2>1. UNCHANGED <<args, script, request>> /\ row' = request /\ Passes(request)
        /\ request # NULL
    BY <1>2 DEF InsertRow
  <2>2. RequestMeansTheScript'
    BY <1>0, <2>1, SameMeaning DEF RequestMeansTheScript
  <2> QED
    BY <1>0, <2>1, <2>2 DEF SubmissionInv
<1>3. CASE Illegible \/ Unanswered \/ Answer \/ UNCHANGED submissionVars
  <2>1. UNCHANGED <<args, script, request, row>>
    BY <1>3 DEF Illegible, Unanswered, Answer, submissionVars
  <2>2. RequestMeansTheScript'
    BY <1>0, <2>1, SameMeaning DEF RequestMeansTheScript
  <2> QED
    BY <1>0, <2>1, <2>2 DEF SubmissionInv
<1> QED
  BY <1>1, <1>2, <1>3 DEF SubmissionNext

\* Whatever is on the command line and in the script, what gq submit posts is
\* what they mean: an option before the script, the last directive of the header
\* before the others, the default without either, and a header with a line that
\* is no directive has no job (jobscript.py:29-60, cli.py:106-157).
THEOREM RequestsMeanTheScript == SubmissionSpec => []RequestMeansTheScript
<1>1. SubmissionInit => SubmissionInv
  BY DEF SubmissionInit, SubmissionInv, RequestMeansTheScript
<1>2. SubmissionInv /\ [SubmissionNext]_submissionVars => SubmissionInv'
  BY SubmissionStep
<1>3. SubmissionInv => RequestMeansTheScript
  BY DEF SubmissionInv
<1> QED
  BY <1>1, <1>2, <1>3, PTL DEF SubmissionSpec

\* Every row that gq submit makes asks for GPUs the machine has, and a share
\* job's budget is positive and no more than the largest card has in all
\* (jobscript.py:32-37, daemon.py:52-75).
THEOREM SubmittedRowsAreSane == SubmissionSpec => []RowsAreSane
<1>1. SubmissionInit => SubmissionInv
  BY DEF SubmissionInit, SubmissionInv, RequestMeansTheScript
<1>2. SubmissionInv /\ [SubmissionNext]_submissionVars => SubmissionInv'
  BY SubmissionStep
<1>3. SubmissionInv => RowsAreSane
  <2>1. Cardinality(Gpus) \in Nat
    BY LedgerAssumption, FS_CardinalityType
  <2> QED
    BY <2>1 DEF SubmissionInv, RowsAreSane, Passes, Checked
<1> QED
  BY <1>1, <1>2, <1>3, PTL DEF SubmissionSpec

-----------------------------------------------------------------------------
(***************************************************************************)
(* Notifications.  OncePerCompletion is not inductive: what a refresh has  *)
(* in hand may make the next observe() announce a job whose last end has   *)
(* been told already.  Settled says that it cannot: as long as all that    *)
(* the bound allows has been told of j, a job that was seen RUNNING has    *)
(* not ended since, and no list says that it has, but for those of a       *)
(* refresh that was overtaken, for which the bound has one more.           *)
(***************************************************************************)

Told(j) == announced[j] = completions[j] + belated

Settled(j) ==
    /\ lastState[j] = "RUNNING" => state[j] \notin Completed
    /\ \A p \in Polls \ overtaken : polls[p] # NULL =>
          /\ (polls[p].active # NULL /\ polls[p].active[j] = "RUNNING")
                => state[j] \notin Completed
          /\ (polls[p].finished # NULL /\ polls[p].finished[j] \in Completed)
                => lastState[j] # "RUNNING"

\* The list of active jobs has no ended one, and the other no RUNNING one.
ListsOK ==
    \A p \in Polls, j \in Jobs : polls[p] # NULL =>
        /\ polls[p].active # NULL => polls[p].active[j] \notin Completed
        /\ polls[p].finished # NULL => polls[p].finished[j] # "RUNNING"

NotifierInv ==
    /\ NotifierTypeOK
    /\ ListsOK
    /\ OncePerCompletion
    /\ \A j \in Jobs : Told(j) => Settled(j)

\* A row that moves: only its end can make it Completed, and an end is counted.
LEMMA NotifierRows ==
    ASSUME NotifierInv, RowChanges
    PROVE  NotifierInv'
<1>1. PICK j \in Jobs : \/ RowAdded(j) \/ RowStarts(j) \/ RowRequeued(j)
                        \/ \E s \in Outcomes : RowEnds(j, s)
  BY DEF RowChanges
<1>2. UNCHANGED <<polls, lastState, setbacks, announced, overtaken, belated>>
  BY DEF RowChanges, clientVars, historyVars
<1>3. /\ state \in [Jobs -> States \cup {NULL}]
      /\ completions \in [Jobs -> 0..MaxCompletions] /\ announced \in [Jobs -> Nat]
      /\ MaxCompletions \in Nat /\ belated \in Nat
  BY NotifierAssumption DEF NotifierInv, NotifierTypeOK, LedgerTypeOK
<1>4. LedgerTypeOK'
  <2>1. \/ AddJob(j) \/ AssignGpus(j, NULL) \/ ReopenRow(j)
        \/ \E s \in FINAL_STATES : CloseRow(j, s)
    BY <1>1, NotifierAssumption DEF RowAdded, RowStarts, RowRequeued, RowEnds
  <2> QED
    BY <2>1, RowTypes DEF NotifierInv, NotifierTypeOK
<1>5. /\ \A k \in Jobs : k # j => state'[k] = state[k] /\ completions'[k] = completions[k]
      /\ \/ state'[j] \notin Completed /\ completions' = completions
         \/ state'[j] \in Completed /\ completions[j] < MaxCompletions
            /\ completions' = [completions EXCEPT ![j] = @ + 1]
  <2>1. CASE RowAdded(j) \/ RowStarts(j) \/ RowRequeued(j)
    BY <1>3, <2>1 DEF RowAdded, RowStarts, RowRequeued, AddJob, AssignGpus,
                      ReopenRow, Completed
  <2>2. ASSUME NEW s \in Outcomes, RowEnds(j, s)
        PROVE  /\ \A k \in Jobs : k # j => state'[k] = state[k] /\ completions'[k] = completions[k]
               /\ \/ state'[j] \notin Completed /\ completions' = completions
                  \/ state'[j] \in Completed /\ completions[j] < MaxCompletions
                     /\ completions' = [completions EXCEPT ![j] = @ + 1]
    BY <1>3, <2>2 DEF RowEnds, CloseRow
  <2> QED
    BY <1>1, <2>1, <2>2
<1>6. /\ completions' \in [Jobs -> 0..MaxCompletions]
      /\ \A k \in Jobs : completions[k] <= completions'[k]
  BY <1>3, <1>5
<1>7. NotifierTypeOK' /\ ListsOK' /\ OncePerCompletion'
  <2>1. NotifierTypeOK'
    BY <1>2, <1>4, <1>6 DEF NotifierInv, NotifierTypeOK
  <2>2. ListsOK'
    BY <1>2 DEF NotifierInv, ListsOK
  <2>3. OncePerCompletion'
    BY <1>2, <1>3, <1>6 DEF NotifierInv, OncePerCompletion
  <2> QED
    BY <2>1, <2>2, <2>3
<1>8. ASSUME NEW k \in Jobs, Told(k)'
      PROVE  Settled(k)'
  <2>1. Told(k) /\ (state'[k] \notin Completed \/ state'[k] = state[k])
    <3>1. announced[k] <= completions[k] + belated
      BY DEF NotifierInv, OncePerCompletion
    <3> QED
      BY <1>2, <1>3, <1>5, <1>8, <3>1 DEF Told
  <2>2. Settled(k)
    BY <2>1 DEF NotifierInv
  <2> QED
    BY <1>2, <2>1, <2>2 DEF Settled
<1> QED
  BY <1>7, <1>8 DEF NotifierInv

\* The lists a refresh gets.
LEMMA NotifierAnswers ==
    ASSUME NotifierInv, NEW p \in Polls,
           \/ RefreshBegins(p) \/ AnswerActive(p) \/ AnswerFinished(p)
           \/ RefreshFails(p) \/ Reload
    PROVE  NotifierInv'
<1>1. /\ UNCHANGED <<state, gpu_ids, queue, completions, announced, belated>>
      /\ LedgerTypeOK
  BY DEF RefreshBegins, AnswerActive, AnswerFinished, RefreshFails, Reload, ledgerVars,
         historyVars, NotifierInv, NotifierTypeOK
<1>2. /\ polls \in [Polls -> Poll \cup {NULL}]
      /\ state \in Listings /\ lastState \in Listings
      /\ setbacks \in 0..MaxSetbacks /\ MaxSetbacks \in Nat
  BY NotifierAssumption DEF NotifierInv, NotifierTypeOK, LedgerTypeOK, Listings
<1>3. ASSUME NEW S
      PROVE  /\ Listed(S) \in Listings
             /\ \A j \in Jobs : Listed(S)[j] \in {state[j], NULL}
             /\ \A j \in Jobs : Listed(S)[j] # NULL => j \in S
  BY <1>2 DEF Listed, Listings
<1>4. NULL \notin Completed /\ NULL # "RUNNING"
  BY LedgerAssumption DEF Completed, States, FINAL_STATES
<1>5. /\ polls' \in [Polls -> Poll \cup {NULL}]
      /\ lastState' \in Listings /\ setbacks' \in 0..MaxSetbacks
      /\ \A j \in Jobs : lastState'[j] \in {lastState[j], NULL}
      /\ \A q \in Polls : polls'[q] # NULL =>
            /\ polls'[q].active # NULL => \A j \in Jobs :
                  \/ polls[q] # NULL /\ polls[q].active # NULL
                     /\ polls'[q].active[j] = polls[q].active[j]
                  \/ polls'[q].active[j] \notin Completed
                     /\ polls'[q].active[j] \in {state[j], NULL}
            /\ polls'[q].finished # NULL => \A j \in Jobs :
                  \/ polls[q] # NULL /\ polls[q].finished # NULL
                     /\ polls'[q].finished[j] = polls[q].finished[j]
                  \/ polls'[q].finished[j] # "RUNNING"
                     /\ polls'[q].finished[j] \in {state[j], NULL}
  <2>1. CASE RefreshBegins(p)
    <3>1. [active |-> NULL, finished |-> NULL] \in Poll
      BY DEF Poll
    <3> QED
      BY <1>2, <2>1, <3>1 DEF RefreshBegins
  <2>2. CASE AnswerActive(p)
    <3> DEFINE L == Listed({j \in Jobs : state[j] \in {"QUEUED", "RUNNING"}})
    <3>1. /\ L \in Listings
          /\ \A j \in Jobs : L[j] \in {state[j], NULL} /\ L[j] \notin Completed
      BY <1>3, <1>4 DEF Completed
    <3>2. /\ polls[p] # NULL /\ polls' = [polls EXCEPT ![p].active = L]
          /\ UNCHANGED <<lastState, setbacks>>
      BY <2>2 DEF AnswerActive
    <3> HIDE DEF L
    <3>3. polls[p] \in Poll
      BY <1>2, <3>2
    <3>4. /\ [polls[p] EXCEPT !.active = L] \in Poll
          /\ [polls[p] EXCEPT !.active = L].active = L
          /\ [polls[p] EXCEPT !.active = L].finished = polls[p].finished
      BY <3>1, <3>3 DEF Poll
    <3> QED
      BY <1>2, <3>1, <3>2, <3>4
  <2>3. CASE AnswerFinished(p)
    <3> DEFINE L == Listed(Newest({j \in Jobs : state[j] \in FINAL_STATES}, finishedLimit))
    <3>1. /\ L \in Listings
          /\ \A j \in Jobs : L[j] \in {state[j], NULL} /\ L[j] # "RUNNING"
      <4>1. \A j \in Jobs : L[j] # NULL => state[j] \in FINAL_STATES
        BY <1>3 DEF Newest
      <4> QED
        BY <1>3, <1>4, <4>1 DEF FINAL_STATES
    <3>2. /\ polls[p] # NULL /\ polls' = [polls EXCEPT ![p].finished = L]
          /\ UNCHANGED <<lastState, setbacks>>
      BY <2>3 DEF AnswerFinished
    <3> HIDE DEF L
    <3>3. polls[p] \in Poll
      BY <1>2, <3>2
    <3>4. /\ [polls[p] EXCEPT !.finished = L] \in Poll
          /\ [polls[p] EXCEPT !.finished = L].finished = L
          /\ [polls[p] EXCEPT !.finished = L].active = polls[p].active
      BY <3>1, <3>3 DEF Poll
    <3> QED
      BY <1>2, <3>1, <3>2, <3>4
  <2>4. CASE RefreshFails(p)
    BY <1>2, <2>4 DEF RefreshFails
  <2>5. CASE Reload
    BY <1>2, <2>5 DEF Reload, Listings
  <2> QED
    BY <2>1, <2>2, <2>3, <2>4, <2>5
<1>6. /\ overtaken' \in SUBSET Polls
      /\ \A q \in Polls \ overtaken' : polls'[q] # NULL => q \notin overtaken
  <2>1. overtaken \in SUBSET Polls
    BY DEF NotifierInv, NotifierTypeOK
  <2>2. CASE RefreshBegins(p) \/ AnswerActive(p) \/ AnswerFinished(p)
    BY <2>1, <2>2 DEF RefreshBegins, AnswerActive, AnswerFinished, historyVars
  <2>3. CASE RefreshFails(p)
    BY <1>2, <2>1, <2>3 DEF RefreshFails
  <2>4. CASE Reload
    BY <2>4 DEF Reload
  <2> QED
    BY <2>2, <2>3, <2>4
<1>7. NotifierTypeOK' /\ OncePerCompletion'
  BY <1>1, <1>5, <1>6 DEF NotifierInv, NotifierTypeOK, LedgerTypeOK, OncePerCompletion
<1>8. ListsOK'
  BY <1>5 DEF NotifierInv, ListsOK
<1>9. ASSUME NEW j \in Jobs, Told(j)'
      PROVE  Settled(j)'
  <2>1. Told(j) /\ Settled(j)
    BY <1>1, <1>9 DEF Told, NotifierInv
  <2>2. lastState'[j] = "RUNNING" => lastState[j] = "RUNNING" /\ state[j] \notin Completed
    BY <1>4, <1>5, <2>1 DEF Settled
  <2>3. ASSUME NEW q \in Polls \ overtaken', polls'[q] # NULL, polls'[q].active # NULL,
               polls'[q].active[j] = "RUNNING"
        PROVE  state[j] \notin Completed
    <3>1. q \in Polls \ overtaken
      BY <1>6, <2>3
    <3> QED
      BY <1>4, <1>5, <2>1, <2>3, <3>1 DEF Settled, Completed
  <2>4. ASSUME NEW q \in Polls \ overtaken', polls'[q] # NULL, polls'[q].finished # NULL,
               polls'[q].finished[j] \in Completed
        PROVE  lastState'[j] # "RUNNING"
    <3>1. q \in Polls \ overtaken
      BY <1>6, <2>4
    <3> QED
      BY <1>4, <1>5, <2>1, <2>2, <2>4, <3>1 DEF Settled
  <2> QED
    BY <1>1, <2>2, <2>3, <2>4 DEF Settled
<1> QED
  BY <1>7, <1>8, <1>9 DEF NotifierInv

\* observe(): what it announces has ended and has not been told of (Settled), unless
\* the refresh is belated; and what it remembers as RUNNING has not ended unless that
\* is still to be told.  The other refreshes under way are overtaken by this one.
LEMMA NotifierObserves ==
    ASSUME NotifierInv, NEW p \in Polls, Observe(p)
    PROVE  NotifierInv'
<1> DEFINE jobs == Dedupe(polls[p])
<1>1. /\ polls[p] # NULL /\ polls[p].active # NULL /\ polls[p].finished # NULL
      /\ lastState' = jobs
      /\ announced' = [j \in Jobs |-> announced[j] + IF Announces(j, jobs) THEN 1 ELSE 0]
      /\ polls' = [polls EXCEPT ![p] = NULL]
      /\ overtaken' = (overtaken \cup UnderWay) \ {p}
      /\ belated' = belated + IF p \in overtaken THEN 1 ELSE 0
      /\ UNCHANGED <<state, gpu_ids, queue, setbacks, completions>>
  BY DEF Observe, Ends, ledgerVars
<1>2. /\ polls \in [Polls -> Poll \cup {NULL}] /\ polls[p] \in Poll
      /\ announced \in [Jobs -> Nat] /\ completions \in [Jobs -> 0..MaxCompletions]
      /\ MaxCompletions \in Nat /\ belated \in Nat /\ overtaken \in SUBSET Polls
  BY <1>1, NotifierAssumption DEF NotifierInv, NotifierTypeOK
<1>3. polls[p].active \in Listings /\ polls[p].finished \in Listings
  BY <1>1, <1>2 DEF Poll
<1>4. \A j \in Jobs : jobs[j] = IF polls[p].finished[j] # NULL
                                THEN polls[p].finished[j] ELSE polls[p].active[j]
  BY DEF Dedupe
<1>5. jobs \in Listings
  BY <1>3, <1>4 DEF Dedupe, Listings
<1>6. \A j \in Jobs : /\ polls[p].active[j] \notin Completed
                       /\ polls[p].finished[j] # "RUNNING"
  BY <1>1 DEF NotifierInv, ListsOK
<1> HIDE DEF jobs
<1>7. \A q \in Polls \ overtaken' : polls'[q] = NULL
  BY <1>1, <1>2 DEF UnderWay
<1>8. ASSUME NEW j \in Jobs, Announces(j, jobs), p \notin overtaken
      PROVE  announced[j] + 1 <= completions[j] + belated
  <2>1. lastState[j] = "RUNNING" /\ polls[p].finished[j] \in Completed
    BY <1>4, <1>6, <1>8 DEF Announces
  <2>2. ~Settled(j)
    BY <1>1, <1>8, <2>1 DEF Settled
  <2>3. announced[j] <= completions[j] + belated /\ announced[j] # completions[j] + belated
    BY <2>2 DEF NotifierInv, OncePerCompletion, Told
  <2> QED
    BY <1>2, <2>3
<1>9. announced' \in [Jobs -> Nat] /\ \A j \in Jobs : announced'[j] =
         announced[j] + IF Announces(j, jobs) THEN 1 ELSE 0
  BY <1>1, <1>2
<1>10. NotifierTypeOK'
  <2>1. polls' \in [Polls -> Poll \cup {NULL}] /\ lastState' \in Listings
    BY <1>1, <1>2, <1>5
  <2>2. overtaken' \in SUBSET Polls /\ belated' \in Nat
    BY <1>1, <1>2 DEF UnderWay
  <2> QED
    BY <1>1, <1>9, <2>1, <2>2 DEF NotifierInv, NotifierTypeOK, LedgerTypeOK
<1>11. ListsOK'
  BY <1>1, <1>2 DEF NotifierInv, ListsOK
<1>12. \A j \in Jobs : announced[j] <= completions[j] + belated
  BY DEF NotifierInv, OncePerCompletion
<1>13. OncePerCompletion'
  <2>1. ASSUME NEW j \in Jobs
        PROVE  announced'[j] <= completions[j] + belated'
    <3>1. announced[j] \in Nat /\ completions[j] \in Nat
      BY <1>2
    <3>2. CASE p \in overtaken
      BY <1>1, <1>2, <1>9, <1>12, <3>1, <3>2
    <3>3. CASE p \notin overtaken
      BY <1>1, <1>2, <1>8, <1>9, <1>12, <3>1, <3>3
    <3> QED
      BY <3>2, <3>3
  <2> QED
    BY <1>1, <2>1 DEF OncePerCompletion
<1>14. ASSUME NEW j \in Jobs, Told(j)'
       PROVE  Settled(j)'
  <2>1. CASE lastState'[j] = "RUNNING"
    <3>1. jobs[j] = "RUNNING" /\ "RUNNING" \notin Completed
      BY <1>1, <2>1 DEF Completed
    <3>2. announced[j] \in Nat /\ completions[j] \in Nat /\ announced'[j] = announced[j]
      BY <1>2, <1>9, <3>1 DEF Announces
    <3>3. p \notin overtaken /\ Told(j)
      BY <1>1, <1>2, <1>14, <1>12, <3>2 DEF Told
    <3>4. Settled(j)
      BY <3>3 DEF NotifierInv
    <3>5. polls[p].active[j] = "RUNNING"
      BY <1>4, <1>6, <3>1
    <3>6. state[j] \notin Completed
      BY <1>1, <3>3, <3>4, <3>5 DEF Settled
    <3> QED
      BY <1>1, <1>7, <3>6 DEF Settled
  <2>2. CASE lastState'[j] # "RUNNING"
    BY <1>7, <2>2 DEF Settled
  <2> QED
    BY <2>1, <2>2
<1> QED
  BY <1>10, <1>11, <1>13, <1>14 DEF NotifierInv

LEMMA NotifierStep ==
    NotifierInv /\ [NotifierNext]_notifierVars => NotifierInv'
<1> SUFFICES ASSUME NotifierInv, [NotifierNext]_notifierVars
             PROVE  NotifierInv'
  OBVIOUS
<1>1. CASE RowChanges
  BY <1>1, NotifierRows
<1>2. ASSUME NEW p \in Polls, PollSteps(p) \/ RefreshFails(p)
      PROVE  NotifierInv'
  BY <1>2, NotifierAnswers, NotifierObserves DEF PollSteps
<1>3. CASE Reload
  <2>1. CASE Polls = {}
    <3>1. /\ UNCHANGED <<state, gpu_ids, queue, completions, announced, belated>>
          /\ overtaken' = {}
          /\ polls' = [p \in Polls |-> NULL] /\ lastState' = [j \in Jobs |-> NULL]
          /\ setbacks' = setbacks + 1 /\ setbacks < MaxSetbacks
      BY <1>3 DEF Reload, ledgerVars
    <3>2. NotifierTypeOK'
      BY <3>1, NotifierAssumption DEF NotifierInv, NotifierTypeOK, LedgerTypeOK, Listings
    <3>3. ListsOK' /\ OncePerCompletion'
      BY <2>1, <3>1 DEF NotifierInv, ListsOK, OncePerCompletion
    <3>4. NULL # "RUNNING"
      BY LedgerAssumption DEF States
    <3>5. \A j \in Jobs : Settled(j)'
      BY <2>1, <3>1, <3>4 DEF Settled
    <3> QED
      BY <3>2, <3>3, <3>5 DEF NotifierInv
  <2>2. CASE Polls # {}
    BY <1>3, <2>2, NotifierAnswers
  <2> QED
    BY <2>1, <2>2
<1>4. CASE UNCHANGED notifierVars
  BY <1>4 DEF notifierVars, clientVars, historyVars, ledgerVars, NotifierInv, NotifierTypeOK,
              LedgerTypeOK, ListsOK, OncePerCompletion, Told, Settled
<1> QED
  BY <1>1, <1>2, <1>3, <1>4 DEF NotifierNext

LEMMA NotifierStart == NotifierInit => NotifierInv
<1> SUFFICES ASSUME NotifierInit PROVE NotifierInv
  OBVIOUS
<1> USE DEF NotifierInit, LedgerInit
<1>1. NULL # "RUNNING" /\ NULL \notin Completed
  BY LedgerAssumption DEF Completed, States, FINAL_STATES
<1>2. NotifierTypeOK
  BY EmptySeq, NotifierAssumption DEF NotifierTypeOK, LedgerTypeOK, Listings
<1>3. ListsOK /\ OncePerCompletion
  BY DEF ListsOK, OncePerCompletion
<1>4. \A j \in Jobs : Settled(j)
  BY <1>1 DEF Settled
<1> QED
  BY <1>2, <1>3, <1>4 DEF NotifierInv

\* CompletionNotifier tells of each end of a job at most once, and once more at most for
\* each belated refresh, for any number of jobs, of refreshes at a time, of refused
\* requests and of reloads (extension.ts:81-89,117-143).
THEOREM NotificationsCounted == NotifierSpec => []OncePerCompletion
<1>1. NotifierInit => NotifierInv
  BY NotifierStart
<1>2. NotifierInv /\ [NotifierNext]_notifierVars => NotifierInv'
  BY NotifierStep
<1>3. NotifierInv => OncePerCompletion
  BY DEF NotifierInv
<1> QED
  BY <1>1, <1>2, <1>3, PTL DEF NotifierSpec

LEMMA NotifierTypeStep ==
    NotifierTypeOK /\ [NotifierNext]_notifierVars => NotifierTypeOK'
<1> SUFFICES ASSUME NotifierTypeOK, [NotifierNext]_notifierVars
             PROVE  NotifierTypeOK'
  OBVIOUS
<1>1. /\ state \in Listings /\ lastState \in Listings
      /\ polls \in [Polls -> Poll \cup {NULL}]
      /\ setbacks \in 0..MaxSetbacks /\ MaxSetbacks \in Nat
      /\ completions \in [Jobs -> 0..MaxCompletions] /\ MaxCompletions \in Nat
      /\ announced \in [Jobs -> Nat]
      /\ overtaken \in SUBSET Polls /\ belated \in Nat
  BY NotifierAssumption DEF NotifierTypeOK, LedgerTypeOK, Listings
<1>2. CASE RowChanges
  <2>1. PICK j \in Jobs : \/ RowAdded(j) \/ RowStarts(j) \/ RowRequeued(j)
                          \/ \E s \in Outcomes : RowEnds(j, s)
    BY <1>2 DEF RowChanges
  <2>2. \/ AddJob(j) \/ AssignGpus(j, NULL) \/ ReopenRow(j)
        \/ \E s \in FINAL_STATES : CloseRow(j, s)
    BY <2>1, NotifierAssumption DEF RowAdded, RowStarts, RowRequeued, RowEnds
  <2>3. LedgerTypeOK'
    BY <2>2, RowTypes DEF NotifierTypeOK
  <2>4. \/ completions' = completions
        \/ /\ completions[j] < MaxCompletions
           /\ completions' = [completions EXCEPT ![j] = @ + 1]
    BY <2>1 DEF RowAdded, RowStarts, RowRequeued, RowEnds
  <2>5. completions' \in [Jobs -> 0..MaxCompletions]
    BY <1>1, <2>4
  <2> QED
    BY <1>1, <1>2, <2>3, <2>5 DEF RowChanges, clientVars, historyVars, NotifierTypeOK
<1>3. ASSUME UNCHANGED <<ledgerVars, completions>>,
             polls' \in [Polls -> Poll \cup {NULL}], lastState' \in Listings,
             setbacks' \in 0..MaxSetbacks, announced' \in [Jobs -> Nat],
             overtaken' \in SUBSET Polls, belated' \in Nat
      PROVE  NotifierTypeOK'
  BY <1>1, <1>3 DEF ledgerVars, NotifierTypeOK, LedgerTypeOK
<1>4. CASE Reload
  BY <1>1, <1>3, <1>4 DEF Reload, Listings
<1>5. ASSUME NEW p \in Polls,
             RefreshBegins(p) \/ AnswerActive(p) \/ AnswerFinished(p) \/ RefreshFails(p)
      PROVE  NotifierTypeOK'
  <2>1. \A S : Listed(S) \in Listings
    BY <1>1 DEF Listed, Listings
  <2>2. /\ [active |-> NULL, finished |-> NULL] \in Poll
        /\ \A r \in Poll, L \in Listings :
              [r EXCEPT !.active = L] \in Poll /\ [r EXCEPT !.finished = L] \in Poll
    BY DEF Poll
  <2>3. polls' \in [Polls -> Poll \cup {NULL}]
    <3>1. CASE RefreshBegins(p) \/ RefreshFails(p)
      BY <1>1, <2>2, <3>1 DEF RefreshBegins, RefreshFails
    <3>2. CASE AnswerActive(p)
      <4> DEFINE L == Listed({j \in Jobs : state[j] \in {"QUEUED", "RUNNING"}})
      <4>1. polls[p] \in Poll /\ polls' = [polls EXCEPT ![p].active = L] /\ L \in Listings
        BY <1>1, <2>1, <3>2 DEF AnswerActive
      <4> HIDE DEF L
      <4>2. [polls[p] EXCEPT !.active = L] \in Poll
        BY <2>2, <4>1
      <4> QED
        BY <1>1, <4>1, <4>2
    <3>3. CASE AnswerFinished(p)
      <4> DEFINE L == Listed(Newest({j \in Jobs : state[j] \in FINAL_STATES}, finishedLimit))
      <4>1. polls[p] \in Poll /\ polls' = [polls EXCEPT ![p].finished = L] /\ L \in Listings
        BY <1>1, <2>1, <3>3 DEF AnswerFinished
      <4> HIDE DEF L
      <4>2. [polls[p] EXCEPT !.finished = L] \in Poll
        BY <2>2, <4>1
      <4> QED
        BY <1>1, <4>1, <4>2
    <3> QED
      BY <1>5, <3>1, <3>2, <3>3
  <2>4. setbacks' \in 0..MaxSetbacks
    BY <1>1, <1>5 DEF RefreshBegins, AnswerActive, AnswerFinished, RefreshFails
  <2> QED
    BY <1>1, <1>3, <1>5, <2>3, <2>4 DEF RefreshBegins, AnswerActive, AnswerFinished,
                                       RefreshFails, historyVars
<1>6. ASSUME NEW p \in Polls, Observe(p)
      PROVE  NotifierTypeOK'
  <2>1. /\ polls[p] \in Poll /\ polls[p].active \in Listings /\ polls[p].finished \in Listings
        /\ polls' = [polls EXCEPT ![p] = NULL]
        /\ lastState' = Dedupe(polls[p])
        /\ UNCHANGED <<ledgerVars, setbacks, completions>>
    BY <1>1, <1>6 DEF Observe, Ends, Poll
  <2>2. Dedupe(polls[p]) \in Listings
    BY <2>1 DEF Dedupe, Listings
  <2>3. announced' \in [Jobs -> Nat]
    <3>1. \A j \in Jobs : announced[j] + 1 \in Nat /\ announced[j] + 0 \in Nat
      BY <1>1
    <3> QED
      BY <1>6, <3>1 DEF Observe
  <2>4. overtaken' \in SUBSET Polls /\ belated' \in Nat
    BY <1>1, <1>6 DEF Observe, Ends, UnderWay
  <2> QED
    BY <1>1, <1>3, <2>1, <2>2, <2>3, <2>4
<1>7. CASE UNCHANGED notifierVars
  BY <1>1, <1>3, <1>7 DEF notifierVars, clientVars, historyVars
<1> QED
  BY <1>2, <1>4, <1>5, <1>6, <1>7 DEF NotifierNext, PollSteps

\* What a refresh has in hand and what observe() remembers are lists of jobs with their
\* states, however the answers interleave with the daemon's steps, with refused requests
\* and reloads (extension.ts:78-143), for any number of refreshes at once.
THEOREM NotifierTypesKept == NotifierSpec => []NotifierTypeOK
<1>1. NotifierInit => NotifierTypeOK
  BY NotifierStart DEF NotifierInv
<1> QED
  BY <1>1, NotifierTypeStep, PTL DEF NotifierSpec

-----------------------------------------------------------------------------
(***************************************************************************)
(* Logs.  A request is answered with the bytes that follow its offset, and *)
(* the log only grows, so what a client puts together from answers, each   *)
(* asked for at the end of the one before, is the beginning of the log.    *)
(***************************************************************************)

LEMMA BytesProperties ==
    ASSUME NEW a \in Nat, NEW b \in Nat, a <= b
    PROVE  Bytes(a, b) \in Seq(Nat) /\ Len(Bytes(a, b)) = b - a
<1>1. b - a \in Nat /\ \A i \in 1..(b - a) : a + i \in Nat
  OBVIOUS
<1>2. Bytes(a, b) \in [1..(b - a) -> Nat]
  BY <1>1 DEF Bytes
<1> QED
  BY <1>1, <1>2, SeqDef, LenProperties

LEMMA BytesJoin ==
    ASSUME NEW a \in Nat, NEW b \in Nat, NEW c \in Nat, a <= b, b <= c
    PROVE  Bytes(a, b) \o Bytes(b, c) = Bytes(a, c)
<1> DEFINE s == Bytes(a, b)  t == Bytes(b, c)  u == Bytes(a, c)
<1>1. /\ s \in Seq(Nat) /\ Len(s) = b - a
      /\ t \in Seq(Nat) /\ Len(t) = c - b
      /\ u \in Seq(Nat) /\ Len(u) = c - a
  <2>1. a <= c
    OBVIOUS
  <2> QED
    BY <2>1, BytesProperties
<1>2. /\ \A i \in 1..(b - a) : s[i] = a + i
      /\ \A i \in 1..(c - b) : t[i] = b + i
      /\ \A i \in 1..(c - a) : u[i] = a + i
  BY DEF Bytes
<1> HIDE DEF s, t, u
<1>3. /\ s \o t \in Seq(Nat) /\ Len(s \o t) = Len(s) + Len(t)
      /\ \A i \in 1..(Len(s) + Len(t)) :
            (s \o t)[i] = IF i <= Len(s) THEN s[i] ELSE t[i - Len(s)]
  BY <1>1, ConcatProperties
<1>4. Len(s \o t) = Len(u)
  BY <1>1, <1>3
<1>5. ASSUME NEW i \in 1..Len(u)
      PROVE  (s \o t)[i] = u[i]
  <2>1. i \in 1..(c - a) /\ i \in Nat
    BY <1>1
  <2>2. i \in 1..(Len(s) + Len(t)) /\ u[i] = a + i
    <3>1. u[i] = a + i
      BY <1>2, <2>1
    <3> QED
      BY <1>1, <2>1, <3>1
  <2>3. CASE i <= b - a
    <3>1. (s \o t)[i] = s[i]
      BY <1>1, <1>3, <2>2, <2>3
    <3>2. i \in 1..(b - a)
      BY <2>1, <2>3
    <3> QED
      BY <1>2, <2>2, <3>1, <3>2
  <2>4. CASE ~(i <= b - a)
    <3>1. i - (b - a) \in 1..(c - b) /\ b + (i - (b - a)) = a + i
      BY <2>1, <2>4
    <3>2. (s \o t)[i] = t[i - (b - a)]
      BY <1>1, <1>3, <2>2, <2>4
    <3>3. t[i - (b - a)] = b + (i - (b - a))
      BY <1>2, <3>1
    <3> QED
      BY <2>2, <3>1, <3>2, <3>3
  <2> QED
    BY <2>3, <2>4
<1> QED
  BY <1>1, <1>3, <1>4, <1>5, SeqEqual DEF s, t, u

\* What a request may have been answered with.
RequestOK(q, end) ==
    /\ q.offset <= end
    /\ q.data # NULL => \E upto \in q.offset..end : q.data = Bytes(q.offset, upto)

JobLogInv ==
    /\ LedgerTypeOK
    /\ written \in Nat /\ log_path \in BOOLEAN /\ refusals \in Nat
    /\ requests \in [Clients -> Request \cup {NULL}]
    /\ \A c \in Clients : requests[c] # NULL => RequestOK(requests[c], written)

LEMMA JobLogStart == JobLogInit => JobLogInv
<1> SUFFICES ASSUME JobLogInit PROVE JobLogInv
  OBVIOUS
<1>1. LedgerTypeOK
  BY EmptySeq DEF JobLogInit, LedgerInit, LedgerTypeOK
<1>2. written = 0 /\ log_path = FALSE /\ refusals = 0 /\ requests = [c \in Clients |-> NULL]
  BY DEF JobLogInit
<1>3. \A c \in Clients : requests[c] = NULL
  BY <1>2
<1> QED
  BY <1>1, <1>2, <1>3 DEF JobLogInv

\* The log grows, the requests stay.
LEMMA JobLogMoves ==
    ASSUME JobLogInv, JobMoves
    PROVE  JobLogInv' /\ written' >= written /\ requests' = requests
<1>1. /\ requests' = requests /\ refusals' = refusals
      /\ RowInserted \/ Output \/ RunBegins \/ RunEnds \/ RunAgain
  BY DEF JobMoves
<1>2. LedgerTypeOK'
  <2>1. CASE Output
    BY <2>1 DEF Output, ledgerVars, JobLogInv, LedgerTypeOK
  <2>2. CASE RowInserted \/ RunBegins \/ RunEnds \/ RunAgain
    <3>1. \/ AddJob(watched) \/ AssignGpus(watched, NULL) \/ ReopenRow(watched)
          \/ \E s \in FINAL_STATES : CloseRow(watched, s)
      BY <2>2, JobLogAssumption DEF RowInserted, RunBegins, RunEnds, RunAgain
    <3> QED
      BY <3>1, RowTypes, JobLogAssumption DEF JobLogInv
  <2> QED
    BY <1>1, <2>1, <2>2
<1>3. /\ written \in Nat /\ written' \in {written, written + 1}
      /\ log_path' \in {log_path, TRUE} /\ log_path \in BOOLEAN
  BY <1>1 DEF JobLogInv, RowInserted, Output, RunBegins, RunEnds, RunAgain
<1>4. \A c \in Clients : requests[c] # NULL => RequestOK(requests[c], written')
  <2>1. ASSUME NEW c \in Clients, requests[c] # NULL
        PROVE  RequestOK(requests[c], written')
    <3>1. RequestOK(requests[c], written) /\ requests[c].offset \in Nat
      BY <2>1 DEF JobLogInv, Request
    <3> QED
      BY <1>1, <1>3, <3>1 DEF RequestOK
  <2> QED
    BY <2>1
<1>5. /\ written' \in Nat /\ written' >= written
      /\ log_path' \in BOOLEAN
  <2>1. written' \in Nat /\ written' >= written
    BY <1>3
  <2>2. log_path' \in BOOLEAN
    BY <1>3, Zenon
  <2> QED
    BY <2>1, <2>2
<1>6. JobLogInv'
  BY <1>1, <1>2, <1>4, <1>5 DEF JobLogInv
<1> QED
  BY <1>1, <1>5, <1>6

\* One request is served a step further.
LEMMA JobLogServes ==
    ASSUME JobLogInv, NEW c \in Clients, Serve(c)
    PROVE  /\ JobLogInv'
           /\ UNCHANGED <<fileVars, refusals>>
           /\ requests[c] # NULL /\ requests'[c] # NULL
           /\ requests'[c].offset = requests[c].offset
           /\ \A d \in Clients : d # c => requests'[d] = requests[d]
<1>1. UNCHANGED <<fileVars, refusals>> /\ requests[c] # NULL
  BY DEF Serve, ReadRow, ReadFile
<1>2. /\ requests \in [Clients -> Request \cup {NULL}] /\ requests[c] \in Request
      /\ written \in Nat /\ RequestOK(requests[c], written)
  BY <1>1 DEF JobLogInv
<1>3. PICK q \in Request : /\ requests' = [requests EXCEPT ![c] = q]
                           /\ q.offset = requests[c].offset
                           /\ RequestOK(q, written)
  <2>1. CASE ReadRow(c)
    <3> DEFINE q == [requests[c] EXCEPT !.state = state[watched], !.named = log_path]
    <3>1. requests' = [requests EXCEPT ![c] = q]
      BY <2>1 DEF ReadRow
    <3>2. state[watched] \in States \cup {NULL} /\ log_path \in BOOLEAN
      BY JobLogAssumption DEF JobLogInv, LedgerTypeOK
    <3>3. q \in Request /\ q.offset = requests[c].offset /\ q.data = requests[c].data
      BY <1>2, <3>2 DEF Request
    <3> HIDE DEF q
    <3>4. RequestOK(q, written)
      BY <1>2, <3>3 DEF RequestOK
    <3> QED
      BY <3>1, <3>3, <3>4
  <2>2. CASE ReadFile(c)
    <3> DEFINE from == requests[c].offset
               upto == IF ~requests[c].named \/ from >= written THEN from
                       ELSE IF written <= from + MAX_LOG_CHUNK THEN written
                       ELSE from + MAX_LOG_CHUNK
               q == [requests[c] EXCEPT !.data = Bytes(from, upto)]
    <3>1. requests' = [requests EXCEPT ![c] = q]
      BY <2>2 DEF ReadFile
    <3>2. from \in Nat /\ from <= written
      BY <1>2 DEF Request, RequestOK
    <3>3. upto \in from..written /\ upto \in Nat
      BY <1>2, <3>2, JobLogAssumption
    <3> HIDE DEF upto, from
    <3>4. Bytes(from, upto) \in Seq(Nat)
      <4>1. from <= upto
        BY <3>2, <3>3
      <4> QED
        BY <3>2, <3>3, <4>1, BytesProperties
    <3>5. q \in Request /\ q.offset = from /\ q.data = Bytes(from, upto)
      BY <1>2, <3>4 DEF Request, from
    <3> HIDE DEF q
    <3>6. RequestOK(q, written)
      BY <3>2, <3>3, <3>5 DEF RequestOK
    <3> QED
      BY <3>1, <3>5, <3>6 DEF from
  <2> QED
    BY <2>1, <2>2 DEF Serve
<1>4. /\ requests'[c] = q /\ q # NULL
      /\ \A d \in Clients : d # c => requests'[d] = requests[d]
  BY <1>2, <1>3, JobLogAssumption
<1>5. UNCHANGED <<state, gpu_ids, queue, written, log_path>>
  BY <1>1 DEF fileVars, ledgerVars
<1>6. \A d \in Clients : requests'[d] # NULL => RequestOK(requests'[d], written')
  BY <1>3, <1>4, <1>5 DEF JobLogInv, RequestOK
<1>7. JobLogInv'
  BY <1>1, <1>2, <1>3, <1>5, <1>6 DEF JobLogInv, LedgerTypeOK
<1> QED
  BY <1>1, <1>3, <1>4, <1>7

-----------------------------------------------------------------------------
(***************************************************************************)
(* gq logs.  Beside the join of the answers: an empty answer means that    *)
(* all there was when the row was read has been printed, because the row   *)
(* is read before the file.                                                *)
(***************************************************************************)

FollowerInv ==
    /\ JobLogInv
    /\ offset \in Nat /\ offset <= written
    /\ printed = Bytes(0, offset)
    /\ due \in Nat /\ due <= written
    /\ requests[gq] # NULL =>
          /\ requests[gq].offset = offset
          /\ (requests[gq].state # NULL /\ ~requests[gq].named) => due = 0
          /\ requests[gq].data # NULL => requests[gq].state # NULL
          /\ requests[gq].data = <<>> => due <= offset

LEMMA FollowerStart == JobLogInit /\ FollowerInit => FollowerInv
<1> SUFFICES ASSUME JobLogInit, FollowerInit PROVE FollowerInv
  OBVIOUS
<1>1. JobLogInv
  BY JobLogStart
<1>2. Bytes(0, 0) = <<>>
  <2>1. Bytes(0, 0) \in Seq(Nat) /\ Len(Bytes(0, 0)) = 0
    BY BytesProperties
  <2> QED
    BY <2>1, EmptySeq
<1>3. requests[gq] = NULL /\ written = 0
  BY FollowerAssumption DEF JobLogInit
<1> QED
  BY <1>1, <1>2, <1>3 DEF FollowerInit, FollowerInv

\* What a served request shows of the log.
LEMMA FollowerServed ==
    ASSUME FollowerInv, Served
    PROVE  FollowerInv'
<1>1. /\ Serve(gq) /\ due' = IF requests[gq].state = NULL THEN Readable ELSE due
      /\ UNCHANGED <<follow, command, offset, printed>>
  BY DEF Served
<1>2. /\ JobLogInv' /\ UNCHANGED <<fileVars, refusals>>
      /\ requests[gq] # NULL /\ requests'[gq] # NULL
      /\ requests'[gq].offset = requests[gq].offset
  BY <1>1, JobLogServes, FollowerAssumption DEF FollowerInv
<1>3. UNCHANGED <<written, log_path>>
  BY <1>2 DEF fileVars
<1>4. /\ requests[gq] \in Request /\ requests \in [Clients -> Request \cup {NULL}]
      /\ written \in Nat /\ log_path \in BOOLEAN
      /\ requests[gq].offset = offset /\ offset \in Nat /\ offset <= written
      /\ due \in Nat /\ due <= written
      /\ (requests[gq].state # NULL /\ ~requests[gq].named) => due = 0
      /\ requests[gq].data # NULL => requests[gq].state # NULL
      /\ requests[gq].data = <<>> => due <= offset
  BY <1>2, FollowerAssumption DEF FollowerInv, JobLogInv
<1>5. CASE ReadRow(gq)
  <2> DEFINE q == [requests[gq] EXCEPT !.state = state[watched], !.named = log_path]
  <2>1. /\ requests[gq].state = NULL /\ state[watched] # NULL
        /\ requests' = [requests EXCEPT ![gq] = q]
    BY <1>5 DEF ReadRow
  <2>2. /\ q.state = state[watched] /\ q.named = log_path /\ q.data = requests[gq].data
    BY <1>4 DEF Request
  <2> HIDE DEF q
  <2>3. requests'[gq] = q
    BY <1>4, <2>1, FollowerAssumption
  <2>4. requests[gq].data = NULL /\ NULL # <<>>
    <3>1. requests[gq].data = NULL
      BY <1>4, <2>1
    <3>2. NULL # <<>>
      BY JobLogAssumption
    <3> QED
      BY <3>1, <3>2
  <2>5. due' = Readable
    BY <1>1, <2>1
  <2>6. due' \in Nat /\ due' <= written /\ (~log_path => due' = 0)
    BY <1>4, <2>5 DEF Readable
  <2> QED
    BY <1>1, <1>2, <1>3, <1>4, <2>2, <2>3, <2>4, <2>6 DEF FollowerInv
<1>6. CASE ReadFile(gq)
  <2> DEFINE upto == IF ~requests[gq].named \/ offset >= written THEN offset
                     ELSE IF written <= offset + MAX_LOG_CHUNK THEN written
                     ELSE offset + MAX_LOG_CHUNK
             q == [requests[gq] EXCEPT !.data = Bytes(offset, upto)]
  <2>1. /\ requests[gq].state # NULL
        /\ requests' = [requests EXCEPT ![gq] = q]
    BY <1>4, <1>6 DEF ReadFile
  <2>2. /\ q.state = requests[gq].state /\ q.named = requests[gq].named
        /\ q.data = Bytes(offset, upto)
    BY <1>4 DEF Request
  <2>3. upto \in Nat /\ offset <= upto
    BY <1>4, JobLogAssumption
  <2>4. due <= offset \/ offset < upto
    BY <1>4, <2>1, JobLogAssumption
  <2> HIDE DEF q, upto
  <2>5. requests'[gq] = q
    BY <1>4, <2>1, FollowerAssumption
  <2>6. q.data = <<>> => due <= offset
    <3>1. Len(Bytes(offset, upto)) = upto - offset /\ Len(<<>>) = 0
      BY <1>4, <2>3, BytesProperties, EmptySeq
    <3> QED
      BY <1>4, <2>2, <2>3, <2>4, <3>1
  <2>7. due' = due
    BY <1>1, <2>1
  <2> QED
    BY <1>1, <1>2, <1>3, <1>4, <2>1, <2>2, <2>5, <2>6, <2>7 DEF FollowerInv
<1> QED
  BY <1>1, <1>5, <1>6 DEF Serve

\* An answer is printed: the next piece of the log.
LEMMA FollowerWrites ==
    ASSUME FollowerInv, Writes
    PROVE  /\ FollowerInv'
           /\ printed' = Bytes(0, Len(printed'))
           /\ (follow /\ command = "working" /\ command' = "returned")
                 => Len(printed') >= due
<1>1. /\ requests[gq] # NULL /\ requests[gq].data # NULL
      /\ printed' = printed \o requests[gq].data
      /\ offset' = requests[gq].offset + Len(requests[gq].data)
      /\ command' = IF Finished(requests[gq]) THEN "returned" ELSE "working"
      /\ requests' = [requests EXCEPT ![gq] = NULL]
      /\ UNCHANGED <<state, gpu_ids, queue, written, log_path, refusals, follow, due>>
  BY DEF Writes, Answered, NextOffset, fileVars, ledgerVars
<1>2. /\ requests \in [Clients -> Request \cup {NULL}] /\ RequestOK(requests[gq], written)
      /\ requests[gq] \in Request
      /\ written \in Nat /\ requests[gq].offset = offset
      /\ offset \in Nat /\ offset <= written /\ due \in Nat /\ due <= written
      /\ printed = Bytes(0, offset)
      /\ requests[gq].data = <<>> => due <= offset
  BY <1>1, FollowerAssumption DEF FollowerInv, JobLogInv
<1>3. PICK upto \in offset..written : requests[gq].data = Bytes(offset, upto)
  BY <1>1, <1>2 DEF RequestOK
<1>4. /\ upto \in Nat /\ offset <= upto /\ upto <= written
      /\ Len(Bytes(offset, upto)) = upto - offset
      /\ Len(Bytes(0, upto)) = upto
      /\ Bytes(0, offset) \o Bytes(offset, upto) = Bytes(0, upto)
  <2>1. /\ upto \in Nat /\ offset <= upto /\ upto <= written
        /\ 0 \in Nat /\ 0 <= offset /\ 0 <= upto
    BY <1>2
  <2>2. Len(Bytes(offset, upto)) = upto - offset /\ Len(Bytes(0, upto)) = upto - 0
    BY <1>2, <2>1, BytesProperties
  <2>3. Bytes(0, offset) \o Bytes(offset, upto) = Bytes(0, upto)
    BY <1>2, <2>1, BytesJoin
  <2> QED
    BY <2>1, <2>2, <2>3
<1>5. offset' = upto /\ printed' = Bytes(0, upto) /\ Len(printed') = upto
  <2>1. printed' = Bytes(0, upto)
    BY <1>1, <1>2, <1>3, <1>4
  <2>2. offset' = offset + (upto - offset)
    BY <1>1, <1>2, <1>3, <1>4
  <2>3. offset' = upto
    BY <1>2, <1>4, <2>2
  <2> QED
    BY <1>4, <2>1, <2>3
<1>6. requests' \in [Clients -> Request \cup {NULL}] /\ requests'[gq] = NULL
      /\ \A c \in Clients : requests'[c] # NULL => requests'[c] = requests[c]
  BY <1>1, <1>2, FollowerAssumption
<1>7. JobLogInv'
  BY <1>1, <1>6 DEF FollowerInv, JobLogInv, LedgerTypeOK
<1>8. FollowerInv'
  BY <1>1, <1>2, <1>4, <1>5, <1>6, <1>7 DEF FollowerInv
<1>9. ASSUME follow, command' = "returned"
      PROVE  Len(printed') >= due
  <2>1. requests[gq].data = <<>>
    BY <1>1, <1>9 DEF Finished
  <2> QED
    BY <1>2, <1>4, <1>5, <2>1
<1> QED
  BY <1>5, <1>8, <1>9

\* The other steps write nothing.
LEMMA FollowerOthers ==
    ASSUME FollowerInv,
           \/ Ask \/ GiveUp \/ (JobMoves /\ UNCHANGED followerVars)
           \/ UNCHANGED <<jobLogVars, followerVars>>
    PROVE  FollowerInv' /\ (UNCHANGED followerVars \/ command' = "error")
<1>1. /\ requests \in [Clients -> Request \cup {NULL}] /\ gq \in Clients
      /\ offset \in Nat /\ offset <= written /\ written \in Nat
      /\ \A c \in Clients : requests[c] # NULL => RequestOK(requests[c], written)
  BY FollowerAssumption DEF FollowerInv, JobLogInv
<1>2. CASE Ask
  <2> DEFINE q == AskingFor(offset)
  <2>1. /\ requests' = [requests EXCEPT ![gq] = q]
        /\ UNCHANGED <<state, gpu_ids, queue, written, log_path, refusals, followerVars>>
    BY <1>2 DEF Ask, fileVars, ledgerVars
  <2>2. /\ q \in Request /\ q.offset = offset /\ q.state = NULL /\ q.data = NULL
    BY <1>1 DEF AskingFor, Request
  <2>3. RequestOK(q, written)
    BY <1>1, <2>2 DEF RequestOK
  <2> HIDE DEF q
  <2>4. /\ requests' \in [Clients -> Request \cup {NULL}] /\ requests'[gq] = q
        /\ \A c \in Clients : requests'[c] # NULL => RequestOK(requests'[c], written)
    BY <1>1, <2>1, <2>2, <2>3
  <2>5. JobLogInv'
    BY <2>1, <2>4 DEF FollowerInv, JobLogInv, LedgerTypeOK
  <2> QED
    BY <2>1, <2>2, <2>4, <2>5, JobLogAssumption DEF FollowerInv, followerVars
<1>3. CASE GiveUp
  <2>1. /\ requests' = [requests EXCEPT ![gq] = NULL] /\ command' = "error"
        /\ refusals' = refusals + 1
        /\ UNCHANGED <<state, gpu_ids, queue, written, log_path, offset, printed, due>>
    BY <1>3 DEF GiveUp, Refused, fileVars, ledgerVars
  <2>2. /\ requests' \in [Clients -> Request \cup {NULL}] /\ requests'[gq] = NULL
        /\ \A c \in Clients : requests'[c] # NULL => RequestOK(requests'[c], written)
    BY <1>1, <2>1
  <2>3. JobLogInv'
    BY <2>1, <2>2 DEF FollowerInv, JobLogInv, LedgerTypeOK
  <2> QED
    BY <2>1, <2>2, <2>3 DEF FollowerInv
<1>4. CASE JobMoves /\ UNCHANGED followerVars
  <2>1. JobLogInv' /\ written' >= written /\ requests' = requests /\ written' \in Nat
    BY <1>4, JobLogMoves DEF FollowerInv, JobLogInv
  <2> QED
    BY <1>1, <1>4, <2>1 DEF FollowerInv, followerVars
<1>5. CASE UNCHANGED <<jobLogVars, followerVars>>
  BY <1>5 DEF FollowerInv, JobLogInv, LedgerTypeOK, followerVars, jobLogVars, fileVars, ledgerVars
<1> QED
  BY <1>2, <1>3, <1>4, <1>5

\* gq logs prints the log from its beginning, each byte once, and with -f it
\* does not return before it has printed what there was to read when it saw
\* the job over, for any chunk size and any way the runs go (cli.py:180-202).
THEOREM FollowerPrintsTheLog == FollowerSpec => FollowPrintsItAll
<1> DEFINE A == /\ printed' = Bytes(0, Len(printed'))
                /\ (follow /\ command = "working" /\ command' = "returned")
                      => Len(printed') >= due
<1>1. JobLogInit /\ FollowerInit => FollowerInv
  BY FollowerStart
<1>2. FollowerInv /\ [FollowerNext]_<<jobLogVars, followerVars>>
        => FollowerInv' /\ [A]_followerVars
  <2> SUFFICES ASSUME FollowerInv, [FollowerNext]_<<jobLogVars, followerVars>>
               PROVE  FollowerInv' /\ [A]_followerVars
    OBVIOUS
  <2>1. CASE Writes
    BY <2>1, FollowerWrites
  <2>2. CASE ~Writes
    <3>1. FollowerInv' /\ (command' \in {command, "error"})
      <4>1. CASE Served
        BY <4>1, FollowerServed DEF Served
      <4>2. CASE ~Served
        BY <2>2, <4>2, FollowerOthers DEF FollowerNext, FollowerSteps, followerVars
      <4> QED
        BY <4>1, <4>2
    <3>2. printed' = Bytes(0, Len(printed'))
      <4>1. printed' = Bytes(0, offset')
        BY <3>1 DEF FollowerInv
      <4>2. offset' \in Nat
        BY <3>1 DEF FollowerInv
      <4>3. \A n \in Nat : Len(Bytes(0, n)) = n
        <5>1. \A n \in Nat : 0 \in Nat /\ 0 <= n /\ n - 0 = n
          OBVIOUS
        <5> QED
          BY <5>1, BytesProperties
      <4>4. Len(Bytes(0, offset')) = offset'
        BY <4>2, <4>3
      <4> QED
        BY <4>1, <4>4
    <3> QED
      BY <3>1, <3>2
  <2> QED
    BY <2>1, <2>2
<1> HIDE DEF A
<1>3. FollowerSpec => [][A]_followerVars
  BY <1>1, <1>2, PTL DEF FollowerSpec
<1> QED
  BY <1>3 DEF FollowPrintsItAll, A
=============================================================================
