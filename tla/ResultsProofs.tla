---------------------------- MODULE ResultsProofs ----------------------------
(***************************************************************************)
(* Proofs about what collectors make of lists: the parts of a machine that *)
(* add up (CPUs, memory, filesystems, arrays), the lines of a listing that *)
(* are not lost, and the network that several commands tell together.      *)
(***************************************************************************)
EXTENDS CollectorsProofs

----------------------------------------------------------------------------
\* Filters.

\* The places of a filter are counted from the first, each by a number of its own.
LEMMA RanksCount ==
  ASSUME NEW n \in Nat, NEW at \in SUBSET (1 .. n)
  PROVE  /\ IsFiniteSet(at) /\ Cardinality(at) \in Nat
         /\ \A i \in at : Rank(at, i) \in 1 .. Cardinality(at)
         /\ \A i, j \in at : i < j => Rank(at, i) < Rank(at, j)
         /\ \A r \in 1 .. Cardinality(at) : \E i \in at : Rank(at, i) = r
<1> DEFINE Upto(S, i) == {j \in S : j <= i}
           Reached1(S) == \A r \in 1 .. Cardinality(S) : \E i \in S : Cardinality(Upto(S, i)) = r
<1>1. ASSUME NEW m \in Nat, NEW S \in SUBSET (1 .. m)
      PROVE IsFiniteSet(S) /\ Cardinality(S) \in Nat
  <2>1. 1 \in Int /\ m \in Int
    OBVIOUS
  <2>2. IsFiniteSet(1 .. m)
    BY <2>1, FS_Interval
  <2>3. IsFiniteSet(S)
    BY <2>2, FS_Subset
  <2> QED BY <2>3, FS_CardinalityType
<1>2. ASSUME NEW i \in at
      PROVE Rank(at, i) \in 1 .. Cardinality(at)
  <2>1. Upto(at, i) \subseteq at /\ i \in Upto(at, i)
    OBVIOUS
  <2>2. IsFiniteSet(at)
    BY <1>1
  <2> HIDE DEF Upto
  <2>7. Upto(at, i) \in SUBSET at
    BY <2>1
  <2>8. IsFiniteSet(Upto(at, i)) /\ Cardinality(Upto(at, i)) =< Cardinality(at)
    BY <2>2, <2>7, FS_Subset
  <2>3. /\ IsFiniteSet(Upto(at, i)) /\ Cardinality(Upto(at, i)) \in Nat
        /\ Cardinality(Upto(at, i)) =< Cardinality(at)
    BY <2>8, FS_CardinalityType
  <2>4. Cardinality(Upto(at, i)) # 0
    BY <2>1, <2>3, FS_EmptySet
  <2>5. Cardinality(at) \in Nat
    BY <1>1
  <2>6. Cardinality(Upto(at, i)) \in 1 .. Cardinality(at)
    BY <2>3, <2>4, <2>5
  <2> QED BY <2>6 DEF Rank, Upto
<1>3. ASSUME NEW i \in at, NEW j \in at, i < j PROVE Rank(at, i) < Rank(at, j)
  <2>0. i \in Nat /\ j \in Nat /\ \A x \in at : x \in Nat
    OBVIOUS
  <2>1. Upto(at, i) \subseteq Upto(at, j) /\ j \in Upto(at, j) /\ j \notin Upto(at, i)
    <3>1. ASSUME NEW x \in at, x <= i PROVE x <= j
      BY <1>3, <2>0, <3>1
    <3>2. j <= j /\ ~ (j <= i)
      BY <1>3, <2>0
    <3> QED BY <3>1, <3>2
  <2>2. Upto(at, j) \in SUBSET (1 .. n)
    OBVIOUS
  <2> HIDE DEF Upto
  <2>3. IsFiniteSet(Upto(at, j))
    BY <2>2, <1>1
  <2>5. Upto(at, i) \in SUBSET Upto(at, j) /\ Upto(at, j) # Upto(at, i)
    BY <2>1
  <2>6. /\ IsFiniteSet(Upto(at, i)) /\ Cardinality(Upto(at, i)) =< Cardinality(Upto(at, j))
        /\ Cardinality(Upto(at, j)) # Cardinality(Upto(at, i))
    BY <2>3, <2>5, FS_Subset
  <2>7. Cardinality(Upto(at, i)) \in Nat /\ Cardinality(Upto(at, j)) \in Nat
    BY <2>3, <2>6, FS_CardinalityType
  <2>4. Cardinality(Upto(at, i)) < Cardinality(Upto(at, j))
    BY <2>6, <2>7
  <2> QED BY <2>4 DEF Rank, Upto
<1> DEFINE A == {m \in 0 .. n : \A S \in SUBSET (1 .. m) : Reached1(S)}
<1>4. 0 \in A
  <2>1. ASSUME NEW S \in SUBSET (1 .. 0) PROVE Reached1(S)
    <3>1. S = {}
      OBVIOUS
    <3>2. Cardinality(S) = 0
      BY <3>1, FS_EmptySet
    <3> QED BY <3>2
  <2> QED BY <2>1
<1>5. ASSUME NEW m \in 0 .. n, m \in A, m < n PROVE m + 1 \in A
  <2>1. ASSUME NEW S \in SUBSET (1 .. (m + 1)), m + 1 \notin S PROVE Reached1(S)
    <3>1. S \in SUBSET (1 .. m)
      BY <2>1
    <3> QED BY <3>1, <1>5
  <2>2. ASSUME NEW S \in SUBSET (1 .. (m + 1)), m + 1 \in S PROVE Reached1(S)
    <3> DEFINE T == S \ {m + 1}
    <3>1. T \in SUBSET (1 .. m) /\ S = T \cup {m + 1} /\ m + 1 \notin T
      BY <2>2
    <3>2. Reached1(T)
      BY <3>1, <1>5
    <3>3. Upto(S, m + 1) = S /\ \A i \in T : Upto(S, i) = Upto(T, i)
      <4>1. m \in Nat /\ \A j \in S : j \in Nat /\ j <= m + 1
        OBVIOUS
      <4>2. Upto(S, m + 1) = S
        BY <4>1
      <4>3. \A i \in T : i \in Nat /\ i <= m
        BY <3>1
      <4>4. ASSUME NEW i \in T PROVE Upto(S, i) = Upto(T, i)
        BY <4>1, <4>3
      <4> QED BY <4>2, <4>4
    <3> HIDE DEF Upto, T
    <3>4. IsFiniteSet(T) /\ Cardinality(T) \in Nat
      <4>1. m \in Nat
        OBVIOUS
      <4> QED BY <4>1, <3>1, <1>1
    <3>5. Cardinality(S) = Cardinality(T) + 1
      BY <3>1, <3>4, FS_AddElement
    <3>6. ASSUME NEW r \in 1 .. Cardinality(S) PROVE \E i \in S : Cardinality(Upto(S, i)) = r
      <4>1. CASE r = Cardinality(S)
        <5>1. Cardinality(Upto(S, m + 1)) = r
          BY <4>1, <3>3
        <5> QED BY <5>1, <2>2
      <4>2. CASE r # Cardinality(S)
        <5>1. r \in 1 .. Cardinality(T)
          BY <4>2, <3>4, <3>5
        <5>2. PICK i \in T : Cardinality(Upto(T, i)) = r
          BY <5>1, <3>2
        <5>3. i \in S /\ Upto(S, i) = Upto(T, i)
          BY <3>1, <3>3
        <5> QED BY <5>2, <5>3
      <4> QED BY <4>1, <4>2
    <3> QED BY <3>6
  <2>3. m + 1 \in 0 .. n
    BY <1>5
  <2> HIDE DEF Reached1
  <2> QED BY <2>1, <2>2, <2>3
<1>6. n \in A
  <2> HIDE DEF A
  <2>1. n \in 0 .. n
    OBVIOUS
  <2> QED BY <1>4, <1>5, <2>1, Induction
<1>7. \A r \in 1 .. Cardinality(at) : \E i \in at : Rank(at, i) = r
  <2>1. Reached1(at)
    BY <1>6
  <2> QED BY <2>1 DEF Rank
<1> QED BY <1>1, <1>2, <1>3, <1>7

\* What is kept is what was at those places, in their order.
LEMMA KeptHolds ==
  ASSUME NEW s, NEW n \in Nat, DOMAIN s = 1 .. n, NEW at \in SUBSET (1 .. n)
  PROVE  /\ Cardinality(at) \in Nat /\ DOMAIN Kept(s, at) = 1 .. Cardinality(at)
         /\ \A i \in at : Rank(at, i) \in 1 .. Cardinality(at) /\ Kept(s, at)[Rank(at, i)] = s[i]
         /\ \A r \in 1 .. Cardinality(at) : \E i \in at : Rank(at, i) = r /\ Kept(s, at)[r] = s[i]
         /\ Range(Kept(s, at)) = {s[i] : i \in at}
         /\ \A S : (\A i \in at : s[i] \in S) => Kept(s, at) \in Seq(S)
         /\ Len(Kept(s, at)) = Cardinality(at)
         /\ Kept(s, at) = <<>> <=> at = {}
<1> DEFINE c == Cardinality(at)
           k == Kept(s, at)
<1>1. /\ IsFiniteSet(at) /\ c \in Nat
      /\ \A i \in at : Rank(at, i) \in 1 .. c
      /\ \A i, j \in at : i < j => Rank(at, i) < Rank(at, j)
      /\ \A r \in 1 .. c : \E i \in at : Rank(at, i) = r
  BY RanksCount
<1>2. k = [r \in 1 .. c |-> s[CHOOSE i \in at : Rank(at, i) = r]]
  BY DEF Kept
<1>3. \A i, j \in at : Rank(at, i) = Rank(at, j) => i = j
  <2> SUFFICES ASSUME NEW i \in at, NEW j \in at, Rank(at, i) = Rank(at, j), i # j PROVE FALSE
    OBVIOUS
  <2>1. Rank(at, i) \in Nat /\ i \in Nat /\ j \in Nat
    BY <1>1
  <2>2. i < j \/ j < i
    BY <2>1
  <2> QED BY <1>1, <2>1, <2>2
<1>c. c = Cardinality(at)
  OBVIOUS
<1> HIDE DEF k, c
<1>4. DOMAIN k = 1 .. c
  BY <1>2
<1>5. ASSUME NEW r \in 1 .. c PROVE \E i \in at : Rank(at, i) = r /\ k[r] = s[i]
  <2> DEFINE i == CHOOSE i \in at : Rank(at, i) = r
  <2>1. i \in at /\ Rank(at, i) = r
    BY <1>1
  <2>2. k[r] = s[i]
    BY <1>2
  <2> HIDE DEF i
  <2> QED BY <2>1, <2>2
<1>6. ASSUME NEW i \in at PROVE k[Rank(at, i)] = s[i]
  BY <1>1, <1>3, <1>5
<1>7. Range(k) = {s[i] : i \in at}
  BY <1>1, <1>4, <1>5, <1>6 DEF Range
<1>8. ASSUME NEW S, \A i \in at : s[i] \in S PROVE k \in Seq(S)
  <2>1. \A r \in 1 .. c : k[r] \in S
    BY <1>5, <1>8
  <2>2. k \in [1 .. c -> S]
    <3>1. k = [r \in 1 .. c |-> k[r]]
      BY <1>2
    <3> QED BY <2>1, <3>1
  <2> QED BY <1>1, <2>2, SeqDef
<1>9. Len(k) = c
  <2>1. k \in Seq({s[i] : i \in at})
    BY <1>8
  <2> QED BY <1>1, <1>4, <2>1, LenProperties
<1>10. k = <<>> <=> at = {}
  <2>1. at = {} <=> c = 0
    BY <1>1, <1>c, FS_EmptySet
  <2>2. k \in Seq({s[i] : i \in at})
    BY <1>8
  <2> QED BY <1>9, <2>1, <2>2, EmptySeq
<1> QED BY <1>1, <1>4, <1>5, <1>6, <1>7, <1>8, <1>9, <1>10, <1>c DEF k

\* What is kept, as a set.
LEMMA KeptRange ==
  ASSUME NEW s, NEW n \in Nat, DOMAIN s = 1 .. n, NEW at \in SUBSET (1 .. n)
  PROVE  Range(Kept(s, at)) = {s[i] : i \in at}
BY KeptHolds

\* The first that is kept.
LEMMA KeptFirst ==
  ASSUME NEW s, NEW n \in Nat, DOMAIN s = 1 .. n, NEW at \in SUBSET (1 .. n), at # {}
  PROVE  Min(at) \in at /\ (\A i \in at : Min(at) =< i) /\ Kept(s, at)[1] = s[Min(at)]
<1> DEFINE m == Min(at)
<1>1. m \in at /\ \A i \in at : m =< i
  BY MinIsLeast
<1>2. {j \in at : j <= m} = {m}
  <2>1. \A j \in at : j \in Nat
    OBVIOUS
  <2>2. m \in Nat
    BY <1>1, <2>1
  <2> HIDE DEF m
  <2>3. ASSUME NEW j \in at, j <= m PROVE j = m
    BY <1>1, <2>1, <2>2, <2>3
  <2>4. m <= m
    BY <2>2
  <2> QED BY <1>1, <2>3, <2>4
<1>3. Rank(at, m) = 1
  BY <1>2, FS_Singleton, Zenon DEF Rank
<1> HIDE DEF m
<1>4. Kept(s, at)[Rank(at, m)] = s[m]
  BY <1>1, KeptHolds
<1> QED BY <1>1, <1>3, <1>4 DEF m

----------------------------------------------------------------------------
\* What each of the collectors' loops goes through, line by line.

\* The lines of /proc/meminfo.
MeminfoTrace(start, lines, N, S, h) ==
    /\ h \in [0 .. N -> S] /\ h[0] = start /\ ApplyMeminfo(start, lines) = h[N]
    /\ \A k \in 1 .. N : h[k] = MeminfoLine(h[k - 1], lines[k])

\* The loop over the lines of /proc/meminfo goes through values of its type.
LEMMA MeminfoFold ==
  ASSUME NEW start, NEW lines, NEW N, N \in Nat, DOMAIN lines = 1 .. N, NEW S, start \in S,
         \A m \in S, k \in 1 .. N : MeminfoLine(m, lines[k]) \in S
  PROVE  \E h : MeminfoTrace(start, lines, N, S, h)
<1> DEFINE Step(m, k) == MeminfoLine(m, lines[k])
           step == [x \in S \X (1 .. N) |-> Step(x[1], x[2])]
           Iter(it) == it = [s \in SUBSET (1 .. N) |-> IF s = {} THEN start ELSE Step(it[s \ {Max(s)}], Max(s))]
           iter == CHOOSE it : Iter(it)
<1>1. ApplyMeminfo(start, lines) = iter[1 .. N]
  BY Zenon DEF ApplyMeminfo, FoldLeft, MapThenFoldSet
<1>2. start \in S /\ \A m \in S, k \in 1 .. N : Step(m, k) \in S
  OBVIOUS
<1> HIDE DEF Step
<1>3. step \in [S \X (1 .. N) -> S] /\ \A m \in S, k \in 1 .. N : step[<<m, k>>] = Step(m, k)
  BY <1>2
<1> HIDE DEF step
<1>4. \E it : Iter(it)
  <2>1. PICK it \in [SUBSET (1 .. N) -> S] : \A s \in SUBSET (1 .. N) :
            /\ it[s] = IF s = {} THEN start ELSE step[<<it[s \ {Max(s)}], Max(s)>>]
            /\ s # {} => it[s \ {Max(s)}] \in S /\ Max(s) \in 1 .. N
    BY <1>2, <1>3, FoldExists
  <2> HIDE DEF iter
  <2>2. ASSUME NEW s \in SUBSET (1 .. N) PROVE it[s] = IF s = {} THEN start ELSE Step(it[s \ {Max(s)}], Max(s))
    BY <2>1, <1>3
  <2>3. Iter(it)
    BY <2>2
  <2> HIDE DEF Iter
  <2> QED BY <2>3
<1>5. Iter(iter)
  BY Zenon, <1>4
<1> HIDE DEF iter
<1>6. iter[{}] = start
  BY <1>5
<1>7. ASSUME NEW s \in SUBSET (1 .. N), s # {}, iter[s \ {Max(s)}] \in S, Max(s) \in 1 .. N
      PROVE iter[s] = step[<<iter[s \ {Max(s)}], Max(s)>>]
  BY <1>3, <1>5, <1>7
<1>8. IsFold(S, start, N, step, iter)
  BY <1>2, <1>3, <1>6, <1>7 DEF IsFold
<1>9. PICK h : IsTrace(S, start, N, step, iter, h)
  BY <1>8, FoldSteps
<1>10. h \in [0 .. N -> S] /\ h[0] = start /\ h[N] = iter[1 .. N]
  BY <1>9 DEF IsTrace
<1>11. ASSUME NEW k \in 1 .. N PROVE h[k] = Step(h[k - 1], k)
  <2>1. h[k - 1] \in S
    BY <1>10
  <2> QED BY <2>1, <1>9, <1>3 DEF IsTrace
<1> QED BY <1>1, <1>10, <1>11 DEF Step, MeminfoTrace

\* The lines of vm_stat, with the page size that is carried along.
VMStatEnd(start, lines) == FoldLeft(VMStatLine, start, lines)

VMStatTrace(start, lines, N, S, h) ==
    /\ h \in [0 .. N -> S] /\ h[0] = start /\ VMStatEnd(start, lines) = h[N]
    /\ \A k \in 1 .. N : h[k] = VMStatLine(h[k - 1], lines[k])

\* The loop over the lines of vm_stat goes through values of its type.
LEMMA VMStatFold ==
  ASSUME NEW start, NEW lines, NEW N, N \in Nat, DOMAIN lines = 1 .. N, NEW S, start \in S,
         \A m \in S, k \in 1 .. N : VMStatLine(m, lines[k]) \in S
  PROVE  \E h : VMStatTrace(start, lines, N, S, h)
<1> DEFINE Step(m, k) == VMStatLine(m, lines[k])
           step == [x \in S \X (1 .. N) |-> Step(x[1], x[2])]
           Iter(it) == it = [s \in SUBSET (1 .. N) |-> IF s = {} THEN start ELSE Step(it[s \ {Max(s)}], Max(s))]
           iter == CHOOSE it : Iter(it)
<1>1. VMStatEnd(start, lines) = iter[1 .. N]
  BY Zenon DEF VMStatEnd, FoldLeft, MapThenFoldSet
<1>2. start \in S /\ \A m \in S, k \in 1 .. N : Step(m, k) \in S
  OBVIOUS
<1> HIDE DEF Step
<1>3. step \in [S \X (1 .. N) -> S] /\ \A m \in S, k \in 1 .. N : step[<<m, k>>] = Step(m, k)
  BY <1>2
<1> HIDE DEF step
<1>4. \E it : Iter(it)
  <2>1. PICK it \in [SUBSET (1 .. N) -> S] : \A s \in SUBSET (1 .. N) :
            /\ it[s] = IF s = {} THEN start ELSE step[<<it[s \ {Max(s)}], Max(s)>>]
            /\ s # {} => it[s \ {Max(s)}] \in S /\ Max(s) \in 1 .. N
    BY <1>2, <1>3, FoldExists
  <2> HIDE DEF iter
  <2>2. ASSUME NEW s \in SUBSET (1 .. N) PROVE it[s] = IF s = {} THEN start ELSE Step(it[s \ {Max(s)}], Max(s))
    BY <2>1, <1>3
  <2>3. Iter(it)
    BY <2>2
  <2> HIDE DEF Iter
  <2> QED BY <2>3
<1>5. Iter(iter)
  BY Zenon, <1>4
<1> HIDE DEF iter
<1>6. iter[{}] = start
  BY <1>5
<1>7. ASSUME NEW s \in SUBSET (1 .. N), s # {}, iter[s \ {Max(s)}] \in S, Max(s) \in 1 .. N
      PROVE iter[s] = step[<<iter[s \ {Max(s)}], Max(s)>>]
  BY <1>3, <1>5, <1>7
<1>8. IsFold(S, start, N, step, iter)
  BY <1>2, <1>3, <1>6, <1>7 DEF IsFold
<1>9. PICK h : IsTrace(S, start, N, step, iter, h)
  BY <1>8, FoldSteps
<1>10. h \in [0 .. N -> S] /\ h[0] = start /\ h[N] = iter[1 .. N]
  BY <1>9 DEF IsTrace
<1>11. ASSUME NEW k \in 1 .. N PROVE h[k] = Step(h[k - 1], k)
  <2>1. h[k - 1] \in S
    BY <1>10
  <2> QED BY <2>1, <1>9, <1>3 DEF IsTrace
<1> QED BY <1>1, <1>10, <1>11 DEF Step, VMStatTrace

\* The lines of mdadm --detail.
DetailTrace(start, lines, N, S, h) ==
    /\ h \in [0 .. N -> S] /\ h[0] = start /\ ApplyDetail(start, lines) = h[N]
    /\ \A k \in 1 .. N : h[k] = DetailLine(h[k - 1], lines[k])

\* The loop over the lines of mdadm --detail goes through values of its type.
LEMMA DetailFold ==
  ASSUME NEW start, NEW lines, NEW N, N \in Nat, DOMAIN lines = 1 .. N, NEW S, start \in S,
         \A m \in S, k \in 1 .. N : DetailLine(m, lines[k]) \in S
  PROVE  \E h : DetailTrace(start, lines, N, S, h)
<1> DEFINE Step(m, k) == DetailLine(m, lines[k])
           step == [x \in S \X (1 .. N) |-> Step(x[1], x[2])]
           Iter(it) == it = [s \in SUBSET (1 .. N) |-> IF s = {} THEN start ELSE Step(it[s \ {Max(s)}], Max(s))]
           iter == CHOOSE it : Iter(it)
<1>1. ApplyDetail(start, lines) = iter[1 .. N]
  BY Zenon DEF ApplyDetail, FoldLeft, MapThenFoldSet
<1>2. start \in S /\ \A m \in S, k \in 1 .. N : Step(m, k) \in S
  OBVIOUS
<1> HIDE DEF Step
<1>3. step \in [S \X (1 .. N) -> S] /\ \A m \in S, k \in 1 .. N : step[<<m, k>>] = Step(m, k)
  BY <1>2
<1> HIDE DEF step
<1>4. \E it : Iter(it)
  <2>1. PICK it \in [SUBSET (1 .. N) -> S] : \A s \in SUBSET (1 .. N) :
            /\ it[s] = IF s = {} THEN start ELSE step[<<it[s \ {Max(s)}], Max(s)>>]
            /\ s # {} => it[s \ {Max(s)}] \in S /\ Max(s) \in 1 .. N
    BY <1>2, <1>3, FoldExists
  <2> HIDE DEF iter
  <2>2. ASSUME NEW s \in SUBSET (1 .. N) PROVE it[s] = IF s = {} THEN start ELSE Step(it[s \ {Max(s)}], Max(s))
    BY <2>1, <1>3
  <2>3. Iter(it)
    BY <2>2
  <2> HIDE DEF Iter
  <2> QED BY <2>3
<1>5. Iter(iter)
  BY Zenon, <1>4
<1> HIDE DEF iter
<1>6. iter[{}] = start
  BY <1>5
<1>7. ASSUME NEW s \in SUBSET (1 .. N), s # {}, iter[s \ {Max(s)}] \in S, Max(s) \in 1 .. N
      PROVE iter[s] = step[<<iter[s \ {Max(s)}], Max(s)>>]
  BY <1>3, <1>5, <1>7
<1>8. IsFold(S, start, N, step, iter)
  BY <1>2, <1>3, <1>6, <1>7 DEF IsFold
<1>9. PICK h : IsTrace(S, start, N, step, iter, h)
  BY <1>8, FoldSteps
<1>10. h \in [0 .. N -> S] /\ h[0] = start /\ h[N] = iter[1 .. N]
  BY <1>9 DEF IsTrace
<1>11. ASSUME NEW k \in 1 .. N PROVE h[k] = Step(h[k - 1], k)
  <2>1. h[k - 1] \in S
    BY <1>10
  <2> QED BY <2>1, <1>9, <1>3 DEF IsTrace
<1> QED BY <1>1, <1>10, <1>11 DEF Step, DetailTrace

----------------------------------------------------------------------------
\* Memory.

\* A pointer that is not nil has what it was made of.
LEMMA OneIsChosen == ASSUME NEW a PROVE {a} # Nil /\ (CHOOSE x \in {a} : TRUE) = a
BY DEF Nil

\* A loop through lines that changes an amount at those of its key only, keeps what the
\* last of them has given it: amount is what it has after each place.
LastIs(amount, N, i, said) ==
    /\ N \in Nat /\ i \in 1 .. N
    /\ amount[i] = said /\ \A k \in 1 .. N : k > i => amount[k] = amount[k - 1]

\* At the end an amount is what the last line of its key says.
LEMMA LastLineCounts ==
  ASSUME NEW N, NEW i, NEW amount, NEW said, LastIs(amount, N, i, said)
  PROVE  amount[N] = said
<1> USE DEF LastIs
<1> DEFINE A == {k \in 0 .. N : k >= i => amount[k] = said}
<1>1. 0 \in A
  OBVIOUS
<1>2. ASSUME NEW k \in 0 .. N, k \in A, k < N PROVE k + 1 \in A
  <2>1. k + 1 \in 1 .. N /\ k + 1 \in 0 .. N /\ (k + 1) - 1 = k
    BY <1>2
  <2>2. CASE k + 1 = i
    BY <2>1, <2>2
  <2>3. CASE k + 1 > i
    <3>1. k >= i /\ amount[k + 1] = amount[k]
      BY <2>1, <2>3
    <3> QED BY <1>2, <2>1, <3>1
  <2>4. CASE k + 1 < i
    BY <2>1, <2>4
  <2> QED BY <2>1, <2>2, <2>3, <2>4
<1>3. N \in A
  <2> HIDE DEF A
  <2>1. N \in 0 .. N
    OBVIOUS
  <2> QED BY <1>1, <1>2, <2>1, Induction
<1> QED BY <1>3

\* The infos with amounts of given sets; the rest is as in another.
Amounts(of, huges, shmems, maps, specs, comps) ==
    [total : {of.total}, huge : huges, swap : {of.swap}, shmem : shmems, directMap : maps,
     speculative : specs, compressed : comps]

\* The memory that is read is of the type of its own amounts.
LEMMA ReadMemoryHasFields ==
  ASSUME NEW h
  PROVE  LET of == ReadMemory(h)
         IN of \in Amounts(of, {of.huge}, {of.shmem}, {of.directMap}, {of.speculative}, {of.compressed})
BY DEF ReadMemory, Amounts

\* Pointers to the huge pages of a size and an amount.
Ones(sizes, bytes) == {{[size |-> z, tlb |-> b]} : z \in sizes, b \in bytes}

\* What the lines of /proc/meminfo may make of an info, if they have some amounts of bytes.
MeminfoInfos(of, bytes) ==
    Amounts(of, {of.huge} \cup Ones({0, (CHOOSE x \in of.huge : TRUE).size}, bytes), bytes \cup {of.shmem},
            {of.directMap} \cup {{b} : b \in bytes}, {of.speculative}, {of.compressed})

\* Huge pages that are given are of the type of their sizes and amounts.
LEMMA OnesAre == ASSUME NEW sizes, NEW bytes PROVE \A z \in sizes, b \in bytes : {[size |-> z, tlb |-> b]} \in Ones(sizes, bytes)
BY DEF Ones

\* Huge pages of that type are given, with a size of it.
LEMMA OnesSay ==
  ASSUME NEW sizes, NEW bytes, NEW p \in Ones(sizes, bytes)
  PROVE  p # Nil /\ (CHOOSE x \in p : TRUE).size \in sizes
<1>1. PICK z \in sizes, b \in bytes : p = {[size |-> z, tlb |-> b]}
  BY DEF Ones
<1> DEFINE a == [size |-> z, tlb |-> b]
<1>2. p = {a} /\ a.size = z
  BY <1>1
<1> HIDE DEF a
<1>3. (CHOOSE x \in p : TRUE) = a /\ p # Nil
  BY <1>2, OneIsChosen
<1> QED BY <1>2, <1>3

\* What a line of /proc/meminfo does.
LEMMA MeminfoLineMoves ==
  ASSUME NEW of, NEW bytes, NEW l, MeminfoBytes(l) \in bytes, NEW m \in MeminfoInfos(of, bytes)
  PROVE  /\ MeminfoLine(m, l) \in MeminfoInfos(of, bytes)
         /\ l.key = "Shmem" => MeminfoLine(m, l).shmem = MeminfoBytes(l)
         /\ l.key # "Shmem" => MeminfoLine(m, l).shmem = m.shmem
<1> DEFINE known == of.huge
           sizes == {0, (CHOOSE x \in of.huge : TRUE).size}
           all == {known} \cup Ones(sizes, bytes)
           shmem == of.shmem
           maps == {of.directMap} \cup {{x} : x \in bytes}
           specs == {of.speculative}
           comps == {of.compressed}
           infos == Amounts(of, all, bytes \cup {shmem}, maps, specs, comps)
<1>i. infos = MeminfoInfos(of, bytes)
  BY Zenon DEF MeminfoInfos
<1>m. m \in infos
  BY <1>i
<1>h. 0 \in sizes /\ (known = Nil \/ (CHOOSE x \in known : TRUE).size \in sizes) /\ {{x} : x \in bytes} \subseteq maps
      /\ all = {known} \cup Ones(sizes, bytes)
  OBVIOUS
<1> HIDE DEF known, sizes, shmem, maps, specs, comps, all
<1> DEFINE b == MeminfoBytes(l)
           z == IF m.huge = Nil THEN 0 ELSE (CHOOSE x \in m.huge : TRUE).size
<1>1. z \in sizes
  <2>1. m.huge \in all
    BY <1>m DEF Amounts
  <2>2. m.huge = known \/ m.huge \in Ones(sizes, bytes)
    BY <2>1, <1>h
  <2>3. m.huge \in Ones(sizes, bytes) => (CHOOSE x \in m.huge : TRUE).size \in sizes
    BY OnesSay
  <2> QED BY <2>2, <2>3, <1>h
<1>2. {[size |-> z, tlb |-> b]} \in all
  <2> HIDE DEF z, b
  <2>1. b \in bytes
    BY DEF b
  <2>2. {[size |-> z, tlb |-> b]} \in Ones(sizes, bytes)
    BY <1>1, <2>1, OnesAre
  <2> QED BY <2>2, <1>h
<1>3. b \in bytes \cup {shmem} /\ {b} \in maps
  BY <1>h
<1>5. CASE l.key = "Shmem"
  <2>1. MeminfoLine(m, l) = [m EXCEPT !.shmem = b]
    BY <1>5 DEF MeminfoLine
  <2> HIDE DEF b
  <2>2. [m EXCEPT !.shmem = b] \in infos
        /\ [m EXCEPT !.shmem = b].shmem = b
    BY <1>3, <1>m DEF Amounts
  <2> QED BY <1>5, <1>i, <2>1, <2>2 DEF b
<1>6. CASE l.key = "Hugetlb"
  <2>1. MeminfoLine(m, l) = [m EXCEPT !.huge = {[size |-> z, tlb |-> b]}]
    BY <1>6 DEF MeminfoLine
  <2> DEFINE one == {[size |-> z, tlb |-> b]}
  <2>2. one \in all
    BY <1>2
  <2> HIDE DEF one
  <2>3. [m EXCEPT !.huge = one] \in infos
        /\ [m EXCEPT !.huge = one].shmem = m.shmem
    BY <1>m, <2>2 DEF Amounts
  <2> QED BY <1>6, <1>i, <2>1, <2>3 DEF one
<1>7. CASE l.key = "DirectMap4k"
  <2>1. MeminfoLine(m, l) = [m EXCEPT !.directMap = {b}]
    BY <1>7 DEF MeminfoLine
  <2> HIDE DEF b
  <2>2. [m EXCEPT !.directMap = {b}] \in infos
        /\ [m EXCEPT !.directMap = {b}].shmem = m.shmem
    BY <1>3, <1>m DEF Amounts
  <2> QED BY <1>7, <1>i, <2>1, <2>2
<1>8. CASE l.key \notin {"Shmem", "Hugetlb", "DirectMap4k"}
  <2>1. MeminfoLine(m, l) = m
    BY <1>8 DEF MeminfoLine
  <2> QED BY <1>8, <2>1
<1> HIDE DEF infos
<1> QED BY <1>5, <1>6, <1>7, <1>8, <1>i

\* Of the lines of /proc/meminfo for shared memory the last one counts, in bytes.
LEMMA LastShmemCounts ==
  ASSUME NEW h, NEW lines, lines \in Seq(Range(lines)),
         NEW i \in DOMAIN lines, lines[i].key = "Shmem", \A j \in DOMAIN lines : j > i => lines[j].key # "Shmem"
  PROVE  ApplyMeminfo(ReadMemory(h), lines).shmem = MeminfoBytes(lines[i])
<1> DEFINE of == ReadMemory(h)
           N == Len(lines)
           bytes == {MeminfoBytes(lines[k]) : k \in 1 .. N}
           S == MeminfoInfos(of, bytes)
<1>1. N \in Nat /\ DOMAIN lines = 1 .. N
  BY LenProperties
<1>2. of \in S
  <2>1. of \in Amounts(of, {of.huge}, {of.shmem}, {of.directMap}, {of.speculative}, {of.compressed})
    BY ReadMemoryHasFields
  <2> HIDE DEF of, bytes
  <2> QED BY <2>1 DEF MeminfoInfos, Amounts
<1> HIDE DEF N, of
<1>3. ASSUME NEW m \in S, NEW k \in 1 .. N
      PROVE /\ MeminfoLine(m, lines[k]) \in S
            /\ lines[k].key = "Shmem" => MeminfoLine(m, lines[k]).shmem = MeminfoBytes(lines[k])
            /\ lines[k].key # "Shmem" => MeminfoLine(m, lines[k]).shmem = m.shmem
  <2>1. MeminfoBytes(lines[k]) \in bytes
    OBVIOUS
  <2> HIDE DEF bytes
  <2> QED BY <2>1, MeminfoLineMoves
<1> HIDE DEF bytes
<1> HIDE DEF S
<1>4. \A m \in S, k \in 1 .. N : MeminfoLine(m, lines[k]) \in S
  BY <1>3
<1>p. PICK g : MeminfoTrace(of, lines, N, S, g)
  BY <1>1, <1>2, <1>4, MeminfoFold
<1>5. /\ g \in [0 .. N -> S] /\ ApplyMeminfo(of, lines) = g[N]
      /\ \A k \in 1 .. N : g[k] = MeminfoLine(g[k - 1], lines[k])
  BY <1>p DEF MeminfoTrace
<1> DEFINE amount == [k \in 0 .. N |-> g[k].shmem]
<1>a. \A k \in 0 .. N : amount[k] = g[k].shmem
  OBVIOUS
<1> HIDE DEF amount
<1>6. i \in 1 .. N /\ amount[i] = MeminfoBytes(lines[i])
  <2>1. i \in 1 .. N /\ i - 1 \in 0 .. N /\ i \in 0 .. N
    BY <1>1
  <2>2. g[i - 1] \in S
    BY <1>5, <2>1
  <2>3. g[i] = MeminfoLine(g[i - 1], lines[i])
    BY <1>5, <2>1
  <2>4. MeminfoLine(g[i - 1], lines[i]).shmem = MeminfoBytes(lines[i])
    BY <1>3, <2>1, <2>2
  <2> QED BY <1>a, <2>1, <2>3, <2>4
<1>7. ASSUME NEW k \in 1 .. N, k > i PROVE amount[k] = amount[k - 1]
  <2>1. k - 1 \in 0 .. N /\ k \in 0 .. N
    BY <1>1
  <2>2. g[k - 1] \in S /\ lines[k].key # "Shmem"
    BY <1>1, <1>5, <1>7, <2>1
  <2>3. g[k] = MeminfoLine(g[k - 1], lines[k])
    BY <1>5
  <2>4. MeminfoLine(g[k - 1], lines[k]).shmem = g[k - 1].shmem
    BY <1>3, <2>2
  <2> QED BY <1>a, <2>1, <2>3, <2>4
<1>8. amount[N] = MeminfoBytes(lines[i])
  <2> DEFINE said == MeminfoBytes(lines[i])
  <2>1. N \in Nat /\ i \in 1 .. N /\ amount[i] = said
    BY <1>1, <1>6
  <2>2. \A k \in 1 .. N : k > i => amount[k] = amount[k - 1]
    BY <1>7
  <2>3. LastIs(amount, N, i, said)
    BY <2>1, <2>2, Zenon DEF LastIs
  <2> QED BY <2>3, LastLineCounts, Zenon
<1>9. N \in 0 .. N
  BY <1>1
<1> QED BY <1>5, <1>8, <1>9, <1>a DEF of

\* What the lines of vm_stat may make of an info, and the page size with it.
VMStatInfos(of) == Amounts(of, {of.huge}, {of.shmem}, {of.directMap}, Nat, Nat)
VMStatStates(of) == [size : Nat, info : VMStatInfos(of)]

\* What a line of vm_stat does.
VMStatMoves(of, m, l) ==
    /\ VMStatLine(m, l) \in VMStatStates(of)
    /\ VMStatLine(m, l).size = IF l.key = "page size" /\ l.val > 0 THEN l.val ELSE m.size
    /\ VMStatLine(m, l).info.compressed = IF l.key = "compressed" THEN l.val * m.size ELSE m.info.compressed

\* A line of vm_stat changes the amount of its key and the page size only.
LEMMA VMStatLineMoves ==
  ASSUME NEW of, NEW l, l.val \in Nat, NEW m \in VMStatStates(of) PROVE VMStatMoves(of, m, l)
<1> DEFINE infos == VMStatInfos(of)
<1>m. m \in [size : Nat, info : infos] /\ VMStatStates(of) = [size : Nat, info : infos]
  BY DEF VMStatStates
<1> DEFINE v == l.val * m.size
           c == [m.info EXCEPT !.compressed = v]
           s == [m.info EXCEPT !.speculative = v]
<1>1. v \in Nat
  BY <1>m
<1> HIDE DEF v
<1>2. c \in infos /\ c.compressed = v /\ s \in infos /\ s.compressed = m.info.compressed
  BY <1>1, <1>m DEF Amounts, VMStatInfos
<1> HIDE DEF infos
<1>3. CASE l.key = "page size"
  <2>1. VMStatLine(m, l) = IF l.val > 0 THEN [m EXCEPT !.size = l.val] ELSE m
    BY <1>3 DEF VMStatLine
  <2> QED BY <1>3, <2>1, <1>m DEF VMStatMoves
<1>4. CASE l.key = "speculative"
  <2>1. VMStatLine(m, l) = [m EXCEPT !.info = s]
    BY <1>4 DEF VMStatLine, v
  <2> HIDE DEF s
  <2> QED BY <1>2, <1>4, <2>1, <1>m DEF VMStatMoves
<1>5. CASE l.key = "compressed"
  <2>1. VMStatLine(m, l) = [m EXCEPT !.info = c]
    BY <1>5 DEF VMStatLine, v
  <2> HIDE DEF c
  <2> QED BY <1>2, <1>5, <2>1, <1>m DEF v, VMStatMoves
<1>6. CASE l.key \notin {"page size", "speculative", "compressed"}
  <2>1. VMStatLine(m, l) = m
    BY <1>6 DEF VMStatLine
  <2> QED BY <1>6, <2>1, <1>m DEF VMStatMoves
<1> QED BY <1>3, <1>4, <1>5, <1>6 DEF VMStatMoves

\* The page size that holds after k lines: that of the last line that declares one.
Declared(lines, k) == {j \in 1 .. k : lines[j].key = "page size" /\ lines[j].val > 0}
SizeAfter(lines, k) == IF Declared(lines, k) = {} THEN 4096 ELSE lines[Max(Declared(lines, k))].val

\* The page size after a line is what it declares, or that after the line before.
LEMMA SizeMoves ==
  ASSUME NEW lines, NEW k \in Nat, NEW n, n = k + 1
  PROVE  SizeAfter(lines, n) = IF lines[n].key = "page size" /\ lines[n].val > 0 THEN lines[n].val ELSE SizeAfter(lines, k)
<1> DEFINE D == Declared(lines, n)
           Declares(j) == lines[j].key = "page size" /\ lines[j].val > 0
<1>0. D = {j \in 1 .. n : Declares(j)} /\ Declared(lines, k) = {j \in 1 .. k : Declares(j)}
  BY Zenon DEF Declared
<1>1. SizeAfter(lines, n) = IF D = {} THEN 4096 ELSE lines[Max(D)].val
  BY Zenon DEF SizeAfter
<1> HIDE DEF Declares, D
<1>2. CASE Declares(n)
  <2>1. n \in Nat /\ D \in SUBSET (0 .. n) /\ n \in D
    BY <1>0, <1>2
  <2>2. Max(D) \in D /\ n =< Max(D)
    BY <2>1, MaxIsGreatest
  <2>4. \A x \in 0 .. n : n =< x => x = n
    BY <2>1
  <2>3. Max(D) = n
    BY <2>1, <2>2, <2>4
  <2>5. SizeAfter(lines, n) = lines[n].val
    BY <1>1, <2>1, <2>3
  <2> QED BY <1>2, <2>5 DEF Declares
<1>3. CASE ~ Declares(n)
  <2>1. D = Declared(lines, k)
    BY <1>0, <1>3
  <2>2. SizeAfter(lines, n) = SizeAfter(lines, k)
    BY <1>1, <2>1 DEF SizeAfter
  <2> QED BY <1>3, <2>2 DEF Declares
<1> QED BY <1>2, <1>3

\* Of the lines of vm_stat for compressed pages the last one counts, and its pages are
\* of the size that the lines in front of it declare.
LEMMA LastCompressedCounts ==
  ASSUME NEW h, NEW lines, lines \in Seq(Range(lines)), \A l \in Range(lines) : l.val \in Nat,
         NEW i \in DOMAIN lines, lines[i].key = "compressed", \A j \in DOMAIN lines : j > i => lines[j].key # "compressed"
  PROVE  ApplyVMStat(ReadMemory(h), lines).compressed = lines[i].val * SizeAfter(lines, i - 1)
<1> DEFINE of == ReadMemory(h)
           N == Len(lines)
           S == VMStatStates(of)
           start == [size |-> 4096, info |-> of]
<1>1. N \in Nat /\ DOMAIN lines = 1 .. N
  BY LenProperties
<1>2. \A k \in 1 .. N : lines[k].val \in Nat
  BY <1>1 DEF Range
<1>3. start \in S
  <2>1. of.speculative = 0 /\ of.compressed = 0
    BY DEF ReadMemory
  <2>2. of \in VMStatInfos(of)
    BY <2>1, ReadMemoryHasFields DEF Amounts, VMStatInfos
  <2> HIDE DEF of
  <2> QED BY <2>2 DEF VMStatStates
<1>0. ApplyVMStat(of, lines) = VMStatEnd(start, lines).info
  BY Zenon DEF ApplyVMStat, VMStatEnd
<1>s. start.size = 4096
  OBVIOUS
<1> HIDE DEF N, of, start
<1>4. ASSUME NEW m \in S, NEW k \in 1 .. N PROVE VMStatMoves(of, m, lines[k])
  BY <1>2, VMStatLineMoves
<1>5. \A m \in S, k \in 1 .. N : VMStatLine(m, lines[k]) \in S
  BY <1>4 DEF VMStatMoves
<1> HIDE DEF S
<1>p. PICK g : VMStatTrace(start, lines, N, S, g)
  BY <1>1, <1>3, <1>5, VMStatFold
<1>6. /\ g \in [0 .. N -> S] /\ g[0] = start /\ VMStatEnd(start, lines) = g[N]
      /\ \A k \in 1 .. N : g[k] = VMStatLine(g[k - 1], lines[k])
  BY <1>p DEF VMStatTrace
<1> DEFINE A == {k \in 0 .. N : g[k].size = SizeAfter(lines, k)}
<1>7. 0 \in A
  <2>1. Declared(lines, 0) = {}
    BY DEF Declared
  <2> QED BY <1>1, <1>6, <1>s, <2>1 DEF SizeAfter
<1>8. ASSUME NEW k \in 0 .. N, k \in A, k < N PROVE k + 1 \in A
  <2>1. k + 1 \in 1 .. N /\ k + 1 \in 0 .. N /\ (k + 1) - 1 = k /\ k \in Nat
    BY <1>1, <1>8
  <2>g. g[k] \in S
    BY <1>6
  <2>n. PICK n : n = k + 1
    OBVIOUS
  <2>2. g[n] = VMStatLine(g[n - 1], lines[n]) /\ n - 1 = k
    BY <1>6, <2>1, <2>n
  <2>3. g[n].size = IF lines[n].key = "page size" /\ lines[n].val > 0 THEN lines[n].val ELSE g[k].size
    <3>1. n \in 1 .. N /\ VMStatMoves(of, g[k], lines[n])
      BY <1>4, <2>1, <2>g, <2>n
    <3>2. VMStatLine(g[k], lines[n]).size = IF lines[n].key = "page size" /\ lines[n].val > 0 THEN lines[n].val ELSE g[k].size
      BY <3>1, Zenon DEF VMStatMoves
    <3> QED BY <2>2, <3>2
  <2>4. g[k].size = SizeAfter(lines, k)
    BY <1>8
  <2>5. SizeAfter(lines, n) = IF lines[n].key = "page size" /\ lines[n].val > 0 THEN lines[n].val ELSE SizeAfter(lines, k)
    BY <2>1, <2>n, SizeMoves
  <2> QED BY <2>1, <2>3, <2>4, <2>5, <2>n
<1>9. \A k \in 0 .. N : g[k].size = SizeAfter(lines, k)
  <2> HIDE DEF A
  <2>1. \A k \in 0 .. N : k \in A
    BY <1>1, <1>7, <1>8, Induction
  <2> QED BY <2>1 DEF A
<1> DEFINE amount == [k \in 0 .. N |-> g[k].info.compressed]
<1>a. \A k \in 0 .. N : amount[k] = g[k].info.compressed
  OBVIOUS
<1> HIDE DEF amount
<1>10. i \in 1 .. N /\ amount[i] = lines[i].val * SizeAfter(lines, i - 1)
  <2>1. i \in 1 .. N /\ i - 1 \in 0 .. N /\ i \in 0 .. N
    BY <1>1
  <2>2. g[i - 1] \in S /\ g[i - 1].size = SizeAfter(lines, i - 1)
    BY <1>6, <1>9, <2>1
  <2>3. g[i] = VMStatLine(g[i - 1], lines[i])
    BY <1>6, <2>1
  <2>4. g[i].info.compressed = lines[i].val * g[i - 1].size
    BY <1>4, <2>1, <2>2, <2>3 DEF VMStatMoves
  <2> QED BY <1>a, <2>1, <2>2, <2>4
<1>11. ASSUME NEW k \in 1 .. N, k > i PROVE amount[k] = amount[k - 1]
  <2>1. k - 1 \in 0 .. N /\ k \in 0 .. N
    BY <1>1
  <2>2. g[k - 1] \in S /\ lines[k].key # "compressed"
    BY <1>1, <1>6, <1>11, <2>1
  <2>3. g[k] = VMStatLine(g[k - 1], lines[k])
    BY <1>6
  <2>4. g[k].info.compressed = g[k - 1].info.compressed
    BY <1>4, <2>2, <2>3 DEF VMStatMoves
  <2> QED BY <1>a, <2>1, <2>4
<1>12. amount[N] = lines[i].val * SizeAfter(lines, i - 1)
  <2> DEFINE said == lines[i].val * SizeAfter(lines, i - 1)
  <2>1. N \in Nat /\ i \in 1 .. N /\ amount[i] = said
    BY <1>1, <1>10
  <2>2. \A k \in 1 .. N : k > i => amount[k] = amount[k - 1]
    BY <1>11
  <2>3. LastIs(amount, N, i, said)
    BY <2>1, <2>2, Zenon DEF LastIs
  <2> QED BY <2>3, LastLineCounts, Zenon
<1>13. N \in 0 .. N
  BY <1>1
<1> QED BY <1>0, <1>6, <1>12, <1>13, <1>a DEF of

\* What the memory collector makes of its lines is in bytes, and of two lines of an
\* amount the later one counts.
LEMMA MemoryCounts ==
  ASSUME NEW h, h.of = "memory", StorageHostOK(h)
  PROVE  /\ h.darwin /\ h.vmStat.ok => \A i \in DOMAIN h.vmStat.out :
               h.vmStat.out[i].key = "compressed"
               /\ (\A j \in DOMAIN h.vmStat.out : j > i => h.vmStat.out[j].key # "compressed") =>
                 MemoryInfo(h).compressed = h.vmStat.out[i].val * SizeAfter(h.vmStat.out, i - 1)
         /\ ~ h.darwin /\ h.meminfo.ok => \A i \in DOMAIN h.meminfo.out :
               h.meminfo.out[i].key = "Shmem"
               /\ (\A j \in DOMAIN h.meminfo.out : j > i => h.meminfo.out[j].key # "Shmem") =>
                 MemoryInfo(h).shmem = MeminfoBytes(h.meminfo.out[i])
<1>1. /\ h.meminfo.ok => h.meminfo.out \in Seq(Range(h.meminfo.out))
      /\ h.vmStat.ok => h.vmStat.out \in Seq(Range(h.vmStat.out)) /\ \A l \in Range(h.vmStat.out) : l.val \in Nat
  BY DEF StorageHostOK, ListOf, IsSeq
<1>2. ASSUME h.darwin, h.vmStat.ok, NEW i \in DOMAIN h.vmStat.out, h.vmStat.out[i].key = "compressed",
             \A j \in DOMAIN h.vmStat.out : j > i => h.vmStat.out[j].key # "compressed"
      PROVE  MemoryInfo(h).compressed = h.vmStat.out[i].val * SizeAfter(h.vmStat.out, i - 1)
  <2>1. MemoryInfo(h) = ApplyVMStat(ReadMemory(h), h.vmStat.out)
    BY <1>2, Zenon DEF MemoryInfo
  <2>2. ApplyVMStat(ReadMemory(h), h.vmStat.out).compressed = h.vmStat.out[i].val * SizeAfter(h.vmStat.out, i - 1)
    BY <1>1, <1>2, LastCompressedCounts
  <2> QED BY <2>1, <2>2
<1>3. ASSUME ~ h.darwin, h.meminfo.ok, NEW i \in DOMAIN h.meminfo.out, h.meminfo.out[i].key = "Shmem",
             \A j \in DOMAIN h.meminfo.out : j > i => h.meminfo.out[j].key # "Shmem"
      PROVE  MemoryInfo(h).shmem = MeminfoBytes(h.meminfo.out[i])
  <2>1. MemoryInfo(h) = ApplyMeminfo(ReadMemory(h), h.meminfo.out)
    BY <1>3, Zenon DEF MemoryInfo
  <2>2. ApplyMeminfo(ReadMemory(h), h.meminfo.out).shmem = MeminfoBytes(h.meminfo.out[i])
    BY <1>1, <1>3, LastShmemCounts
  <2> QED BY <2>1, <2>2
<1> QED BY <1>2, <1>3

----------------------------------------------------------------------------
\* Lists of CPUs.

\* The CPUs that the parts of a list name, each by its part.
NamedCPUs(v) == UNION {{k} \X (v[k].lo .. v[k].hi) : k \in DOMAIN v}
CPUsOf(v) == {p[2] : p \in NamedCPUs(v)}

\* The CPUs that the ranges of a list name are finitely many.
LEMMA NamedAreFinite ==
  ASSUME NEW v \in Seq([lo : Nat, hi : Nat])
  PROVE  IsFiniteSet(NamedCPUs(v)) /\ Cardinality(NamedCPUs(v)) \in Nat
<1> DEFINE Part(k) == {k} \X (v[k].lo .. v[k].hi)
           parts == {Part(k) : k \in DOMAIN v}
           f == [k \in DOMAIN v |-> Part(k)]
<1>1. DOMAIN v = 1 .. Len(v) /\ Len(v) \in Nat
  BY LenProperties
<1>2. IsFiniteSet(DOMAIN v)
  <2>1. 1 \in Int /\ Len(v) \in Int
    BY <1>1
  <2> QED BY <1>1, <2>1, FS_Interval
<1>3. f \in Surjection(DOMAIN v, parts)
  <2> HIDE DEF Part
  <2>1. f \in [DOMAIN v -> parts]
    OBVIOUS
  <2>2. \A t \in parts : \E k \in DOMAIN v : f[k] = t
    OBVIOUS
  <2> HIDE DEF f, parts
  <2> QED BY <2>1, <2>2 DEF Surjection
<1>4. \A T \in parts : IsFiniteSet(T)
  <2> SUFFICES ASSUME NEW k \in DOMAIN v PROVE IsFiniteSet(Part(k))
    OBVIOUS
  <2>0. v[k] \in [lo : Nat, hi : Nat]
    BY <1>1, ElementOfSeq
  <2>1. v[k].lo \in Int /\ v[k].hi \in Int
    BY <2>0
  <2>2. IsFiniteSet({k}) /\ IsFiniteSet(v[k].lo .. v[k].hi)
    BY <2>1, FS_Singleton, FS_Interval
  <2> QED BY <2>2, FS_Product
<1> HIDE DEF f
<1>5. IsFiniteSet(parts)
  BY <1>2, <1>3, FS_Surjection
<1>6. IsFiniteSet(UNION parts)
  <2> HIDE DEF parts
  <2> QED BY <1>4, <1>5, FS_UNION
<1>7. NamedCPUs(v) = UNION parts
  BY Zenon DEF NamedCPUs
<1> QED BY <1>6, <1>7, FS_CardinalityType

\* They are the CPUs of the parts.
LEMMA CPUsAreOfParts ==
  ASSUME NEW v \in Seq([lo : Nat, hi : Nat])
  PROVE  CPUsOf(v) = UNION {v[k].lo .. v[k].hi : k \in DOMAIN v} /\ CPUsOf(v) \in SUBSET Nat
<1> DEFINE U == UNION {v[k].lo .. v[k].hi : k \in DOMAIN v}
<1>1. ASSUME NEW p \in NamedCPUs(v) PROVE p[2] \in U
  <2>1. PICK k \in DOMAIN v : p \in {k} \X (v[k].lo .. v[k].hi)
    BY DEF NamedCPUs
  <2> QED BY <2>1
<1>2. ASSUME NEW c \in U PROVE \E p \in NamedCPUs(v) : p[2] = c
  <2>1. PICK k \in DOMAIN v : c \in v[k].lo .. v[k].hi
    OBVIOUS
  <2>2. <<k, c>> \in {k} \X (v[k].lo .. v[k].hi) /\ <<k, c>>[2] = c
    BY <2>1
  <2>3. <<k, c>> \in NamedCPUs(v)
    BY <2>2 DEF NamedCPUs
  <2> QED BY <2>2, <2>3
<1>3. U \in SUBSET Nat
  <2>1. ASSUME NEW k \in DOMAIN v PROVE v[k].lo .. v[k].hi \subseteq Nat
    <3>0. v[k] \in [lo : Nat, hi : Nat]
      BY LenProperties, ElementOfSeq
    <3>1. v[k].lo \in Nat /\ v[k].hi \in Nat
      BY <3>0
    <3> QED BY <3>1
  <2> QED BY <2>1
<1> HIDE DEF U
<1>4. CPUsOf(v) = U
  BY <1>1, <1>2 DEF CPUsOf
<1> QED BY <1>3, <1>4 DEF U

\* How many are named up to a CPU.
NamedUpto(v, c) == Cardinality({p \in NamedCPUs(v) : p[2] <= c})

\* More are named up to a later CPU, and all up to the last.
LEMMA MoreAreNamed ==
  ASSUME NEW v \in Seq([lo : Nat, hi : Nat]), NEW n, n = Cardinality(NamedCPUs(v))
  PROVE  /\ \A c \in CPUsOf(v) : NamedUpto(v, c) \in 1 .. n
         /\ \A c, d \in CPUsOf(v) : c < d => NamedUpto(v, c) < NamedUpto(v, d)
         /\ n > 0 => \E c \in CPUsOf(v) : NamedUpto(v, c) = n
<1> DEFINE named == NamedCPUs(v)
           Those(c) == {p \in named : p[2] <= c}
<1>1. IsFiniteSet(named) /\ n \in Nat
  BY NamedAreFinite
<1>2. CPUsOf(v) \in SUBSET Nat /\ \A p \in named : p[2] \in CPUsOf(v)
  BY CPUsAreOfParts DEF CPUsOf
<1>3. \A c \in CPUsOf(v) : \E p \in named : p[2] = c
  BY DEF CPUsOf
<1>4. \A c : NamedUpto(v, c) = Cardinality(Those(c)) /\ Those(c) \in SUBSET named
  BY DEF NamedUpto
<1>5. n = Cardinality(named)
  OBVIOUS
<1> HIDE DEF named
<1>6. ASSUME NEW c \in CPUsOf(v) PROVE NamedUpto(v, c) \in 1 .. n
  <2>1. PICK p \in named : p[2] = c
    BY <1>3
  <2>2. p \in Those(c)
    BY <1>2, <2>1
  <2> HIDE DEF Those
  <2>3. IsFiniteSet(Those(c)) /\ Cardinality(Those(c)) =< n
    BY <1>1, <1>4, <1>5, FS_Subset
  <2>4. Cardinality(Those(c)) \in Nat /\ Cardinality(Those(c)) # 0
    BY <2>2, <2>3, FS_CardinalityType, FS_EmptySet
  <2> QED BY <1>1, <1>4, <2>3, <2>4
<1>7. ASSUME NEW c \in CPUsOf(v), NEW d \in CPUsOf(v), c < d PROVE NamedUpto(v, c) < NamedUpto(v, d)
  <2>1. PICK p \in named : p[2] = d
    BY <1>3
  <2>2. c \in Nat /\ d \in Nat
    BY <1>2
  <2>3. Those(c) \subseteq Those(d) /\ p \in Those(d) /\ p \notin Those(c)
    <3>1. ASSUME NEW q \in named, q[2] <= c PROVE q[2] <= d
      <4>1. q[2] \in Nat
        BY <1>2
      <4> QED BY <1>7, <2>2, <3>1, <4>1
    <3>2. d <= d /\ ~ (d <= c)
      BY <1>7, <2>2
    <3> QED BY <2>1, <3>1, <3>2
  <2> HIDE DEF Those
  <2>4. IsFiniteSet(Those(d))
    BY <1>1, <1>4, FS_Subset
  <2>5. Those(c) \in SUBSET Those(d) /\ Those(d) # Those(c)
    BY <2>3
  <2>6. /\ IsFiniteSet(Those(c)) /\ Cardinality(Those(c)) =< Cardinality(Those(d))
        /\ Cardinality(Those(d)) # Cardinality(Those(c))
    BY <2>4, <2>5, FS_Subset
  <2>7. Cardinality(Those(c)) \in Nat /\ Cardinality(Those(d)) \in Nat
    BY <2>4, <2>6, FS_CardinalityType
  <2> QED BY <1>4, <2>6, <2>7
<1>8. ASSUME n > 0 PROVE \E c \in CPUsOf(v) : NamedUpto(v, c) = n
  <2> DEFINE counts == {NamedUpto(v, c) : c \in CPUsOf(v)}
  <2>1. CPUsOf(v) # {}
    <3>1. named # {}
      BY <1>1, <1>5, <1>8, FS_EmptySet
    <3> QED BY <1>2, <3>1
  <2>2. counts \in SUBSET (0 .. n) /\ counts # {}
    BY <1>1, <1>6, <2>1
  <2>3. PICK m \in CPUsOf(v) : NamedUpto(v, m) = Max(counts)
    <3> HIDE DEF counts
    <3>1. Max(counts) \in counts
      BY <1>1, <2>2, MaxIsGreatest
    <3> QED BY <3>1 DEF counts
  <2>4. ASSUME NEW c \in CPUsOf(v) PROVE NamedUpto(v, c) =< NamedUpto(v, m)
    <3>1. NamedUpto(v, c) \in counts
      OBVIOUS
    <3> HIDE DEF counts
    <3> QED BY <1>1, <2>2, <2>3, <3>1, MaxIsGreatest
  <2>5. ASSUME NEW p \in named PROVE p[2] <= m
    <3>1. p[2] \in CPUsOf(v) /\ p[2] \in Nat /\ m \in Nat
      BY <1>2
    <3>2. NamedUpto(v, p[2]) \in Nat /\ NamedUpto(v, m) \in Nat
      BY <1>6, <3>1
    <3>3. ~ (m < p[2])
      BY <1>7, <2>4, <3>1, <3>2
    <3> QED BY <3>1, <3>3
  <2>6. Those(m) = named
    BY <2>5
  <2> QED BY <1>4, <1>5, <2>6
<1> QED BY <1>6, <1>7, <1>8

\* A list is sorted, and has the CPUs that its parts name.
LEMMA CPURangeIsSorted ==
  ASSUME NEW v \in Seq([lo : Nat, hi : Nat]), \A k \in DOMAIN v : ~ (v[k].lo > v[k].hi)
  PROVE  /\ Range(ParseCPURange(v)) = UNION {v[k].lo .. v[k].hi : k \in DOMAIN v}
         /\ \A k \in 1 .. (Len(ParseCPURange(v)) - 1) : ParseCPURange(v)[k] <= ParseCPURange(v)[k + 1]
<1> DEFINE list == ParseCPURange(v)
           n == Cardinality(NamedCPUs(v))
           C == CPUsOf(v)
           Those(r) == {c \in C : NamedUpto(v, c) >= r}
<1>1. list = [r \in 1 .. n |-> Min(Those(r))]
  BY Zenon DEF ParseCPURange, NamedCPUs, CPUsOf, NamedUpto
<1>2. n \in Nat
  BY NamedAreFinite
<1>3. C \in SUBSET Nat /\ C = UNION {v[k].lo .. v[k].hi : k \in DOMAIN v}
  BY CPUsAreOfParts
<1>4. /\ \A c \in C : NamedUpto(v, c) \in 1 .. n
      /\ \A c, d \in C : c < d => NamedUpto(v, c) < NamedUpto(v, d)
      /\ n > 0 => \E c \in C : NamedUpto(v, c) = n
  BY MoreAreNamed
<1> HIDE DEF list, n, C
<1>5. ASSUME NEW r \in 1 .. n
      PROVE Min(Those(r)) \in C /\ NamedUpto(v, Min(Those(r))) >= r /\ \A c \in Those(r) : Min(Those(r)) <= c
  <2>1. PICK c \in C : NamedUpto(v, c) = n
    BY <1>2, <1>4
  <2>2. c \in Those(r) /\ Those(r) \in SUBSET Nat
    BY <1>2, <1>3, <2>1
  <2>3. Min(Those(r)) \in Those(r) /\ \A d \in Those(r) : Min(Those(r)) =< d
    <3> HIDE DEF Those
    <3> QED BY <2>2, MinIsLeast
  <2> QED BY <2>3
<1>6. ASSUME NEW c \in C PROVE c \in Range(list)
  <2> DEFINE r == NamedUpto(v, c)
             m == Min(Those(r))
  <2>1. r \in 1 .. n /\ c \in Nat
    BY <1>3, <1>4
  <2>2. c \in Those(r)
    BY <2>1
  <2>3. m \in C /\ NamedUpto(v, m) >= r /\ m <= c
    <3> HIDE DEF r, Those
    <3> QED BY <1>5, <2>1, <2>2 DEF Those
  <2>4. m = c
    <3>0. m \in Nat /\ NamedUpto(v, m) \in 1 .. n
      <4> HIDE DEF m
      <4> QED BY <1>3, <1>4, <2>3
    <3>1. m \in Nat /\ NamedUpto(v, m) \in Nat /\ r \in Nat
      <4> HIDE DEF m, r
      <4> QED BY <1>2, <2>1, <3>0
    <3>2. ~ (m < c)
      <4>1. m < c => NamedUpto(v, m) < r
        BY <1>4, <2>3
      <4> HIDE DEF m, r
      <4> QED BY <2>3, <3>1, <4>1
    <3> HIDE DEF m, r
    <3> QED BY <2>1, <2>3, <3>1, <3>2
  <2>5. list[r] = m /\ r \in DOMAIN list
    <3> HIDE DEF r, Those
    <3> QED BY <1>1, <2>1 DEF Those
  <2> HIDE DEF m, r
  <2> QED BY <2>4, <2>5 DEF Range
<1>7. Range(list) = C
  <2>1. ASSUME NEW x \in Range(list) PROVE x \in C
    <3> HIDE DEF Those
    <3>1. PICK r \in 1 .. n : x = Min(Those(r))
      BY <1>1, <2>1 DEF Range
    <3> QED BY <1>5, <3>1
  <2> QED BY <1>6, <2>1
<1>8. Len(list) = n
  <2> HIDE DEF Those
  <2>1. list \in [1 .. n -> C]
    BY <1>1, <1>5
  <2>2. list \in Seq(C) /\ DOMAIN list = 1 .. n
    BY <1>2, <2>1, SeqDef
  <2> QED BY <1>2, <2>2, LenProperties
<1>9. ASSUME NEW k \in 1 .. (n - 1) PROVE list[k] <= list[k + 1]
  <2>1. k \in 1 .. n /\ k + 1 \in 1 .. n /\ k \in Nat
    BY <1>2
  <2>2. Min(Those(k + 1)) \in C /\ NamedUpto(v, Min(Those(k + 1))) >= k + 1
    BY <1>5, <2>1
  <2> DEFINE d == Min(Those(k + 1))
  <2> HIDE DEF d
  <2>3. d \in C /\ NamedUpto(v, d) >= k + 1 /\ NamedUpto(v, d) \in Nat
    BY <1>2, <1>4, <2>2 DEF d
  <2>4. d \in Those(k)
    BY <2>1, <2>3
  <2>5. Min(Those(k)) <= d
    BY <1>5, <2>1, <2>4
  <2>6. list[k] = Min(Those(k)) /\ list[k + 1] = d
    <3> HIDE DEF Those
    <3> QED BY <1>1, <2>1 DEF d
  <2> QED BY <2>5, <2>6
<1> QED BY <1>3, <1>7, <1>8, <1>9 DEF list

\* What lscpu prints of a node is a list, or is not there.
LEMMA NodesHaveLists ==
  ASSUME NEW lines, lines \in Seq(Range(lines)),
         \A l \in Range(lines) : l.key \in CpuLists => l.val \in Seq([lo : Nat, hi : Nat]),
         NEW key \in CpuLists
  PROVE  Value(lines, key, <<>>) \in Seq([lo : Nat, hi : Nat])
<1> DEFINE at == {k \in DOMAIN lines : lines[k].key = key}
<1>1. at \in SUBSET (0 .. Len(lines)) /\ Len(lines) \in Nat
  OBVIOUS
<1>2. Value(lines, key, <<>>) = IF at = {} THEN <<>> ELSE lines[Max(at)].val
  BY DEF Value
<1> HIDE DEF at
<1>3. CASE at = {}
  <2>1. <<>> \in Seq([lo : Nat, hi : Nat])
    BY EmptySeq
  <2> QED BY <1>2, <1>3, <2>1
<1>4. CASE at # {}
  <2>1. Max(at) \in at
    BY <1>1, <1>4, MaxIsGreatest
  <2>2. lines[Max(at)] \in Range(lines) /\ lines[Max(at)].key = key
    BY <2>1 DEF at, Range
  <2> QED BY <1>2, <1>4, <2>2
<1> QED BY <1>3, <1>4

\* The nodes of a host are those of lscpu, however the layout is computed.
LEMMA NodesAreLscpus ==
  ASSUME NEW h, h.lscpu.ok
  PROVE  LinuxCPU(h).NumaNodes = NumaNodes(h.lscpu.out)
<1> DEFINE lines == h.lscpu.out
           base == [ReadCPU(h) EXCEPT !.Vulnerabilities = ReadVulnerabilities(h)]
           with == [base EXCEPT !.Cache = Value(lines, "cache", None), !.Text = Value(lines, "text", None),
                                !.NumaNodes = NumaNodes(lines),
                                !.Online = Len(ParseCPURange(Value(lines, "online", <<>>))),
                                !.Offline = Len(ParseCPURange(Value(lines, "offline", <<>>)))]
           number == [k \in Layout |-> Value(lines, k, 0)]
           arch == Value(lines, "architecture", None)
<1>1. LinuxCPU(h) = ApplyLayout(with, number, arch)
  BY Zenon DEF LinuxCPU, ApplyLscpu
<1>2. "NumaNodes" \in DOMAIN ReadCPU(h)
  BY Zenon DEF ReadCPU
<1>3. "NumaNodes" \in DOMAIN base
  BY <1>2
<1> HIDE DEF base
<1>4. with.NumaNodes = NumaNodes(lines)
  BY <1>3
<1> HIDE DEF with, number, arch
<1>5. ASSUME NEW c, NEW d, NEW e
      PROVE [with EXCEPT !.Count = c, !.Cores = d, !.Sockets = e].NumaNodes = with.NumaNodes
  OBVIOUS
<1>6. ApplyLayout(with, number, arch).NumaNodes = with.NumaNodes
  BY <1>5 DEF ApplyLayout
<1> QED BY <1>1, <1>4, <1>6

\* Every node is told all its CPUs, in order; if a part of its line is torn, none.
LEMMA NodesAreWhole ==
  ASSUME NEW h, CpuHostOK(h), h.lscpu.ok, NEW n \in DOMAIN LinuxCPU(h).NumaNodes
  PROVE  LET said == Value(h.lscpu.out, n, <<>>)
             cpus == LinuxCPU(h).NumaNodes[n]
         IN \/ cpus = <<>> /\ \E k \in DOMAIN said : said[k].lo > said[k].hi
            \/ /\ Range(cpus) = UNION {said[k].lo..said[k].hi : k \in DOMAIN said}
               /\ \A k \in 1..(Len(cpus) - 1) : cpus[k] <= cpus[k + 1]
<1> DEFINE said == Value(h.lscpu.out, n, <<>>)
           cpus == LinuxCPU(h).NumaNodes[n]
<1>0. LinuxCPU(h).NumaNodes = NumaNodes(h.lscpu.out)
  BY NodesAreLscpus
<1>1. n \in {"numa0", "numa1"} /\ cpus = ParseCPURange(said)
  BY <1>0 DEF NumaNodes
<1>2. said \in Seq([lo : Nat, hi : Nat])
  <2>1. /\ h.lscpu.out \in Seq(Range(h.lscpu.out))
        /\ \A l \in Range(h.lscpu.out) : l.key \in CpuLists => l.val \in Seq([lo : Nat, hi : Nat])
    BY DEF CpuHostOK
  <2>2. n \in CpuLists
    BY <1>1 DEF CpuLists
  <2> QED BY <2>1, <2>2, NodesHaveLists
<1> HIDE DEF said, cpus
<1>3. CASE \E k \in DOMAIN said : said[k].lo > said[k].hi
  <2>1. cpus = <<>>
    BY <1>1, <1>3 DEF ParseCPURange
  <2> QED BY <1>3, <2>1 DEF said, cpus
<1>4. CASE \A k \in DOMAIN said : ~ (said[k].lo > said[k].hi)
  <2>1. /\ Range(cpus) = UNION {said[k].lo..said[k].hi : k \in DOMAIN said}
        /\ \A k \in 1..(Len(cpus) - 1) : cpus[k] <= cpus[k + 1]
    BY <1>1, <1>2, <1>4, CPURangeIsSorted
  <2> QED BY <2>1, Zenon DEF said, cpus
<1> QED BY <1>3, <1>4

\* A CPU is in the lists that name it and in no other, and a list with a torn part is
\* dropped as a whole, whatever lscpu prints.
THEOREM CpuListsAreWholeHolds == Spec => []CpuListsAreWhole
<1>1. ASSUME CollectorsInv, Collected("cpu"), ~ host.darwin, host.lscpu.ok PROVE CpuListsAreWhole
  <2>1. CpuHostOK(host) /\ facts.info = LinuxCPU(host)
    BY <1>1, HostsAreTheirOwn DEF CollectorsInv, CpuOK
  <2>2. \A n \in DOMAIN facts.info.NumaNodes :
            LET said == Value(host.lscpu.out, n, <<>>)
                cpus == facts.info.NumaNodes[n]
            IN \/ cpus = <<>> /\ \E k \in DOMAIN said : said[k].lo > said[k].hi
               \/ /\ Range(cpus) = UNION {said[k].lo..said[k].hi : k \in DOMAIN said}
                  /\ \A k \in 1..(Len(cpus) - 1) : cpus[k] <= cpus[k + 1]
    BY <1>1, <2>1, NodesAreWhole, Zenon
  <2> QED BY <2>2, Zenon DEF CpuListsAreWhole
<1>2. CollectorsInv => CpuListsAreWhole
  BY <1>1 DEF CpuListsAreWhole
<1> QED BY <1>2, CollectorsInvHolds, PTL

----------------------------------------------------------------------------
\* The collectors of storage, memory and the network.

\* The collectors whose reports are of several sources.
Reporters == {"filesystem", "mdadm", "memory", "network"}

\* Every such report is what its collector makes of its host.
ReportersInv ==
    /\ Collected("filesystem") => host.of = "filesystem" /\ host.mounts.ok /\ facts.info = FilesystemInfo(host)
    /\ Collected("mdadm") => host.of = "mdadm" /\ (host.missing \/ host.mdstat.ok) /\ facts.info = CollectArrays(host)
    /\ Collected("memory") => host.of = "memory" /\ host.vm.ok /\ facts.info = MemoryInfo(host)
    /\ Collected("network") => host.of = "network" /\ facts.info = NetworkInfo(host)

ReporterStep == CollectFilesystem \/ CollectMdadm \/ CollectMemory \/ CollectNetwork

\* The collectors that list, and are spoken of below, and their steps.
Listers == {"zpools", "docker", "tc", "rpm", "kernel_modules", "livepatch", "grub2", "selinux"}

ListerStep ==
    CollectZpools \/ CollectDocker \/ CollectTC \/ CollectRPM \/ CollectModules \/ CollectLivepatch \/ CollectGrub2 \/ CollectSELinux

\* A step that is not theirs leaves nothing of theirs.
LEMMA StepsAreApart == Next => ReporterStep \/ ListerStep \/ facts'.of \notin Reporters \cup Listers
<1> DEFINE Says(of) == Errs(of) \/ \E info : Returns(of, info)
           Away == facts'.of \notin Reporters \cup Listers
<1>1. ASSUME NEW of, of \notin Reporters \cup Listers, Says(of) PROVE Away
  <2>1. Ends(of)
    BY <1>1, ReturnsEnds, ErrsEnds
  <2> QED BY <1>1, <2>1 DEF Ends
<1>3. CollectDocument => Says("azure") \/ Says("oci") \/ Says("digital_ocean") \/ Says("gce") \/ Says("scaleway")
  BY Zenon DEF CollectDocument
<1>4. CollectTree => Says("alibaba") \/ Says("openstack")
  BY Zenon DEF CollectTree
<1>5. CollectLinode => Says("linode")
  BY Zenon DEF CollectLinode
<1>7. CollectShard => Says("shard")
  BY Zenon DEF CollectShard
<1>8. CollectOSRelease => Says("os_release")
  BY Zenon DEF CollectOSRelease
<1>9. CollectHostname => Says("hostname")
  BY Zenon DEF CollectHostname
<1>10. CollectFacts => Says("facts")
  BY Zenon DEF CollectFacts
<1>11. CollectCPU => Says("cpu")
  BY Zenon DEF CollectCPU
<1>12. CollectPlatform => Says("platform")
  BY Zenon DEF CollectPlatform
<1>13. CollectUsers => Says("users")
  BY Zenon DEF CollectUsers
<1>14. CollectMachineID => Says("machine_id")
  BY Zenon DEF CollectMachineID
<1>15. CollectTimezone => Says("timezone")
  BY Zenon DEF CollectTimezone
<1>16. CollectPackageMgr => Says("package_mgr")
  BY Zenon DEF CollectPackageMgr
<1>17. CollectVMware => Says("vmware")
  BY Zenon DEF CollectVMware
<1>18. CollectInit => Says("init")
  BY Zenon DEF CollectInit
<1>19. CollectFips => Says("fips")
  BY Zenon DEF CollectFips
<1>20. CollectKernel => Says("kernel")
  BY Zenon DEF CollectKernel
<1>21. CollectUptime => Says("uptime")
  BY Zenon DEF CollectUptime
<1>22. CollectAll => Says("root_group") \/ Says("sysconf") \/ Says("load") \/ Says("disk")
  BY Zenon DEF CollectAll
<1>23. CollectEach => Says("languages") \/ Says("dmi") \/ Says("ipc") \/ Says("process")
  BY Zenon DEF CollectEach
<1>24. CollectBlockDevices => Says("block_device")
  BY Zenon DEF CollectBlockDevices
<1>25. CollectSessions => Says("sessions")
  BY Zenon DEF CollectSessions
<1>26. CollectUnits => Says("services") \/ Says("packages") \/ Says("command")
  BY Zenon DEF CollectUnits
<1>28. CollectLibvirt => Says("libvirt")
  BY Zenon DEF CollectLibvirt
<1>34. CollectSSH => Says("ssh")
  BY Zenon DEF CollectSSH
<1>36. CollectInterrupts => Says("interrupts")
  BY Zenon DEF CollectInterrupts
<1>37. CollectShells => Says("shells")
  BY Zenon DEF CollectShells
<1>38. CollectPairs => Says("hostnamectl") \/ Says("lsb") \/ Says("scsi") \/ Says("systemd_paths")
  BY Zenon DEF CollectPairs
<1>39. CollectVirtualBox => Says("virtualbox")
  BY Zenon DEF CollectVirtualBox
<1>40. CollectDevices => Says("kextstat") \/ Says("pci") \/ Says("gpu")
  BY Zenon DEF CollectDevices
<1>41. CollectSysctl => Says("sysctl")
  BY Zenon DEF CollectSysctl
<1>42. CollectVirtualization \/ CollectHardware \/ ProbeEnds => Away
  <2>1. ASSUME NEW of \in {"virtualization", "hardware"}, NEW info, WaitReturns(of, info) PROVE Away
    BY <2>1 DEF WaitReturns, Reporters, Listers
  <2>2. ASSUME NEW of, NEW probes, StartProbes(of, probes) PROVE Away
    BY <2>2 DEF StartProbes, Running, Reporters, Listers
  <2>3. ASSUME NEW p, ProbeReturns(p) PROVE Away
    BY <2>3 DEF ProbeReturns, Running, Reporters, Listers
  <2>4. Says("virtualization") \/ Says("hardware") => Away
    BY <1>1 DEF Reporters, Listers
  <2> HIDE DEF Away
  <2>5. CollectVirtualization => Away
    BY <2>1, <2>2, <2>4 DEF CollectVirtualization
  <2>6. CollectHardware => Away
    BY <2>1, <2>2, <2>4 DEF CollectHardware
  <2> QED BY <2>3, <2>5, <2>6 DEF ProbeEnds
<1> DEFINE Rest ==
      {"azure", "oci", "digital_ocean", "gce", "scaleway", "alibaba", "openstack", "linode", "shard",
       "os_release", "hostname", "facts", "cpu", "platform", "users", "machine_id", "timezone", "package_mgr", "vmware",
       "init", "fips", "kernel", "uptime", "root_group", "sysconf", "load", "disk", "languages", "dmi", "ipc", "process",
       "block_device", "sessions", "services", "packages", "command", "libvirt",
       "ssh", "interrupts", "shells", "hostnamectl", "lsb", "scsi", "systemd_paths",
       "virtualbox", "kextstat", "pci", "gpu", "sysctl"}
<1>43. \A of \in Rest : of \notin Reporters \cup Listers
  BY DEF Reporters, Listers
<1> HIDE DEF Says, Away
<1>44. CollectListing => ListerStep \/ \E of \in Rest : Says(of)
  BY <1>25, <1>26, <1>28, <1>34, <1>36, <1>37, <1>38, <1>39, <1>40, <1>41 DEF CollectListing, ListerStep
<1>45. CollectSource => \E of \in Rest : Says(of)
  BY <1>14, <1>15, <1>16, <1>17, <1>18, <1>19, <1>20, <1>21, <1>22, <1>23, <1>24 DEF CollectSource
<1>46. Next => ReporterStep \/ ListerStep \/ CollectVirtualization \/ CollectHardware \/ ProbeEnds \/ \E of \in Rest : Says(of)
  BY <1>3, <1>4, <1>5, <1>7, <1>8, <1>9, <1>10, <1>11, <1>12, <1>13, <1>44, <1>45
     DEF Next, ReporterStep, ListerStep
<1> QED BY <1>1, <1>42, <1>43, <1>46 DEF Away

\* What such a collector reports of a host.
ReportOf(h) ==
    CASE h.of = "zpools" -> CollectPools(h)
      [] h.of = "docker" -> DockerInfo(h)
      [] h.of = "tc" -> TCInfo(h)
      [] h.of = "rpm" -> RPMInfo(h)
      [] h.of = "kernel_modules" -> ModulesInfo(h)
      [] h.of = "livepatch" -> LivepatchInfo(h)
      [] h.of = "grub2" -> ReadGrubenv(h)
      [] h.of = "selinux" -> SELinuxInfo(h)

\* A step of theirs is what the host's collector reports.
LEMMA ListersReport == ListerStep => \E of \in Listers : host.of = of /\ Returns(of, ReportOf(host))
<1> DEFINE Reports1(of) == host.of = of /\ Returns(of, ReportOf(host))
<1>1. CollectZpools => Reports1("zpools")
  BY DEF CollectZpools, ReportOf
<1>2. CollectDocker => Reports1("docker")
  BY DEF CollectDocker, ReportOf
<1>3. CollectTC => Reports1("tc")
  BY DEF CollectTC, ReportOf
<1>4. CollectRPM => Reports1("rpm")
  BY DEF CollectRPM, ReportOf
<1>5. CollectModules => Reports1("kernel_modules")
  BY DEF CollectModules, ReportOf
<1>6. CollectLivepatch => Reports1("livepatch")
  BY DEF CollectLivepatch, ReportOf
<1>7. CollectGrub2 => Reports1("grub2")
  BY DEF CollectGrub2, ReportOf
<1>8. CollectSELinux => Reports1("selinux")
  BY DEF CollectSELinux, ReportOf
<1> HIDE DEF Reports1
<1>9. ListerStep => \E of \in Listers : Reports1(of)
  BY <1>1, <1>2, <1>3, <1>4, <1>5, <1>6, <1>7, <1>8 DEF ListerStep, Listers
<1> QED BY <1>9 DEF Reports1

\* Every step keeps the reports of these collectors functions of their hosts.
LEMMA ReportersInvStep == ReportersInv /\ [Next]_vars => ReportersInv'
<1> SUFFICES ASSUME ReportersInv, [Next]_vars PROVE ReportersInv'
  OBVIOUS
<1>1. CASE UNCHANGED vars
  BY <1>1 DEF vars, ReportersInv, Collected
<1>2. CASE facts'.of \notin Reporters
  BY <1>2 DEF ReportersInv, Reporters, Collected
<1>6. ListerStep => facts'.of \notin Reporters
  BY ListersReport DEF Returns, Listers, Reporters
<1>3. CASE CollectFilesystem
  <2>1. ASSUME Errs("filesystem") PROVE ReportersInv'
    BY <2>1 DEF Errs, ReportersInv, Collected
  <2>2. ASSUME host.mounts.ok, Returns("filesystem", FilesystemInfo(host)) PROVE ReportersInv'
    BY <2>2 DEF Returns, ReportersInv, Collected
  <2> QED BY <1>3, <2>1, <2>2 DEF CollectFilesystem
<1>4. CASE CollectMdadm
  <2>1. ASSUME Errs("mdadm") PROVE ReportersInv'
    BY <2>1 DEF Errs, ReportersInv, Collected
  <2>2. ASSUME host.missing \/ host.mdstat.ok, Returns("mdadm", CollectArrays(host)) PROVE ReportersInv'
    BY <2>2 DEF Returns, ReportersInv, Collected
  <2> QED BY <1>4, <2>1, <2>2 DEF CollectMdadm
<1>5. CASE CollectMemory
  <2>1. ASSUME Errs("memory") PROVE ReportersInv'
    BY <2>1 DEF Errs, ReportersInv, Collected
  <2>2. ASSUME host.vm.ok, Returns("memory", MemoryInfo(host)) PROVE ReportersInv'
    BY <2>2 DEF Returns, ReportersInv, Collected
  <2> QED BY <1>5, <2>1, <2>2 DEF CollectMemory
<1>7. CASE CollectNetwork
  <2>1. ASSUME Errs("network") PROVE ReportersInv'
    BY <2>1 DEF Errs, ReportersInv, Collected
  <2>2. ASSUME Returns("network", NetworkInfo(host)) PROVE ReportersInv'
    BY <2>2 DEF Returns, ReportersInv, Collected
  <2> QED BY <1>7, <2>1, <2>2 DEF CollectNetwork
<1> QED BY <1>1, <1>2, <1>3, <1>4, <1>5, <1>6, <1>7, StepsAreApart DEF ReporterStep

\* The hosts of these collectors are as their module has them.
LEMMA NetworkHostsAreTheirOwn == ASSUME NEW h \in Hosts, h.of = "network" PROVE NetworkHostOK(h)
<1>1. h \notin StorageHosts
  BY StorageHostsAssumption DEF StorageHostOK
<1>2. h \notin CloudHosts
  BY CloudHostsAssumption DEF CloudHostOK, AzureDocument, GceDocument, OciDocument, DropletDocument,
     ScalewayDocument, Doc, Trees
<1>3. h \notin FactsHosts /\ h \notin CpuHosts
  BY FactsHostsAssumption, CpuHostsAssumption DEF FactsHostOK, CpuHostOK
<1>4. h \notin IdentityHosts
  BY IdentityHostsAssumption DEF IdentityHostOK
<1>5. h \notin VirtHosts /\ h \notin HardwareHosts
  BY VirtHostsAssumption, HardwareHostsAssumption DEF VirtHostOK, HardwareHostOK
<1>6. h \notin ListingHosts
  BY ListingHostsAssumption DEF ListingHostOK, SourcesOf
<1>7. h \notin SourceHosts
  BY SourceHostsAssumption DEF SourceHostOK, Asked
<1> QED BY <1>1, <1>2, <1>3, <1>4, <1>5, <1>6, <1>7, NetworkHostsAssumption DEF Hosts

\* A host of a collector of storage or memory is one of StorageHosts.
LEMMA StorageHostsAreTheirOwn == ASSUME NEW h \in Hosts, h.of \in Reporters, h.of # "network" PROVE StorageHostOK(h)
<1>1. h \notin NetworkHosts
  BY NetworkHostsAssumption DEF NetworkHostOK, Reporters
<1>2. h \notin CloudHosts
  BY CloudHostsAssumption DEF CloudHostOK, AzureDocument, GceDocument, OciDocument, DropletDocument,
     ScalewayDocument, Doc, Trees, Reporters
<1>3. h \notin FactsHosts /\ h \notin CpuHosts
  BY FactsHostsAssumption, CpuHostsAssumption DEF FactsHostOK, CpuHostOK, Reporters
<1>4. h \notin IdentityHosts
  BY IdentityHostsAssumption DEF IdentityHostOK, Reporters
<1>5. h \notin VirtHosts /\ h \notin HardwareHosts
  BY VirtHostsAssumption, HardwareHostsAssumption DEF VirtHostOK, HardwareHostOK, Reporters
<1>6. h \notin ListingHosts
  BY ListingHostsAssumption DEF ListingHostOK, SourcesOf, Reporters
<1>7. h \notin SourceHosts
  BY SourceHostsAssumption DEF SourceHostOK, Asked, Reporters
<1> QED BY <1>1, <1>2, <1>3, <1>4, <1>5, <1>6, <1>7, StorageHostsAssumption DEF Hosts

\* A result of these collectors is of a host that is as their module has it.
ReportsAreOfHosts == ReportersInv /\ host \in Hosts

\* The invariant of these collectors holds.
THEOREM ReportersInvHolds == Spec => []ReportsAreOfHosts
<1>1. Init => ReportersInv
  BY DEF Init, NotYet, ReportersInv, Collected
<1>2. CollectorsInv => host \in Hosts
  BY DEF CollectorsInv
<1>3. ReportersInv /\ host \in Hosts => ReportsAreOfHosts
  BY DEF ReportsAreOfHosts
<1> QED BY <1>1, <1>2, <1>3, ReportersInvStep, CollectorsInvHolds, PTL DEF Spec

\* Amounts of memory are in bytes, whatever the lines and however many there are.
THEOREM MemoryIsInBytesHolds == Spec => []MemoryIsInBytes
<1>1. ASSUME ReportsAreOfHosts, Collected("memory") PROVE MemoryIsInBytes
  <2>1. host.of = "memory" /\ facts.info = MemoryInfo(host) /\ StorageHostOK(host)
    BY <1>1, StorageHostsAreTheirOwn DEF ReportsAreOfHosts, ReportersInv, Reporters
  <2>2. CASE host.darwin /\ host.vmStat.ok
    <3> DEFINE lines == host.vmStat.out
    <3> DEFINE Page(i) == IF {j \in 1..(i - 1) : lines[j].key = "page size" /\ lines[j].val > 0} = {} THEN 4096
                         ELSE lines[Max({j \in 1..(i - 1) : lines[j].key = "page size" /\ lines[j].val > 0})].val
    <3>1. ASSUME NEW i \in DOMAIN lines PROVE Page(i) = SizeAfter(lines, i - 1)
      BY Zenon DEF SizeAfter, Declared
    <3>2. ASSUME NEW i \in DOMAIN lines, lines[i].key = "compressed", \A j \in DOMAIN lines : j > i => lines[j].key # "compressed"
          PROVE facts.info.compressed = lines[i].val * Page(i)
      <4>1. facts.info.compressed = lines[i].val * SizeAfter(lines, i - 1)
        BY <2>1, <2>2, <3>2, MemoryCounts
      <4> HIDE DEF Page
      <4> QED BY <4>1, <3>1
    <3> QED BY <2>2, <3>2, Zenon DEF MemoryIsInBytes
  <2>3. CASE ~ host.darwin /\ host.meminfo.ok
    <3> DEFINE lines == host.meminfo.out
    <3>2. ASSUME NEW i \in DOMAIN lines, lines[i].key = "Shmem", \A j \in DOMAIN lines : j > i => lines[j].key # "Shmem"
          PROVE facts.info.shmem = MeminfoBytes(lines[i])
      BY <2>1, <2>3, <3>2, MemoryCounts
    <3> QED BY <2>3, <3>2, Zenon DEF MemoryIsInBytes
  <2> QED BY <2>2, <2>3, Zenon DEF MemoryIsInBytes
<1>2. ReportsAreOfHosts => MemoryIsInBytes
  BY <1>1, Zenon DEF MemoryIsInBytes
<1> QED BY <1>2, ReportersInvHolds, PTL

----------------------------------------------------------------------------
\* Arrays.

\* The names of a line's tokens that are members, or spares.
NamesOf(tokens, spare) ==
    LET those == Kept(tokens, {k \in DOMAIN tokens : tokens[k].name # None /\ (tokens[k].flag = "S") = spare})
    IN [k \in DOMAIN those |-> those[k].name]

DisksOf(tokens, spare) == {t.name : t \in {t \in Range(tokens) : t.name # None /\ (t.flag = "S") = spare}}

\* The names taken from the tokens of an array are those of its disks, or of its spares.
LEMMA NamesAreDisks ==
  ASSUME NEW tokens, IsSeq(tokens), NEW spare
  PROVE  Range(NamesOf(tokens, spare)) = DisksOf(tokens, spare)
<1> DEFINE Counts(t) == t.name # None /\ (t.flag = "S") = spare
           at == {k \in DOMAIN tokens : Counts(tokens[k])}
           those == Kept(tokens, at)
           n == Len(tokens)
<1>1. n \in Nat /\ DOMAIN tokens = 1 .. n
  BY LenProperties DEF IsSeq
<1>2. NamesOf(tokens, spare) = [k \in DOMAIN those |-> those[k].name]
  BY Zenon DEF NamesOf
<1>3. DisksOf(tokens, spare) = {t.name : t \in {t \in Range(tokens) : Counts(t)}}
  BY Zenon DEF DisksOf
<1>4. at \in SUBSET (1 .. n) /\ \A k \in 1 .. n : k \in at <=> Counts(tokens[k])
  BY <1>1
<1> HIDE DEF Counts, at, n
<1>5. Range(those) = {tokens[i] : i \in at}
  <2>1. n \in Nat /\ DOMAIN tokens = 1 .. n /\ at \in SUBSET (1 .. n)
    BY <1>1, <1>4
  <2>2. those = Kept(tokens, at)
    OBVIOUS
  <2> HIDE DEF those
  <2> QED BY <2>1, <2>2, KeptRange
<1>6. Range(tokens) = {tokens[i] : i \in 1 .. n}
  BY <1>1 DEF Range
<1> HIDE DEF those
<1>7. Range([k \in DOMAIN those |-> those[k].name]) = {t.name : t \in Range(those)}
  BY DEF Range
<1>8. Range(those) = {t \in Range(tokens) : Counts(t)}
  BY <1>4, <1>5, <1>6
<1> QED BY <1>2, <1>3, <1>7, <1>8

\* What /proc/mdstat says of an array, and what else may be said of it.
ArrayOf(d, tokens) ==
    [device |-> d, level |-> None, state |-> None, active |-> 0, total |-> 0, spare |-> 0,
     members |-> NamesOf(tokens, FALSE), spares |-> NamesOf(tokens, TRUE)]

\* What mdadm may make of an array without touching its disks.
Details(d, members, spares, words) ==
    [device : {d}, level : {None} \cup words, state : {None} \cup words, active : {0} \cup words, total : {0} \cup words,
     spare : {0} \cup words, members : {members}, spares : {spares}]

HasDisks(a, d, tokens) == a.device = d /\ a.members = NamesOf(tokens, FALSE) /\ a.spares = NamesOf(tokens, TRUE)

\* mdadm tells of an array what it is like, and not which disks it has.
LEMMA DetailsKeepDisks ==
  ASSUME NEW d, NEW tokens, NEW lines, IsSeq(lines)
  PROVE  HasDisks(ApplyDetail(ArrayOf(d, tokens), lines), d, tokens)
<1> DEFINE N == Len(lines)
           words == {lines[k].words[1] : k \in 1 .. N}
           start == ArrayOf(d, tokens)
           members == NamesOf(tokens, FALSE)
           spares == NamesOf(tokens, TRUE)
           S == Details(d, members, spares, words)
<1>1. N \in Nat /\ DOMAIN lines = 1 .. N
  BY LenProperties DEF IsSeq
<1>2. start = [device |-> d, level |-> None, state |-> None, active |-> 0, total |-> 0, spare |-> 0,
               members |-> members, spares |-> spares]
  BY DEF ArrayOf
<1>3. \A k \in 1 .. N : lines[k].words[1] \in words
  OBVIOUS
<1> HIDE DEF N, words, start, members, spares
<1>4. start \in S
  BY <1>2 DEF Details
<1>5. ASSUME NEW x \in S, NEW k \in 1 .. N PROVE DetailLine(x, lines[k]) \in S
  <2> DEFINE w == lines[k].words[1]
  <2>1. w \in words
    BY <1>3
  <2>2. \/ DetailLine(x, lines[k]) = [x EXCEPT !.level = w]
        \/ DetailLine(x, lines[k]) = [x EXCEPT !.state = w]
        \/ DetailLine(x, lines[k]) = [x EXCEPT !.active = w]
        \/ DetailLine(x, lines[k]) = [x EXCEPT !.total = w]
        \/ DetailLine(x, lines[k]) = [x EXCEPT !.spare = w]
        \/ DetailLine(x, lines[k]) = x
    BY DEF DetailLine
  <2> HIDE DEF w
  <2>3. /\ [x EXCEPT !.level = w] \in S /\ [x EXCEPT !.state = w] \in S /\ [x EXCEPT !.active = w] \in S
        /\ [x EXCEPT !.total = w] \in S /\ [x EXCEPT !.spare = w] \in S
    BY <2>1 DEF Details
  <2> HIDE DEF S
  <2> QED BY <2>2, <2>3
<1>6. PICK h : DetailTrace(start, lines, N, S, h)
  <2> HIDE DEF S
  <2> QED BY <1>1, <1>4, <1>5, DetailFold
<1>7. ApplyDetail(start, lines) \in S
  <2> HIDE DEF S
  <2>1. N \in 0 .. N
    BY <1>1
  <2> QED BY <1>6, <2>1 DEF DetailTrace
<1>8. \A x \in S : x.device = d /\ x.members = members /\ x.spares = spares
  BY DEF Details
<1> HIDE DEF S
<1> QED BY <1>7, <1>8 DEF start, members, spares, HasDisks

\* The line of an array that counts.
IsLastOf(lines, k, d) == lines[k].device = d /\ \A j \in DOMAIN lines : j > k => lines[j].device # lines[k].device

\* Of the lines of an array there is a last one, and it is the greatest of them.
LEMMA LastOfIsThere ==
  ASSUME NEW lines, IsSeq(lines), NEW d
  PROVE  /\ d \in {l.device : l \in Range(lines)} => \E k \in DOMAIN lines : IsLastOf(lines, k, d)
         /\ \A k \in DOMAIN lines : IsLastOf(lines, k, d) => k = Max({j \in DOMAIN lines : lines[j].device = d})
<1> DEFINE at == {j \in DOMAIN lines : lines[j].device = d}
           n == Len(lines)
<1>1. n \in Nat /\ DOMAIN lines = 1 .. n
  BY LenProperties DEF IsSeq
<1>2. at \in SUBSET (0 .. n) /\ \A j \in 1 .. n : j \in at <=> lines[j].device = d
  BY <1>1
<1>3. at \subseteq 1 .. n
  BY <1>1
<1> HIDE DEF at, n
<1>4. at # {} => Max(at) \in at /\ \A j \in at : j =< Max(at)
  BY <1>1, <1>2, MaxIsGreatest
<1>5. ASSUME at # {} PROVE IsLastOf(lines, Max(at), d) /\ Max(at) \in DOMAIN lines
  <2>1. Max(at) \in 1 .. n /\ lines[Max(at)].device = d
    BY <1>2, <1>3, <1>4, <1>5
  <2>2. ASSUME NEW j \in 1 .. n, j > Max(at) PROVE lines[j].device # d
    <3>1. ~ (j =< Max(at))
      BY <2>1, <2>2, <1>1
    <3> QED BY <1>2, <1>4, <1>5, <3>1
  <2> QED BY <1>1, <2>1, <2>2 DEF IsLastOf
<1>6. ASSUME NEW k \in 1 .. n, IsLastOf(lines, k, d) PROVE k = Max(at)
  <2>1. k \in at
    BY <1>2, <1>6 DEF IsLastOf
  <2>2. Max(at) \in 1 .. n /\ lines[Max(at)].device = d /\ k =< Max(at)
    BY <1>2, <1>3, <1>4, <2>1
  <2>3. ~ (Max(at) > k)
    BY <1>1, <1>6, <2>2 DEF IsLastOf
  <2> QED BY <1>1, <2>2, <2>3
<1>7. d \in {l.device : l \in Range(lines)} => at # {}
  BY <1>1, <1>2 DEF Range
<1> QED BY <1>1, <1>5, <1>6, <1>7 DEF at

\* What is parsed of /proc/mdstat: each array by the last of its lines.
LEMMA MdstatIsParsed ==
  ASSUME NEW lines, IsSeq(lines), NEW k \in DOMAIN lines, NEW d, d # None, IsLastOf(lines, k, d)
  PROVE  ParseMdstat(lines)[d] = ArrayOf(d, lines[k].tokens)
<1>1. k = Max({j \in DOMAIN lines : lines[j].device = d})
  BY LastOfIsThere
<1>2. d \in {l.device : l \in {l \in Range(lines) : l.device # None}}
  BY DEF IsLastOf, Range
<1> DEFINE devices == {l.device : l \in {l \in Range(lines) : l.device # None}}
           Of(e) == lines[Max({j \in DOMAIN lines : lines[j].device = e})].tokens
<1>3. ParseMdstat(lines) = [e \in devices |-> ArrayOf(e, Of(e))]
  BY Zenon DEF ParseMdstat, ArrayOf, NamesOf
<1>4. Of(d) = lines[k].tokens
  BY <1>1
<1> HIDE DEF devices, Of
<1> QED BY <1>2, <1>3, <1>4 DEF devices

\* The arrays are reported in the order of their names, each once, with the disks of the
\* last of its lines.
LEMMA ArraysHaveTheirDisks ==
  ASSUME NEW h, h.of = "mdadm", StorageHostOK(h), ~ h.missing, h.mdstat.ok
  PROVE  LET lines == h.mdstat.out
             arrays == CollectArrays(h)
             named == {l.device : l \in {l \in Range(lines) : l.device # None}}
         IN /\ \A i, j \in DOMAIN arrays : arrays[i].device = arrays[j].device => i = j
            /\ {a.device : a \in Range(arrays)} = named
            /\ \A a \in Range(arrays), k \in DOMAIN lines : IsLastOf(lines, k, a.device) =>
                 Range(a.members) = DisksOf(lines[k].tokens, FALSE) /\ Range(a.spares) = DisksOf(lines[k].tokens, TRUE)
<1> DEFINE lines == h.mdstat.out
           named == {l.device : l \in {l \in Range(lines) : l.device # None}}
           at == {k \in DOMAIN MdOrder : MdOrder[k] \in named}
           names == Kept(MdOrder, at)
           devices == ParseMdstat(lines)
           n == Len(MdOrder)
           arrays == CollectArrays(h)
<1>1. /\ IsSeq(lines) /\ \A l \in Range(lines) : l.device \in Range(MdOrder) \cup {None} /\ IsSeq(l.tokens)
      /\ \A d \in Range(MdOrder) : h.detail[d].ok => IsSeq(h.detail[d].out)
  BY DEF StorageHostOK, ListOf
<1>2. n \in Nat /\ DOMAIN MdOrder = 1 .. n /\ \A i, j \in 1 .. n : MdOrder[i] = MdOrder[j] => i = j
  <2>1. MdOrder \in Seq(Range(MdOrder)) /\ IsInjective(MdOrder)
    BY MdOrderAssumption
  <2>2. n \in Nat /\ DOMAIN MdOrder = 1 .. n
    BY <2>1, LenProperties
  <2> QED BY <2>1, <2>2 DEF IsInjective
<1>3. DOMAIN devices = named
  BY DEF ParseMdstat
<1>4. at \in SUBSET (1 .. n) /\ \A k \in 1 .. n : k \in at <=> MdOrder[k] \in named
  BY <1>2
<1>5. named \subseteq Range(MdOrder) /\ None \notin named
  BY <1>1
<1>6. arrays = [k \in DOMAIN names |-> IF h.detail[names[k]].ok THEN ApplyDetail(devices[names[k]], h.detail[names[k]].out)
                                       ELSE devices[names[k]]]
  BY <1>3, Zenon DEF CollectArrays, ArraysOf
<1>d. \A d \in named : d \in {l.device : l \in Range(lines)}
  OBVIOUS
<1> HIDE DEF at, n, named, devices
<1>7. /\ DOMAIN names = 1 .. Cardinality(at) /\ Range(names) = {MdOrder[i] : i \in at}
      /\ \A r \in 1 .. Cardinality(at) : \E i \in at : Rank(at, i) = r /\ names[r] = MdOrder[i]
  BY <1>2, <1>4, KeptHolds DEF n
<1>8. \A i, j \in DOMAIN names : names[i] = names[j] => i = j
  BY <1>2, <1>4, <1>7
<1>9. Range(names) = named
  <2>1. \A d \in named : \E i \in 1 .. n : MdOrder[i] = d
    BY <1>2, <1>5 DEF Range
  <2> QED BY <1>4, <1>7, <2>1
<1> HIDE DEF names, arrays
<1>10. ASSUME NEW r \in DOMAIN names, NEW k \in DOMAIN lines, IsLastOf(lines, k, names[r])
       PROVE  /\ arrays[r].device = names[r]
              /\ Range(arrays[r].members) = DisksOf(lines[k].tokens, FALSE)
              /\ Range(arrays[r].spares) = DisksOf(lines[k].tokens, TRUE)
  <2> DEFINE d == names[r]
             tokens == lines[k].tokens
             start == ArrayOf(d, tokens)
  <2>1. d \in named /\ d # None /\ IsSeq(tokens)
    BY <1>1, <1>5, <1>9 DEF Range
  <2>2. devices[d] = start
    BY <1>1, <1>10, <2>1, MdstatIsParsed DEF devices
  <2>3. start.device = d /\ start.members = NamesOf(tokens, FALSE) /\ start.spares = NamesOf(tokens, TRUE)
    BY DEF ArrayOf
  <2>4. arrays[r] = IF h.detail[d].ok THEN ApplyDetail(start, h.detail[d].out) ELSE start
    BY <1>6, <2>2
  <2>5. Range(NamesOf(tokens, FALSE)) = DisksOf(tokens, FALSE) /\ Range(NamesOf(tokens, TRUE)) = DisksOf(tokens, TRUE)
    BY <2>1, NamesAreDisks
  <2>6. CASE h.detail[d].ok
    <3>1. IsSeq(h.detail[d].out)
      BY <1>1, <1>5, <2>1, <2>6
    <3>2. HasDisks(ApplyDetail(start, h.detail[d].out), d, tokens)
      BY <3>1, DetailsKeepDisks
    <3> HIDE DEF start, tokens
    <3> QED BY <2>4, <2>5, <2>6, <3>2 DEF tokens, HasDisks
  <2>7. CASE ~ h.detail[d].ok
    <3> HIDE DEF start, tokens
    <3> QED BY <2>3, <2>4, <2>5, <2>7 DEF tokens
  <2> QED BY <2>6, <2>7
<1>11. \A r \in DOMAIN names : \E k \in DOMAIN lines : IsLastOf(lines, k, names[r])
  <2> SUFFICES ASSUME NEW r \in DOMAIN names PROVE \E k \in DOMAIN lines : IsLastOf(lines, k, names[r])
    OBVIOUS
  <2>1. names[r] \in {l.device : l \in Range(lines)}
    BY <1>9, <1>d DEF Range
  <2> QED BY <1>1, <2>1, LastOfIsThere
<1>12. DOMAIN arrays = DOMAIN names /\ \A r \in DOMAIN names : arrays[r].device = names[r]
  BY <1>6, <1>10, <1>11
<1>13. {a.device : a \in Range(arrays)} = named
  BY <1>9, <1>12 DEF Range
<1>14. \A i, j \in DOMAIN arrays : arrays[i].device = arrays[j].device => i = j
  BY <1>8, <1>12
<1>15. ASSUME NEW a \in Range(arrays), NEW k \in DOMAIN lines, IsLastOf(lines, k, a.device)
       PROVE  Range(a.members) = DisksOf(lines[k].tokens, FALSE) /\ Range(a.spares) = DisksOf(lines[k].tokens, TRUE)
  <2>1. PICK r \in DOMAIN names : a = arrays[r]
    BY <1>12 DEF Range
  <2> QED BY <1>10, <1>12, <1>15, <2>1
<1> QED BY <1>13, <1>14, <1>15 DEF named, arrays

\* The arrays of a machine are those of /proc/mdstat, each with its own disks, whatever
\* mdadm answers.
THEOREM ArraysKeepTheirDisksHolds == Spec => []ArraysKeepTheirDisks
<1>1. ASSUME ReportsAreOfHosts, Collected("mdadm"), ~ host.missing PROVE ArraysKeepTheirDisks
  <2> DEFINE lines == host.mdstat.out
             info == facts.info
             last == {k \in DOMAIN lines : lines[k].device # None /\ \A j \in DOMAIN lines : j > k => lines[j].device # lines[k].device}
  <2>1. host.of = "mdadm" /\ host.mdstat.ok /\ info = CollectArrays(host) /\ StorageHostOK(host)
    BY <1>1, StorageHostsAreTheirOwn DEF ReportsAreOfHosts, ReportersInv, Reporters
  <2>2. IsSeq(lines)
    BY <2>1 DEF StorageHostOK, ListOf
  <2>3. \A k \in DOMAIN lines : k \in last <=> lines[k].device # None /\ IsLastOf(lines, k, lines[k].device)
    BY DEF IsLastOf
  <2>4. /\ \A i, j \in DOMAIN info : info[i].device = info[j].device => i = j
        /\ {a.device : a \in Range(info)} = {l.device : l \in {l \in Range(lines) : l.device # None}}
        /\ \A a \in Range(info), k \in DOMAIN lines : IsLastOf(lines, k, a.device) =>
             Range(a.members) = DisksOf(lines[k].tokens, FALSE) /\ Range(a.spares) = DisksOf(lines[k].tokens, TRUE)
    BY <1>1, <2>1, ArraysHaveTheirDisks, Zenon
  <2>5. {l.device : l \in {l \in Range(lines) : l.device # None}} = {lines[k].device : k \in last}
    <3>1. ASSUME NEW d \in {l.device : l \in Range(lines)}, d # None PROVE \E k \in last : lines[k].device = d
      <4>1. PICK k \in DOMAIN lines : IsLastOf(lines, k, d)
        BY <2>2, <3>1, LastOfIsThere
      <4> QED BY <2>3, <3>1, <4>1 DEF IsLastOf
    <3>2. \A k \in last : lines[k] \in Range(lines) /\ lines[k].device # None
      BY DEF Range
    <3> HIDE DEF last
    <3> QED BY <3>1, <3>2
  <2>6. ASSUME NEW a \in Range(info), NEW k \in last, a.device = lines[k].device
        PROVE Range(a.members) = DisksOf(lines[k].tokens, FALSE) /\ Range(a.spares) = DisksOf(lines[k].tokens, TRUE)
    <3>1. k \in DOMAIN lines
      OBVIOUS
    <3>2. IsLastOf(lines, k, a.device)
      BY <2>3, <2>6, <3>1
    <3> HIDE DEF last
    <3> QED BY <2>4, <3>1, <3>2
  <2>7. {a.device : a \in Range(info)} = {lines[k].device : k \in last}
    BY <2>4, <2>5
  <2> DEFINE Disks(k) == {t \in Range(lines[k].tokens) : t.name # None}
             Spares(k) == {t.name : t \in {t \in Disks(k) : t.flag = "S"}}
             Active(k) == {t.name : t \in {t \in Disks(k) : t.flag = None}}
             NotSpare(k) == {t.name : t \in {t \in Disks(k) : t.flag # "S"}}
  <2>8. \A k \in last : /\ DisksOf(lines[k].tokens, TRUE) = Spares(k)
                        /\ DisksOf(lines[k].tokens, FALSE) = NotSpare(k)
                        /\ Active(k) \subseteq NotSpare(k)
    <3> SUFFICES ASSUME NEW k \in last
                 PROVE  /\ DisksOf(lines[k].tokens, TRUE) = Spares(k)
                        /\ DisksOf(lines[k].tokens, FALSE) = NotSpare(k)
                        /\ Active(k) \subseteq NotSpare(k)
      BY Zenon
    <3> DEFINE Flagged(t) == t.flag = "S"
               all == Range(lines[k].tokens)
    <3> HIDE DEF last, all
    <3>1. \A t : (Flagged(t) = TRUE <=> t.flag = "S") /\ (Flagged(t) = FALSE <=> t.flag # "S")
      BY Zenon
    <3>2. None # "S"
      BY DEF None
    <3>3. {t.name : t \in {t \in all : t.name # None /\ Flagged(t) = TRUE}}
              = {t.name : t \in {t \in {t \in all : t.name # None} : t.flag = "S"}}
      BY <3>1, Zenon
    <3>4. {t.name : t \in {t \in all : t.name # None /\ Flagged(t) = FALSE}}
              = {t.name : t \in {t \in {t \in all : t.name # None} : t.flag # "S"}}
      BY <3>1, Zenon
    <3>5. \A t : t.flag = None => t.flag # "S"
      BY <3>2, Zenon
    <3> QED BY <3>3, <3>4, <3>5, Zenon DEF DisksOf, Flagged, all, Disks, Spares, Active, NotSpare
  <2> HIDE DEF Spares, Active, NotSpare
  <2>9. ASSUME NEW a \in Range(info), NEW k \in last, a.device = lines[k].device
        PROVE  /\ Range(a.spares) = Spares(k)
               /\ Active(k) \subseteq Range(a.members) /\ Range(a.members) \subseteq NotSpare(k)
    <3>1. Range(a.members) = DisksOf(lines[k].tokens, FALSE) /\ Range(a.spares) = DisksOf(lines[k].tokens, TRUE)
      BY <2>6, <2>9
    <3> HIDE DEF last
    <3> QED BY <2>8, <3>1
  <2> QED BY <2>4, <2>7, <2>9, Zenon DEF ArraysKeepTheirDisks, Disks, Spares, Active, NotSpare
<1>2. ReportsAreOfHosts => ArraysKeepTheirDisks
  BY <1>1, Zenon DEF ArraysKeepTheirDisks
<1> QED BY <1>2, ReportersInvHolds, PTL

----------------------------------------------------------------------------
\* Filesystems.

MountFields == {"device", "mountpoint", "type", "usage", "id", "btrfs"}

\* What lsblk adds to mounts: identities, of entries that have their device.
IsMergedWith(m, of, entries) ==
    /\ DOMAIN m = MountFields /\ m.device = of.device /\ m.type = of.type /\ m.btrfs = of.btrfs
    /\ m.id = of.id \/ \E e \in Range(entries) : e.device = m.device /\ e.id = m.id

\* lsblk changes the identity of mounts only, to that of an entry for their device.
LEMMA LsblkAddsIdentities ==
  ASSUME NEW mounts, \A k \in DOMAIN mounts : DOMAIN mounts[k] = MountFields,
         NEW entries, NEW c \in Nat, DOMAIN entries = 1 .. c
  PROVE  /\ DOMAIN MergeLsblk(mounts, entries) = DOMAIN mounts
         /\ \A k \in DOMAIN mounts : IsMergedWith(MergeLsblk(mounts, entries)[k], mounts[k], entries)
<1> DEFINE Entry(m) == Max({0} \cup {k \in DOMAIN entries : entries[k].device = m.device})
           IsFirst(k) == \A j \in 1..(k - 1) : mounts[j].device # mounts[k].device
           Enriched(k) == IF IsFirst(k) /\ Entry(mounts[k]) # 0
                          THEN [mounts[k] EXCEPT !.id = entries[Entry(mounts[k])].id] ELSE mounts[k]
<1>1. MergeLsblk(mounts, entries) = [k \in DOMAIN mounts |-> Enriched(k)]
  BY Zenon DEF MergeLsblk
<1>2. ASSUME NEW k \in DOMAIN mounts PROVE IsMergedWith(Enriched(k), mounts[k], entries)
  <2> DEFINE m == mounts[k]
             at == {0} \cup {j \in DOMAIN entries : entries[j].device = m.device}
             e == Max(at)
  <2>1. Enriched(k) = m \/ (e # 0 /\ Enriched(k) = [m EXCEPT !.id = entries[e].id])
    OBVIOUS
  <2>2. at \in SUBSET (0 .. c) /\ at # {}
    OBVIOUS
  <2>3. e \in at
    <3> HIDE DEF at
    <3> QED BY <2>2, MaxIsGreatest
  <2>4. e # 0 => entries[e] \in Range(entries) /\ entries[e].device = m.device
    BY <2>3 DEF Range
  <2> HIDE DEF at, e, Enriched
  <2>5. DOMAIN m = MountFields
    OBVIOUS
  <2> HIDE DEF m
  <2>6. DOMAIN m = MountFields => IsMergedWith(m, m, entries)
    BY DEF IsMergedWith
  <2>7. ASSUME NEW id, \E x \in Range(entries) : x.device = m.device /\ x.id = id
        PROVE  IsMergedWith([m EXCEPT !.id = id], m, entries)
    BY <2>5, <2>7 DEF IsMergedWith, MountFields
  <2> QED BY <2>1, <2>4, <2>5, <2>6, <2>7 DEF m
<1> HIDE DEF Enriched
<1> QED BY <1>1, <1>2

\* What sysfs adds to mounts: what it has of the filesystem with their identity.
HasBtrfsOf(m, of, groups) ==
    /\ m.device = of.device /\ m.type = of.type /\ m.id = of.id
    /\ m.btrfs = of.btrfs \/ (m.type = "btrfs" /\ m.id \in DOMAIN groups /\ m.btrfs = ReadBtrfsInfo(groups[m.id]))

\* /sys/fs/btrfs adds to a btrfs mount the numbers of its own filesystem only.
LEMMA SysfsAddsGroups ==
  ASSUME NEW h, NEW mounts, \A k \in DOMAIN mounts : DOMAIN mounts[k] = MountFields
  PROVE  /\ DOMAIN WithBtrfs(h, mounts) = DOMAIN mounts
         /\ \A k \in DOMAIN mounts : HasBtrfsOf(WithBtrfs(h, mounts)[k], mounts[k], h.btrfs)
<1> DEFINE Eligible(m) == m.type = "btrfs" /\ m.id \in DOMAIN h.btrfs
           With(k) == IF Eligible(mounts[k])
                      THEN [mounts[k] EXCEPT !.btrfs = ReadBtrfsInfo(h.btrfs[mounts[k].id])] ELSE mounts[k]
<1>1. WithBtrfs(h, mounts) = [k \in DOMAIN mounts |-> With(k)]
  BY Zenon DEF WithBtrfs
<1>2. ASSUME NEW k \in DOMAIN mounts PROVE HasBtrfsOf(With(k), mounts[k], h.btrfs)
  <2> DEFINE m == mounts[k]
             info == ReadBtrfsInfo(h.btrfs[m.id])
  <2>1. With(k) = m \/ (m.type = "btrfs" /\ m.id \in DOMAIN h.btrfs /\ With(k) = [m EXCEPT !.btrfs = info])
    OBVIOUS
  <2>2. DOMAIN m = MountFields
    OBVIOUS
  <2>3. info = ReadBtrfsInfo(h.btrfs[m.id])
    OBVIOUS
  <2> HIDE DEF m, info, With
  <2>4. LET n == [m EXCEPT !.btrfs = info] IN n.device = m.device /\ n.type = m.type /\ n.id = m.id /\ n.btrfs = info
    BY <2>2 DEF MountFields
  <2> QED BY <2>1, <2>3, <2>4 DEF m, HasBtrfsOf
<1> HIDE DEF With
<1> QED BY <1>1, <1>2

\* What lsblk shows of a host, if it answers.
EntriesOf(h) == IF h.lsblk.ok THEN ParseLsblk(h.lsblk.out) ELSE <<>>

\* A mount that is reported is one of the table, with its type; an identity is that of an
\* entry with its device, and what it has of btrfs is of its identity.
IsReported(m, of, h) ==
    /\ m.device = of.device /\ m.type = of.type
    /\ m.id = None \/ \E e \in Range(EntriesOf(h)) : e.device = m.device /\ e.id = m.id
    /\ m.btrfs = Nil \/ (m.type = "btrfs" /\ m.id \in DOMAIN h.btrfs /\ m.btrfs = ReadBtrfsInfo(h.btrfs[m.id]))

\* Every mount is reported so, and the entries are those of lsblk that have a type.
LEMMA MountsAreReported ==
  ASSUME NEW h, h.of = "filesystem", StorageHostOK(h), h.mounts.ok
  PROVE  /\ DOMAIN FilesystemInfo(h).mounts = DOMAIN h.mounts.out
         /\ \A k \in DOMAIN h.mounts.out : IsReported(FilesystemInfo(h).mounts[k], h.mounts.out[k], h)
         /\ \E c \in Nat : DOMAIN EntriesOf(h) = 1 .. c
         /\ Range(EntriesOf(h)) = IF h.lsblk.ok THEN {n \in Range(h.lsblk.out) : n.fstype # None} ELSE {}
<1> DEFINE table == h.mounts.out
           mounts == ListMounts(h)
           entries == EntriesOf(h)
           nodes == h.lsblk.out
           info == FilesystemInfo(h)
<1>1. \A k \in DOMAIN table : /\ DOMAIN mounts[k] = MountFields /\ mounts[k].device = table[k].device
                              /\ mounts[k].type = table[k].type /\ mounts[k].id = None /\ mounts[k].btrfs = Nil
  BY DEF ListMounts, MountFields
<1>2. DOMAIN mounts = DOMAIN table
  BY DEF ListMounts
<1>3. /\ \E c \in Nat : DOMAIN entries = 1 .. c
      /\ Range(entries) = IF h.lsblk.ok THEN {n \in Range(nodes) : n.fstype # None} ELSE {}
  <2>1. CASE h.lsblk.ok
    <3> DEFINE Has(n) == n.fstype # None
               at == {k \in DOMAIN nodes : Has(nodes[k])}
               n == Len(nodes)
    <3>1. IsSeq(nodes)
      BY <2>1 DEF StorageHostOK, ListOf
    <3>2. n \in Nat /\ DOMAIN nodes = 1 .. n
      BY <3>1, LenProperties DEF IsSeq
    <3>3. entries = Kept(nodes, at)
      BY <2>1 DEF EntriesOf, ParseLsblk
    <3>4. at \in SUBSET (1 .. n) /\ \A k \in 1 .. n : k \in at <=> Has(nodes[k])
      BY <3>2
    <3>5. Range(nodes) = {nodes[k] : k \in 1 .. n}
      BY <3>2 DEF Range
    <3>6. {n1 \in Range(nodes) : n1.fstype # None} = {n1 \in Range(nodes) : Has(n1)}
      OBVIOUS
    <3> HIDE DEF Has, at, n, entries
    <3>7. /\ Cardinality(at) \in Nat /\ DOMAIN entries = 1 .. Cardinality(at)
          /\ Range(entries) = {nodes[i] : i \in at}
      BY <3>2, <3>3, <3>4, KeptHolds
    <3>8. {nodes[i] : i \in at} = {n1 \in Range(nodes) : Has(n1)}
      BY <3>4, <3>5
    <3> QED BY <2>1, <3>6, <3>7, <3>8
  <2>2. CASE ~ h.lsblk.ok
    <3>1. entries = <<>>
      BY <2>2 DEF EntriesOf
    <3>2. DOMAIN entries = 1 .. 0 /\ Range(entries) = {}
      BY <3>1 DEF Range
    <3> QED BY <2>2, <3>2
  <2> QED BY <2>1, <2>2
<1>4. CASE h.darwin
  <2>1. info.mounts = mounts
    BY <1>4, Zenon DEF FilesystemInfo
  <2> HIDE DEF mounts, info, entries
  <2>2. \A k \in DOMAIN table : IsReported(info.mounts[k], table[k], h)
    BY <1>1, <2>1 DEF IsReported
  <2> QED BY <1>2, <1>3, <2>1, <2>2 DEF info, entries
<1>5. CASE ~ h.darwin
  <2> DEFINE merged == MergeLsblk(mounts, entries)
             with == WithBtrfs(h, merged)
  <2>1. info.mounts = with
    <3>1. info = [mounts |-> with, unmounted |-> UnmountedOf(mounts, entries),
                  zfs |-> IF h.zfs.ok THEN ParseZFSGetAll(h.zfs.out) ELSE <<>>]
      BY <1>5, Zenon DEF FilesystemInfo, EntriesOf
    <3> HIDE DEF info, with
    <3> QED BY <3>1
  <2> HIDE DEF mounts, entries
  <2>2. DOMAIN merged = DOMAIN mounts /\ \A k \in DOMAIN mounts : IsMergedWith(merged[k], mounts[k], entries)
    BY <1>1, <1>2, <1>3, LsblkAddsIdentities
  <2> HIDE DEF merged
  <2>3. \A k \in DOMAIN merged : DOMAIN merged[k] = MountFields
    BY <2>2 DEF IsMergedWith
  <2>4. DOMAIN with = DOMAIN merged /\ \A k \in DOMAIN merged : HasBtrfsOf(with[k], merged[k], h.btrfs)
    BY <2>3, SysfsAddsGroups
  <2> HIDE DEF with
  <2>5. ASSUME NEW k \in DOMAIN table PROVE IsReported(with[k], table[k], h)
    <3>1. IsMergedWith(merged[k], mounts[k], entries) /\ HasBtrfsOf(with[k], merged[k], h.btrfs)
      BY <1>2, <2>2, <2>4
    <3> QED BY <1>1, <3>1 DEF IsMergedWith, HasBtrfsOf, IsReported, entries
  <2> QED BY <1>2, <1>3, <2>1, <2>2, <2>4, <2>5 DEF entries
<1> QED BY <1>4, <1>5

\* What is left of the entries.
LEMMA UnmountedAreTheRest ==
  ASSUME NEW mounts, NEW entries, NEW c \in Nat, DOMAIN entries = 1 .. c
  PROVE  Range(UnmountedOf(mounts, entries))
           = {e \in Range(entries) : e.mountpoint = None /\ \A m \in Range(mounts) : m.device # e.device}
<1> DEFINE IsMounted(e) == e.mountpoint # None \/ \E m \in Range(mounts) : m.device = e.device
           at == {k \in DOMAIN entries : ~ IsMounted(entries[k])}
           rest == UnmountedOf(mounts, entries)
<1>1. rest = Kept(entries, at)
  BY Zenon DEF UnmountedOf
<1>2. at \in SUBSET (1 .. c) /\ \A k \in 1 .. c : k \in at <=> ~ IsMounted(entries[k])
  OBVIOUS
<1>3. \A e : ~ IsMounted(e) <=> e.mountpoint = None /\ \A m \in Range(mounts) : m.device # e.device
  OBVIOUS
<1>4. Range(entries) = {entries[k] : k \in 1 .. c}
  BY DEF Range
<1> HIDE DEF IsMounted, at, rest
<1>5. Range(rest) = {entries[i] : i \in at}
  BY <1>1, <1>2, KeptHolds
<1>6. {entries[i] : i \in at} = {e \in Range(entries) : ~ IsMounted(e)}
  BY <1>2, <1>4
<1>7. {e \in Range(entries) : ~ IsMounted(e)}
        = {e \in Range(entries) : e.mountpoint = None /\ \A m \in Range(mounts) : m.device # e.device}
  BY <1>3
<1> QED BY <1>5, <1>6, <1>7 DEF rest

\* No filesystem that lsblk names is lost or is two things at once, whatever the mount
\* table has and however often a device is named.
THEOREM FilesystemsArePlacedHolds == Spec => []FilesystemsArePlaced
<1>1. ASSUME ReportsAreOfHosts, Collected("filesystem"), ~ host.darwin, host.lsblk.ok PROVE FilesystemsArePlaced
  <2> DEFINE info == facts.info
             table == host.mounts.out
             mounts == ListMounts(host)
             entries == EntriesOf(host)
             nodes == host.lsblk.out
             mounted == {m.device : m \in Range(info.mounts)}
             unmounted == {e.device : e \in Range(info.unmounted)}
  <2>1. host.of = "filesystem" /\ host.mounts.ok /\ info = FilesystemInfo(host) /\ StorageHostOK(host)
    BY <1>1, StorageHostsAreTheirOwn DEF ReportsAreOfHosts, ReportersInv, Reporters
  <2>2. /\ DOMAIN info.mounts = DOMAIN table /\ \A k \in DOMAIN table : info.mounts[k].device = table[k].device
        /\ \E c \in Nat : DOMAIN entries = 1 .. c
        /\ Range(entries) = {n \in Range(nodes) : n.fstype # None}
    <3>1. /\ DOMAIN FilesystemInfo(host).mounts = DOMAIN table
          /\ \A k \in DOMAIN table : IsReported(FilesystemInfo(host).mounts[k], table[k], host)
          /\ \E c \in Nat : DOMAIN entries = 1 .. c
          /\ Range(entries) = IF host.lsblk.ok THEN {n \in Range(nodes) : n.fstype # None} ELSE {}
      BY <2>1, MountsAreReported
    <3>2. \A k \in DOMAIN table : info.mounts[k].device = table[k].device
      BY <2>1, <3>1 DEF IsReported
    <3> HIDE DEF entries, nodes, table
    <3> QED BY <1>1, <2>1, <3>1, <3>2
  <2>3. DOMAIN mounts = DOMAIN table /\ \A k \in DOMAIN table : mounts[k].device = table[k].device
    BY DEF ListMounts
  <2>4. info.unmounted = UnmountedOf(mounts, entries)
    <3> DEFINE with == WithBtrfs(host, MergeLsblk(mounts, entries))
               rest == UnmountedOf(mounts, entries)
               zfs == IF host.zfs.ok THEN ParseZFSGetAll(host.zfs.out) ELSE <<>>
    <3>1. info = [mounts |-> with, unmounted |-> rest, zfs |-> zfs]
      BY <1>1, <2>1, Zenon DEF FilesystemInfo, EntriesOf
    <3> HIDE DEF info, with, rest, zfs
    <3>2. info.unmounted = rest
      BY <3>1
    <3> QED BY <3>2 DEF rest
  <2> HIDE DEF info, table, mounts, entries, nodes
  <2>5. Range(info.unmounted) = {e \in Range(entries) : e.mountpoint = None /\ \A m \in Range(mounts) : m.device # e.device}
    BY <2>2, <2>4, UnmountedAreTheRest
  <2>6. mounted = {m.device : m \in Range(mounts)}
    BY <2>2, <2>3 DEF Range
  <2> HIDE DEF mounted
  <2>7. mounted \cap unmounted = {}
    BY <2>5, <2>6
  <2>8. ASSUME NEW n \in Range(nodes), n.fstype # None PROVE n.device \in mounted \cup unmounted \/ n.mountpoint # None
    <3>1. n \in Range(entries)
      BY <2>2, <2>8
    <3>2. CASE n \in Range(info.unmounted)
      BY <3>2
    <3>3. CASE n \notin Range(info.unmounted)
      <4>1. n.mountpoint # None \/ \E m \in Range(mounts) : m.device = n.device
        BY <2>5, <3>1, <3>3
      <4> QED BY <2>6, <4>1
    <3> QED BY <3>2, <3>3
  <2> QED BY <2>7, <2>8, Zenon DEF FilesystemsArePlaced, info, mounted, nodes
<1>2. ReportsAreOfHosts => FilesystemsArePlaced
  BY <1>1, Zenon DEF FilesystemsArePlaced
<1> QED BY <1>2, ReportersInvHolds, PTL

----------------------------------------------------------------------------
\* What sysfs says of btrfs.

\* The profiles of a block group that are known.
Known(groups, g) == IF g \in DOMAIN groups THEN groups[g].profiles \cap Range(Profiles) ELSE {}

\* A profile is one that the block group has, if it has any that is known.
LEMMA ProfileIsOfItsGroup ==
  ASSUME NEW group
  PROVE  IF group.profiles \cap Range(Profiles) = {} THEN DetectBtrfsRAID(group) = None
         ELSE DetectBtrfsRAID(group) \in group.profiles \cap Range(Profiles) /\ DetectBtrfsRAID(group) # None
<1> DEFINE found == {k \in DOMAIN Profiles : Profiles[k] \in group.profiles}
<1>1. DOMAIN Profiles = 1 .. 4 /\ \A k \in 1 .. 4 : Profiles[k] # None /\ Profiles[k] \in Range(Profiles)
  BY DEF Profiles, Range, None
<1>2. found \in SUBSET Nat /\ \A k \in 1 .. 4 : k \in found <=> Profiles[k] \in group.profiles
  BY <1>1
<1>3. Range(Profiles) = {Profiles[k] : k \in 1 .. 4}
  BY <1>1 DEF Range
<1>4. found \subseteq 1 .. 4
  BY <1>1
<1>5. DetectBtrfsRAID(group) = IF found = {} THEN None ELSE Profiles[Min(found)]
  BY Zenon DEF DetectBtrfsRAID
<1> HIDE DEF found
<1>6. found # {} => Min(found) \in found
  BY <1>2, MinIsLeast
<1>7. found = {} <=> group.profiles \cap Range(Profiles) = {}
  BY <1>2, <1>3, <1>4
<1> QED BY <1>1, <1>2, <1>4, <1>5, <1>6, <1>7

\* What is found of a filesystem's profile, block group by block group.
BtrfsStep(groups, r, k) ==
    IF BlockGroups[k] \in DOMAIN groups /\ DetectBtrfsRAID(groups[BlockGroups[k]]) # None
    THEN DetectBtrfsRAID(groups[BlockGroups[k]]) ELSE r

BtrfsTrace(groups, h) ==
    /\ h[0] = None
    /\ \A k \in 1 .. 3 : h[k] = BtrfsStep(groups, h[k - 1], k)

\* The profile of a filesystem is made in three steps, one of each block group.
LEMMA BtrfsFold ==
  ASSUME NEW groups, groups # Empty
  PROVE  \E h : BtrfsTrace(groups, h) /\ \A b \in ReadBtrfsInfo(groups) : b.raid = h[3]
<1> DEFINE N == 3
           start == None
           S == {None} \cup {DetectBtrfsRAID(groups[BlockGroups[k]]) : k \in 1 .. N}
           Step(m, k) == BtrfsStep(groups, m, k)
           step == [x \in S \X (1 .. N) |-> Step(x[1], x[2])]
           Iter(it) == it = [s \in SUBSET (1 .. N) |-> IF s = {} THEN start ELSE Step(it[s \ {Max(s)}], Max(s))]
           iter == CHOOSE it : Iter(it)
<1>0. DOMAIN BlockGroups = 1 .. N /\ N \in Nat
  BY DEF BlockGroups
<1>1. ReadBtrfsInfo(groups) = {[allocation |-> [g \in DOMAIN groups |-> groups[g].bytes], raid |-> iter[1 .. N]]}
  BY <1>0, Zenon DEF ReadBtrfsInfo, FoldLeft, MapThenFoldSet, BtrfsStep
<1>2. start \in S /\ \A m \in S, k \in 1 .. N : Step(m, k) \in S
  BY DEF BtrfsStep
<1> HIDE DEF Step, S
<1>3. step \in [S \X (1 .. N) -> S] /\ \A m \in S, k \in 1 .. N : step[<<m, k>>] = Step(m, k)
  BY <1>2
<1> HIDE DEF step, N
<1>4. \E it : Iter(it)
  <2>1. PICK it \in [SUBSET (1 .. N) -> S] : \A s \in SUBSET (1 .. N) :
            /\ it[s] = IF s = {} THEN start ELSE step[<<it[s \ {Max(s)}], Max(s)>>]
            /\ s # {} => it[s \ {Max(s)}] \in S /\ Max(s) \in 1 .. N
    BY <1>0, <1>2, <1>3, FoldExists
  <2> HIDE DEF iter
  <2>2. ASSUME NEW s \in SUBSET (1 .. N) PROVE it[s] = IF s = {} THEN start ELSE Step(it[s \ {Max(s)}], Max(s))
    BY <2>1, <1>3
  <2>3. Iter(it)
    BY <2>2
  <2> HIDE DEF Iter
  <2> QED BY <2>3
<1>5. Iter(iter)
  BY Zenon, <1>4
<1> HIDE DEF iter
<1>6. iter[{}] = start
  BY <1>5
<1>7. ASSUME NEW s \in SUBSET (1 .. N), s # {}, iter[s \ {Max(s)}] \in S, Max(s) \in 1 .. N
      PROVE iter[s] = step[<<iter[s \ {Max(s)}], Max(s)>>]
  BY <1>3, <1>5, <1>7
<1> HIDE DEF start
<1>8. IsFold(S, start, N, step, iter)
  BY <1>0, <1>2, <1>3, <1>6, <1>7 DEF IsFold
<1>9. PICK h : IsTrace(S, start, N, step, iter, h)
  BY <1>0, <1>8, FoldSteps
<1>10. h \in [0 .. N -> S] /\ h[0] = start /\ h[N] = iter[1 .. N]
  BY <1>9 DEF IsTrace
<1>11. ASSUME NEW k \in 1 .. N PROVE h[k] = Step(h[k - 1], k)
  <2>1. h[k - 1] \in S
    BY <1>0, <1>10
  <2> QED BY <2>1, <1>9, <1>3 DEF IsTrace
<1>12. BtrfsTrace(groups, h)
  BY <1>10, <1>11 DEF N, Step, start, BtrfsTrace
<1>13. \A b \in ReadBtrfsInfo(groups) : b.raid = h[3]
  <2> DEFINE all == [g \in DOMAIN groups |-> groups[g].bytes]
             one == [allocation |-> all, raid |-> iter[1 .. N]]
  <2>1. ReadBtrfsInfo(groups) = {one}
    BY <1>1
  <2>2. one.raid = h[3]
    BY <1>10 DEF N
  <2> HIDE DEF one
  <2> QED BY <2>1, <2>2
<1> QED BY <1>12, <1>13

\* A filesystem has a profile if, and only if, one of its block groups has, and then it
\* is a profile of one of them.
LEMMA BtrfsHasAProfile ==
  ASSUME NEW groups, DOMAIN groups \subseteq Range(BlockGroups), NEW b \in ReadBtrfsInfo(groups)
  PROVE  LET profiles == (UNION {g.profiles : g \in Range(groups)}) \cap Range(Profiles)
         IN IF profiles = {} THEN b.raid = None ELSE b.raid \in profiles
<1> DEFINE profiles == (UNION {g.profiles : g \in Range(groups)}) \cap Range(Profiles)
           K(k) == Known(groups, BlockGroups[k])
<1>1. groups # Empty
  BY DEF ReadBtrfsInfo, Nil
<1>2. PICK h : BtrfsTrace(groups, h) /\ \A x \in ReadBtrfsInfo(groups) : x.raid = h[3]
  BY <1>1, BtrfsFold
<1>3. ASSUME NEW k \in 1 .. 3
      PROVE IF K(k) = {} THEN h[k] = h[k - 1] ELSE h[k] \in K(k)
  <2> DEFINE g == BlockGroups[k]
             d == DetectBtrfsRAID(groups[g])
  <2>1. h[k] = IF g \in DOMAIN groups /\ d # None THEN d ELSE h[k - 1]
    BY <1>2 DEF BtrfsTrace, BtrfsStep
  <2>2. IF groups[g].profiles \cap Range(Profiles) = {} THEN d = None
        ELSE d \in groups[g].profiles \cap Range(Profiles) /\ d # None
    BY ProfileIsOfItsGroup
  <2>3. K(k) = IF g \in DOMAIN groups THEN groups[g].profiles \cap Range(Profiles) ELSE {}
    BY DEF Known
  <2> HIDE DEF g, d, K
  <2> QED BY <2>1, <2>2, <2>3
<1>4. profiles = K(1) \cup K(2) \cup K(3)
  <2>1. \A g \in DOMAIN groups : g = BlockGroups[1] \/ g = BlockGroups[2] \/ g = BlockGroups[3]
    BY DEF BlockGroups, Range
  <2>2. profiles = UNION {Known(groups, g) : g \in DOMAIN groups}
    <3> DEFINE P(g) == groups[g].profiles
               U == UNION {P(g) : g \in DOMAIN groups}
               V == UNION {g.profiles : g \in Range(groups)}
               W == UNION {Known(groups, g) : g \in DOMAIN groups}
    <3>1. V = U
      BY DEF Range
    <3>2. \A g \in DOMAIN groups : Known(groups, g) = P(g) \cap Range(Profiles)
      BY DEF Known
    <3>v. profiles = V \cap Range(Profiles)
      BY Zenon
    <3> HIDE DEF U, V
    <3>3. profiles = U \cap Range(Profiles)
      BY <3>1, <3>v
    <3> USE DEF U
    <3> HIDE DEF P, profiles
    <3>4. ASSUME NEW x \in W PROVE x \in U \cap Range(Profiles)
      BY <3>2
    <3>5. ASSUME NEW x \in U \cap Range(Profiles) PROVE x \in W
      BY <3>2
    <3> HIDE DEF U, W
    <3>6. profiles = W
      BY <3>3, <3>4, <3>5
    <3> QED BY <3>6 DEF W
  <2>3. \A g : g \notin DOMAIN groups => Known(groups, g) = {}
    BY DEF Known
  <2> HIDE DEF profiles
  <2>4. profiles \subseteq K(1) \cup K(2) \cup K(3)
    BY <2>1, <2>2
  <2>5. \A g : Known(groups, g) \subseteq profiles
    BY <2>2, <2>3
  <2> QED BY <2>4, <2>5
<1>5. h[0] = None /\ b.raid = h[3]
  BY <1>2 DEF BtrfsTrace
<1> HIDE DEF K, profiles
<1>6. /\ IF K(1) = {} THEN h[1] = h[0] ELSE h[1] \in K(1)
      /\ IF K(2) = {} THEN h[2] = h[1] ELSE h[2] \in K(2)
      /\ IF K(3) = {} THEN h[3] = h[2] ELSE h[3] \in K(3)
  <2>1. 1 - 1 = 0 /\ 2 - 1 = 1 /\ 3 - 1 = 2 /\ 1 \in 1 .. 3 /\ 2 \in 1 .. 3 /\ 3 \in 1 .. 3
    OBVIOUS
  <2> QED BY <1>3, <2>1
<1>7. IF profiles = {} THEN b.raid = None ELSE b.raid \in profiles
  BY <1>4, <1>5, <1>6
<1> QED BY <1>7, Zenon DEF profiles

\* What is reported of a btrfs filesystem is on a mount of that filesystem, with a profile
\* if one of its block groups has one.
THEOREM BtrfsIsOfItsMountHolds == Spec => []BtrfsIsOfItsMount
<1>1. ASSUME ReportsAreOfHosts, Collected("filesystem"), NEW m \in Range(facts.info.mounts), NEW b \in m.btrfs
      PROVE  /\ m.type = "btrfs" /\ \E n \in Range(host.lsblk.out) : n.device = m.device /\ n.id = m.id
             /\ LET profiles == (UNION {g.profiles : g \in Range(host.btrfs[m.id])}) \cap Range(Profiles)
                IN IF profiles = {} THEN b.raid = None ELSE b.raid \in profiles
  <2>1. host.of = "filesystem" /\ host.mounts.ok /\ facts.info = FilesystemInfo(host) /\ StorageHostOK(host)
    BY <1>1, StorageHostsAreTheirOwn DEF ReportsAreOfHosts, ReportersInv, Reporters
  <2>2. /\ DOMAIN FilesystemInfo(host).mounts = DOMAIN host.mounts.out
        /\ \A k \in DOMAIN host.mounts.out : IsReported(FilesystemInfo(host).mounts[k], host.mounts.out[k], host)
        /\ Range(EntriesOf(host)) = IF host.lsblk.ok THEN {n \in Range(host.lsblk.out) : n.fstype # None} ELSE {}
    BY <2>1, MountsAreReported
  <2>3. PICK k \in DOMAIN host.mounts.out : IsReported(m, host.mounts.out[k], host)
    BY <2>1, <2>2 DEF Range
  <2>4. m.btrfs # Nil
    BY DEF Nil
  <2>5. /\ m.id = None \/ \E e \in Range(EntriesOf(host)) : e.device = m.device /\ e.id = m.id
        /\ m.type = "btrfs" /\ m.id \in DOMAIN host.btrfs /\ m.btrfs = ReadBtrfsInfo(host.btrfs[m.id])
    BY <2>3, <2>4 DEF IsReported
  <2>6. None \notin DOMAIN host.btrfs /\ \A id \in DOMAIN host.btrfs : DOMAIN host.btrfs[id] \subseteq Range(BlockGroups)
    BY <2>1 DEF StorageHostOK
  <2>7. \E n \in Range(host.lsblk.out) : n.device = m.device /\ n.id = m.id
    BY <2>2, <2>5, <2>6
  <2>8. b \in ReadBtrfsInfo(host.btrfs[m.id]) /\ DOMAIN host.btrfs[m.id] \subseteq Range(BlockGroups)
    BY <2>5, <2>6
  <2>9. LET profiles == (UNION {g.profiles : g \in Range(host.btrfs[m.id])}) \cap Range(Profiles)
        IN IF profiles = {} THEN b.raid = None ELSE b.raid \in profiles
    BY <2>8, BtrfsHasAProfile, Zenon
  <2> QED BY <2>5, <2>7, <2>9
<1>2. ReportsAreOfHosts => BtrfsIsOfItsMount
  BY <1>1, Zenon DEF BtrfsIsOfItsMount
<1> QED BY <1>2, ReportersInvHolds, PTL

\* What is reported of CPUs, memory, filesystems and arrays fits together and is of its
\* source, on every host.
THEOREM ResourcesAddUpHolds == Spec => []ResourcesAddUp
<1>1. CpuListsAreWhole /\ MemoryIsInBytes /\ FilesystemsArePlaced /\ BtrfsIsOfItsMount /\ ArraysKeepTheirDisks => ResourcesAddUp
  BY DEF ResourcesAddUp
<1> QED BY <1>1, CpuListsAreWholeHolds, MemoryIsInBytesHolds, FilesystemsArePlacedHolds, BtrfsIsOfItsMountHolds,
           ArraysKeepTheirDisksHolds, PTL

----------------------------------------------------------------------------
\* Lines that are read one after the other.

\* The lines of a dataset.
PropertiesTrace(start, lines, N, S, h) ==
    /\ h \in [0 .. N -> S] /\ h[0] = start /\ FoldLeft(AddProperty, start, lines) = h[N]
    /\ \A k \in 1 .. N : h[k] = AddProperty(h[k - 1], lines[k])

\* The fold over the properties of a dataset goes through values of its type.
LEMMA PropertiesFold ==
  ASSUME NEW start, NEW lines, NEW N, N \in Nat, DOMAIN lines = 1 .. N, NEW S, start \in S,
         \A m \in S, k \in 1 .. N : AddProperty(m, lines[k]) \in S
  PROVE  \E h : PropertiesTrace(start, lines, N, S, h)
<1> DEFINE Step(m, k) == AddProperty(m, lines[k])
           step == [x \in S \X (1 .. N) |-> Step(x[1], x[2])]
           Iter(it) == it = [s \in SUBSET (1 .. N) |-> IF s = {} THEN start ELSE Step(it[s \ {Max(s)}], Max(s))]
           iter == CHOOSE it : Iter(it)
<1>1. FoldLeft(AddProperty, start, lines) = iter[1 .. N]
  BY Zenon DEF FoldLeft, MapThenFoldSet
<1>2. start \in S /\ \A m \in S, k \in 1 .. N : Step(m, k) \in S
  OBVIOUS
<1> HIDE DEF Step
<1>3. step \in [S \X (1 .. N) -> S] /\ \A m \in S, k \in 1 .. N : step[<<m, k>>] = Step(m, k)
  BY <1>2
<1> HIDE DEF step
<1>4. \E it : Iter(it)
  <2>1. PICK it \in [SUBSET (1 .. N) -> S] : \A s \in SUBSET (1 .. N) :
            /\ it[s] = IF s = {} THEN start ELSE step[<<it[s \ {Max(s)}], Max(s)>>]
            /\ s # {} => it[s \ {Max(s)}] \in S /\ Max(s) \in 1 .. N
    BY <1>2, <1>3, FoldExists
  <2> HIDE DEF iter
  <2>2. ASSUME NEW s \in SUBSET (1 .. N) PROVE it[s] = IF s = {} THEN start ELSE Step(it[s \ {Max(s)}], Max(s))
    BY <2>1, <1>3
  <2>3. Iter(it)
    BY <2>2
  <2> HIDE DEF Iter
  <2> QED BY <2>3
<1>5. Iter(iter)
  BY Zenon, <1>4
<1> HIDE DEF iter
<1>6. iter[{}] = start
  BY <1>5
<1>7. ASSUME NEW s \in SUBSET (1 .. N), s # {}, iter[s \ {Max(s)}] \in S, Max(s) \in 1 .. N
      PROVE iter[s] = step[<<iter[s \ {Max(s)}], Max(s)>>]
  BY <1>3, <1>5, <1>7
<1>8. IsFold(S, start, N, step, iter)
  BY <1>2, <1>3, <1>6, <1>7 DEF IsFold
<1>9. PICK h : IsTrace(S, start, N, step, iter, h)
  BY <1>8, FoldSteps
<1>10. h \in [0 .. N -> S] /\ h[0] = start /\ h[N] = iter[1 .. N]
  BY <1>9 DEF IsTrace
<1>11. ASSUME NEW k \in 1 .. N PROVE h[k] = Step(h[k - 1], k)
  <2>1. h[k - 1] \in S
    BY <1>10
  <2> QED BY <2>1, <1>9, <1>3 DEF IsTrace
<1> QED BY <1>1, <1>10, <1>11 DEF Step, PropertiesTrace


\* The lines of a map.
ByKeyTrace(start, lines, N, S, h) ==
    /\ h \in [0 .. N -> S] /\ h[0] = start /\ FoldLeft(PutLine, start, lines) = h[N]
    /\ \A k \in 1 .. N : h[k] = PutLine(h[k - 1], lines[k])

\* The fold over the last line of each key goes through values of its type.
LEMMA ByKeyFold ==
  ASSUME NEW start, NEW lines, NEW N, N \in Nat, DOMAIN lines = 1 .. N, NEW S, start \in S,
         \A m \in S, k \in 1 .. N : PutLine(m, lines[k]) \in S
  PROVE  \E h : ByKeyTrace(start, lines, N, S, h)
<1> DEFINE Step(m, k) == PutLine(m, lines[k])
           step == [x \in S \X (1 .. N) |-> Step(x[1], x[2])]
           Iter(it) == it = [s \in SUBSET (1 .. N) |-> IF s = {} THEN start ELSE Step(it[s \ {Max(s)}], Max(s))]
           iter == CHOOSE it : Iter(it)
<1>1. FoldLeft(PutLine, start, lines) = iter[1 .. N]
  BY Zenon DEF FoldLeft, MapThenFoldSet
<1>2. start \in S /\ \A m \in S, k \in 1 .. N : Step(m, k) \in S
  OBVIOUS
<1> HIDE DEF Step
<1>3. step \in [S \X (1 .. N) -> S] /\ \A m \in S, k \in 1 .. N : step[<<m, k>>] = Step(m, k)
  BY <1>2
<1> HIDE DEF step
<1>4. \E it : Iter(it)
  <2>1. PICK it \in [SUBSET (1 .. N) -> S] : \A s \in SUBSET (1 .. N) :
            /\ it[s] = IF s = {} THEN start ELSE step[<<it[s \ {Max(s)}], Max(s)>>]
            /\ s # {} => it[s \ {Max(s)}] \in S /\ Max(s) \in 1 .. N
    BY <1>2, <1>3, FoldExists
  <2> HIDE DEF iter
  <2>2. ASSUME NEW s \in SUBSET (1 .. N) PROVE it[s] = IF s = {} THEN start ELSE Step(it[s \ {Max(s)}], Max(s))
    BY <2>1, <1>3
  <2>3. Iter(it)
    BY <2>2
  <2> HIDE DEF Iter
  <2> QED BY <2>3
<1>5. Iter(iter)
  BY Zenon, <1>4
<1> HIDE DEF iter
<1>6. iter[{}] = start
  BY <1>5
<1>7. ASSUME NEW s \in SUBSET (1 .. N), s # {}, iter[s \ {Max(s)}] \in S, Max(s) \in 1 .. N
      PROVE iter[s] = step[<<iter[s \ {Max(s)}], Max(s)>>]
  BY <1>3, <1>5, <1>7
<1>8. IsFold(S, start, N, step, iter)
  BY <1>2, <1>3, <1>6, <1>7 DEF IsFold
<1>9. PICK h : IsTrace(S, start, N, step, iter, h)
  BY <1>8, FoldSteps
<1>10. h \in [0 .. N -> S] /\ h[0] = start /\ h[N] = iter[1 .. N]
  BY <1>9 DEF IsTrace
<1>11. ASSUME NEW k \in 1 .. N PROVE h[k] = Step(h[k - 1], k)
  <2>1. h[k - 1] \in S
    BY <1>10
  <2> QED BY <2>1, <1>9, <1>3 DEF IsTrace
<1> QED BY <1>1, <1>10, <1>11 DEF Step, ByKeyTrace


\* The lines of datasets, of which each has a name.
NamesTrace(start, lines, N, S, h) ==
    /\ h \in [0 .. N -> S] /\ h[0] = start /\ FoldLeft(AddName, start, lines) = h[N]
    /\ \A k \in 1 .. N : h[k] = AddName(h[k - 1], lines[k])

\* The fold over the names of datasets goes through values of its type.
LEMMA NamesFold ==
  ASSUME NEW start, NEW lines, NEW N, N \in Nat, DOMAIN lines = 1 .. N, NEW S, start \in S,
         \A m \in S, k \in 1 .. N : AddName(m, lines[k]) \in S
  PROVE  \E h : NamesTrace(start, lines, N, S, h)
<1> DEFINE Step(m, k) == AddName(m, lines[k])
           step == [x \in S \X (1 .. N) |-> Step(x[1], x[2])]
           Iter(it) == it = [s \in SUBSET (1 .. N) |-> IF s = {} THEN start ELSE Step(it[s \ {Max(s)}], Max(s))]
           iter == CHOOSE it : Iter(it)
<1>1. FoldLeft(AddName, start, lines) = iter[1 .. N]
  BY Zenon DEF FoldLeft, MapThenFoldSet
<1>2. start \in S /\ \A m \in S, k \in 1 .. N : Step(m, k) \in S
  OBVIOUS
<1> HIDE DEF Step
<1>3. step \in [S \X (1 .. N) -> S] /\ \A m \in S, k \in 1 .. N : step[<<m, k>>] = Step(m, k)
  BY <1>2
<1> HIDE DEF step
<1>4. \E it : Iter(it)
  <2>1. PICK it \in [SUBSET (1 .. N) -> S] : \A s \in SUBSET (1 .. N) :
            /\ it[s] = IF s = {} THEN start ELSE step[<<it[s \ {Max(s)}], Max(s)>>]
            /\ s # {} => it[s \ {Max(s)}] \in S /\ Max(s) \in 1 .. N
    BY <1>2, <1>3, FoldExists
  <2> HIDE DEF iter
  <2>2. ASSUME NEW s \in SUBSET (1 .. N) PROVE it[s] = IF s = {} THEN start ELSE Step(it[s \ {Max(s)}], Max(s))
    BY <2>1, <1>3
  <2>3. Iter(it)
    BY <2>2
  <2> HIDE DEF Iter
  <2> QED BY <2>3
<1>5. Iter(iter)
  BY Zenon, <1>4
<1> HIDE DEF iter
<1>6. iter[{}] = start
  BY <1>5
<1>7. ASSUME NEW s \in SUBSET (1 .. N), s # {}, iter[s \ {Max(s)}] \in S, Max(s) \in 1 .. N
      PROVE iter[s] = step[<<iter[s \ {Max(s)}], Max(s)>>]
  BY <1>3, <1>5, <1>7
<1>8. IsFold(S, start, N, step, iter)
  BY <1>2, <1>3, <1>6, <1>7 DEF IsFold
<1>9. PICK h : IsTrace(S, start, N, step, iter, h)
  BY <1>8, FoldSteps
<1>10. h \in [0 .. N -> S] /\ h[0] = start /\ h[N] = iter[1 .. N]
  BY <1>9 DEF IsTrace
<1>11. ASSUME NEW k \in 1 .. N PROVE h[k] = Step(h[k - 1], k)
  <2>1. h[k - 1] \in S
    BY <1>10
  <2> QED BY <2>1, <1>9, <1>3 DEF IsTrace
<1> QED BY <1>1, <1>10, <1>11 DEF Step, NamesTrace


\* The lines of tc.
QueuesTrace(start, lines, N, S, h) ==
    /\ h \in [0 .. N -> S] /\ h[0] = start /\ FoldLeft(AddQueue, start, lines) = h[N]
    /\ \A k \in 1 .. N : h[k] = AddQueue(h[k - 1], lines[k])

\* The fold over tc's queues goes through values of its type.
LEMMA QueuesFold ==
  ASSUME NEW start, NEW lines, NEW N, N \in Nat, DOMAIN lines = 1 .. N, NEW S, start \in S,
         \A m \in S, k \in 1 .. N : AddQueue(m, lines[k]) \in S
  PROVE  \E h : QueuesTrace(start, lines, N, S, h)
<1> DEFINE Step(m, k) == AddQueue(m, lines[k])
           step == [x \in S \X (1 .. N) |-> Step(x[1], x[2])]
           Iter(it) == it = [s \in SUBSET (1 .. N) |-> IF s = {} THEN start ELSE Step(it[s \ {Max(s)}], Max(s))]
           iter == CHOOSE it : Iter(it)
<1>1. FoldLeft(AddQueue, start, lines) = iter[1 .. N]
  BY Zenon DEF FoldLeft, MapThenFoldSet
<1>2. start \in S /\ \A m \in S, k \in 1 .. N : Step(m, k) \in S
  OBVIOUS
<1> HIDE DEF Step
<1>3. step \in [S \X (1 .. N) -> S] /\ \A m \in S, k \in 1 .. N : step[<<m, k>>] = Step(m, k)
  BY <1>2
<1> HIDE DEF step
<1>4. \E it : Iter(it)
  <2>1. PICK it \in [SUBSET (1 .. N) -> S] : \A s \in SUBSET (1 .. N) :
            /\ it[s] = IF s = {} THEN start ELSE step[<<it[s \ {Max(s)}], Max(s)>>]
            /\ s # {} => it[s \ {Max(s)}] \in S /\ Max(s) \in 1 .. N
    BY <1>2, <1>3, FoldExists
  <2> HIDE DEF iter
  <2>2. ASSUME NEW s \in SUBSET (1 .. N) PROVE it[s] = IF s = {} THEN start ELSE Step(it[s \ {Max(s)}], Max(s))
    BY <2>1, <1>3
  <2>3. Iter(it)
    BY <2>2
  <2> HIDE DEF Iter
  <2> QED BY <2>3
<1>5. Iter(iter)
  BY Zenon, <1>4
<1> HIDE DEF iter
<1>6. iter[{}] = start
  BY <1>5
<1>7. ASSUME NEW s \in SUBSET (1 .. N), s # {}, iter[s \ {Max(s)}] \in S, Max(s) \in 1 .. N
      PROVE iter[s] = step[<<iter[s \ {Max(s)}], Max(s)>>]
  BY <1>3, <1>5, <1>7
<1>8. IsFold(S, start, N, step, iter)
  BY <1>2, <1>3, <1>6, <1>7 DEF IsFold
<1>9. PICK h : IsTrace(S, start, N, step, iter, h)
  BY <1>8, FoldSteps
<1>10. h \in [0 .. N -> S] /\ h[0] = start /\ h[N] = iter[1 .. N]
  BY <1>9 DEF IsTrace
<1>11. ASSUME NEW k \in 1 .. N PROVE h[k] = Step(h[k - 1], k)
  <2>1. h[k - 1] \in S
    BY <1>10
  <2> QED BY <2>1, <1>9, <1>3 DEF IsTrace
<1> QED BY <1>1, <1>10, <1>11 DEF Step, QueuesTrace


\* The lines of rpm.
MacrosTrace(start, lines, N, S, h) ==
    /\ h \in [0 .. N -> S] /\ h[0] = start /\ FoldLeft(ReadMacro, start, lines) = h[N]
    /\ \A k \in 1 .. N : h[k] = ReadMacro(h[k - 1], lines[k])

\* The fold over rpm's macros goes through values of its type.
LEMMA MacrosFold ==
  ASSUME NEW start, NEW lines, NEW N, N \in Nat, DOMAIN lines = 1 .. N, NEW S, start \in S,
         \A m \in S, k \in 1 .. N : ReadMacro(m, lines[k]) \in S
  PROVE  \E h : MacrosTrace(start, lines, N, S, h)
<1> DEFINE Step(m, k) == ReadMacro(m, lines[k])
           step == [x \in S \X (1 .. N) |-> Step(x[1], x[2])]
           Iter(it) == it = [s \in SUBSET (1 .. N) |-> IF s = {} THEN start ELSE Step(it[s \ {Max(s)}], Max(s))]
           iter == CHOOSE it : Iter(it)
<1>1. FoldLeft(ReadMacro, start, lines) = iter[1 .. N]
  BY Zenon DEF FoldLeft, MapThenFoldSet
<1>2. start \in S /\ \A m \in S, k \in 1 .. N : Step(m, k) \in S
  OBVIOUS
<1> HIDE DEF Step
<1>3. step \in [S \X (1 .. N) -> S] /\ \A m \in S, k \in 1 .. N : step[<<m, k>>] = Step(m, k)
  BY <1>2
<1> HIDE DEF step
<1>4. \E it : Iter(it)
  <2>1. PICK it \in [SUBSET (1 .. N) -> S] : \A s \in SUBSET (1 .. N) :
            /\ it[s] = IF s = {} THEN start ELSE step[<<it[s \ {Max(s)}], Max(s)>>]
            /\ s # {} => it[s \ {Max(s)}] \in S /\ Max(s) \in 1 .. N
    BY <1>2, <1>3, FoldExists
  <2> HIDE DEF iter
  <2>2. ASSUME NEW s \in SUBSET (1 .. N) PROVE it[s] = IF s = {} THEN start ELSE Step(it[s \ {Max(s)}], Max(s))
    BY <2>1, <1>3
  <2>3. Iter(it)
    BY <2>2
  <2> HIDE DEF Iter
  <2> QED BY <2>3
<1>5. Iter(iter)
  BY Zenon, <1>4
<1> HIDE DEF iter
<1>6. iter[{}] = start
  BY <1>5
<1>7. ASSUME NEW s \in SUBSET (1 .. N), s # {}, iter[s \ {Max(s)}] \in S, Max(s) \in 1 .. N
      PROVE iter[s] = step[<<iter[s \ {Max(s)}], Max(s)>>]
  BY <1>3, <1>5, <1>7
<1>8. IsFold(S, start, N, step, iter)
  BY <1>2, <1>3, <1>6, <1>7 DEF IsFold
<1>9. PICK h : IsTrace(S, start, N, step, iter, h)
  BY <1>8, FoldSteps
<1>10. h \in [0 .. N -> S] /\ h[0] = start /\ h[N] = iter[1 .. N]
  BY <1>9 DEF IsTrace
<1>11. ASSUME NEW k \in 1 .. N PROVE h[k] = Step(h[k - 1], k)
  <2>1. h[k - 1] \in S
    BY <1>10
  <2> QED BY <2>1, <1>9, <1>3 DEF IsTrace
<1> QED BY <1>1, <1>10, <1>11 DEF Step, MacrosTrace


----------------------------------------------------------------------------
\* Maps that lines are put into, the last line of a key counting.
IsLastPut(m, n, key, val) ==
    /\ DOMAIN m = {key[k] : k \in 1 .. n}
    /\ \A i \in 1 .. n : (\A j \in 1 .. n : j > i => key[j] # key[i]) => m[key[i]] = val[i]

\* A map that takes one line after the other.
PutsInto(g, N, key, val) ==
    /\ N \in Nat /\ g[0] = Empty
    /\ \A k \in 1 .. N : g[k] = Put(g[k - 1], key[k], val[k])

\* After a run of puts a key has the value of its last one.
LEMMA LastPutCounts ==
  ASSUME NEW g, NEW N, NEW key, NEW val, PutsInto(g, N, key, val)
  PROVE  IsLastPut(g[N], N, key, val)
<1> USE DEF PutsInto
<1> DEFINE A == {n \in 0 .. N : IsLastPut(g[n], n, key, val)}
<1>1. 0 \in A
  <2>1. DOMAIN g[0] = {}
    BY EmptyIsMap
  <2>2. 1 .. 0 = {}
    OBVIOUS
  <2>3. IsLastPut(g[0], 0, key, val)
    BY <2>1, <2>2 DEF IsLastPut
  <2> QED BY <2>3
<1>2. ASSUME NEW n \in 0 .. N, n \in A, n < N PROVE n + 1 \in A
  <2>1. n + 1 \in 1 .. N /\ n + 1 \in 0 .. N /\ (n + 1) - 1 = n /\ 1 .. (n + 1) = (1 .. n) \cup {n + 1}
    BY <1>2
  <2> DEFINE m == g[n]
  <2>2. g[n + 1] = Put(m, key[n + 1], val[n + 1])
    BY <2>1
  <2>3. IsLastPut(m, n, key, val)
    BY <1>2
  <2> HIDE DEF m
  <2>4. /\ DOMAIN g[n + 1] = DOMAIN m \cup {key[n + 1]}
        /\ g[n + 1][key[n + 1]] = val[n + 1]
        /\ \A x \in DOMAIN m : x # key[n + 1] => g[n + 1][x] = m[x]
    BY <2>2 DEF Put
  <2>5. DOMAIN g[n + 1] = {key[k] : k \in 1 .. (n + 1)}
    BY <2>1, <2>3, <2>4 DEF IsLastPut
  <2>6. ASSUME NEW i \in 1 .. (n + 1), \A j \in 1 .. (n + 1) : j > i => key[j] # key[i]
        PROVE  g[n + 1][key[i]] = val[i]
    <3>1. CASE i = n + 1
      BY <3>1, <2>4
    <3>2. CASE i # n + 1
      <4>1. i \in 1 .. n /\ n + 1 \in 1 .. (n + 1) /\ n + 1 > i
        BY <2>1, <3>2
      <4>2. key[n + 1] # key[i]
        BY <2>6, <4>1
      <4>3. \A j \in 1 .. n : j \in 1 .. (n + 1)
        BY <2>1
      <4>4. \A j \in 1 .. n : j > i => key[j] # key[i]
        BY <2>6, <4>3
      <4>5. m[key[i]] = val[i] /\ key[i] \in DOMAIN m
        BY <4>1, <4>4, <2>3 DEF IsLastPut
      <4> QED BY <4>2, <4>5, <2>4
    <3> QED BY <3>1, <3>2
  <2>7. IsLastPut(g[n + 1], n + 1, key, val)
    BY <2>5, <2>6 DEF IsLastPut
  <2> QED BY <2>1, <2>7
<1>3. N \in A
  <2> HIDE DEF A
  <2>1. N \in 0 .. N
    OBVIOUS
  <2> QED BY <1>1, <1>2, <2>1, Induction
<1> QED BY <1>3

\* The properties of a dataset are those of its lines.
LEMMA PropertiesAreLast ==
  ASSUME NEW lines, NEW N \in Nat, DOMAIN lines = 1 .. N
  PROVE  IsLastPut(PropertiesOf(lines), N, [k \in 1 .. N |-> lines[k].property], [k \in 1 .. N |-> lines[k].value])
<1> DEFINE key == [k \in 1 .. N |-> lines[k].property]
           val == [k \in 1 .. N |-> lines[k].value]
           S == Maps(Range(key), Range(val))
<1>1. \A k \in 1 .. N : key[k] = lines[k].property /\ val[k] = lines[k].value
  OBVIOUS
<1>k. DOMAIN key = 1 .. N /\ DOMAIN val = 1 .. N
  OBVIOUS
<1> HIDE DEF key, val
<1>2. \A k \in 1 .. N : key[k] \in Range(key) /\ val[k] \in Range(val)
  BY <1>k DEF Range
<1>3. Empty \in S
  BY EmptyIsMap
<1>4. \A m \in S, k \in 1 .. N : AddProperty(m, lines[k]) = Put(m, key[k], val[k])
  BY <1>1 DEF AddProperty
<1>5. \A m \in S, k \in 1 .. N : AddProperty(m, lines[k]) \in S
  BY <1>2, <1>4, PutIsMap
<1> HIDE DEF S
<1>6. PICK g : PropertiesTrace(Empty, lines, N, S, g)
  BY <1>3, <1>5, PropertiesFold
<1>7. /\ g \in [0 .. N -> S] /\ g[0] = Empty /\ PropertiesOf(lines) = g[N]
      /\ \A k \in 1 .. N : g[k] = AddProperty(g[k - 1], lines[k])
  BY <1>6, Zenon DEF PropertiesTrace, PropertiesOf
<1>8. ASSUME NEW k \in 1 .. N PROVE g[k] = Put(g[k - 1], key[k], val[k])
  <2>1. g[k - 1] \in S
    BY <1>7
  <2> QED BY <2>1, <1>4, <1>7
<1>9. PutsInto(g, N, key, val)
  BY <1>7, <1>8 DEF PutsInto
<1>10. IsLastPut(PropertiesOf(lines), N, key, val)
  BY <1>7, <1>9, LastPutCounts
<1> QED BY <1>10 DEF key, val

\* A map has what its lines say.
LEMMA KeysAreLast ==
  ASSUME NEW lines, NEW N \in Nat, DOMAIN lines = 1 .. N
  PROVE  IsLastPut(ByKey(lines), N, [k \in 1 .. N |-> lines[k].key], [k \in 1 .. N |-> lines[k].val])
<1> DEFINE key == [k \in 1 .. N |-> lines[k].key]
           val == [k \in 1 .. N |-> lines[k].val]
           S == Maps(Range(key), Range(val))
<1>1. \A k \in 1 .. N : key[k] = lines[k].key /\ val[k] = lines[k].val
  OBVIOUS
<1>k. DOMAIN key = 1 .. N /\ DOMAIN val = 1 .. N
  OBVIOUS
<1> HIDE DEF key, val
<1>2. \A k \in 1 .. N : key[k] \in Range(key) /\ val[k] \in Range(val)
  BY <1>k DEF Range
<1>3. Empty \in S
  BY EmptyIsMap
<1>4. \A m \in S, k \in 1 .. N : PutLine(m, lines[k]) = Put(m, key[k], val[k])
  BY <1>1 DEF PutLine
<1>5. \A m \in S, k \in 1 .. N : PutLine(m, lines[k]) \in S
  BY <1>2, <1>4, PutIsMap
<1> HIDE DEF S
<1>6. PICK g : ByKeyTrace(Empty, lines, N, S, g)
  BY <1>3, <1>5, ByKeyFold
<1>7. /\ g \in [0 .. N -> S] /\ g[0] = Empty /\ ByKey(lines) = g[N]
      /\ \A k \in 1 .. N : g[k] = PutLine(g[k - 1], lines[k])
  BY <1>6, Zenon DEF ByKeyTrace, ByKey
<1>8. ASSUME NEW k \in 1 .. N PROVE g[k] = Put(g[k - 1], key[k], val[k])
  <2>1. g[k - 1] \in S
    BY <1>7
  <2> QED BY <2>1, <1>4, <1>7
<1>9. PutsInto(g, N, key, val)
  BY <1>7, <1>8 DEF PutsInto
<1>10. IsLastPut(ByKey(lines), N, key, val)
  BY <1>7, <1>9, LastPutCounts
<1> QED BY <1>10 DEF key, val

----------------------------------------------------------------------------
\* The lines that count, by their places in what was read.

\* The good lines in front of the first that is too long.
GoodPlaces(out) == {k \in DOMAIN out : (\A j \in 1 .. k : out[j].t # "long") /\ out[k].t = "good"}

\* What is scanned is what is in front of the first line that is too long.
LEMMA ScanEnds ==
  ASSUME NEW out, IsSeq(out)
  PROVE  \E c \in 0 .. Len(out) :
            /\ DOMAIN Scan(out) = 1 .. c /\ Len(Scan(out)) = c /\ \A k \in 1 .. c : Scan(out)[k] = out[k]
            /\ {k \in DOMAIN out : \A j \in 1 .. k : out[j].t # "long"} = 1 .. c
            /\ Scan(out) \in Seq(Range(out))
<1> DEFINE long == {k \in DOMAIN out : out[k].t = "long"}
           n == Len(out)
           reached == {k \in DOMAIN out : \A j \in 1 .. k : out[j].t # "long"}
<1>1. n \in Nat /\ DOMAIN out = 1 .. n /\ long \in SUBSET (1 .. n)
  BY LenProperties DEF IsSeq
<1>2. Scan(out) = IF long = {} THEN out ELSE SubSeq(out, 1, Min(long) - 1)
  BY Zenon DEF Scan
<1>3. CASE long = {}
  <2>1. Scan(out) = out
    BY <1>2, <1>3
  <2>2. reached = 1 .. n
    <3>1. \A k \in 1 .. n : \A j \in 1 .. k : j \in 1 .. n
      BY <1>1
    <3>2. \A j \in 1 .. n : out[j].t # "long"
      BY <1>1, <1>3
    <3> QED BY <1>1, <3>1, <3>2
  <2> HIDE DEF reached, long
  <2>3. n \in 0 .. n /\ DOMAIN Scan(out) = 1 .. n /\ Len(Scan(out)) = n /\ \A k \in 1 .. n : Scan(out)[k] = out[k]
    BY <1>1, <2>1
  <2>4. Scan(out) \in Seq(Range(out))
    BY <2>1 DEF IsSeq
  <2> QED BY <2>2, <2>3, <2>4 DEF reached
<1>4. CASE long # {}
  <2> DEFINE m == Min(long)
  <2>0. long \in SUBSET Nat
    BY <1>1
  <2>1. m \in long /\ \A k \in long : m =< k
    <3> HIDE DEF long
    <3> QED BY <2>0, <1>4, MinIsLeast
  <2>2. m \in 1 .. n /\ out[m].t = "long"
    BY <1>1, <2>1
  <2>3. Scan(out) = SubSeq(out, 1, m - 1)
    BY <1>2, <1>4
  <2>4. \A k \in 1 .. n : out[k].t = "long" => m =< k
    BY <1>1, <2>1
  <2> HIDE DEF m, long
  <2>5. m - 1 \in 0 .. n
    BY <1>1, <2>2
  <2>6. /\ DOMAIN Scan(out) = 1 .. (m - 1) /\ Len(Scan(out)) = m - 1
        /\ \A k \in 1 .. (m - 1) : Scan(out)[k] = out[k]
        /\ Scan(out) \in Seq(Range(out))
    <3>1. out \in Seq(Range(out))
      BY DEF IsSeq
    <3>2. \A k \in 1 .. (m - 1) : 1 + k - 1 = k
      BY <2>2
    <3> QED BY <1>1, <2>2, <2>3, <3>1, <3>2
  <2>7. ASSUME NEW k \in 1 .. n PROVE (\A j \in 1 .. k : out[j].t # "long") <=> k \in 1 .. (m - 1)
    <3>1. CASE k < m
      <4>1. \A j \in 1 .. k : j \in 1 .. n /\ ~ (m =< j)
        BY <1>1, <2>2, <3>1
      <4> QED BY <1>1, <2>2, <2>4, <3>1, <4>1
    <3>2. CASE ~ (k < m)
      <4>1. m \in 1 .. k /\ k \notin 1 .. (m - 1)
        BY <1>1, <2>2, <3>2
      <4> QED BY <2>2, <4>1
    <3> QED BY <3>1, <3>2
  <2>8. reached = 1 .. (m - 1)
    <3>1. \A k \in 1 .. (m - 1) : k \in 1 .. n
      BY <1>1, <2>2
    <3> QED BY <1>1, <2>7, <3>1
  <2> HIDE DEF reached
  <2> QED BY <1>1, <2>5, <2>6, <2>8 DEF reached
<1> QED BY <1>3, <1>4

\* The places of the good lines of a source are numbers up to its length.
LEMMA GoodPlacesAre ==
  ASSUME NEW out, IsSeq(out)
  PROVE  /\ Len(out) \in Nat /\ DOMAIN out = 1 .. Len(out) /\ GoodPlaces(out) \in SUBSET (1 .. Len(out))
         /\ Good(out) = Kept(out, GoodPlaces(out))
<1>1. Len(out) \in Nat /\ DOMAIN out = 1 .. Len(out)
  BY LenProperties DEF IsSeq
<1>2. GoodPlaces(out) \in SUBSET (1 .. Len(out))
  BY <1>1 DEF GoodPlaces
<1> DEFINE at == GoodPlaces(out)
           lines == Scan(out)
           c == Cardinality(at)
<1>3. at = {k \in DOMAIN lines : lines[k].t = "good"} /\ \A i \in at : lines[i] = out[i]
  <2>1. PICK e \in 0 .. Len(out) :
            /\ DOMAIN Scan(out) = 1 .. e /\ \A k \in 1 .. e : Scan(out)[k] = out[k]
            /\ {k \in DOMAIN out : \A j \in 1 .. k : out[j].t # "long"} = 1 .. e
    BY ScanEnds
  <2>2. at = {k \in 1 .. e : out[k].t = "good"}
    BY <2>1 DEF GoodPlaces
  <2> HIDE DEF at
  <2> QED BY <2>1, <2>2
<1>4. Good(out) = Kept(lines, at)
  <2>1. Good(out) = Kept(lines, {k \in DOMAIN lines : lines[k].t = "good"})
    BY Zenon DEF Good, Whole
  <2> QED BY <1>3, <2>1
<1> HIDE DEF at, lines
<1>5. \A r \in 1 .. c : \E i \in at : Rank(at, i) = r
  BY <1>1, <1>2, RanksCount DEF at
<1> HIDE DEF c
<1>6. Kept(lines, at) = [r \in 1 .. c |-> lines[CHOOSE i \in at : Rank(at, i) = r]]
  BY Zenon DEF Kept, c
<1>7. Kept(out, at) = [r \in 1 .. c |-> out[CHOOSE i \in at : Rank(at, i) = r]]
  BY Zenon DEF Kept, c
<1>8. \A r \in 1 .. c : lines[CHOOSE i \in at : Rank(at, i) = r] = out[CHOOSE i \in at : Rank(at, i) = r]
  BY <1>3, <1>5
<1>9. Kept(lines, at) = Kept(out, at)
  BY <1>6, <1>7, <1>8
<1> QED BY <1>1, <1>2, <1>4, <1>9 DEF at

\* A map of the last values, by the places of the lines that were put into it.
IsLastAt(m, at, key, val) ==
    /\ DOMAIN m = {key[k] : k \in at}
    /\ \A i \in at : (\A j \in at : j > i => key[j] # key[i]) => m[key[i]] = val[i]

\* What is said by rank is what is said by place.
AreOfPlaces(at, rkey, key) == \A i \in at : rkey[Rank(at, i)] = key[i]

\* The last of those that are kept is the last of the places they are kept from.
LEMMA LastOfPlaces ==
  ASSUME NEW n \in Nat, NEW at \in SUBSET (1 .. n), NEW m, NEW key, NEW val, NEW rkey, NEW rval,
         AreOfPlaces(at, rkey, key), AreOfPlaces(at, rval, val), IsLastPut(m, Cardinality(at), rkey, rval)
  PROVE  IsLastAt(m, at, key, val)
<1> DEFINE c == Cardinality(at)
<1>1. /\ c \in Nat
      /\ \A i \in at : Rank(at, i) \in 1 .. c
      /\ \A i, j \in at : i < j => Rank(at, i) < Rank(at, j)
      /\ \A r \in 1 .. c : \E i \in at : Rank(at, i) = r
  BY RanksCount
<1>2. \A i \in at : rkey[Rank(at, i)] = key[i] /\ rval[Rank(at, i)] = val[i]
  BY DEF AreOfPlaces
<1>3. /\ DOMAIN m = {rkey[k] : k \in 1 .. c}
      /\ \A i \in 1 .. c : (\A j \in 1 .. c : j > i => rkey[j] # rkey[i]) => m[rkey[i]] = rval[i]
  BY DEF IsLastPut
<1> HIDE DEF c
<1>4. DOMAIN m = {key[k] : k \in at}
  BY <1>1, <1>2, <1>3
<1>5. ASSUME NEW i \in at, \A j \in at : j > i => key[j] # key[i] PROVE m[key[i]] = val[i]
  <2> DEFINE r == Rank(at, i)
  <2>1. r \in 1 .. c /\ rkey[r] = key[i] /\ rval[r] = val[i]
    BY <1>1, <1>2
  <2>2. ASSUME NEW q \in 1 .. c, q > r PROVE rkey[q] # rkey[r]
    <3>1. PICK j \in at : Rank(at, j) = q
      BY <1>1
    <3>2. i \in Nat /\ j \in Nat /\ r \in Nat /\ q \in Nat
      BY <1>1, <2>1
    <3>3. i < j
      <4>1. CASE j < i
        BY <1>1, <2>2, <3>1, <3>2, <4>1
      <4>2. CASE j = i
        BY <2>2, <3>1, <3>2, <4>2
      <4> QED BY <3>2, <4>1, <4>2
    <3>4. key[j] # key[i]
      BY <1>5, <3>2, <3>3
    <3> QED BY <1>2, <2>1, <3>1, <3>4
  <2> HIDE DEF r
  <2>3. m[rkey[r]] = rval[r]
    BY <1>3, <2>1, <2>2
  <2> QED BY <2>1, <2>3
<1> QED BY <1>4, <1>5 DEF IsLastAt

\* The map of the good lines of a source.
LEMMA GoodKeysAreLast ==
  ASSUME NEW out, IsSeq(out)
  PROVE  IsLastAt(ByKey(Good(out)), GoodPlaces(out),
                  [k \in DOMAIN out |-> out[k].key], [k \in DOMAIN out |-> out[k].val])
<1> DEFINE at == GoodPlaces(out)
           n == Len(out)
           good == Kept(out, at)
           c == Cardinality(at)
           key == [k \in DOMAIN out |-> out[k].key]
           val == [k \in DOMAIN out |-> out[k].val]
           rkey == [k \in 1 .. c |-> good[k].key]
           rval == [k \in 1 .. c |-> good[k].val]
<1>1. n \in Nat /\ DOMAIN out = 1 .. n /\ at \in SUBSET (1 .. n) /\ Good(out) = good
  BY GoodPlacesAre
<1> HIDE DEF at, n
<1>2. c \in Nat /\ DOMAIN good = 1 .. c /\ \A i \in at : Rank(at, i) \in 1 .. c /\ good[Rank(at, i)] = out[i]
  BY <1>1, KeptHolds
<1> HIDE DEF good, c
<1>3. IsLastPut(ByKey(good), c, rkey, rval)
  BY <1>2, KeysAreLast
<1>4. AreOfPlaces(at, rkey, key) /\ AreOfPlaces(at, rval, val)
  BY <1>1, <1>2 DEF AreOfPlaces
<1> HIDE DEF key, val, rkey, rval
<1>5. IsLastAt(ByKey(good), at, key, val)
  BY <1>1, <1>3, <1>4, LastOfPlaces DEF c
<1> QED BY <1>1, <1>5 DEF at, key, val

----------------------------------------------------------------------------
\* The collectors that list.

\* Every result of theirs is what they report of their host.
ListingsInv ==
    facts.of \in Listers => ~ facts.err /\ host.of = facts.of /\ facts.info = ReportOf(host)

\* Steps of these collectors establish the invariant and steps of others keep it.
LEMMA ListingsInvStep == ListingsInv /\ [Next]_vars => ListingsInv'
<1> SUFFICES ASSUME ListingsInv, [Next]_vars PROVE ListingsInv'
  OBVIOUS
<1>1. CASE UNCHANGED vars
  BY <1>1 DEF vars, ListingsInv
<1>2. CASE facts'.of \notin Listers
  BY <1>2 DEF ListingsInv
<1>3. CASE ListerStep
  <2>1. PICK of \in Listers : host.of = of /\ Returns(of, ReportOf(host))
    BY <1>3, ListersReport
  <2>2. host' = host /\ facts' = [of |-> of, err |-> FALSE, info |-> ReportOf(host)]
    BY <2>1 DEF Returns
  <2>3. ReportOf(host)' = ReportOf(host')
    OBVIOUS
  <2>4. facts'.err = FALSE /\ facts'.of = of /\ facts'.info = ReportOf(host)
    BY <2>2
  <2> QED BY <2>1, <2>2, <2>3, <2>4 DEF ListingsInv
<1>4. CASE ReporterStep
  <2>1. ASSUME NEW of \in Reporters, Errs(of) \/ \E info : Returns(of, info) PROVE facts'.of \notin Listers
    BY <2>1 DEF Errs, Returns, Reporters, Listers
  <2>2. CollectFilesystem => Errs("filesystem") \/ \E info : Returns("filesystem", info)
    BY Zenon DEF CollectFilesystem
  <2>3. CollectMdadm => Errs("mdadm") \/ \E info : Returns("mdadm", info)
    BY Zenon DEF CollectMdadm
  <2>4. CollectMemory => Errs("memory") \/ \E info : Returns("memory", info)
    BY Zenon DEF CollectMemory
  <2>5. CollectNetwork => Errs("network") \/ \E info : Returns("network", info)
    BY Zenon DEF CollectNetwork
  <2> QED BY <1>2, <1>4, <2>1, <2>2, <2>3, <2>4, <2>5 DEF ReporterStep, Reporters
<1> QED BY <1>1, <1>2, <1>3, <1>4, StepsAreApart

\* The hosts of these collectors are as their module has them.
LEMMA ListingHostsAreTheirOwn ==
  ASSUME NEW h \in Hosts, h.of \in Listers
  PROVE  IF h.of = "zpools" THEN StorageHostOK(h) ELSE ListingHostOK(h)
<1>1. h \notin NetworkHosts
  BY NetworkHostsAssumption DEF NetworkHostOK, Listers
<1>2. h \notin CloudHosts
  BY CloudHostsAssumption DEF CloudHostOK, AzureDocument, GceDocument, OciDocument, DropletDocument,
     ScalewayDocument, Doc, Trees, Listers
<1>3. h \notin FactsHosts /\ h \notin CpuHosts
  BY FactsHostsAssumption, CpuHostsAssumption DEF FactsHostOK, CpuHostOK, Listers
<1>4. h \notin IdentityHosts
  BY IdentityHostsAssumption DEF IdentityHostOK, Listers
<1>5. h \notin VirtHosts /\ h \notin HardwareHosts
  BY VirtHostsAssumption, HardwareHostsAssumption DEF VirtHostOK, HardwareHostOK, Listers
<1>6. h \in ListingHosts => h.of # "zpools"
  BY ListingHostsAssumption DEF ListingHostOK, SourcesOf
<1>7. h \notin SourceHosts
  BY SourceHostsAssumption DEF SourceHostOK, Asked, Listers
<1>8. h \in StorageHosts => h.of = "zpools"
  BY StorageHostsAssumption DEF StorageHostOK, Listers
<1> QED BY <1>1, <1>2, <1>3, <1>4, <1>5, <1>6, <1>7, <1>8, StorageHostsAssumption, ListingHostsAssumption DEF Hosts

\* What the proofs below start from.
ListingsAreOfHosts == ListingsInv /\ host \in Hosts

\* The invariant of these collectors holds.
THEOREM ListingsInvHolds == Spec => []ListingsAreOfHosts
<1>1. Init => ListingsInv
  BY DEF Init, NotYet, ListingsInv, Listers
<1>2. CollectorsInv => host \in Hosts
  BY DEF CollectorsInv
<1>3. ListingsInv /\ host \in Hosts => ListingsAreOfHosts
  BY DEF ListingsAreOfHosts
<1> QED BY <1>1, <1>2, <1>3, ListingsInvStep, CollectorsInvHolds, PTL DEF Spec

\* What is known of a result of one of them.
LEMMA ListingIsReported ==
  ASSUME ListingsAreOfHosts, NEW of \in Listers, Collected(of) \/ facts.of = of
  PROVE  /\ host.of = of /\ Collected(of) /\ facts.info = ReportOf(host)
         /\ of # "zpools" => ListingHostOK(host)
         /\ of = "zpools" => StorageHostOK(host)
<1>1. facts.of = of
  BY DEF Collected
<1>2. ~ facts.err /\ host.of = of /\ facts.info = ReportOf(host) /\ host \in Hosts
  BY <1>1 DEF ListingsAreOfHosts, ListingsInv
<1>3. IF of = "zpools" THEN StorageHostOK(host) ELSE ListingHostOK(host)
  BY <1>2, ListingHostsAreTheirOwn
<1> QED BY <1>1, <1>2, <1>3 DEF Collected

----------------------------------------------------------------------------
\* SELinux.

\* The lines of a source that say a key.
LinesAbout(said, k) == IF said.ok THEN {n \in GoodPlaces(said.out) : said.out[n].key = k} ELSE {}
\* What the last of them says.
LastWordOf(said, k) == said.out[Max(LinesAbout(said, k))].val

\* The word of a source is that of its last line of the key, if there is one.
LEMMA WordIsLast ==
  ASSUME NEW said, said.ok => IsSeq(said.out), NEW k
  PROVE  WordOf(said, k) = IF LinesAbout(said, k) = {} THEN None ELSE LastWordOf(said, k)
<1> DEFINE out == said.out
           at == GoodPlaces(out)
           words == ByKey(Good(out))
           key == [n \in DOMAIN out |-> out[n].key]
           val == [n \in DOMAIN out |-> out[n].val]
           about == {n \in at : out[n].key = k}
<1>1. CASE ~ said.ok
  <2>1. WordOf(said, k) = IF k \in DOMAIN Empty THEN Empty[k] ELSE None
    BY <1>1, Zenon DEF WordOf
  <2>2. DOMAIN Empty = {}
    BY EmptyIsMap
  <2> QED BY <1>1, <2>1, <2>2 DEF LinesAbout
<1>2. CASE said.ok
  <2>1. WordOf(said, k) = IF k \in DOMAIN words THEN words[k] ELSE None
    BY <1>2, Zenon DEF WordOf
  <2>2. IsLastAt(words, at, key, val)
    BY <1>2, GoodKeysAreLast
  <2>3. /\ Len(out) \in Nat /\ DOMAIN out = 1 .. Len(out) /\ at \in SUBSET (1 .. Len(out))
    BY <1>2, GoodPlacesAre
  <2>4. \A n \in at : key[n] = out[n].key /\ val[n] = out[n].val
    BY <2>3
  <2>5. LinesAbout(said, k) = about
    BY <1>2 DEF LinesAbout
  <2>6. about \in SUBSET (0 .. Len(out))
    BY <2>3
  <2> HIDE DEF words, key, val
  <2>7. CASE about = {}
    <3>1. k \notin DOMAIN words
      BY <2>2, <2>4, <2>7 DEF IsLastAt
    <3> QED BY <2>1, <2>5, <2>7, <3>1
  <2>8. CASE about # {}
    <3> DEFINE m == Max(about)
    <3>1. m \in about /\ \A n \in about : m >= n
      <4> HIDE DEF about
      <4> QED BY <2>3, <2>6, <2>8, MaxIsGreatest
    <3>2. m \in at /\ key[m] = k /\ val[m] = out[m].val
      BY <2>4, <3>1
    <3>3. \A j \in at : j > m => key[j] # key[m]
      <4>1. ASSUME NEW j \in at, j > m, key[j] = key[m] PROVE FALSE
        <5>1. j \in about
          BY <2>4, <3>2, <4>1
        <5>2. m >= j /\ m \in Nat /\ j \in Nat
          BY <2>3, <3>1, <5>1
        <5> HIDE DEF m
        <5> QED BY <4>1, <5>2
      <4> QED BY <4>1
    <3> HIDE DEF m
    <3>4. k \in DOMAIN words /\ words[k] = out[m].val
      BY <2>2, <3>2, <3>3 DEF IsLastAt
    <3> QED BY <2>1, <2>5, <2>8, <3>4 DEF LastWordOf, m
  <2> QED BY <2>7, <2>8
<1> QED BY <1>1, <1>2

\* What a source has said last of a key decides, and without a configuration nothing does.
LEMMA EnabledIsSaid ==
  ASSUME NEW h, \A s \in {"config", "sestatus"} : h.says[s].ok => IsSeq(h.says[s].out)
  PROVE  SELinuxInfo(h).status = "enabled" <=>
            /\ LinesAbout(h.says["config"], "SELINUX") # {}
            /\ LastWordOf(h.says["config"], "SELINUX") \notin {None, "disabled"}
            /\ LinesAbout(h.says["sestatus"], "selinux status") # {} =>
                  LastWordOf(h.says["sestatus"], "selinux status") \in {None, "enabled"}
<1> DEFINE mode == WordOf(h.says["config"], "SELINUX")
           status == WordOf(h.says["sestatus"], "selinux status")
           current == WordOf(h.says["sestatus"], "current mode")
<1>1. SELinuxInfo(h) = IF mode \in {None, "disabled"}
                       THEN [status |-> "disabled", config |-> mode, current |-> None]
                       ELSE [status |-> IF status \in {None, "enabled"} THEN "enabled" ELSE "disabled",
                             config |-> mode, current |-> current]
  BY Zenon DEF SELinuxInfo
<1>2. mode = IF LinesAbout(h.says["config"], "SELINUX") = {} THEN None ELSE LastWordOf(h.says["config"], "SELINUX")
  BY WordIsLast
<1>3. status = IF LinesAbout(h.says["sestatus"], "selinux status") = {} THEN None
               ELSE LastWordOf(h.says["sestatus"], "selinux status")
  BY WordIsLast
<1> HIDE DEF mode, status, current
<1>4. SELinuxInfo(h).status = "enabled" <=> mode \notin {None, "disabled"} /\ status \in {None, "enabled"}
  BY <1>1
<1> QED BY <1>2, <1>3, <1>4

\* SELinux is reported as enabled exactly if its configuration and sestatus agree.
THEOREM EnabledIsAgreedHolds == Spec => []EnabledIsAgreed
<1> DEFINE About(s, k) == IF host.says[s].ok THEN {n \in Reached(s) : host.says[s].out[n].t = "good" /\ host.says[s].out[n].key = k} ELSE {}
           LastWord(s, k) == host.says[s].out[Max(About(s, k))].val
<1>1. ASSUME ListingsAreOfHosts, Collected("selinux")
      PROVE facts.info.status = "enabled" <=>
               /\ About("config", "SELINUX") # {} /\ LastWord("config", "SELINUX") \notin {None, "disabled"}
               /\ About("sestatus", "selinux status") # {} => LastWord("sestatus", "selinux status") \in {None, "enabled"}
  <2>1. "selinux" \in Listers
    BY DEF Listers
  <2>2. host.of = "selinux" /\ facts.info = ReportOf(host) /\ ListingHostOK(host)
    BY <1>1, <2>1, ListingIsReported
  <2>3. facts.info = SELinuxInfo(host)
    BY <2>2 DEF ReportOf
  <2>4. {"config", "sestatus"} \subseteq DOMAIN host.says
    BY <2>2 DEF ListingHostOK, SourcesOf, Range
  <2>5. \A s \in {"config", "sestatus"} : host.says[s].ok => IsSeq(host.says[s].out)
    BY <2>2, <2>4 DEF ListingHostOK, ListOf
  <2>6. ASSUME NEW s, NEW k PROVE About(s, k) = LinesAbout(host.says[s], k)
    BY DEF Reached, LinesAbout, GoodPlaces
  <2>7. ASSUME NEW s, NEW k PROVE LastWord(s, k) = LastWordOf(host.says[s], k)
    BY <2>6 DEF LastWordOf
  <2> HIDE DEF About, LastWord
  <2> QED BY <2>3, <2>5, <2>6, <2>7, EnabledIsSaid
<1>2. ListingsAreOfHosts => EnabledIsAgreed
  BY <1>1, Zenon DEF EnabledIsAgreed
<1> QED BY <1>2, ListingsInvHolds, PTL

----------------------------------------------------------------------------
\* Nil and empty.

\* A list is nil only if no line counts.
LEMMA NilListIsEmpty ==
  ASSUME NEW said, said.ok => IsSeq(said.out), (IF said.ok THEN Slice(Entries(Good(said.out))) ELSE {<<>>}) = Nil
  PROVE  said.ok /\ GoodPlaces(said.out) = {}
<1>1. said.ok
  BY DEF Nil
<1> DEFINE out == said.out
           at == GoodPlaces(out)
           good == Kept(out, at)
<1>2. Entries(good) = <<>>
  <2>1. Good(out) = good
    BY <1>1, GoodPlacesAre
  <2>2. Slice(Entries(good)) = Nil
    BY <1>1, <2>1
  <2> HIDE DEF good
  <2> QED BY <2>2 DEF Slice, Nil
<1>3. DOMAIN Entries(good) = DOMAIN good
  BY DEF Entries
<1>4. DOMAIN good = {}
  BY <1>2, <1>3, EmptyIsMap DEF Empty
<1>5. /\ Len(out) \in Nat /\ DOMAIN out = 1 .. Len(out) /\ at \in SUBSET (1 .. Len(out))
  BY <1>1, GoodPlacesAre
<1>6. \A i \in at : Rank(at, i) \in DOMAIN good
  <2>1. DOMAIN good = 1 .. Cardinality(at) /\ \A i \in at : Rank(at, i) \in 1 .. Cardinality(at)
    BY <1>5, KeptHolds
  <2> QED BY <2>1
<1> HIDE DEF good, at
<1> QED BY <1>1, <1>4, <1>6 DEF at

\* A nil map means that none of its sources is there.
LEMMA NilMapIsUnasked ==
  ASSUME NEW h, ListingHostOK(h), h.of \in {"livepatch", "grub2", "kernel_modules"}
  PROVE  ReportOf(h) = Nil <=> \A s \in DOMAIN h.says \ {"version"} : ~ h.says[s].ok
<1>1. CASE h.of = "livepatch"
  <2>1. DOMAIN h.says = {"dir"}
    BY <1>1 DEF ListingHostOK, SourcesOf, Range
  <2>2. ReportOf(h) = LivepatchInfo(h)
    BY <1>1 DEF ReportOf
  <2>3. ReportOf(h) = Nil <=> ~ h.says["dir"].ok
    BY <2>2 DEF LivepatchInfo, Nil
  <2> QED BY <2>1, <2>3
<1>2. CASE h.of = "kernel_modules"
  <2>1. DOMAIN h.says = {"modules", "version"}
    BY <1>2 DEF ListingHostOK, SourcesOf, Range
  <2>2. ReportOf(h) = ModulesInfo(h)
    BY <1>2 DEF ReportOf
  <2>3. ReportOf(h) = Nil <=> ~ h.says["modules"].ok
    BY <2>2 DEF ModulesInfo, Nil
  <2> QED BY <2>1, <2>3
<1>3. CASE h.of = "grub2"
  <2> DEFINE files == SourcesOf["grub2"]
             found == {k \in DOMAIN files : h.says[files[k]].ok}
  <2>1. DOMAIN files = 1 .. 2 /\ files[1] = "/boot/grub2" /\ files[2] = "/boot/grub"
    BY DEF SourcesOf
  <2>2. DOMAIN h.says = {"/boot/grub2", "/boot/grub"}
    BY <1>3 DEF ListingHostOK, SourcesOf, Range
  <2>3. ReportOf(h) = ReadGrubenv(h)
    BY <1>3 DEF ReportOf
  <2>4. ReportOf(h) = IF found = {} THEN Nil ELSE {ByKey(Good(h.says[files[Min(found)]].out))}
    BY <2>3, Zenon DEF ReadGrubenv
  <2>5. found = {} <=> ~ h.says["/boot/grub2"].ok /\ ~ h.says["/boot/grub"].ok
    BY <2>1
  <2> HIDE DEF files, found
  <2>6. ReportOf(h) = Nil <=> found = {}
    BY <2>4 DEF Nil
  <2> QED BY <2>2, <2>5, <2>6
<1> QED BY <1>1, <1>2, <1>3

\* A document tells what is not there from what could not be asked, on any host.
THEOREM NilIsNotUnknownHolds == Spec => []NilIsNotUnknown
<1>1. ASSUME ListingsAreOfHosts, facts.of \in {"livepatch", "grub2", "kernel_modules"}
      PROVE facts.info = Nil <=> \A s \in DOMAIN host.says \ {"version"} : ~ host.says[s].ok
  <2>1. facts.of \in Listers /\ facts.of # "zpools"
    BY <1>1 DEF Listers
  <2>2. host.of = facts.of /\ facts.info = ReportOf(host) /\ ListingHostOK(host)
    BY <1>1, <2>1, ListingIsReported
  <2> QED BY <1>1, <2>2, NilMapIsUnasked
<1>2. ASSUME ListingsAreOfHosts, Collected("docker"), NEW i \in facts.info
      PROVE /\ i.containers = Nil => host.says["ps"].ok /\ \A k \in Reached("ps") : host.says["ps"].out[k].t # "good"
            /\ i.images = Nil => host.says["images"].ok /\ \A k \in Reached("images") : host.says["images"].out[k].t # "good"
  <2>1. "docker" \in Listers
    BY DEF Listers
  <2>2. host.of = "docker" /\ facts.info = ReportOf(host) /\ ListingHostOK(host)
    BY <1>2, <2>1, ListingIsReported
  <2>3. i \in DockerInfo(host)
    BY <1>2, <2>2 DEF ReportOf
  <2> DEFINE Shown(s) == IF host.says[s].ok THEN Slice(Entries(Good(host.says[s].out))) ELSE {<<>>}
  <2>4. DockerInfo(host) = IF host.says["version"].ok THEN {[containers |-> Shown("ps"), images |-> Shown("images")]} ELSE Nil
    BY Zenon DEF DockerInfo
  <2>5. ASSUME NEW s \in {"ps", "images"}, Shown(s) = Nil
        PROVE host.says[s].ok /\ \A k \in Reached(s) : host.says[s].out[k].t # "good"
    <3>1. s \in DOMAIN host.says
      BY <2>2 DEF ListingHostOK, SourcesOf, Range
    <3>2. host.says[s].ok => IsSeq(host.says[s].out)
      BY <2>2, <3>1 DEF ListingHostOK, ListOf
    <3>3. host.says[s].ok /\ GoodPlaces(host.says[s].out) = {}
      BY <2>5, <3>2, NilListIsEmpty
    <3> QED BY <3>3 DEF GoodPlaces, Reached
  <2> HIDE DEF Shown
  <2>6. i = [containers |-> Shown("ps"), images |-> Shown("images")]
    BY <2>3, <2>4 DEF Nil
  <2>7. i.containers = Shown("ps") /\ i.images = Shown("images")
    BY <2>6
  <2> QED BY <2>5, <2>7
<1>3. ListingsAreOfHosts => NilIsNotUnknown
  BY <1>1, <1>2, Zenon DEF NilIsNotUnknown
<1> QED BY <1>3, ListingsInvHolds, PTL

----------------------------------------------------------------------------
\* Lists that grow by what is not in them yet.
IsOrderOf(s, n, key) ==
    /\ s \in Seq(Range(key)) /\ \A i, j \in 1 .. Len(s) : s[i] = s[j] => i = j
    /\ Range(s) = {key[k] : k \in 1 .. n}

\* A list that takes what is not in it yet.
GrowsBy(g, N, key) ==
    /\ N \in Nat /\ DOMAIN key = 1 .. N /\ g[0] = <<>>
    /\ \A k \in 1 .. N : g[k] = IF key[k] \in Range(g[k - 1]) THEN g[k - 1] ELSE Append(g[k - 1], key[k])

\* A sequence with one more has what it had, and that.
LEMMA AppendAdds ==
  ASSUME NEW S, NEW s \in Seq(S), NEW x \in S
  PROVE  /\ Append(s, x) \in Seq(S) /\ Len(s) \in Nat /\ Len(Append(s, x)) = Len(s) + 1
         /\ \A i \in 1 .. Len(s) : Append(s, x)[i] = s[i]
         /\ Append(s, x)[Len(s) + 1] = x
         /\ Range(Append(s, x)) = Range(s) \cup {x}
<1> DEFINE t == Append(s, x)
           n == Len(s)
<1>1. n \in Nat /\ DOMAIN s = 1 .. n /\ t \in Seq(S) /\ Len(t) = n + 1 /\ DOMAIN t = 1 .. (n + 1)
  BY LenProperties
<1>2. (\A i \in 1 .. n : t[i] = s[i]) /\ t[n + 1] = x
  OBVIOUS
<1> HIDE DEF t, n
<1>3. Range(t) = {t[i] : i \in 1 .. (n + 1)} /\ Range(s) = {s[i] : i \in 1 .. n}
  BY <1>1 DEF Range
<1>4. 1 .. (n + 1) = (1 .. n) \cup {n + 1}
  BY <1>1
<1>5. Range(t) = Range(s) \cup {x}
  BY <1>2, <1>3, <1>4
<1> QED BY <1>1, <1>2, <1>5 DEF t, n

\* Such a list has every key once, in the order of their first lines.
LEMMA OrderGrows ==
  ASSUME NEW g, NEW N, NEW key, GrowsBy(g, N, key)
  PROVE  \A n \in 0 .. N : IsOrderOf(g[n], n, key)
<1> DEFINE A == {n \in 0 .. N : IsOrderOf(g[n], n, key)}
           V == Range(key)
<1>0. /\ N \in Nat /\ DOMAIN key = 1 .. N /\ g[0] = <<>>
      /\ \A k \in 1 .. N : g[k] = IF key[k] \in Range(g[k - 1]) THEN g[k - 1] ELSE Append(g[k - 1], key[k])
  BY DEF GrowsBy
<1>k. \A k \in 1 .. N : key[k] \in V
  BY <1>0 DEF Range
<1>1. 0 \in A
  <2>1. <<>> \in Seq(V) /\ Len(<<>>) = 0 /\ Range(<<>>) = {}
    BY DEF Range
  <2>2. 1 .. 0 = {} /\ 0 \in 0 .. N
    BY <1>0
  <2>3. IsOrderOf(g[0], 0, key)
    BY <1>0, <2>1, <2>2 DEF IsOrderOf
  <2> QED BY <2>2, <2>3
<1>2. ASSUME NEW n \in 0 .. N, n \in A, n < N PROVE n + 1 \in A
  <2> DEFINE s == g[n]
             x == key[n + 1]
  <2>1. n + 1 \in 1 .. N /\ n + 1 \in 0 .. N /\ (n + 1) - 1 = n /\ 1 .. (n + 1) = (1 .. n) \cup {n + 1}
    BY <1>0, <1>2
  <2>2. g[n + 1] = IF x \in Range(s) THEN s ELSE Append(s, x)
    BY <1>0, <2>1
  <2>3. s \in Seq(V) /\ (\A i, j \in 1 .. Len(s) : s[i] = s[j] => i = j) /\ Range(s) = {key[k] : k \in 1 .. n}
    BY <1>2 DEF IsOrderOf
  <2>4. x \in V
    BY <1>k, <2>1
  <2>5. {key[k] : k \in 1 .. (n + 1)} = Range(s) \cup {x}
    BY <2>1, <2>3
  <2> HIDE DEF s, x, V
  <2>6. CASE x \in Range(s)
    <3>1. g[n + 1] = s /\ Range(s) = {key[k] : k \in 1 .. (n + 1)}
      BY <2>2, <2>5, <2>6
    <3>2. IsOrderOf(g[n + 1], n + 1, key)
      BY <2>3, <3>1 DEF IsOrderOf, V
    <3> QED BY <2>1, <3>2
  <2>7. CASE x \notin Range(s)
    <3> DEFINE t == Append(s, x)
    <3>1. /\ t \in Seq(V) /\ Len(s) \in Nat /\ Len(t) = Len(s) + 1
          /\ \A i \in 1 .. Len(s) : t[i] = s[i]
          /\ t[Len(s) + 1] = x /\ Range(t) = Range(s) \cup {x}
      BY <2>3, <2>4, AppendAdds
    <3>2. \A i \in 1 .. Len(s) : s[i] # x
      BY <2>3, <2>7, LenProperties DEF Range
    <3>3. g[n + 1] = t
      BY <2>2, <2>7
    <3> HIDE DEF t
    <3>4. \A i \in 1 .. Len(t) : i \in 1 .. Len(s) \/ i = Len(s) + 1
      BY <3>1
    <3>5. \A i, j \in 1 .. Len(t) : t[i] = t[j] => i = j
      BY <2>3, <3>1, <3>2, <3>4
    <3>6. IsOrderOf(g[n + 1], n + 1, key)
      BY <2>5, <3>1, <3>3, <3>5 DEF IsOrderOf, V
    <3> QED BY <2>1, <3>6
  <2> QED BY <2>6, <2>7
<1> HIDE DEF A
<1>3. \A n \in 0 .. N : n \in A
  BY <1>0, <1>1, <1>2, Induction
<1> QED BY <1>3 DEF A

\* The names of datasets are those of their lines, each once.
LEMMA NamesAreOnce ==
  ASSUME NEW lines, NEW N \in Nat, DOMAIN lines = 1 .. N
  PROVE  IsOrderOf(DatasetNames(lines), N, [k \in 1 .. N |-> lines[k].name])
<1> DEFINE key == [k \in 1 .. N |-> lines[k].name]
           S == Seq(Range(key))
<1>1. DOMAIN key = 1 .. N /\ \A k \in 1 .. N : key[k] = lines[k].name
  OBVIOUS
<1> HIDE DEF key
<1>2. \A k \in 1 .. N : key[k] \in Range(key)
  BY <1>1 DEF Range
<1>3. <<>> \in S
  OBVIOUS
<1>4. \A s \in S, k \in 1 .. N : AddName(s, lines[k]) = IF key[k] \in Range(s) THEN s ELSE Append(s, key[k])
  BY <1>1 DEF AddName
<1>5. ASSUME NEW s \in S, NEW k \in 1 .. N PROVE AddName(s, lines[k]) \in S
  BY <1>2, <1>4, AppendAdds
<1> HIDE DEF S
<1>6. PICK g : NamesTrace(<<>>, lines, N, S, g)
  BY <1>3, <1>5, NamesFold
<1>7. /\ g \in [0 .. N -> S] /\ g[0] = <<>> /\ DatasetNames(lines) = g[N]
      /\ \A k \in 1 .. N : g[k] = AddName(g[k - 1], lines[k])
  BY <1>6, Zenon DEF NamesTrace, DatasetNames
<1>8. ASSUME NEW k \in 1 .. N PROVE g[k] = IF key[k] \in Range(g[k - 1]) THEN g[k - 1] ELSE Append(g[k - 1], key[k])
  <2>1. g[k - 1] \in S
    BY <1>7
  <2> QED BY <2>1, <1>4, <1>7
<1>9. GrowsBy(g, N, key)
  BY <1>1, <1>7, <1>8 DEF GrowsBy
<1>10. IsOrderOf(g[N], N, key)
  <2>1. N \in 0 .. N
    OBVIOUS
  <2> QED BY <1>9, <2>1, OrderGrows
<1> QED BY <1>7, <1>10 DEF key

----------------------------------------------------------------------------
\* Datasets and pools.

\* The places of the lines that are not torn.
ZfsPlaces(out) == {k \in DOMAIN out : out[k].fields = 4 /\ out[k].name # <<>> /\ out[k].property # None}

\* The places of a dataset.
OwnPlaces(out, n) == {k \in ZfsPlaces(out) : out[k].name = n}

\* The properties a dataset has are those of its lines, the last of each counting.
HasItsProperties(out, set) ==
    IsLastAt(set.properties, OwnPlaces(out, set.name), [k \in DOMAIN out |-> out[k].property], [k \in DOMAIN out |-> out[k].value])

\* Among the lines that are kept the last of a key is the last of all.
LEMMA LastOfKept ==
  ASSUME NEW n \in Nat, NEW at \in SUBSET (1 .. n), NEW own \in SUBSET at, NEW m, NEW key, NEW val, NEW rkey, NEW rval,
         AreOfPlaces(at, rkey, key), AreOfPlaces(at, rval, val),
         IsLastAt(m, {Rank(at, k) : k \in own}, rkey, rval)
  PROVE  IsLastAt(m, own, key, val)
<1> DEFINE ranks == {Rank(at, k) : k \in own}
<1>1. \A i, j \in at : i < j => Rank(at, i) < Rank(at, j)
  BY RanksCount
<1>2. \A i \in at : rkey[Rank(at, i)] = key[i] /\ rval[Rank(at, i)] = val[i] /\ Rank(at, i) \in Nat /\ i \in Nat
  <2>1. Cardinality(at) \in Nat /\ \A i \in at : Rank(at, i) \in 1 .. Cardinality(at)
    BY RanksCount
  <2> QED BY <2>1 DEF AreOfPlaces
<1>3. /\ DOMAIN m = {rkey[k] : k \in ranks}
      /\ \A i \in ranks : (\A j \in ranks : j > i => rkey[j] # rkey[i]) => m[rkey[i]] = rval[i]
  BY DEF IsLastAt
<1>4. DOMAIN m = {key[k] : k \in own}
  BY <1>2, <1>3
<1>5. ASSUME NEW i \in own, \A j \in own : j > i => key[j] # key[i] PROVE m[key[i]] = val[i]
  <2>1. Rank(at, i) \in ranks
    OBVIOUS
  <2>2. ASSUME NEW q \in ranks, q > Rank(at, i) PROVE rkey[q] # rkey[Rank(at, i)]
    <3>1. PICK j \in own : Rank(at, j) = q
      OBVIOUS
    <3>2. j > i
      <4>1. ~ (j < i) /\ j # i
        BY <1>1, <1>2, <2>2, <3>1
      <4> QED BY <1>2, <4>1
    <3> QED BY <1>2, <1>5, <3>1, <3>2
  <2> HIDE DEF ranks
  <2>3. m[rkey[Rank(at, i)]] = rval[Rank(at, i)]
    BY <1>3, <2>1, <2>2
  <2> QED BY <1>2, <2>3
<1> QED BY <1>4, <1>5 DEF IsLastAt

\* Datasets are those of the good lines, once each and with their own properties.
LEMMA DatasetsAreWhole ==
  ASSUME NEW out, IsSeq(out)
  PROVE  /\ \A j, k \in DOMAIN ParseZFSGetAll(out) : ParseZFSGetAll(out)[j].name = ParseZFSGetAll(out)[k].name => j = k
         /\ {ParseZFSGetAll(out)[i].name : i \in DOMAIN ParseZFSGetAll(out)} = {out[k].name : k \in ZfsPlaces(out)}
         /\ \A i \in DOMAIN ParseZFSGetAll(out) : HasItsProperties(out, ParseZFSGetAll(out)[i])
<1> DEFINE n == Len(out)
           at == ZfsPlaces(out)
           c == Cardinality(at)
           good == GoodZfs(out)
           sets == ParseZFSGetAll(out)
           names == DatasetNames(good)
           Own(x) == {k \in DOMAIN good : good[k].name = x}
           rname == [r \in 1 .. c |-> good[r].name]
<1>1. n \in Nat /\ DOMAIN out = 1 .. n /\ at \in SUBSET (1 .. n)
  BY LenProperties DEF IsSeq, ZfsPlaces
<1>2. good = Kept(out, at)
  BY Zenon DEF GoodZfs, ZfsPlaces
<1>3. DOMAIN sets = DOMAIN names /\ \A i \in DOMAIN sets :
          sets[i].name = names[i] /\ sets[i].properties = PropertiesOf(Kept(good, Own(names[i])))
  BY DEF ParseZFSGetAll
<1> HIDE DEF at, n, sets
<1>4. /\ c \in Nat /\ DOMAIN good = 1 .. c
      /\ \A i \in at : Rank(at, i) \in 1 .. c /\ good[Rank(at, i)] = out[i]
      /\ \A r \in 1 .. c : \E i \in at : Rank(at, i) = r /\ good[r] = out[i]
  BY <1>1, <1>2, KeptHolds
<1> HIDE DEF good, c
<1>5. IsOrderOf(names, c, rname)
  BY <1>4, NamesAreOnce
<1>6. /\ DOMAIN names = 1 .. Len(names) /\ (\A i, j \in 1 .. Len(names) : names[i] = names[j] => i = j)
      /\ Range(names) = {good[k].name : k \in 1 .. c}
  BY <1>5 DEF IsOrderOf
<1> HIDE DEF names
<1>7. ASSUME NEW j \in DOMAIN sets, NEW k \in DOMAIN sets, sets[j].name = sets[k].name PROVE j = k
  <2>1. j \in 1 .. Len(names) /\ k \in 1 .. Len(names) /\ names[j] = names[k]
    BY <1>3, <1>6, <1>7
  <2> QED BY <1>6, <2>1
<1>8. {sets[i].name : i \in DOMAIN sets} = {out[k].name : k \in at}
  <2>1. {sets[i].name : i \in DOMAIN sets} = Range(names)
    BY <1>3 DEF Range
  <2>2. {good[k].name : k \in 1 .. c} = {out[k].name : k \in at}
    BY <1>4
  <2> QED BY <1>6, <2>1, <2>2
<1>9. ASSUME NEW i \in DOMAIN sets PROVE HasItsProperties(out, sets[i])
  <2> DEFINE x == sets[i].name
             own == OwnPlaces(out, x)
             ranks == Own(x)
             lines == Kept(good, ranks)
             N == Cardinality(ranks)
             m == sets[i].properties
             key == [k \in DOMAIN out |-> out[k].property]
             val == [k \in DOMAIN out |-> out[k].value]
             gkey == [r \in 1 .. c |-> good[r].property]
             gval == [r \in 1 .. c |-> good[r].value]
             lkey == [r \in 1 .. N |-> lines[r].property]
             lval == [r \in 1 .. N |-> lines[r].value]
  <2>1. m = PropertiesOf(lines)
    BY <1>3
  <2>2. ranks \in SUBSET (1 .. c)
    BY <1>4
  <2>3. own \in SUBSET at /\ \A k \in own : out[k].name = x
    BY DEF OwnPlaces, at
  <2>4. ranks = {Rank(at, k) : k \in own}
    <3>1. ASSUME NEW k \in own PROVE Rank(at, k) \in ranks
      BY <1>4, <2>3
    <3>2. ASSUME NEW r \in ranks PROVE \E k \in own : r = Rank(at, k)
      <4>1. PICK k \in at : Rank(at, k) = r /\ good[r] = out[k]
        BY <1>4, <2>2
      <4>2. good[r].name = x
        OBVIOUS
      <4>3. k \in own
        BY <4>1, <4>2 DEF OwnPlaces, at
      <4> QED BY <4>1, <4>3
    <3> HIDE DEF ranks, own
    <3> QED BY <3>1, <3>2
  <2> HIDE DEF m, ranks, own, x
  <2>5. N \in Nat /\ DOMAIN lines = 1 .. N /\ \A r \in ranks : Rank(ranks, r) \in 1 .. N /\ lines[Rank(ranks, r)] = good[r]
    BY <1>4, <2>2, KeptHolds
  <2> HIDE DEF lines, N
  <2>6. IsLastPut(m, N, lkey, lval)
    BY <2>1, <2>5, PropertiesAreLast
  <2>7. AreOfPlaces(ranks, lkey, gkey) /\ AreOfPlaces(ranks, lval, gval)
    BY <2>2, <2>5 DEF AreOfPlaces
  <2>8. AreOfPlaces(at, gkey, key) /\ AreOfPlaces(at, gval, val)
    BY <1>1, <1>4 DEF AreOfPlaces
  <2> HIDE DEF key, val, gkey, gval, lkey, lval
  <2>9. IsLastAt(m, ranks, gkey, gval)
    BY <1>4, <2>2, <2>6, <2>7, LastOfPlaces DEF N
  <2>10. IsLastAt(m, own, key, val)
    BY <1>1, <2>3, <2>4, <2>8, <2>9, LastOfKept
  <2> QED BY <2>10 DEF HasItsProperties, m, own, x, key, val
<1> QED BY <1>7, <1>8, <1>9 DEF sets, at

\* Torn lines cost nothing but themselves, on any host.
THEOREM TornLinesStayLocalHolds == Spec => []TornLinesStayLocal
<1>1. ASSUME ReportsAreOfHosts, Collected("filesystem"), ~ host.darwin, host.zfs.ok
      PROVE  LET out == host.zfs.out
                 sets == facts.info.zfs
                 good == {k \in DOMAIN out : out[k].fields = 4 /\ out[k].name # <<>> /\ out[k].property # None}
                 Own(n) == {k \in good : out[k].name = n}
                 Latest(n) == {k \in Own(n) : \A j \in Own(n) : j > k => out[j].property # out[k].property}
             IN /\ \A j, k \in DOMAIN sets : sets[j].name = sets[k].name => j = k
                /\ {sets[i].name : i \in DOMAIN sets} = {out[k].name : k \in good}
                /\ \A i \in DOMAIN sets :
                     /\ DOMAIN sets[i].properties = {out[k].property : k \in Own(sets[i].name)}
                     /\ \A k \in Latest(sets[i].name) : sets[i].properties[out[k].property] = out[k].value
  <2>0. facts.of = "filesystem" /\ ~ facts.err /\ "filesystem" \in Reporters
    BY <1>1 DEF Collected, Reporters
  <2>1. host.of = "filesystem" /\ facts.info = FilesystemInfo(host) /\ host \in Hosts
    BY <1>1, <2>0, Zenon DEF ReportsAreOfHosts, ReportersInv
  <2>2. StorageHostOK(host)
    BY <2>0, <2>1, StorageHostsAreTheirOwn
  <2>3. IsSeq(host.zfs.out)
    BY <1>1, <2>1, <2>2 DEF StorageHostOK, ListOf
  <2> DEFINE out == host.zfs.out
             sets == facts.info.zfs
  <2>4. sets = ParseZFSGetAll(out)
    BY <1>1, <2>1 DEF FilesystemInfo
  <2>5. /\ \A j, k \in DOMAIN sets : sets[j].name = sets[k].name => j = k
        /\ {sets[i].name : i \in DOMAIN sets} = {out[k].name : k \in ZfsPlaces(out)}
        /\ \A i \in DOMAIN sets : HasItsProperties(out, sets[i])
    <3> HIDE DEF sets, out
    <3>1. /\ \A j, k \in DOMAIN ParseZFSGetAll(out) : ParseZFSGetAll(out)[j].name = ParseZFSGetAll(out)[k].name => j = k
          /\ {ParseZFSGetAll(out)[i].name : i \in DOMAIN ParseZFSGetAll(out)} = {out[k].name : k \in ZfsPlaces(out)}
          /\ \A i \in DOMAIN ParseZFSGetAll(out) : HasItsProperties(out, ParseZFSGetAll(out)[i])
      BY <2>3, Zenon, DatasetsAreWhole DEF out
    <3> QED BY <2>4, <3>1
  <2> DEFINE own(x) == OwnPlaces(out, x)
             last(x) == {k \in own(x) : \A j \in own(x) : j > k => out[j].property # out[k].property}
  <2> HIDE DEF sets
  <2>6. ASSUME NEW i \in DOMAIN sets
        PROVE  /\ DOMAIN sets[i].properties = {out[k].property : k \in own(sets[i].name)}
               /\ \A k \in last(sets[i].name) : sets[i].properties[out[k].property] = out[k].value
    <3> DEFINE mine == own(sets[i].name)
               key == [k \in DOMAIN out |-> out[k].property]
               val == [k \in DOMAIN out |-> out[k].value]
               m == sets[i].properties
    <3>1. IsLastAt(m, mine, key, val)
      BY <2>5 DEF HasItsProperties
    <3>2. mine \subseteq DOMAIN out
      BY DEF OwnPlaces, ZfsPlaces
    <3>3. \A k \in mine : key[k] = out[k].property /\ val[k] = out[k].value
      BY <3>2
    <3> HIDE DEF mine, key, val, m
    <3>4. DOMAIN m = {out[k].property : k \in mine}
      BY <3>1, <3>3 DEF IsLastAt
    <3>5. ASSUME NEW k \in mine, \A j \in mine : j > k => out[j].property # out[k].property
          PROVE  m[out[k].property] = out[k].value
      <4>1. \A j \in mine : j > k => key[j] # key[k]
        BY <3>3, <3>5
      <4>2. m[key[k]] = val[k]
        BY <3>1, <4>1 DEF IsLastAt
      <4> QED BY <3>3, <4>2
    <3> QED BY <3>4, <3>5 DEF mine, m
  <2>7. \A x : own(x) = {k \in {k \in DOMAIN out : out[k].fields = 4 /\ out[k].name # <<>> /\ out[k].property # None} : out[k].name = x}
    BY DEF OwnPlaces, ZfsPlaces
  <2> HIDE DEF own, out
  <2> QED BY <2>5, <2>6, <2>7 DEF ZfsPlaces, sets, out
<1>2. ASSUME ListingsAreOfHosts, Collected("zpools"), host.list.ok
      PROVE  {p.name : p \in Range(facts.info)} = {l.name : l \in {l \in Range(host.list.out) : l.fields = 6}}
  <2>1. "zpools" \in Listers
    BY DEF Listers
  <2>2. host.of = "zpools" /\ facts.info = ReportOf(host) /\ StorageHostOK(host)
    BY <1>2, <2>1, ListingIsReported
  <2> DEFINE out == host.list.out
             at == {k \in DOMAIN out : out[k].fields = 6}
             good == Kept(out, at)
  <2>3. IsSeq(out)
    BY <1>2, <2>2 DEF StorageHostOK, ListOf
  <2>4. facts.info = [k \in DOMAIN good |-> [name |-> good[k].name, health |-> Sanitize(good[k].health)]]
    BY <1>2, <2>2 DEF ReportOf, CollectPools, ParseZpoolList
  <2>5. Len(out) \in Nat /\ DOMAIN out = 1 .. Len(out) /\ Range(out) = {out[k] : k \in DOMAIN out}
    BY <2>3, LenProperties DEF IsSeq, Range
  <2>6. at \in SUBSET (1 .. Len(out))
    BY <2>5
  <2>7. Range(good) = {out[k] : k \in at}
    <3> HIDE DEF at, out
    <3> QED BY <2>5, <2>6, KeptHolds
  <2>8. {p.name : p \in Range(facts.info)} = {l.name : l \in Range(good)}
    <3> HIDE DEF good
    <3> QED BY <2>4 DEF Range
  <2>9. {out[k] : k \in at} = {l \in Range(out) : l.fields = 6}
    BY <2>5
  <2> QED BY <2>7, <2>8, <2>9
<1>3. ReportsAreOfHosts /\ ListingsAreOfHosts => TornLinesStayLocal
  BY <1>1, <1>2, Zenon DEF TornLinesStayLocal
<1> QED BY <1>3, ReportersInvHolds, ListingsInvHolds, PTL

----------------------------------------------------------------------------
\* The queues of tc.

\* A place behind all others is the last one.
LEMMA RankGrows ==
  ASSUME NEW n \in Nat, NEW at \in SUBSET (1 .. n)
  PROVE  /\ Cardinality(at \cup {n + 1}) = Cardinality(at) + 1
         /\ \A k \in at : Rank(at \cup {n + 1}, k) = Rank(at, k)
         /\ Rank(at \cup {n + 1}, n + 1) = Cardinality(at) + 1
<1>1. IsFiniteSet(at) /\ n + 1 \notin at
  BY RanksCount
<1>2. Cardinality(at \cup {n + 1}) = Cardinality(at) + 1
  BY <1>1, FS_AddElement
<1>3. ASSUME NEW k \in at PROVE {j \in at \cup {n + 1} : j <= k} = {j \in at : j <= k}
  <2>1. ~ (n + 1 <= k)
    <3>1. k \in 1 .. n
      OBVIOUS
    <3> QED BY <3>1
  <2> QED BY <2>1
<1>4. {j \in at \cup {n + 1} : j <= n + 1} = at \cup {n + 1}
  <2>1. ASSUME NEW j \in at \cup {n + 1} PROVE j <= n + 1
    <3>1. CASE j \in at
      <4>1. j \in 1 .. n
        BY <3>1
      <4> QED BY <4>1
    <3>2. CASE j = n + 1
      BY <3>2
    <3> QED BY <3>1, <3>2
  <2> QED BY <2>1
<1> QED BY <1>2, <1>3, <1>4 DEF Rank

\* Places of places are counted as the places are.
LEMMA RankOfRanks ==
  ASSUME NEW n \in Nat, NEW at \in SUBSET (1 .. n), NEW own \in SUBSET at
  PROVE  /\ Cardinality({Rank(at, k) : k \in own}) = Cardinality(own)
         /\ \A k \in own : Rank({Rank(at, i) : i \in own}, Rank(at, k)) = Rank(own, k)
<1>1. \A i, j \in at : i < j => Rank(at, i) < Rank(at, j)
  BY RanksCount
<1>2. \A i \in at : i \in Nat /\ Rank(at, i) \in Nat
  <2>1. Cardinality(at) \in Nat /\ \A i \in at : Rank(at, i) \in 1 .. Cardinality(at)
    BY RanksCount
  <2> QED BY <2>1
<1>3. ASSUME NEW i \in at, NEW j \in at PROVE (Rank(at, i) <= Rank(at, j) <=> i <= j) /\ (Rank(at, i) = Rank(at, j) => i = j)
  <2>1. CASE i < j
    BY <1>1, <1>2, <2>1
  <2>2. CASE j < i
    BY <1>1, <1>2, <2>2
  <2>3. CASE i = j
    BY <1>2, <2>3
  <2> QED BY <1>2, <2>1, <2>2, <2>3
<1>4. ASSUME NEW part \in SUBSET own PROVE Cardinality({Rank(at, k) : k \in part}) = Cardinality(part)
  <2> DEFINE image == {Rank(at, k) : k \in part}
             f == [k \in part |-> Rank(at, k)]
  <2>1. IsFiniteSet(part)
    <3>1. part \in SUBSET (1 .. n)
      OBVIOUS
    <3> QED BY <3>1, RanksCount
  <2>2. f \in [part -> image] /\ (\A i, j \in part : f[i] = f[j] => i = j) /\ \A y \in image : \E k \in part : f[k] = y
    BY <1>3
  <2> HIDE DEF f, image
  <2>3. f \in Bijection(part, image)
    BY <2>2 DEF Bijection, Injection, Surjection, IsInjective
  <2>4. ExistsBijection(part, image)
    BY <2>3 DEF ExistsBijection
  <2> QED BY <2>1, <2>4, FS_Bijection DEF image
<1>5. ASSUME NEW k \in own PROVE Rank({Rank(at, i) : i \in own}, Rank(at, k)) = Rank(own, k)
  <2> DEFINE part == {j \in own : j <= k}
  <2>1. {r \in {Rank(at, i) : i \in own} : r <= Rank(at, k)} = {Rank(at, i) : i \in part}
    BY <1>3
  <2>2. Cardinality({Rank(at, i) : i \in part}) = Cardinality(part)
    <3>1. part \in SUBSET own
      OBVIOUS
    <3> HIDE DEF part
    <3> QED BY <1>4, <3>1
  <2> QED BY <2>1, <2>2 DEF Rank
<1>6. own \in SUBSET own
  OBVIOUS
<1> QED BY <1>4, <1>5, <1>6

\* The lines up to a place that are of an interface.
LinesOf(n, key, x) == {k \in 1 .. n : key[k] = x}

\* An interface has as many queues as it has lines, in their order.
HasItsQueues(queues, at, val) ==
    Len(queues) = Cardinality(at) /\ \A k \in at : queues[Rank(at, k)] = val[k]

\* What has been read of tc after n lines.
QueuesInv(s, n, key, val) ==
    /\ Range(s.order) = DOMAIN s.map /\ DOMAIN s.map = {key[k] : k \in 1 .. n}
    /\ \A x \in DOMAIN s.map : HasItsQueues(s.map[x], LinesOf(n, key, x), val)

\* The type of what is read.
QueuesOf(keys, vals) == [order : Seq(keys), map : Maps(keys, Seq(vals))]

\* A line adds to the queues of its interface and leaves the others alone.
LEMMA AddQueueMoves ==
  ASSUME NEW keys, NEW vals, NEW s \in QueuesOf(keys, vals), NEW l, l.key \in keys, l.val \in vals
  PROVE  /\ AddQueue(s, l) \in QueuesOf(keys, vals)
         /\ AddQueue(s, l).order = IF l.key \in DOMAIN s.map THEN s.order ELSE Append(s.order, l.key)
         /\ DOMAIN AddQueue(s, l).map = DOMAIN s.map \cup {l.key}
         /\ AddQueue(s, l).map[l.key] = Append(IF l.key \in DOMAIN s.map THEN s.map[l.key] ELSE <<>>, l.val)
         /\ \A x \in DOMAIN s.map : x # l.key => AddQueue(s, l).map[x] = s.map[x]
<1>1. s.order \in Seq(keys) /\ s.map \in Maps(keys, Seq(vals))
  BY DEF QueuesOf
<1> DEFINE old == IF l.key \in DOMAIN s.map THEN s.map[l.key] ELSE <<>>
           new == Append(old, l.val)
           order == IF l.key \in DOMAIN s.map THEN s.order ELSE Append(s.order, l.key)
<1>2. AddQueue(s, l) = [order |-> order, map |-> Put(s.map, l.key, new)]
  BY DEF AddQueue
<1>3. old \in Seq(vals)
  BY <1>1 DEF Maps
<1>4. order \in Seq(keys)
  BY <1>1
<1> HIDE DEF old, order
<1>5. new \in Seq(vals)
  BY <1>3
<1> HIDE DEF new
<1>6. Put(s.map, l.key, new) \in Maps(keys, Seq(vals))
  BY <1>1, <1>5, PutIsMap
<1>7. /\ DOMAIN Put(s.map, l.key, new) = DOMAIN s.map \cup {l.key} /\ Put(s.map, l.key, new)[l.key] = new
      /\ \A x \in DOMAIN s.map : x # l.key => Put(s.map, l.key, new)[x] = s.map[x]
  BY DEF Put
<1> DEFINE t == AddQueue(s, l)
           put == Put(s.map, l.key, new)
<1>8. t = [order |-> order, map |-> put]
  BY <1>2
<1>9. put \in Maps(keys, Seq(vals))
  BY <1>6
<1>10. DOMAIN put = DOMAIN s.map \cup {l.key} /\ put[l.key] = new /\ \A x \in DOMAIN s.map : x # l.key => put[x] = s.map[x]
  BY <1>7
<1> HIDE DEF t, put
<1>11. t.order = order /\ t.map = put
  BY <1>8
<1>12. t \in QueuesOf(keys, vals)
  BY <1>4, <1>8, <1>9 DEF QueuesOf
<1>13. DOMAIN t.map = DOMAIN s.map \cup {l.key} /\ t.map[l.key] = new /\ \A x \in DOMAIN s.map : x # l.key => t.map[x] = s.map[x]
  BY <1>10, <1>11
<1> QED BY <1>11, <1>12, <1>13, Zenon DEF t, new, old, order

\* The invariant of the queues goes from one line to the next.
LEMMA QueuesGrow ==
  ASSUME NEW N \in Nat, NEW key, NEW val, NEW keys, NEW vals, NEW s \in QueuesOf(keys, vals), NEW l,
         NEW n \in 0 .. N, n < N, QueuesInv(s, n, key, val),
         l.key \in keys, l.val \in vals, key[n + 1] = l.key, val[n + 1] = l.val
  PROVE  QueuesInv(AddQueue(s, l), n + 1, key, val)
<1> DEFINE t == AddQueue(s, l)
<1>1. /\ Range(s.order) = DOMAIN s.map /\ DOMAIN s.map = {key[k] : k \in 1 .. n}
      /\ \A x \in DOMAIN s.map : HasItsQueues(s.map[x], LinesOf(n, key, x), val)
  BY DEF QueuesInv
<1>2. s.order \in Seq(keys) /\ s.map \in Maps(keys, Seq(vals))
  BY DEF QueuesOf
<1>3. /\ t.order = IF l.key \in DOMAIN s.map THEN s.order ELSE Append(s.order, l.key)
      /\ DOMAIN t.map = DOMAIN s.map \cup {l.key}
      /\ t.map[l.key] = Append(IF l.key \in DOMAIN s.map THEN s.map[l.key] ELSE <<>>, l.val)
      /\ \A x \in DOMAIN s.map : x # l.key => t.map[x] = s.map[x]
  BY AddQueueMoves
<1> HIDE DEF t
<1>4. n \in Nat /\ n + 1 \in 1 .. (n + 1) /\ 1 .. (n + 1) = (1 .. n) \cup {n + 1}
  OBVIOUS
<1>5. Range(t.order) = DOMAIN t.map
  <2>1. Range(Append(s.order, l.key)) = Range(s.order) \cup {l.key}
    BY <1>2, AppendAdds
  <2> QED BY <1>1, <1>3, <2>1
<1>6. DOMAIN t.map = {key[k] : k \in 1 .. (n + 1)}
  BY <1>1, <1>3, <1>4
<1>7. ASSUME NEW x \in DOMAIN t.map PROVE HasItsQueues(t.map[x], LinesOf(n + 1, key, x), val)
  <2>1. CASE x # l.key
    <3>1. x \in DOMAIN s.map /\ t.map[x] = s.map[x]
      BY <1>3, <2>1
    <3>2. LinesOf(n + 1, key, x) = LinesOf(n, key, x)
      BY <1>4, <2>1 DEF LinesOf
    <3> QED BY <1>1, <3>1, <3>2
  <2>2. CASE x = l.key
    <3> DEFINE old == IF l.key \in DOMAIN s.map THEN s.map[l.key] ELSE <<>>
               at == LinesOf(n, key, x)
               more == LinesOf(n + 1, key, x)
    <3>1. more = at \cup {n + 1} /\ at \in SUBSET (1 .. n)
      BY <1>4, <2>2 DEF LinesOf
    <3>2. old \in Seq(vals)
      BY <1>2 DEF Maps
    <3>3. HasItsQueues(old, at, val)
      <4>1. CASE x \in DOMAIN s.map
        BY <1>1, <2>2, <4>1
      <4>2. CASE x \notin DOMAIN s.map
        <5>1. at = {}
          BY <1>1, <4>2 DEF LinesOf
        <5>2. old = <<>> /\ Len(<<>>) = 0
          BY <2>2, <4>2
        <5> QED BY <5>1, <5>2, FS_EmptySet DEF HasItsQueues
      <4> QED BY <4>1, <4>2
    <3>4. t.map[x] = Append(old, l.val)
      BY <1>3, <2>2
    <3> HIDE DEF old, at, more
    <3>5. /\ Len(old) \in Nat /\ Len(Append(old, l.val)) = Len(old) + 1
          /\ \A i \in 1 .. Len(old) : Append(old, l.val)[i] = old[i]
          /\ Append(old, l.val)[Len(old) + 1] = l.val
      BY <3>2, AppendAdds
    <3>6. Len(old) = Cardinality(at) /\ \A k \in at : old[Rank(at, k)] = val[k]
      BY <3>3 DEF HasItsQueues
    <3>7. \A k \in at : Rank(at, k) \in 1 .. Cardinality(at)
      BY <1>4, <3>1, RanksCount
    <3>8. /\ Cardinality(more) = Cardinality(at) + 1 /\ \A k \in at : Rank(more, k) = Rank(at, k)
          /\ Rank(more, n + 1) = Cardinality(at) + 1
      BY <1>4, <3>1, RankGrows
    <3>9. ASSUME NEW k \in more PROVE t.map[x][Rank(more, k)] = val[k]
      <4>1. CASE k \in at
        BY <3>4, <3>5, <3>6, <3>7, <3>8, <4>1
      <4>2. CASE k = n + 1
        BY <3>4, <3>5, <3>6, <3>8, <4>2
      <4> QED BY <3>1, <4>1, <4>2
    <3> QED BY <3>4, <3>5, <3>6, <3>8, <3>9 DEF HasItsQueues, more
  <2> QED BY <2>1, <2>2
<1> QED BY <1>5, <1>6, <1>7 DEF QueuesInv, t

\* What is read of tc: every interface once, with its queues.
LEMMA QueuesAreRead ==
  ASSUME NEW lines, NEW N \in Nat, DOMAIN lines = 1 .. N
  PROVE  /\ IsOrderOf(ReadQueues(lines).order, N, [k \in 1 .. N |-> lines[k].key])
         /\ QueuesInv(ReadQueues(lines), N, [k \in 1 .. N |-> lines[k].key], [k \in 1 .. N |-> lines[k].val])
<1> DEFINE key == [k \in 1 .. N |-> lines[k].key]
           val == [k \in 1 .. N |-> lines[k].val]
           S == QueuesOf(Range(key), Range(val))
           start == [order |-> <<>>, map |-> Empty]
<1>1. DOMAIN key = 1 .. N /\ DOMAIN val = 1 .. N /\ \A k \in 1 .. N : key[k] = lines[k].key /\ val[k] = lines[k].val
  OBVIOUS
<1> HIDE DEF key, val
<1>2. \A k \in 1 .. N : lines[k].key \in Range(key) /\ lines[k].val \in Range(val)
  BY <1>1 DEF Range
<1>3. start \in S
  <2>1. Empty \in Maps(Range(key), Seq(Range(val)))
    BY EmptyIsMap
  <2> QED BY <2>1 DEF QueuesOf
<1>4. \A s \in S, k \in 1 .. N : AddQueue(s, lines[k]) \in S
  BY <1>2, AddQueueMoves
<1>5. start.order = <<>> /\ start.map = Empty
  OBVIOUS
<1> HIDE DEF S
<1>6. PICK h : QueuesTrace(start, lines, N, S, h)
  <2> HIDE DEF start
  <2> QED BY <1>3, <1>4, QueuesFold
<1>7. /\ h \in [0 .. N -> S] /\ h[0] = start /\ ReadQueues(lines) = h[N]
      /\ \A k \in 1 .. N : h[k] = AddQueue(h[k - 1], lines[k])
  BY <1>6, Zenon DEF QueuesTrace, ReadQueues
<1> HIDE DEF start
<1> DEFINE A == {n \in 0 .. N : QueuesInv(h[n], n, key, val)}
<1>8. 0 \in A
  <2>1. Range(<<>>) = {} /\ DOMAIN Empty = {} /\ 1 .. 0 = {} /\ 0 \in 0 .. N
    BY EmptyIsMap DEF Range
  <2>2. QueuesInv(h[0], 0, key, val)
    BY <1>5, <1>7, <2>1 DEF QueuesInv
  <2> QED BY <2>1, <2>2
<1>9. ASSUME NEW n \in 0 .. N, n \in A, n < N PROVE n + 1 \in A
  <2>1. n + 1 \in 1 .. N /\ n + 1 \in 0 .. N /\ (n + 1) - 1 = n
    BY <1>9
  <2>2. h[n + 1] = AddQueue(h[n], lines[n + 1]) /\ h[n] \in S
    <3>1. h[n + 1] = AddQueue(h[(n + 1) - 1], lines[n + 1])
      BY <1>7, <2>1, Zenon
    <3> QED BY <1>7, <2>1, <3>1
  <2>3. lines[n + 1].key = key[n + 1] /\ lines[n + 1].val = val[n + 1]
    BY <1>1, <2>1
  <2>4. QueuesInv(AddQueue(h[n], lines[n + 1]), n + 1, key, val)
    BY <1>2, <1>9, <2>1, <2>2, <2>3, QueuesGrow DEF S
  <2> QED BY <2>1, <2>2, <2>4
<1> HIDE DEF A
<1>10. \A n \in 0 .. N : n \in A
  BY <1>8, <1>9, Induction
<1>11. \A n \in 0 .. N : QueuesInv(h[n], n, key, val)
  BY <1>10 DEF A
<1> DEFINE g == [k \in 0 .. N |-> h[k].order]
<1>12. \A k \in 0 .. N : g[k] = h[k].order
  OBVIOUS
<1> HIDE DEF g
<1>13. ASSUME NEW k \in 1 .. N PROVE g[k] = IF key[k] \in Range(g[k - 1]) THEN g[k - 1] ELSE Append(g[k - 1], key[k])
  <2>1. k - 1 \in 0 .. N /\ k \in 0 .. N
    OBVIOUS
  <2>2. h[k] = AddQueue(h[k - 1], lines[k]) /\ h[k - 1] \in S /\ QueuesInv(h[k - 1], k - 1, key, val)
    BY <1>7, <1>11, <2>1
  <2>3. h[k].order = IF lines[k].key \in DOMAIN h[k - 1].map THEN h[k - 1].order ELSE Append(h[k - 1].order, lines[k].key)
    <3> DEFINE s == h[k - 1]
               l == lines[k]
    <3>1. s \in QueuesOf(Range(key), Range(val)) /\ l.key \in Range(key) /\ l.val \in Range(val)
      BY <1>2, <2>2 DEF S
    <3>2. h[k] = AddQueue(s, l)
      BY <2>2
    <3> HIDE DEF s, l
    <3>3. AddQueue(s, l).order = IF l.key \in DOMAIN s.map THEN s.order ELSE Append(s.order, l.key)
      BY <3>1, AddQueueMoves
    <3> QED BY <3>2, <3>3, Zenon DEF s, l
  <2>4. Range(h[k - 1].order) = DOMAIN h[k - 1].map
    BY <2>2 DEF QueuesInv
  <2> QED BY <1>1, <1>12, <2>1, <2>3, <2>4
<1>14. N \in 0 .. N /\ 0 \in 0 .. N
  OBVIOUS
<1>15. GrowsBy(g, N, key)
  BY <1>1, <1>5, <1>7, <1>12, <1>13, <1>14 DEF GrowsBy
<1>16. IsOrderOf(g[N], N, key)
  BY <1>14, <1>15, OrderGrows
<1> QED BY <1>7, <1>11, <1>12, <1>14, <1>16 DEF key, val

\* The places of the lines of an interface.
QueuePlaces(out, x) == {k \in GoodPlaces(out) : out[k].key = x}

\* The interfaces are those of tc's good lines, with all their queues.
InterfacesOf(out, info) ==
    /\ {info[i].name : i \in DOMAIN info} = {out[k].key : k \in GoodPlaces(out)}
    /\ \A i, j \in DOMAIN info : info[i].name = info[j].name => i = j
    /\ \A i \in DOMAIN info :
          HasItsQueues(info[i].qdiscs, QueuePlaces(out, info[i].name), [k \in DOMAIN out |-> out[k].val])

\* That is what the parser makes of any output.
LEMMA InterfacesAreWhole ==
  ASSUME NEW out, IsSeq(out), NEW info, info = ParseTCOutput(out)
  PROVE  InterfacesOf(out, info)
<1> DEFINE n == Len(out)
           at == GoodPlaces(out)
           c == Cardinality(at)
           good == Good(out)
           read == ReadQueues(good)
           rkey == [r \in 1 .. c |-> good[r].key]
           rval == [r \in 1 .. c |-> good[r].val]
           val == [k \in DOMAIN out |-> out[k].val]
<1>1. n \in Nat /\ DOMAIN out = 1 .. n /\ at \in SUBSET (1 .. n) /\ good = Kept(out, at)
  BY GoodPlacesAre
<1>2. info = [k \in DOMAIN read.order |-> [name |-> read.order[k], qdiscs |-> read.map[read.order[k]]]]
  BY Zenon DEF ParseTCOutput
<1> HIDE DEF at, n, good
<1>3. /\ c \in Nat /\ DOMAIN good = 1 .. c
      /\ \A i \in at : Rank(at, i) \in 1 .. c /\ good[Rank(at, i)] = out[i]
      /\ \A r \in 1 .. c : \E i \in at : Rank(at, i) = r /\ good[r] = out[i]
  <2> DEFINE kept == Kept(out, at)
  <2>1. /\ c \in Nat /\ DOMAIN kept = 1 .. c
        /\ \A i \in at : Rank(at, i) \in 1 .. c /\ kept[Rank(at, i)] = out[i]
        /\ \A r \in 1 .. c : \E i \in at : Rank(at, i) = r /\ kept[r] = out[i]
    BY <1>1, KeptHolds
  <2>2. good = kept
    BY <1>1
  <2> HIDE DEF kept, c
  <2> QED BY <2>1, <2>2
<1> HIDE DEF c
<1>4. IsOrderOf(read.order, c, rkey) /\ QueuesInv(read, c, rkey, rval)
  BY <1>3, QueuesAreRead
<1> DEFINE order == read.order
<1>k. \A r \in 1 .. c : rkey[r] = good[r].key /\ rval[r] = good[r].val
  OBVIOUS
<1> HIDE DEF read, rkey, rval
<1>5. /\ DOMAIN order = 1 .. Len(order) /\ (\A i, j \in 1 .. Len(order) : order[i] = order[j] => i = j)
      /\ Range(order) = {rkey[k] : k \in 1 .. c} /\ Range(order) = DOMAIN read.map
  BY <1>4 DEF IsOrderOf, QueuesInv
<1>6. \A x \in DOMAIN read.map : HasItsQueues(read.map[x], LinesOf(c, rkey, x), rval)
  BY <1>4 DEF QueuesInv
<1>7. DOMAIN info = DOMAIN order /\ \A i \in DOMAIN info : info[i].name = order[i] /\ info[i].qdiscs = read.map[order[i]]
  BY <1>2
<1> HIDE DEF order
<1>8. {info[i].name : i \in DOMAIN info} = {out[k].key : k \in at}
  <2>1. {info[i].name : i \in DOMAIN info} = Range(order)
    BY <1>7 DEF Range
  <2>2. {rkey[k] : k \in 1 .. c} = {out[k].key : k \in at}
    BY <1>3, <1>k
  <2> QED BY <1>5, <2>1, <2>2
<1>9. ASSUME NEW i \in DOMAIN info, NEW j \in DOMAIN info, info[i].name = info[j].name PROVE i = j
  <2>1. i \in 1 .. Len(order) /\ j \in 1 .. Len(order) /\ order[i] = order[j]
    BY <1>5, <1>7, <1>9
  <2> QED BY <1>5, <2>1
<1>10. ASSUME NEW i \in DOMAIN info PROVE HasItsQueues(info[i].qdiscs, QueuePlaces(out, info[i].name), val)
  <2> DEFINE x == info[i].name
             own == QueuePlaces(out, x)
             ranks == LinesOf(c, rkey, x)
             queues == info[i].qdiscs
  <2>1. x \in DOMAIN read.map /\ queues = read.map[x]
    <3>1. x = order[i] /\ order[i] \in Range(order)
      BY <1>7 DEF Range
    <3> QED BY <1>5, <1>7, <3>1
  <2> HIDE DEF x
  <2>2. HasItsQueues(queues, ranks, rval)
    BY <1>6, <2>1
  <2>3. own \in SUBSET at /\ \A k \in own : out[k].key = x
    BY DEF QueuePlaces, at
  <2>4. ranks = {Rank(at, k) : k \in own}
    <3>1. ASSUME NEW k \in own PROVE Rank(at, k) \in ranks
      BY <1>3, <1>k, <2>3 DEF LinesOf
    <3>2. ASSUME NEW r \in ranks PROVE \E k \in own : r = Rank(at, k)
      <4>1. r \in 1 .. c /\ rkey[r] = x
        BY DEF LinesOf
      <4>2. PICK k \in at : Rank(at, k) = r /\ good[r] = out[k]
        BY <1>3, <4>1
      <4>3. k \in own
        BY <1>k, <4>1, <4>2 DEF QueuePlaces, at
      <4> QED BY <4>2, <4>3
    <3> HIDE DEF ranks, own
    <3> QED BY <3>1, <3>2
  <2> HIDE DEF own, ranks, queues
  <2>5. Cardinality(ranks) = Cardinality(own) /\ \A k \in own : Rank(ranks, Rank(at, k)) = Rank(own, k)
    BY <1>1, <2>3, <2>4, RankOfRanks
  <2>6. Len(queues) = Cardinality(ranks) /\ \A r \in ranks : queues[Rank(ranks, r)] = rval[r]
    BY <2>2 DEF HasItsQueues
  <2>7. ASSUME NEW k \in own PROVE queues[Rank(own, k)] = val[k]
    <3>1. Rank(at, k) \in ranks /\ k \in at
      BY <2>3, <2>4
    <3>2. queues[Rank(own, k)] = rval[Rank(at, k)]
      BY <2>5, <2>6, <3>1
    <3>3. rval[Rank(at, k)] = out[k].val
      BY <1>3, <1>k, <3>1
    <3> QED BY <1>1, <3>1, <3>2, <3>3
  <2> QED BY <2>5, <2>6, <2>7 DEF HasItsQueues, own, x, queues
<1> QED BY <1>8, <1>9, <1>10 DEF at, InterfacesOf

\* Every interface of tc is listed once with all its queues, on any host.
THEOREM QueuesKeepTheirInterfaceHolds == Spec => []QueuesKeepTheirInterface
<1>1. ASSUME ListingsAreOfHosts, Collected("tc"), host.says["qdisc"].ok
      PROVE  LET out == host.says["qdisc"].out
                 good == {k \in Reached("qdisc") : out[k].t = "good"}
             IN /\ {facts.info[i].name : i \in DOMAIN facts.info} = {out[k].key : k \in good}
                /\ \A i, j \in DOMAIN facts.info : facts.info[i].name = facts.info[j].name => i = j
                /\ \A i \in DOMAIN facts.info :
                     LET mine == {k \in good : out[k].key = facts.info[i].name}
                     IN /\ Len(facts.info[i].qdiscs) = Cardinality(mine)
                        /\ \A k \in mine : facts.info[i].qdiscs[Cardinality({j \in mine : j <= k})] = out[k].val
  <2> DEFINE out == host.says["qdisc"].out
             info == facts.info
             mine(i) == QueuePlaces(out, info[i].name)
  <2>1. "tc" \in Listers
    BY DEF Listers
  <2>2. host.of = "tc" /\ info = ReportOf(host) /\ ListingHostOK(host)
    BY <1>1, <2>1, ListingIsReported
  <2>3. info = ParseTCOutput(out)
    BY <1>1, <2>2 DEF ReportOf, TCInfo
  <2>4. "qdisc" \in DOMAIN host.says
    BY <2>2 DEF ListingHostOK, SourcesOf, Range
  <2>5. IsSeq(out)
    BY <1>1, <2>2, <2>4 DEF ListingHostOK, ListOf
  <2> HIDE DEF info, out
  <2>6. /\ {info[i].name : i \in DOMAIN info} = {out[k].key : k \in GoodPlaces(out)}
        /\ \A i, j \in DOMAIN info : info[i].name = info[j].name => i = j
        /\ \A i \in DOMAIN info : HasItsQueues(info[i].qdiscs, QueuePlaces(out, info[i].name), [k \in DOMAIN out |-> out[k].val])
    <3>1. InterfacesOf(out, info)
      BY <2>3, <2>5, InterfacesAreWhole
    <3> QED BY <3>1, Zenon DEF InterfacesOf
  <2>7. ASSUME NEW i \in DOMAIN info
        PROVE  /\ Len(info[i].qdiscs) = Cardinality(mine(i))
               /\ \A k \in mine(i) : info[i].qdiscs[Cardinality({j \in mine(i) : j <= k})] = out[k].val
    <3> DEFINE own == mine(i)
               val == [k \in DOMAIN out |-> out[k].val]
    <3>1. \A k \in own : val[k] = out[k].val
      BY DEF QueuePlaces, GoodPlaces
    <3>2. HasItsQueues(info[i].qdiscs, own, val)
      BY <2>6
    <3> HIDE DEF val, own
    <3>3. Len(info[i].qdiscs) = Cardinality(own) /\ \A k \in own : info[i].qdiscs[Cardinality({j \in own : j <= k})] = val[k]
      BY <3>2 DEF HasItsQueues, Rank
    <3> QED BY <3>1, <3>3 DEF own
  <2> DEFINE good == {k \in Reached("qdisc") : out[k].t = "good"}
  <2>8. good = GoodPlaces(out)
    BY DEF Reached, GoodPlaces, out
  <2>9. \A i : {k \in good : out[k].key = info[i].name} = mine(i)
    BY <2>8 DEF QueuePlaces
  <2> HIDE DEF mine, good
  <2>10. /\ {info[i].name : i \in DOMAIN info} = {out[k].key : k \in good}
         /\ \A i, j \in DOMAIN info : info[i].name = info[j].name => i = j
    BY <2>6, <2>8
  <2>11. ASSUME NEW i \in DOMAIN info
         PROVE  /\ Len(info[i].qdiscs) = Cardinality({k \in good : out[k].key = info[i].name})
                /\ \A k \in {k \in good : out[k].key = info[i].name} :
                     info[i].qdiscs[Cardinality({j \in {k1 \in good : out[k1].key = info[i].name} : j <= k})] = out[k].val
    BY <2>7, <2>9
  <2> QED BY <2>10, <2>11, Zenon DEF info, out, good
<1>2. ListingsAreOfHosts => QueuesKeepTheirInterface
  BY <1>1, Zenon DEF QueuesKeepTheirInterface
<1> QED BY <1>2, ListingsInvHolds, PTL

----------------------------------------------------------------------------
\* The macros of rpm.

\* The places between the first two markers, and the heads of macros there.
MarkPlaces(out) == {k \in DOMAIN out : (\A j \in 1 .. k : out[j].t # "long") /\ out[k].t = "marker"}

\* The places between the first two markers.
InsidePlaces(out) ==
    {k \in DOMAIN out : \E a, b \in MarkPlaces(out) : a < k /\ k < b /\ {m \in MarkPlaces(out) : m < b} = {a}}

\* The first two of two or more numbers are the only pair of which one has nothing
\* but the other in front of it.
LEMMA FirstTwo ==
  ASSUME NEW S \in SUBSET Nat, IsFiniteSet(S), ~ (Cardinality(S) < 2)
  PROVE  /\ Min(S) \in S /\ Min(S \ {Min(S)}) \in S /\ Min(S) < Min(S \ {Min(S)})
         /\ \A a, b \in S : (a < b /\ {m \in S : m < b} = {a}) <=> (a = Min(S) /\ b = Min(S \ {Min(S)}))
<1> DEFINE first == Min(S)
           rest == S \ {first}
           second == Min(rest)
<1>1. S # {}
  BY FS_EmptySet
<1>2. first \in S /\ \A k \in S : first =< k
  BY <1>1, MinIsLeast
<1> HIDE DEF first
<1>3. rest # {}
  <2>1. SUFFICES ASSUME rest = {} PROVE FALSE
    OBVIOUS
  <2>2. S = {first}
    BY <1>2, <2>1
  <2>3. Cardinality(S) = 1
    BY <2>2, FS_Singleton
  <2> QED BY <2>3
<1>4. rest \in SUBSET Nat /\ \A k \in S : k \in rest <=> k # first
  OBVIOUS
<1>r. rest \subseteq S /\ first \notin rest
  OBVIOUS
<1> HIDE DEF rest
<1>5. second \in rest /\ \A k \in rest : second =< k
  BY <1>3, <1>4, MinIsLeast
<1> HIDE DEF second
<1>6. first \in Nat /\ second \in Nat /\ second \in S /\ first < second
  BY <1>2, <1>r, <1>5
<1>7. ASSUME NEW a \in S, NEW b \in S, a < b, {m \in S : m < b} = {a} PROVE a = first /\ b = second
  <2>1. a \in Nat /\ b \in Nat
    OBVIOUS
  <2>2. first < b
    BY <1>2, <1>6, <1>7, <2>1
  <2>3. a = first
    BY <1>2, <1>7, <2>2
  <2>4. b \in rest
    BY <1>4, <1>6, <2>1, <2>2
  <2>5. ~ (second < b)
    BY <1>6, <1>7, <2>3
  <2> QED BY <1>5, <1>6, <2>1, <2>3, <2>4, <2>5
<1>8. {m \in S : m < second} = {first}
  <2>1. ASSUME NEW m \in S, m < second PROVE m = first
    BY <1>4, <1>5, <1>6, <2>1
  <2> QED BY <1>2, <1>6, <2>1
<1> QED BY <1>2, <1>6, <1>7, <1>8 DEF first, second, rest

\* What rpm's macros are read from is what is inside.
LEMMA MacroLinesAre ==
  ASSUME NEW out, IsSeq(out)
  PROVE  \E a, N \in Nat :
            /\ a + N =< Len(out) /\ InsidePlaces(out) = (a + 1) .. (a + N)
            /\ DOMAIN MacroLines(Scan(out)) = 1 .. N /\ \A i \in 1 .. N : MacroLines(Scan(out))[i] = out[a + i]
<1> DEFINE lines == Scan(out)
           marks == MarkPlaces(out)
           n == Len(out)
<1>1. n \in Nat /\ DOMAIN out = 1 .. n
  BY LenProperties DEF IsSeq
<1>2. PICK c \in 0 .. n :
         /\ DOMAIN lines = 1 .. c /\ Len(lines) = c /\ \A k \in 1 .. c : lines[k] = out[k]
         /\ {k \in DOMAIN out : \A j \in 1 .. k : out[j].t # "long"} = 1 .. c
         /\ lines \in Seq(Range(out))
  BY ScanEnds
<1>3. marks = {k \in 1 .. c : out[k].t = "marker"}
  BY <1>2 DEF MarkPlaces
<1> HIDE DEF lines
<1>4. Markers(lines) = marks
  BY <1>2, <1>3 DEF Markers
<1> HIDE DEF marks
<1>5. marks \in SUBSET (1 .. c) /\ c \in Nat /\ marks \in SUBSET Nat
  BY <1>3
<1>6. IsFiniteSet(marks)
  BY <1>5, RanksCount
<1> DEFINE first == Min(marks)
           second == Min(marks \ {first})
<1>7. MacroLines(lines) = IF Cardinality(marks) < 2 THEN <<>> ELSE SubSeq(lines, first + 1, second - 1)
  BY <1>4, Zenon DEF MacroLines
<1>8. InsidePlaces(out) = {k \in 1 .. n : \E a, b \in marks : a < k /\ k < b /\ {m \in marks : m < b} = {a}}
  BY <1>1 DEF InsidePlaces, marks
<1> HIDE DEF n
<1>9. CASE Cardinality(marks) < 2
  <2>1. InsidePlaces(out) = {}
    <3>1. ASSUME NEW a \in marks, NEW b \in marks, a < b PROVE FALSE
      <4>1. a # b
        BY <1>5, <3>1
      <4>2. IsFiniteSet({a}) /\ Cardinality({a}) = 1
        BY FS_Singleton
      <4>3. IsFiniteSet({a} \cup {b}) /\ Cardinality({a} \cup {b}) = 2
        BY <4>1, <4>2, FS_AddElement
      <4>4. {a} \cup {b} \in SUBSET marks
        OBVIOUS
      <4>5. Cardinality({a} \cup {b}) =< Cardinality(marks) /\ Cardinality(marks) \in Nat
        BY <1>6, <4>4, FS_Subset, FS_CardinalityType
      <4> QED BY <1>9, <4>3, <4>5
    <3>2. ASSUME NEW k \in 1 .. n, NEW a \in marks, NEW b \in marks, a < k, k < b PROVE FALSE
      <4>1. a < b
        BY <1>1, <1>5, <3>2
      <4> QED BY <3>1, <4>1
    <3> QED BY <1>8, <3>2
  <2>2. MacroLines(lines) = <<>>
    BY <1>7, <1>9
  <2>3. 0 + 0 =< n /\ (0 + 1) .. (0 + 0) = {} /\ 1 .. 0 = {} /\ DOMAIN <<>> = {} /\ 0 \in Nat
    BY <1>1
  <2>4. DOMAIN MacroLines(lines) = 1 .. 0
    BY <2>2, <2>3
  <2> QED BY <2>1, <2>3, <2>4 DEF lines, n
<1>10. CASE ~ (Cardinality(marks) < 2)
  <2>1. /\ first \in marks /\ second \in marks /\ first < second
        /\ \A a, b \in marks : (a < b /\ {m \in marks : m < b} = {a}) <=> (a = first /\ b = second)
    BY <1>5, <1>6, <1>10, FirstTwo
  <2> HIDE DEF first, second
  <2>2. first \in 1 .. c /\ second \in 1 .. c /\ first \in Nat /\ second \in Nat
    BY <1>5, <2>1
  <2> DEFINE N == second - 1 - first
  <2>3. N \in Nat /\ first + N =< n /\ first + N = second - 1
    BY <1>1, <1>2, <2>1, <2>2
  <2>4. InsidePlaces(out) = (first + 1) .. (first + N)
    <3>1. ASSUME NEW k \in 1 .. n
          PROVE  (\E a, b \in marks : a < k /\ k < b /\ {m \in marks : m < b} = {a}) <=> first < k /\ k < second
      <4>1. ASSUME NEW a \in marks, NEW b \in marks, a < k, k < b, {m \in marks : m < b} = {a}
            PROVE  first < k /\ k < second
        <5>1. a < b
          BY <1>1, <1>5, <4>1
        <5> QED BY <2>1, <4>1, <5>1
      <4>2. {m \in marks : m < second} = {first}
        BY <2>1
      <4> QED BY <2>1, <4>1, <4>2
    <3>2. InsidePlaces(out) = {k \in 1 .. n : first < k /\ k < second}
      BY <1>8, <3>1
    <3>3. ASSUME NEW k PROVE (k \in 1 .. n /\ first < k /\ k < second) <=> k \in (first + 1) .. (first + N)
      BY <1>1, <1>2, <2>2, <2>3
    <3> QED BY <3>2, <3>3
  <2>5. MacroLines(lines) = SubSeq(lines, first + 1, second - 1)
    BY <1>7, <1>10
  <2>6. DOMAIN MacroLines(lines) = 1 .. N /\ \A i \in 1 .. N : MacroLines(lines)[i] = out[first + i]
    <3>2. first + 1 \in Int /\ second - 1 \in Int /\ first + 1 >= 1 /\ second - 1 =< Len(lines)
      BY <1>2, <2>2
    <3>3. /\ Len(SubSeq(lines, first + 1, second - 1)) = N
          /\ DOMAIN SubSeq(lines, first + 1, second - 1) = 1 .. N
          /\ \A i \in 1 .. N : SubSeq(lines, first + 1, second - 1)[i] = lines[first + 1 + i - 1]
      BY <1>2, <2>2, <2>3, <3>2
    <3>4. \A i \in 1 .. N : first + 1 + i - 1 = first + i /\ first + i \in 1 .. c
      BY <2>2, <2>3, <1>2
    <3> QED BY <1>2, <2>5, <3>3, <3>4
  <2> HIDE DEF N
  <2> QED BY <2>2, <2>3, <2>4, <2>6 DEF lines, n
<1> QED BY <1>9, <1>10

\* The lines from one place to another; where a macro ends that starts at a head,
\* among the lines up to a place.
Body(val, h, e) == [i \in 1 .. (e - h + 1) |-> val[h + i - 1]]

\* The macro that starts at h has e as its last line.
EndsAt(heads, n, h, e) == e \in h .. n /\ heads \cap (h + 1) .. e = {} /\ (e = n \/ e + 1 \in heads)

\* The heads up to n that have a name, and the one that is still open behind n.
NamedHeads(heads, n, key) == {h \in heads : h =< n /\ key[h] # None}

IsOpen(heads, n, h) == h \in heads /\ h =< n /\ heads \cap (h + 1) .. n = {}

\* What is stored if the last macro is: the lines of every head with a name, unless
\* a later head has that name.
StoredInv(m, n, heads, key, val) ==
    /\ DOMAIN m = {key[h] : h \in NamedHeads(heads, n, key)}
    /\ \A h \in NamedHeads(heads, n, key) :
          (\A j \in NamedHeads(heads, n, key) : j > h => key[j] # key[h]) =>
              \A e \in 1 .. n : EndsAt(heads, n, h, e) => m[key[h]] = Body(val, h, e)

\* What has been read of rpm after n lines: the open macro, and all others.
MacrosInv(s, n, heads, key, val) ==
    /\ (\A h \in heads : ~ (h =< n)) => s.name = None
    /\ \A h \in heads : IsOpen(heads, n, h) => s.name = key[h] /\ (s.name # None => s.value = Body(val, h, n))
    /\ StoredInv(StoreMacro(s), n, heads, key, val)

\* The type of what is read.
MacroStates(keys, vals) == [macros : Maps(keys, Seq(vals)), name : keys \cup {None}, value : Seq(vals)]

\* The first n lines have values of a set.
HasValues(val, n, S) == \A i \in 1 .. n : val[i] \in S

\* The lines of a macro up to the next line.
LEMMA BodyGrows ==
  ASSUME NEW S, NEW h \in Nat, NEW n \in Nat, h =< n, h >= 1, NEW val, HasValues(val, n + 1, S)
  PROVE  Body(val, h, n) \in Seq(S) /\ Append(Body(val, h, n), val[n + 1]) = Body(val, h, n + 1)
<1> DEFINE c == n - h + 1
           b == Body(val, h, n)
           t == Body(val, h, n + 1)
<1>0. \A i \in 1 .. (n + 1) : val[i] \in S
  BY DEF HasValues
<1>1. c \in Nat /\ (n + 1) - h + 1 = c + 1
  OBVIOUS
<1>2. b = [i \in 1 .. c |-> val[h + i - 1]] /\ t = [i \in 1 .. (c + 1) |-> val[h + i - 1]]
  BY <1>1 DEF Body
<1>3. \A i \in 1 .. (c + 1) : h + i - 1 \in 1 .. (n + 1)
  BY <1>1
<1>4. h + (c + 1) - 1 = n + 1
  BY <1>1
<1> HIDE DEF c, b, t
<1>5. \A i \in 1 .. c : i \in 1 .. (c + 1)
  BY <1>1
<1>6. b \in [1 .. c -> S] /\ t \in [1 .. (c + 1) -> S]
  BY <1>0, <1>2, <1>3, <1>5
<1>7. b \in Seq(S) /\ Len(b) = c /\ val[n + 1] \in S
  <2>1. n + 1 \in 1 .. (n + 1)
    OBVIOUS
  <2> QED BY <1>0, <1>1, <1>6, <2>1
<1>8. /\ Append(b, val[n + 1]) \in Seq(S) /\ Len(Append(b, val[n + 1])) = c + 1
      /\ \A i \in 1 .. c : Append(b, val[n + 1])[i] = b[i]
      /\ Append(b, val[n + 1])[c + 1] = val[n + 1]
  BY <1>7, AppendAdds
<1> DEFINE a == Append(b, val[n + 1])
<1>9. a \in [1 .. (c + 1) -> S]
  <2>1. a \in Seq(S) /\ Len(a) = c + 1
    BY <1>8
  <2> HIDE DEF a
  <2> QED BY <2>1, LenProperties
<1>10. ASSUME NEW i \in 1 .. (c + 1) PROVE a[i] = t[i]
  <2>1. CASE i = c + 1
    BY <1>2, <1>4, <1>8, <2>1
  <2>2. CASE i # c + 1
    <3>1. i \in 1 .. c
      BY <1>1, <2>2
    <3> QED BY <1>2, <1>8, <3>1
  <2> QED BY <2>1, <2>2
<1> HIDE DEF a
<1>11. a = t
  <2>1. a = [i \in 1 .. (c + 1) |-> a[i]] /\ t = [i \in 1 .. (c + 1) |-> t[i]]
    BY <1>6, <1>9
  <2> QED BY <1>10, <2>1, Zenon
<1> QED BY <1>7, <1>11 DEF a, b, t

\* A line that is no head belongs to the head in front of it; a head starts anew.
LEMMA MacrosGrow ==
  ASSUME NEW n \in Nat, NEW keys, NEW S, NEW heads \in SUBSET (Nat \ {0}), NEW key, NEW val,
         NEW s \in MacroStates(keys, S), NEW l, MacrosInv(s, n, heads, key, val), HasValues(val, n + 1, S),
         (l.t = "head") = (n + 1 \in heads), l.key = key[n + 1], l.val = val[n + 1]
  PROVE  MacrosInv(ReadMacro(s, l), n + 1, heads, key, val)
<1> DEFINE p == n + 1
           t == ReadMacro(s, l)
           M == StoreMacro(s)
           N == StoreMacro(t)
           now == NamedHeads(heads, n, key)
           then == NamedHeads(heads, p, key)
<1>1. /\ (\A h \in heads : ~ (h =< n)) => s.name = None
      /\ \A h \in heads : IsOpen(heads, n, h) => s.name = key[h] /\ (s.name # None => s.value = Body(val, h, n))
      /\ DOMAIN M = {key[h] : h \in now}
      /\ \A h \in now : (\A j \in now : j > h => key[j] # key[h]) =>
            \A e \in 1 .. n : EndsAt(heads, n, h, e) => M[key[h]] = Body(val, h, e)
  BY DEF MacrosInv, StoredInv
<1>2. p \in Nat /\ ~ (p =< n) /\ \A h \in heads : h \in Nat /\ h >= 1 /\ (h =< p <=> h =< n \/ h = p)
  OBVIOUS
<1>3. now = {h \in heads : h =< n /\ key[h] # None} /\ then = {h \in heads : h =< p /\ key[h] # None}
  BY DEF NamedHeads
<1>4. \A h \in heads : heads \cap (h + 1) .. p = {} => heads \cap (h + 1) .. n = {}
  BY <1>2
<1> HIDE DEF now, then, p
<1>5. CASE p \in heads
  <2>1. t = [macros |-> M, name |-> key[p], value |-> <<val[p]>>]
    BY <1>5 DEF ReadMacro, p
  <2> HIDE DEF t, M
  <2>2. N = IF key[p] = None THEN M ELSE Put(M, key[p], <<val[p]>>)
    BY <2>1 DEF StoreMacro
  <2> HIDE DEF N
  <2>3. Body(val, p, p) = <<val[p]>>
    <3>1. p - p + 1 = 1 /\ p + 1 - 1 = p
      BY <1>2
    <3>2. Body(val, p, p) = [i \in 1 .. 1 |-> val[p + i - 1]]
      BY <3>1 DEF Body
    <3>3. \A i \in 1 .. 1 : p + i - 1 = p
      BY <1>2
    <3>4. Body(val, p, p) = [i \in 1 .. 1 |-> val[p]]
      BY <3>2, <3>3
    <3> QED BY <3>4
  <2>4. then = IF key[p] = None THEN now ELSE now \cup {p}
    BY <1>2, <1>3, <1>5
  <2>5. ~ (\A h \in heads : ~ (h =< p))
    BY <1>2, <1>5
  <2>6. ASSUME NEW h \in heads, IsOpen(heads, p, h) PROVE t.name = key[h] /\ t.value = Body(val, h, p)
    <3>1. h = p
      <4>1. h =< p /\ heads \cap (h + 1) .. p = {}
        BY <2>6 DEF IsOpen
      <4>2. ~ (p \in (h + 1) .. p)
        BY <1>5, <4>1
      <4> QED BY <1>2, <4>1, <4>2
    <3> QED BY <2>1, <2>3, <3>1
  <2>7. DOMAIN N = {key[h] : h \in then}
    BY <1>1, <2>2, <2>4 DEF Put
  <2>8. ASSUME NEW h \in then, \A j \in then : j > h => key[j] # key[h], NEW e \in 1 .. p, EndsAt(heads, p, h, e)
        PROVE  N[key[h]] = Body(val, h, e)
    <3>0. e \in h .. p /\ heads \cap (h + 1) .. e = {} /\ (e = p \/ e + 1 \in heads) /\ h \in heads /\ key[h] # None
      BY <1>3, <2>8 DEF EndsAt
    <3>1. CASE h = p
      <4>1. e = p
        BY <1>2, <3>0, <3>1
      <4>2. N = Put(M, key[p], <<val[p]>>)
        BY <2>2, <3>0, <3>1
      <4> QED BY <2>3, <3>1, <4>1, <4>2 DEF Put
    <3>2. CASE h # p
      <4>1. h \in now
        BY <2>4, <3>2
      <4>2. h < p /\ key[p] # key[h]
        <5>1. h < p
          BY <1>2, <1>3, <3>2
        <5>2. CASE key[p] = None
          BY <3>0, <5>1, <5>2
        <5>3. CASE key[p] # None
          <6>1. p \in then /\ p > h
            BY <2>4, <5>1, <5>3
          <6> QED BY <2>8, <5>1, <6>1
        <5> QED BY <5>2, <5>3
      <4>3. e # p
        <5>1. p \in (h + 1) .. p
          BY <1>2, <3>0, <4>2
        <5> QED BY <1>5, <3>0, <5>1
      <4>4. e \in 1 .. n /\ e \in h .. n
        BY <3>0, <4>3, <1>2 DEF p
      <4>5. EndsAt(heads, n, h, e)
        BY <3>0, <4>3, <4>4 DEF EndsAt
      <4>6. \A j \in now : j > h => key[j] # key[h]
        BY <2>4, <2>8
      <4>7. M[key[h]] = Body(val, h, e)
        BY <1>1, <4>1, <4>4, <4>5, <4>6
      <4>8. key[h] \in DOMAIN M
        BY <1>1, <4>1
      <4> QED BY <2>2, <4>2, <4>7, <4>8 DEF Put
    <3> QED BY <3>1, <3>2
  <2>9. StoredInv(N, p, heads, key, val)
    BY <2>7, <2>8 DEF StoredInv, then
  <2> QED BY <2>5, <2>6, <2>9 DEF MacrosInv, N, t, p
<1>6. CASE p \notin heads /\ s.name = None
  <2>1. t = s
    BY <1>6 DEF ReadMacro, p
  <2>2. N = M
    BY <2>1
  <2>3. then = now
    BY <1>2, <1>3, <1>6
  <2> HIDE DEF t, M, N
  <2>4. \A h \in heads : IsOpen(heads, p, h) => IsOpen(heads, n, h)
    BY <1>2, <1>4, <1>6 DEF IsOpen
  <2>5. ASSUME NEW h \in now, \A j \in now : j > h => key[j] # key[h], NEW e \in 1 .. p, EndsAt(heads, p, h, e)
        PROVE  M[key[h]] = Body(val, h, e)
    <3>0. e \in h .. p /\ heads \cap (h + 1) .. e = {} /\ (e = p \/ e + 1 \in heads) /\ h \in heads /\ key[h] # None /\ h =< n
      BY <1>3, <2>5 DEF EndsAt
    <3>1. e # p
      <4>1. SUFFICES ASSUME e = p PROVE FALSE
        OBVIOUS
      <4>2. IsOpen(heads, n, h)
        BY <1>4, <3>0, <4>1 DEF IsOpen
      <4> QED BY <1>1, <1>6, <3>0, <4>2
    <3>2. e \in 1 .. n /\ e \in h .. n
      BY <1>2, <3>0, <3>1 DEF p
    <3>3. EndsAt(heads, n, h, e)
      BY <3>0, <3>1, <3>2 DEF EndsAt
    <3> QED BY <1>1, <2>5, <3>2, <3>3
  <2>6. StoredInv(N, p, heads, key, val)
    BY <1>1, <2>2, <2>3, <2>5 DEF StoredInv, then
  <2>7. \A h \in heads : IsOpen(heads, p, h) => t.name = key[h] /\ (t.name # None => t.value = Body(val, h, p))
    BY <1>1, <1>6, <2>1, <2>4
  <2>8. t.name = None
    BY <1>6, <2>1
  <2> QED BY <2>6, <2>7, <2>8 DEF MacrosInv, N, t, p
<1>7. CASE p \notin heads /\ s.name # None
  <2> DEFINE name == s.name
             value == Append(s.value, val[p])
  <2>1. t = [s EXCEPT !.value = Append(@, l.val)]
    BY <1>7 DEF ReadMacro, p
  <2>t. l.val = val[p]
    BY DEF p
  <2>2. then = now
    BY <1>2, <1>3, <1>7
  <2>3. PICK g \in heads : IsOpen(heads, n, g)
    <3> DEFINE H == {h \in heads : h =< n}
    <3>0. \E h \in heads : h =< n
      BY <1>1, <1>7
    <3>e. H # {}
      BY <3>0
    <3>s. ASSUME NEW h \in heads, h =< n PROVE h \in 0 .. n
      BY <1>2, <3>s
    <3>1. H # {} /\ H \in SUBSET (0 .. n)
      BY <3>e, <3>s
    <3>2. \A h : h \in H <=> h \in heads /\ h =< n
      OBVIOUS
    <3> HIDE DEF H
    <3>3. Max(H) \in H /\ \A k \in H : k =< Max(H)
      BY <3>1, MaxIsGreatest
    <3> DEFINE m == Max(H)
    <3>4. m \in heads /\ m =< n /\ m \in Nat /\ \A k \in heads : k =< n => k =< m
      BY <1>2, <3>2, <3>3
    <3> HIDE DEF m
    <3>5. ASSUME NEW k \in heads, k \in (m + 1) .. n PROVE FALSE
      <4>1. k \in Nat /\ k =< n /\ k > m
        BY <1>2, <3>4, <3>5
      <4> QED BY <3>4, <4>1
    <3> QED BY <3>4, <3>5 DEF IsOpen
  <2>4. g =< n /\ heads \cap (g + 1) .. n = {} /\ name = key[g] /\ s.value = Body(val, g, n) /\ g \in Nat /\ g >= 1
    BY <1>1, <1>2, <1>7, <2>3 DEF IsOpen
  <2>5. value = Body(val, g, p)
    <3>0. g \in Nat /\ g =< n /\ g >= 1 /\ n \in Nat
      BY <2>4
    <3>1. Body(val, g, n) \in Seq(S) /\ Append(Body(val, g, n), val[n + 1]) = Body(val, g, n + 1)
      BY <3>0, BodyGrows
    <3> QED BY <2>4, <3>1 DEF p
  <2>6. M = Put(s.macros, name, s.value)
    BY <1>7 DEF StoreMacro
  <2>7. N = Put(s.macros, name, value)
    <3>1. t.macros = s.macros /\ t.name = name /\ t.value = value
      <4>1. s = [macros |-> s.macros, name |-> s.name, value |-> s.value]
        BY DEF MacroStates
      <4> QED BY <2>1, <2>t, <4>1
    <3> QED BY <1>7, <3>1 DEF StoreMacro
  <2> HIDE DEF t, M, N, value, name
  <2>n. name # None
    BY <1>7 DEF name
  <2>k. g \in now
    BY <1>3, <2>3, <2>4, <2>n
  <2>8. ASSUME NEW h \in heads, h =< n PROVE h =< g
    <3>1. ~ (h \in (g + 1) .. n)
      BY <2>4
    <3> QED BY <1>2, <2>4, <2>8, <3>1
  <2>9. ASSUME NEW h \in heads, IsOpen(heads, p, h) PROVE h = g
    <3>1. h =< n /\ heads \cap (h + 1) .. n = {}
      BY <1>2, <1>4, <1>7, <2>9 DEF IsOpen
    <3>2. h =< g /\ ~ (g \in (h + 1) .. n)
      BY <2>8, <3>1
    <3> QED BY <1>2, <2>4, <3>1, <3>2
  <2>10. t.name = name /\ t.value = value
    BY <2>1, <2>t DEF t, name, value, MacroStates
  <2>11. \A h \in heads : IsOpen(heads, p, h) => t.name = key[h] /\ (t.name # None => t.value = Body(val, h, p))
    BY <2>4, <2>5, <2>9, <2>10
  <2>12. ~ (\A h \in heads : ~ (h =< p))
    BY <1>2, <2>4
  <2>13. DOMAIN N = {key[h] : h \in then}
    BY <1>1, <2>2, <2>6, <2>7 DEF Put
  <2>14. ASSUME NEW h \in now, \A j \in now : j > h => key[j] # key[h], NEW e \in 1 .. p, EndsAt(heads, p, h, e)
         PROVE  N[key[h]] = Body(val, h, e)
    <3>0. e \in h .. p /\ heads \cap (h + 1) .. e = {} /\ (e = p \/ e + 1 \in heads) /\ h \in heads /\ key[h] # None /\ h =< n
      BY <1>3, <2>14 DEF EndsAt
    <3>h. h \in Nat /\ h =< g
      BY <1>2, <2>8, <3>0
    <3>1. h \in Nat /\ e \in Nat /\ h =< g
      BY <1>2, <3>0, <3>h
    <3>2. CASE h = g
      <4>1. e = p
        <5>1. SUFFICES ASSUME e # p PROVE FALSE
          OBVIOUS
        <5>2. e + 1 \in heads /\ e + 1 =< p /\ e + 1 > h
          BY <1>2, <3>0, <3>1, <5>1
        <5>3. e + 1 =< n
          BY <1>2, <1>7, <5>2
        <5>4. e + 1 =< g
          BY <2>8, <5>2, <5>3
        <5> QED BY <2>4, <3>1, <3>2, <5>2, <5>4
      <4> QED BY <2>4, <2>5, <2>7, <3>2, <4>1 DEF Put
    <3>3. CASE h # g
      <4>1. g > h
        BY <2>4, <3>1, <3>3
      <4>2. key[h] # name
        BY <2>4, <2>14, <2>k, <4>1
      <4>3. key[h] \in DOMAIN M /\ key[h] \in DOMAIN s.macros
        BY <1>1, <2>6, <4>2 DEF Put
      <4>4. N[key[h]] = M[key[h]]
        BY <2>6, <2>7, <4>2, <4>3 DEF Put
      <4>5. e # p
        <5>1. g \in (h + 1) .. p
          BY <1>2, <2>4, <3>1, <4>1 DEF p
        <5> QED BY <2>3, <3>0, <5>1
      <4>6. e \in 1 .. n /\ e \in h .. n
        BY <1>2, <3>0, <4>5 DEF p
      <4>7. EndsAt(heads, n, h, e)
        BY <3>0, <4>5, <4>6 DEF EndsAt
      <4> QED BY <1>1, <2>14, <4>4, <4>6, <4>7
    <3> QED BY <3>2, <3>3
  <2>15. StoredInv(N, p, heads, key, val)
    BY <2>2, <2>13, <2>14 DEF StoredInv, then
  <2> QED BY <2>11, <2>12, <2>15 DEF MacrosInv, N, t, p
<1> QED BY <1>5, <1>6, <1>7

\* What is read keeps its type.
LEMMA ReadMacroMoves ==
  ASSUME NEW keys, NEW vals, NEW s \in MacroStates(keys, vals), NEW l, l.key \in keys, l.val \in vals
  PROVE  ReadMacro(s, l) \in MacroStates(keys, vals)
<1>1. s.macros \in Maps(keys, Seq(vals)) /\ s.name \in keys \cup {None} /\ s.value \in Seq(vals)
  BY DEF MacroStates
<1>2. StoreMacro(s) \in Maps(keys, Seq(vals))
  <2>1. CASE s.name = None
    BY <1>1, <2>1 DEF StoreMacro
  <2>2. CASE s.name # None
    <3>1. s.name \in keys
      BY <1>1, <2>2
    <3>2. Put(s.macros, s.name, s.value) \in Maps(keys, Seq(vals))
      BY <1>1, <3>1, PutIsMap
    <3> QED BY <2>2, <3>2 DEF StoreMacro
  <2> QED BY <2>1, <2>2
<1>3. CASE l.t = "head"
  <2>1. ReadMacro(s, l) = [macros |-> StoreMacro(s), name |-> l.key, value |-> <<l.val>>]
    BY <1>3 DEF ReadMacro
  <2> QED BY <1>2, <2>1 DEF MacroStates
<1>4. CASE l.t # "head" /\ s.name = None
  BY <1>4 DEF ReadMacro
<1>5. CASE l.t # "head" /\ s.name # None
  <2>1. ReadMacro(s, l) = [s EXCEPT !.value = Append(@, l.val)]
    BY <1>5 DEF ReadMacro
  <2>2. Append(s.value, l.val) \in Seq(vals)
    BY <1>1
  <2> QED BY <2>1, <2>2 DEF MacroStates
<1> QED BY <1>3, <1>4, <1>5

\* The macros of any lines are those of their heads.
LEMMA MacrosAreRead ==
  ASSUME NEW lines, NEW N \in Nat, DOMAIN lines = 1 .. N
  PROVE  StoredInv(StoreMacro(FoldLeft(ReadMacro, [macros |-> Empty, name |-> None, value |-> <<>>], lines)), N,
                   {i \in 1 .. N : lines[i].t = "head"}, [i \in 1 .. N |-> lines[i].key], [i \in 1 .. N |-> lines[i].val])
<1> DEFINE key == [i \in 1 .. N |-> lines[i].key]
           val == [i \in 1 .. N |-> lines[i].val]
           heads == {i \in 1 .. N : lines[i].t = "head"}
           S == MacroStates(Range(key), Range(val))
           start == [macros |-> Empty, name |-> None, value |-> <<>>]
<1>1. DOMAIN key = 1 .. N /\ DOMAIN val = 1 .. N /\ \A k \in 1 .. N : key[k] = lines[k].key /\ val[k] = lines[k].val
  OBVIOUS
<1>h. heads \in SUBSET (Nat \ {0}) /\ \A k \in 1 .. N : k \in heads <=> lines[k].t = "head"
  OBVIOUS
<1> HIDE DEF key, val, heads
<1>2. \A k \in 1 .. N : val[k] \in Range(val) /\ lines[k].key \in Range(key) /\ lines[k].val \in Range(val)
  BY <1>1 DEF Range
<1>3. start \in S
  <2>1. Empty \in Maps(Range(key), Seq(Range(val)))
    BY EmptyIsMap
  <2> QED BY <2>1 DEF MacroStates
<1>4. \A s \in S, k \in 1 .. N : ReadMacro(s, lines[k]) \in S
  BY <1>2, ReadMacroMoves
<1>5. start.name = None /\ start.macros = Empty
  OBVIOUS
<1> HIDE DEF S, start
<1>6. PICK g : MacrosTrace(start, lines, N, S, g)
  BY <1>3, <1>4, MacrosFold
<1>7. /\ g \in [0 .. N -> S] /\ g[0] = start /\ FoldLeft(ReadMacro, start, lines) = g[N]
      /\ \A k \in 1 .. N : g[k] = ReadMacro(g[k - 1], lines[k])
  BY <1>6, Zenon DEF MacrosTrace
<1> DEFINE A == {n \in 0 .. N : MacrosInv(g[n], n, heads, key, val)}
<1>8. 0 \in A
  <2>1. \A h \in heads : h \in Nat /\ ~ (h =< 0)
    BY <1>h
  <2>2. NamedHeads(heads, 0, key) = {} /\ \A h \in heads : ~ IsOpen(heads, 0, h)
    BY <2>1 DEF NamedHeads, IsOpen
  <2>3. StoreMacro(start) = Empty /\ DOMAIN Empty = {}
    BY <1>5, EmptyIsMap DEF StoreMacro
  <2>4. MacrosInv(start, 0, heads, key, val)
    BY <1>5, <2>2, <2>3 DEF MacrosInv, StoredInv
  <2> QED BY <1>7, <2>4
<1>9. ASSUME NEW n \in 0 .. N, n \in A, n < N PROVE n + 1 \in A
  <2>1. n + 1 \in 1 .. N /\ n + 1 \in 0 .. N /\ (n + 1) - 1 = n /\ n \in Nat
    BY <1>9
  <2>2. g[n + 1] = ReadMacro(g[n], lines[n + 1]) /\ g[n] \in S
    <3>1. g[n + 1] = ReadMacro(g[(n + 1) - 1], lines[n + 1])
      BY <1>7, <2>1, Zenon
    <3> QED BY <1>7, <2>1, <3>1
  <2> DEFINE s == g[n]
             l == lines[n + 1]
  <2>3. l.key = key[n + 1] /\ l.val = val[n + 1] /\ (l.t = "head") = (n + 1 \in heads)
    BY <1>1, <1>h, <2>1
  <2>4. HasValues(val, n + 1, Range(val))
    <3>1. \A i \in 1 .. (n + 1) : i \in 1 .. N
      BY <2>1
    <3> QED BY <1>2, <3>1 DEF HasValues
  <2>5. MacrosInv(s, n, heads, key, val) /\ s \in MacroStates(Range(key), Range(val))
    BY <1>9, <2>2 DEF S
  <2> HIDE DEF s, l
  <2>6. MacrosInv(ReadMacro(s, l), n + 1, heads, key, val)
    BY <1>h, <2>1, <2>3, <2>4, <2>5, MacrosGrow
  <2> QED BY <2>1, <2>2, <2>6 DEF s, l
<1>10. N \in A
  <2> HIDE DEF A
  <2>1. N \in 0 .. N
    OBVIOUS
  <2> QED BY <1>8, <1>9, <2>1, Induction
<1>11. StoredInv(StoreMacro(g[N]), N, heads, key, val)
  BY <1>10 DEF MacrosInv
<1> QED BY <1>7, <1>11 DEF start, heads, key, val

\* The heads inside, where their macros end, and those that no later head replaces.
HeadPlaces(out) == {k \in InsidePlaces(out) : out[k].t = "head"}

EndPlaces(out, k) == {j \in InsidePlaces(out) : j >= k /\ HeadPlaces(out) \cap (k + 1) .. j = {}}

LastHeads(out) == {k \in HeadPlaces(out) : out[k].key # None /\ \A j \in HeadPlaces(out) : j > k => out[j].key # out[k].key}

\* The macros are those of the heads that count, with their own lines.
MacrosOf(out, info) ==
    /\ DOMAIN info = {out[k].key : k \in LastHeads(out)}
    /\ \A k \in LastHeads(out) :
          info[out[k].key] = [i \in 1 .. (Max(EndPlaces(out, k)) - k + 1) |-> out[k + i - 1].val]

\* That is what the parser makes of any output.
LEMMA MacrosAreWhole == ASSUME NEW out, IsSeq(out) PROVE MacrosOf(out, ParseShowrc(out))
<1> DEFINE lines == MacroLines(Scan(out))
           info == ParseShowrc(out)
           places == HeadPlaces(out)
           inside == InsidePlaces(out)
<1>1. PICK a \in Nat, N \in Nat :
         /\ a + N =< Len(out) /\ inside = (a + 1) .. (a + N)
         /\ DOMAIN lines = 1 .. N /\ \A i \in 1 .. N : lines[i] = out[a + i]
  BY MacroLinesAre
<1>2. Len(out) \in Nat
  BY LenProperties DEF IsSeq
<1> DEFINE key == [i \in 1 .. N |-> lines[i].key]
           val == [i \in 1 .. N |-> lines[i].val]
           heads == {i \in 1 .. N : lines[i].t = "head"}
           named == NamedHeads(heads, N, key)
<1>3. info = StoreMacro(FoldLeft(ReadMacro, [macros |-> Empty, name |-> None, value |-> <<>>], lines))
  BY Zenon DEF ParseShowrc, ReadMacros
<1> HIDE DEF lines, info, inside
<1>4. StoredInv(info, N, heads, key, val)
  BY <1>1, <1>3, MacrosAreRead
<1>5. \A i \in 1 .. N : a + i \in inside /\ key[i] = out[a + i].key /\ val[i] = out[a + i].val /\ (i \in heads <=> out[a + i].t = "head")
  BY <1>1
<1>6. \A k \in inside : k - a \in 1 .. N /\ a + (k - a) = k /\ k \in Nat
  BY <1>1
<1>n. heads \subseteq 1 .. N
  OBVIOUS
<1> HIDE DEF key, val, heads
<1>7. \A h \in heads : h \in 1 .. N /\ a + h \in places /\ h \in Nat
  BY <1>n, <1>5 DEF HeadPlaces, inside
<1>8. ASSUME NEW k \in places PROVE k \in inside /\ k - a \in heads /\ k - a \in 1 .. N /\ key[k - a] = out[k].key
  <2>1. k \in inside /\ out[k].t = "head"
    BY DEF HeadPlaces, inside
  <2> QED BY <1>5, <1>6, <2>1
<1> HIDE DEF places
<1>9. named = {h \in heads : key[h] # None}
  <2>1. \A h \in heads : h =< N
    BY <1>7
  <2> QED BY <2>1 DEF NamedHeads
<1>10. /\ DOMAIN info = {key[h] : h \in named}
       /\ \A h \in named : (\A j \in named : j > h => key[j] # key[h]) =>
             \A e \in 1 .. N : EndsAt(heads, N, h, e) => info[key[h]] = Body(val, h, e)
  BY <1>4 DEF StoredInv
<1> HIDE DEF named
<1>11. LastHeads(out) = {k \in places : out[k].key # None /\ \A j \in places : j > k => out[j].key # out[k].key}
  BY DEF LastHeads, places
<1>12. DOMAIN info = {out[k].key : k \in LastHeads(out)}
  <2>1. ASSUME NEW k \in LastHeads(out) PROVE out[k].key \in DOMAIN info
    <3>1. k - a \in named /\ key[k - a] = out[k].key
      BY <1>8, <1>9, <1>11
    <3> QED BY <1>10, <3>1
  <2>2. ASSUME NEW h \in named PROVE \E k \in LastHeads(out) : out[k].key = key[h]
    <3> DEFINE same == {k \in places : out[k].key = key[h]}
    <3>1. a + h \in same
      BY <1>5, <1>7, <1>9
    <3>2. \A k \in same : k \in 0 .. Len(out)
      BY <1>1, <1>2, <1>8
    <3>3. same # {} /\ same \in SUBSET (0 .. Len(out)) /\ \A k : k \in same <=> k \in places /\ out[k].key = key[h]
      BY <3>1, <3>2
    <3> HIDE DEF same
    <3> DEFINE m == Max(same)
    <3>4. m \in same /\ \A k \in same : k =< m
      BY <1>2, <3>3, MaxIsGreatest
    <3> HIDE DEF m
    <3>5. m \in places /\ out[m].key = key[h] /\ key[h] # None
      BY <1>9, <3>3, <3>4
    <3>6. ASSUME NEW j \in places, j > m PROVE out[j].key # out[m].key
      <4>1. SUFFICES ASSUME out[j].key = out[m].key PROVE FALSE
        OBVIOUS
      <4>2. j =< m
        BY <3>3, <3>4, <3>5, <4>1
      <4>3. j \in Nat /\ m \in Nat
        BY <1>6, <1>8, <3>5
      <4> QED BY <3>6, <4>2, <4>3
    <3> QED BY <1>11, <3>5, <3>6
  <2>3. ASSUME NEW x \in DOMAIN info PROVE x \in {out[k].key : k \in LastHeads(out)}
    <3>1. PICK h \in named : x = key[h]
      BY <1>10
    <3>2. PICK k \in LastHeads(out) : out[k].key = key[h]
      BY <2>2
    <3> QED BY <3>1, <3>2
  <2> QED BY <2>1, <2>3
<1>13. ASSUME NEW k \in LastHeads(out)
       PROVE  info[out[k].key] = [i \in 1 .. (Max(EndPlaces(out, k)) - k + 1) |-> out[k + i - 1].val]
  <2> DEFINE ends == EndPlaces(out, k)
             E == Max(ends)
             h == k - a
             e == E - a
  <2>1. k \in places /\ out[k].key # None /\ \A j \in places : j > k => out[j].key # out[k].key
    BY <1>11
  <2>2. k \in inside /\ k \in Nat /\ k \in (a + 1) .. (a + N) /\ h \in 1 .. N /\ h \in heads /\ a + h = k /\ key[h] = out[k].key
    BY <1>1, <1>6, <1>8, <2>1
  <2>3. \A j : j \in ends <=> j \in inside /\ j >= k /\ places \cap (k + 1) .. j = {}
    BY DEF EndPlaces, inside, places
  <2> HIDE DEF ends
  <2>4. E \in ends /\ \A j \in ends : j =< E
    <3>1. k \in ends
      <4>1. (k + 1) .. k = {} /\ k >= k
        BY <2>2
      <4> QED BY <2>2, <2>3, <4>1
    <3>2. ASSUME NEW j \in ends PROVE j \in 0 .. Len(out)
      BY <1>1, <1>2, <2>3
    <3>3. ends # {} /\ ends \in SUBSET (0 .. Len(out))
      BY <3>1, <3>2
    <3> QED BY <1>2, <3>3, MaxIsGreatest
  <2> HIDE DEF E, h
  <2>5. E \in (a + 1) .. (a + N) /\ E >= k /\ places \cap (k + 1) .. E = {}
    BY <1>1, <2>3, <2>4
  <2>6. e \in 1 .. N /\ a + e = E /\ E \in Nat
    BY <2>5
  <2> HIDE DEF e
  <2>7. e \in h .. N
    BY <2>2, <2>5, <2>6
  <2>8. heads \cap (h + 1) .. e = {}
    <3>1. ASSUME NEW j \in heads, j \in (h + 1) .. e PROVE FALSE
      <4>1. a + j \in places /\ a + j \in (k + 1) .. E
        BY <1>7, <2>2, <2>6, <3>1
      <4> QED BY <2>5, <4>1
    <3> QED BY <3>1
  <2>9. e = N \/ e + 1 \in heads
    <3>1. SUFFICES ASSUME e # N, e + 1 \notin heads PROVE FALSE
      OBVIOUS
    <3>2. E + 1 \in inside /\ E + 1 >= k /\ E + 1 \notin places
      <4>1. E + 1 \in inside
        BY <1>1, <2>5, <2>6, <3>1
      <4>2. (E + 1) - a = e + 1
        BY <2>6
      <4>3. E + 1 \notin places
        BY <1>8, <3>1, <4>2
      <4> QED BY <2>2, <2>5, <4>1, <4>3
    <3>3. ASSUME NEW j \in places, j \in (k + 1) .. (E + 1) PROVE FALSE
      <4>1. j \in (k + 1) .. E
        BY <2>2, <2>6, <3>2, <3>3
      <4> QED BY <2>5, <4>1
    <3>4. E + 1 \in ends
      BY <2>3, <3>2, <3>3
    <3>5. E + 1 =< E
      BY <2>4, <3>4
    <3> QED BY <2>6, <3>5
  <2>10. EndsAt(heads, N, h, e)
    BY <2>7, <2>8, <2>9 DEF EndsAt
  <2>11. h \in named /\ \A j \in named : j > h => key[j] # key[h]
    <3>1. ASSUME NEW j \in named, j > h PROVE key[j] # key[h]
      <4>1. j \in heads
        BY <1>9
      <4>2. a + j \in places /\ a + j > k /\ key[j] = out[a + j].key
        <5>1. j \in 1 .. N /\ a + j \in places /\ j \in Nat /\ h \in Nat
          BY <1>7, <2>2, <4>1
        <5>2. a + j > k
          BY <2>2, <3>1, <5>1
        <5> QED BY <1>5, <5>1, <5>2
      <4> QED BY <2>1, <2>2, <4>2
    <3> QED BY <1>9, <2>1, <2>2, <3>1
  <2>12. info[key[h]] = Body(val, h, e)
    BY <1>10, <2>6, <2>10, <2>11
  <2>13. e - h + 1 = E - k + 1
    BY <2>2, <2>6
  <2>14. \A i \in 1 .. (E - k + 1) : val[h + i - 1] = out[k + i - 1].val
    <3>1. ASSUME NEW i \in 1 .. (E - k + 1) PROVE h + i - 1 \in 1 .. N /\ a + (h + i - 1) = k + i - 1
      BY <2>2, <2>6, <2>7
    <3> QED BY <1>5, <3>1
  <2>15. Body(val, h, e) = [i \in 1 .. (E - k + 1) |-> out[k + i - 1].val]
    BY <2>13, <2>14 DEF Body
  <2> QED BY <2>2, <2>12, <2>15 DEF E, ends
<1> QED BY <1>12, <1>13 DEF MacrosOf, info

\* A macro of rpm has its own lines and all of them, on any host.
THEOREM MacrosKeepTheirLinesHolds == Spec => []MacrosKeepTheirLines
<1>1. ASSUME ListingsAreOfHosts, Collected("rpm"), host.says["showrc"].ok
      PROVE  LET out == host.says["showrc"].out
                 marks == {k \in Reached("showrc") : out[k].t = "marker"}
                 inside == {k \in DOMAIN out : \E a, b \in marks : a < k /\ k < b /\ {m \in marks : m < b} = {a}}
                 heads == {k \in inside : out[k].t = "head"}
                 End(k) == Max({j \in inside : j >= k /\ heads \cap (k + 1)..j = {}})
                 last == {k \in heads : out[k].key # None /\ \A j \in heads : j > k => out[j].key # out[k].key}
             IN /\ DOMAIN facts.info = {out[k].key : k \in last}
                /\ \A k \in last : facts.info[out[k].key] = [i \in 1..(End(k) - k + 1) |-> out[k + i - 1].val]
  <2> DEFINE out == host.says["showrc"].out
             info == facts.info
             marks == {k \in Reached("showrc") : out[k].t = "marker"}
             inside == {k \in DOMAIN out : \E a, b \in marks : a < k /\ k < b /\ {m \in marks : m < b} = {a}}
             heads == {k \in inside : out[k].t = "head"}
             Endings(k) == {j \in inside : j >= k /\ heads \cap (k + 1)..j = {}}
             last == {k \in heads : out[k].key # None /\ \A j \in heads : j > k => out[j].key # out[k].key}
  <2>1. "rpm" \in Listers
    BY DEF Listers
  <2>2. host.of = "rpm" /\ info = ReportOf(host) /\ ListingHostOK(host)
    BY <1>1, <2>1, ListingIsReported
  <2>3. info = ParseShowrc(out)
    BY <1>1, <2>2 DEF ReportOf, RPMInfo
  <2>4. "showrc" \in DOMAIN host.says
    BY <2>2 DEF ListingHostOK, SourcesOf, Range
  <2>5. IsSeq(out)
    BY <1>1, <2>2, <2>4 DEF ListingHostOK, ListOf
  <2>6. marks = MarkPlaces(out)
    BY DEF Reached, MarkPlaces
  <2> HIDE DEF info, out, marks
  <2>7. MacrosOf(out, info)
    BY <2>3, <2>5, MacrosAreWhole
  <2>8. inside = InsidePlaces(out)
    BY <2>6 DEF InsidePlaces
  <2> HIDE DEF inside
  <2>9. heads = HeadPlaces(out)
    BY <2>8 DEF HeadPlaces
  <2> HIDE DEF heads
  <2>10. last = LastHeads(out) /\ \A k : Endings(k) = EndPlaces(out, k)
    BY <2>8, <2>9 DEF LastHeads, EndPlaces
  <2> HIDE DEF last, Endings
  <2>11. /\ DOMAIN info = {out[k].key : k \in last}
         /\ \A k \in last : info[out[k].key] = [i \in 1..(Max(Endings(k)) - k + 1) |-> out[k + i - 1].val]
    BY <2>7, <2>10 DEF MacrosOf
  <2> QED BY <2>11, Zenon DEF info, last, Endings, heads, inside, marks, out
<1>2. ListingsAreOfHosts => MacrosKeepTheirLines
  BY <1>1, Zenon DEF MacrosKeepTheirLines
<1> QED BY <1>2, ListingsInvHolds, PTL

\* What the collectors list is whole, on any host: no line is lost to another.
THEOREM ListingsAreWholeHolds == Spec => []ListingsAreWhole
BY TornLinesStayLocalHolds, MacrosKeepTheirLinesHolds, QueuesKeepTheirInterfaceHolds, NilIsNotUnknownHolds,
   EnabledIsAgreedHolds, PTL DEF ListingsAreWhole

----------------------------------------------------------------------------
\* The network.

\* The interfaces of a host.
AliasTrace(start, lines, N, S, h) ==
    /\ h \in [0 .. N -> S] /\ h[0] = start /\ FoldLeft(FoldAlias, start, lines) = h[N]
    /\ \A k \in 1 .. N : h[k] = FoldAlias(h[k - 1], lines[k])

\* The fold over the aliases goes through values of its type.
LEMMA AliasFold ==
  ASSUME NEW start, NEW lines, NEW N, N \in Nat, DOMAIN lines = 1 .. N, NEW S, start \in S,
         \A m \in S, k \in 1 .. N : FoldAlias(m, lines[k]) \in S
  PROVE  \E h : AliasTrace(start, lines, N, S, h)
<1> DEFINE Step(m, k) == FoldAlias(m, lines[k])
           step == [x \in S \X (1 .. N) |-> Step(x[1], x[2])]
           Iter(it) == it = [s \in SUBSET (1 .. N) |-> IF s = {} THEN start ELSE Step(it[s \ {Max(s)}], Max(s))]
           iter == CHOOSE it : Iter(it)
<1>1. FoldLeft(FoldAlias, start, lines) = iter[1 .. N]
  BY Zenon DEF FoldLeft, MapThenFoldSet
<1>2. start \in S /\ \A m \in S, k \in 1 .. N : Step(m, k) \in S
  OBVIOUS
<1> HIDE DEF Step
<1>3. step \in [S \X (1 .. N) -> S] /\ \A m \in S, k \in 1 .. N : step[<<m, k>>] = Step(m, k)
  BY <1>2
<1> HIDE DEF step
<1>4. \E it : Iter(it)
  <2>1. PICK it \in [SUBSET (1 .. N) -> S] : \A s \in SUBSET (1 .. N) :
            /\ it[s] = IF s = {} THEN start ELSE step[<<it[s \ {Max(s)}], Max(s)>>]
            /\ s # {} => it[s \ {Max(s)}] \in S /\ Max(s) \in 1 .. N
    BY <1>2, <1>3, FoldExists
  <2> HIDE DEF iter
  <2>2. ASSUME NEW s \in SUBSET (1 .. N) PROVE it[s] = IF s = {} THEN start ELSE Step(it[s \ {Max(s)}], Max(s))
    BY <2>1, <1>3
  <2>3. Iter(it)
    BY <2>2
  <2> HIDE DEF Iter
  <2> QED BY <2>3
<1>5. Iter(iter)
  BY Zenon, <1>4
<1> HIDE DEF iter
<1>6. iter[{}] = start
  BY <1>5
<1>7. ASSUME NEW s \in SUBSET (1 .. N), s # {}, iter[s \ {Max(s)}] \in S, Max(s) \in 1 .. N
      PROVE iter[s] = step[<<iter[s \ {Max(s)}], Max(s)>>]
  BY <1>3, <1>5, <1>7
<1>8. IsFold(S, start, N, step, iter)
  BY <1>2, <1>3, <1>6, <1>7 DEF IsFold
<1>9. PICK h : IsTrace(S, start, N, step, iter, h)
  BY <1>8, FoldSteps
<1>10. h \in [0 .. N -> S] /\ h[0] = start /\ h[N] = iter[1 .. N]
  BY <1>9 DEF IsTrace
<1>11. ASSUME NEW k \in 1 .. N PROVE h[k] = Step(h[k - 1], k)
  <2>1. h[k - 1] \in S
    BY <1>10
  <2> QED BY <2>1, <1>9, <1>3 DEF IsTrace
<1> QED BY <1>1, <1>10, <1>11 DEF Step, AliasTrace

\* The lines of a routing table.
RouteTrace(start, lines, N, S, h) ==
    /\ h \in [0 .. N -> S] /\ h[0] = start /\ FoldLeft(ReadRouteLine, start, lines) = h[N]
    /\ \A k \in 1 .. N : h[k] = ReadRouteLine(h[k - 1], lines[k])

\* The fold over the lines of a routing table goes through values of its type.
LEMMA RouteFold ==
  ASSUME NEW start, NEW lines, NEW N, N \in Nat, DOMAIN lines = 1 .. N, NEW S, start \in S,
         \A m \in S, k \in 1 .. N : ReadRouteLine(m, lines[k]) \in S
  PROVE  \E h : RouteTrace(start, lines, N, S, h)
<1> DEFINE Step(m, k) == ReadRouteLine(m, lines[k])
           step == [x \in S \X (1 .. N) |-> Step(x[1], x[2])]
           Iter(it) == it = [s \in SUBSET (1 .. N) |-> IF s = {} THEN start ELSE Step(it[s \ {Max(s)}], Max(s))]
           iter == CHOOSE it : Iter(it)
<1>1. FoldLeft(ReadRouteLine, start, lines) = iter[1 .. N]
  BY Zenon DEF FoldLeft, MapThenFoldSet
<1>2. start \in S /\ \A m \in S, k \in 1 .. N : Step(m, k) \in S
  OBVIOUS
<1> HIDE DEF Step
<1>3. step \in [S \X (1 .. N) -> S] /\ \A m \in S, k \in 1 .. N : step[<<m, k>>] = Step(m, k)
  BY <1>2
<1> HIDE DEF step
<1>4. \E it : Iter(it)
  <2>1. PICK it \in [SUBSET (1 .. N) -> S] : \A s \in SUBSET (1 .. N) :
            /\ it[s] = IF s = {} THEN start ELSE step[<<it[s \ {Max(s)}], Max(s)>>]
            /\ s # {} => it[s \ {Max(s)}] \in S /\ Max(s) \in 1 .. N
    BY <1>2, <1>3, FoldExists
  <2> HIDE DEF iter
  <2>2. ASSUME NEW s \in SUBSET (1 .. N) PROVE it[s] = IF s = {} THEN start ELSE Step(it[s \ {Max(s)}], Max(s))
    BY <2>1, <1>3
  <2>3. Iter(it)
    BY <2>2
  <2> HIDE DEF Iter
  <2> QED BY <2>3
<1>5. Iter(iter)
  BY Zenon, <1>4
<1> HIDE DEF iter
<1>6. iter[{}] = start
  BY <1>5
<1>7. ASSUME NEW s \in SUBSET (1 .. N), s # {}, iter[s \ {Max(s)}] \in S, Max(s) \in 1 .. N
      PROVE iter[s] = step[<<iter[s \ {Max(s)}], Max(s)>>]
  BY <1>3, <1>5, <1>7
<1>8. IsFold(S, start, N, step, iter)
  BY <1>2, <1>3, <1>6, <1>7 DEF IsFold
<1>9. PICK h : IsTrace(S, start, N, step, iter, h)
  BY <1>8, FoldSteps
<1>10. h \in [0 .. N -> S] /\ h[0] = start /\ h[N] = iter[1 .. N]
  BY <1>9 DEF IsTrace
<1>11. ASSUME NEW k \in 1 .. N PROVE h[k] = Step(h[k - 1], k)
  <2>1. h[k - 1] \in S
    BY <1>10
  <2> QED BY <2>1, <1>9, <1>3 DEF IsTrace
<1> QED BY <1>1, <1>10, <1>11 DEF Step, RouteTrace

\* The fragments of lines.
ThenTrace(start, lines, N, S, h) ==
    /\ h \in [0 .. N -> S] /\ h[0] = start /\ FoldLeft(Then, start, lines) = h[N]
    /\ \A k \in 1 .. N : h[k] = Then(h[k - 1], lines[k])

\* The fold over fragments goes through values of its type.
LEMMA ThenFold ==
  ASSUME NEW start, NEW lines, NEW N, N \in Nat, DOMAIN lines = 1 .. N, NEW S, start \in S,
         \A m \in S, k \in 1 .. N : Then(m, lines[k]) \in S
  PROVE  \E h : ThenTrace(start, lines, N, S, h)
<1> DEFINE Step(m, k) == Then(m, lines[k])
           step == [x \in S \X (1 .. N) |-> Step(x[1], x[2])]
           Iter(it) == it = [s \in SUBSET (1 .. N) |-> IF s = {} THEN start ELSE Step(it[s \ {Max(s)}], Max(s))]
           iter == CHOOSE it : Iter(it)
<1>1. FoldLeft(Then, start, lines) = iter[1 .. N]
  BY Zenon DEF FoldLeft, MapThenFoldSet
<1>2. start \in S /\ \A m \in S, k \in 1 .. N : Step(m, k) \in S
  OBVIOUS
<1> HIDE DEF Step
<1>3. step \in [S \X (1 .. N) -> S] /\ \A m \in S, k \in 1 .. N : step[<<m, k>>] = Step(m, k)
  BY <1>2
<1> HIDE DEF step
<1>4. \E it : Iter(it)
  <2>1. PICK it \in [SUBSET (1 .. N) -> S] : \A s \in SUBSET (1 .. N) :
            /\ it[s] = IF s = {} THEN start ELSE step[<<it[s \ {Max(s)}], Max(s)>>]
            /\ s # {} => it[s \ {Max(s)}] \in S /\ Max(s) \in 1 .. N
    BY <1>2, <1>3, FoldExists
  <2> HIDE DEF iter
  <2>2. ASSUME NEW s \in SUBSET (1 .. N) PROVE it[s] = IF s = {} THEN start ELSE Step(it[s \ {Max(s)}], Max(s))
    BY <2>1, <1>3
  <2>3. Iter(it)
    BY <2>2
  <2> HIDE DEF Iter
  <2> QED BY <2>3
<1>5. Iter(iter)
  BY Zenon, <1>4
<1> HIDE DEF iter
<1>6. iter[{}] = start
  BY <1>5
<1>7. ASSUME NEW s \in SUBSET (1 .. N), s # {}, iter[s \ {Max(s)}] \in S, Max(s) \in 1 .. N
      PROVE iter[s] = step[<<iter[s \ {Max(s)}], Max(s)>>]
  BY <1>3, <1>5, <1>7
<1>8. IsFold(S, start, N, step, iter)
  BY <1>2, <1>3, <1>6, <1>7 DEF IsFold
<1>9. PICK h : IsTrace(S, start, N, step, iter, h)
  BY <1>8, FoldSteps
<1>10. h \in [0 .. N -> S] /\ h[0] = start /\ h[N] = iter[1 .. N]
  BY <1>9 DEF IsTrace
<1>11. ASSUME NEW k \in 1 .. N PROVE h[k] = Step(h[k - 1], k)
  <2>1. h[k - 1] \in S
    BY <1>10
  <2> QED BY <2>1, <1>9, <1>3 DEF IsTrace
<1> QED BY <1>1, <1>10, <1>11 DEF Step, ThenTrace

\* The routes of a family.
DefaultTrace(start, lines, N, S, h) ==
    /\ h \in [0 .. N -> S] /\ h[0] = start /\ FoldLeft(DefaultRoute, start, lines) = h[N]
    /\ \A k \in 1 .. N : h[k] = DefaultRoute(h[k - 1], lines[k])

\* The fold over the routes of a family goes through values of its type.
LEMMA DefaultFold ==
  ASSUME NEW start, NEW lines, NEW N, N \in Nat, DOMAIN lines = 1 .. N, NEW S, start \in S,
         \A m \in S, k \in 1 .. N : DefaultRoute(m, lines[k]) \in S
  PROVE  \E h : DefaultTrace(start, lines, N, S, h)
<1> DEFINE Step(m, k) == DefaultRoute(m, lines[k])
           step == [x \in S \X (1 .. N) |-> Step(x[1], x[2])]
           Iter(it) == it = [s \in SUBSET (1 .. N) |-> IF s = {} THEN start ELSE Step(it[s \ {Max(s)}], Max(s))]
           iter == CHOOSE it : Iter(it)
<1>1. FoldLeft(DefaultRoute, start, lines) = iter[1 .. N]
  BY Zenon DEF FoldLeft, MapThenFoldSet
<1>2. start \in S /\ \A m \in S, k \in 1 .. N : Step(m, k) \in S
  OBVIOUS
<1> HIDE DEF Step
<1>3. step \in [S \X (1 .. N) -> S] /\ \A m \in S, k \in 1 .. N : step[<<m, k>>] = Step(m, k)
  BY <1>2
<1> HIDE DEF step
<1>4. \E it : Iter(it)
  <2>1. PICK it \in [SUBSET (1 .. N) -> S] : \A s \in SUBSET (1 .. N) :
            /\ it[s] = IF s = {} THEN start ELSE step[<<it[s \ {Max(s)}], Max(s)>>]
            /\ s # {} => it[s \ {Max(s)}] \in S /\ Max(s) \in 1 .. N
    BY <1>2, <1>3, FoldExists
  <2> HIDE DEF iter
  <2>2. ASSUME NEW s \in SUBSET (1 .. N) PROVE it[s] = IF s = {} THEN start ELSE Step(it[s \ {Max(s)}], Max(s))
    BY <2>1, <1>3
  <2>3. Iter(it)
    BY <2>2
  <2> HIDE DEF Iter
  <2> QED BY <2>3
<1>5. Iter(iter)
  BY Zenon, <1>4
<1> HIDE DEF iter
<1>6. iter[{}] = start
  BY <1>5
<1>7. ASSUME NEW s \in SUBSET (1 .. N), s # {}, iter[s \ {Max(s)}] \in S, Max(s) \in 1 .. N
      PROVE iter[s] = step[<<iter[s \ {Max(s)}], Max(s)>>]
  BY <1>3, <1>5, <1>7
<1>8. IsFold(S, start, N, step, iter)
  BY <1>2, <1>3, <1>6, <1>7 DEF IsFold
<1>9. PICK h : IsTrace(S, start, N, step, iter, h)
  BY <1>8, FoldSteps
<1>10. h \in [0 .. N -> S] /\ h[0] = start /\ h[N] = iter[1 .. N]
  BY <1>9 DEF IsTrace
<1>11. ASSUME NEW k \in 1 .. N PROVE h[k] = Step(h[k - 1], k)
  <2>1. h[k - 1] \in S
    BY <1>10
  <2> QED BY <2>1, <1>9, <1>3 DEF IsTrace
<1> QED BY <1>1, <1>10, <1>11 DEF Step, DefaultTrace

\* The lines of ring and channel parameters.
SectionTrace(start, lines, N, S, h) ==
    /\ h \in [0 .. N -> S] /\ h[0] = start /\ FoldLeft(SectionLine, start, lines) = h[N]
    /\ \A k \in 1 .. N : h[k] = SectionLine(h[k - 1], lines[k])

\* The fold over the lines of sections goes through values of its type.
LEMMA SectionFold ==
  ASSUME NEW start, NEW lines, NEW N, N \in Nat, DOMAIN lines = 1 .. N, NEW S, start \in S,
         \A m \in S, k \in 1 .. N : SectionLine(m, lines[k]) \in S
  PROVE  \E h : SectionTrace(start, lines, N, S, h)
<1> DEFINE Step(m, k) == SectionLine(m, lines[k])
           step == [x \in S \X (1 .. N) |-> Step(x[1], x[2])]
           Iter(it) == it = [s \in SUBSET (1 .. N) |-> IF s = {} THEN start ELSE Step(it[s \ {Max(s)}], Max(s))]
           iter == CHOOSE it : Iter(it)
<1>1. FoldLeft(SectionLine, start, lines) = iter[1 .. N]
  BY Zenon DEF FoldLeft, MapThenFoldSet
<1>2. start \in S /\ \A m \in S, k \in 1 .. N : Step(m, k) \in S
  OBVIOUS
<1> HIDE DEF Step
<1>3. step \in [S \X (1 .. N) -> S] /\ \A m \in S, k \in 1 .. N : step[<<m, k>>] = Step(m, k)
  BY <1>2
<1> HIDE DEF step
<1>4. \E it : Iter(it)
  <2>1. PICK it \in [SUBSET (1 .. N) -> S] : \A s \in SUBSET (1 .. N) :
            /\ it[s] = IF s = {} THEN start ELSE step[<<it[s \ {Max(s)}], Max(s)>>]
            /\ s # {} => it[s \ {Max(s)}] \in S /\ Max(s) \in 1 .. N
    BY <1>2, <1>3, FoldExists
  <2> HIDE DEF iter
  <2>2. ASSUME NEW s \in SUBSET (1 .. N) PROVE it[s] = IF s = {} THEN start ELSE Step(it[s \ {Max(s)}], Max(s))
    BY <2>1, <1>3
  <2>3. Iter(it)
    BY <2>2
  <2> HIDE DEF Iter
  <2> QED BY <2>3
<1>5. Iter(iter)
  BY Zenon, <1>4
<1> HIDE DEF iter
<1>6. iter[{}] = start
  BY <1>5
<1>7. ASSUME NEW s \in SUBSET (1 .. N), s # {}, iter[s \ {Max(s)}] \in S, Max(s) \in 1 .. N
      PROVE iter[s] = step[<<iter[s \ {Max(s)}], Max(s)>>]
  BY <1>3, <1>5, <1>7
<1>8. IsFold(S, start, N, step, iter)
  BY <1>2, <1>3, <1>6, <1>7 DEF IsFold
<1>9. PICK h : IsTrace(S, start, N, step, iter, h)
  BY <1>8, FoldSteps
<1>10. h \in [0 .. N -> S] /\ h[0] = start /\ h[N] = iter[1 .. N]
  BY <1>9 DEF IsTrace
<1>11. ASSUME NEW k \in 1 .. N PROVE h[k] = Step(h[k - 1], k)
  <2>1. h[k - 1] \in S
    BY <1>10
  <2> QED BY <2>1, <1>9, <1>3 DEF IsTrace
<1> QED BY <1>1, <1>10, <1>11 DEF Step, SectionTrace

\* The lines of ip -d link.
LinkTrace(start, lines, N, S, h) ==
    /\ h \in [0 .. N -> S] /\ h[0] = start /\ FoldLeft(ReadLinkLine, start, lines) = h[N]
    /\ \A k \in 1 .. N : h[k] = ReadLinkLine(h[k - 1], lines[k])

\* The fold over the lines of ip -d link goes through values of its type.
LEMMA LinkFold ==
  ASSUME NEW start, NEW lines, NEW N, N \in Nat, DOMAIN lines = 1 .. N, NEW S, start \in S,
         \A m \in S, k \in 1 .. N : ReadLinkLine(m, lines[k]) \in S
  PROVE  \E h : LinkTrace(start, lines, N, S, h)
<1> DEFINE Step(m, k) == ReadLinkLine(m, lines[k])
           step == [x \in S \X (1 .. N) |-> Step(x[1], x[2])]
           Iter(it) == it = [s \in SUBSET (1 .. N) |-> IF s = {} THEN start ELSE Step(it[s \ {Max(s)}], Max(s))]
           iter == CHOOSE it : Iter(it)
<1>1. FoldLeft(ReadLinkLine, start, lines) = iter[1 .. N]
  BY Zenon DEF FoldLeft, MapThenFoldSet
<1>2. start \in S /\ \A m \in S, k \in 1 .. N : Step(m, k) \in S
  OBVIOUS
<1> HIDE DEF Step
<1>3. step \in [S \X (1 .. N) -> S] /\ \A m \in S, k \in 1 .. N : step[<<m, k>>] = Step(m, k)
  BY <1>2
<1> HIDE DEF step
<1>4. \E it : Iter(it)
  <2>1. PICK it \in [SUBSET (1 .. N) -> S] : \A s \in SUBSET (1 .. N) :
            /\ it[s] = IF s = {} THEN start ELSE step[<<it[s \ {Max(s)}], Max(s)>>]
            /\ s # {} => it[s \ {Max(s)}] \in S /\ Max(s) \in 1 .. N
    BY <1>2, <1>3, FoldExists
  <2> HIDE DEF iter
  <2>2. ASSUME NEW s \in SUBSET (1 .. N) PROVE it[s] = IF s = {} THEN start ELSE Step(it[s \ {Max(s)}], Max(s))
    BY <2>1, <1>3
  <2>3. Iter(it)
    BY <2>2
  <2> HIDE DEF Iter
  <2> QED BY <2>3
<1>5. Iter(iter)
  BY Zenon, <1>4
<1> HIDE DEF iter
<1>6. iter[{}] = start
  BY <1>5
<1>7. ASSUME NEW s \in SUBSET (1 .. N), s # {}, iter[s \ {Max(s)}] \in S, Max(s) \in 1 .. N
      PROVE iter[s] = step[<<iter[s \ {Max(s)}], Max(s)>>]
  BY <1>3, <1>5, <1>7
<1>8. IsFold(S, start, N, step, iter)
  BY <1>2, <1>3, <1>6, <1>7 DEF IsFold
<1>9. PICK h : IsTrace(S, start, N, step, iter, h)
  BY <1>8, FoldSteps
<1>10. h \in [0 .. N -> S] /\ h[0] = start /\ h[N] = iter[1 .. N]
  BY <1>9 DEF IsTrace
<1>11. ASSUME NEW k \in 1 .. N PROVE h[k] = Step(h[k - 1], k)
  <2>1. h[k - 1] \in S
    BY <1>10
  <2> QED BY <2>1, <1>9, <1>3 DEF IsTrace
<1> QED BY <1>1, <1>10, <1>11 DEF Step, LinkTrace

----------------------------------------------------------------------------
\* Ethtool.

\* The last place of a set up to a place; 0 if there is none.
LatestIn(P, k) == Max({0} \cup {j \in 1 .. k : j \in P})

\* The last place is of the set, and it moves when the next place is of the set.
LEMMA LatestMoves ==
  ASSUME NEW P, NEW n \in Nat
  PROVE  /\ LatestIn(P, 0) = 0
         /\ LatestIn(P, n) \in 0 .. n /\ (LatestIn(P, n) # 0 => LatestIn(P, n) \in P)
         /\ \A j \in 1 .. n : j \in P => j =< LatestIn(P, n)
         /\ LatestIn(P, n + 1) = IF n + 1 \in P THEN n + 1 ELSE LatestIn(P, n)
<1> DEFINE S(k) == {0} \cup {j \in 1 .. k : j \in P}
<1>1. ASSUME NEW k \in Nat PROVE Max(S(k)) \in S(k) /\ (\A j \in S(k) : j =< Max(S(k))) /\ S(k) \in SUBSET (0 .. k)
  <2>1. S(k) \in SUBSET (0 .. k) /\ S(k) # {}
    OBVIOUS
  <2> HIDE DEF S
  <2> QED BY <2>1, MaxIsGreatest
<1>2. S(0) = {0}
  OBVIOUS
<1>3. LatestIn(P, 0) = 0
  <2>1. Max(S(0)) \in S(0)
    BY <1>1
  <2> QED BY <1>2, <2>1, Zenon DEF LatestIn
<1>4. LatestIn(P, n) = Max(S(n)) /\ LatestIn(P, n + 1) = Max(S(n + 1))
  BY DEF LatestIn
<1>5. S(n + 1) = IF n + 1 \in P THEN S(n) \cup {n + 1} ELSE S(n)
  <2>1. 1 .. (n + 1) = (1 .. n) \cup {n + 1}
    OBVIOUS
  <2> QED BY <2>1
<1>6. Max(S(n)) \in 0 .. n /\ (Max(S(n)) # 0 => Max(S(n)) \in P) /\ \A j \in 1 .. n : j \in P => j =< Max(S(n))
  <2>1. Max(S(n)) \in S(n) /\ \A j \in S(n) : j =< Max(S(n))
    BY <1>1
  <2> QED BY <2>1
<1>7. n + 1 \in P => Max(S(n + 1)) = n + 1
  <2>1. /\ Max(S(n + 1)) \in S(n + 1) /\ (\A j \in S(n + 1) : j =< Max(S(n + 1)))
        /\ S(n + 1) \in SUBSET (0 .. (n + 1))
    <3>1. n + 1 \in Nat
      OBVIOUS
    <3> HIDE DEF S
    <3> QED BY <1>1, <3>1
  <2>2. n + 1 \in P => n + 1 \in S(n + 1)
    OBVIOUS
  <2> HIDE DEF S
  <2> QED BY <2>1, <2>2
<1> HIDE DEF S
<1> QED BY <1>3, <1>4, <1>5, <1>6, <1>7

\* The pairs that are kept, the last of each key counting.
LEMMA PairsAreLast ==
  ASSUME NEW lines, NEW n \in Nat, DOMAIN lines = 1 .. n, NEW at \in SUBSET (1 .. n)
  PROVE  IsLastAt(ParsePairs(lines, at), {k \in at : lines[k].t = "pair"},
                  [k \in 1 .. n |-> lines[k].key], [k \in 1 .. n |-> lines[k].val])
<1> DEFINE pairs == {k \in at : lines[k].t = "pair"}
           kept == Kept(lines, pairs)
           c == Cardinality(pairs)
           key == [k \in 1 .. n |-> lines[k].key]
           val == [k \in 1 .. n |-> lines[k].val]
           rkey == [k \in 1 .. c |-> kept[k].key]
           rval == [k \in 1 .. c |-> kept[k].val]
<1>1. pairs \in SUBSET (1 .. n) /\ ParsePairs(lines, at) = ByKey(kept)
  BY DEF ParsePairs
<1> HIDE DEF pairs
<1>2. c \in Nat /\ DOMAIN kept = 1 .. c /\ \A i \in pairs : Rank(pairs, i) \in 1 .. c /\ kept[Rank(pairs, i)] = lines[i]
  BY <1>1, KeptHolds
<1> HIDE DEF kept, c
<1>3. IsLastPut(ByKey(kept), c, rkey, rval)
  BY <1>2, KeysAreLast
<1>4. AreOfPlaces(pairs, rkey, key) /\ AreOfPlaces(pairs, rval, val)
  BY <1>1, <1>2 DEF AreOfPlaces
<1> HIDE DEF key, val, rkey, rval
<1>5. IsLastAt(ByKey(kept), pairs, key, val)
  BY <1>1, <1>3, <1>4, LastOfPlaces DEF c
<1> QED BY <1>1, <1>5 DEF pairs, key, val

\* A map takes one more line.
LEMMA LastAtGrows ==
  ASSUME NEW n \in Nat, NEW at \in SUBSET (1 .. n), NEW m, NEW key, NEW val, IsLastAt(m, at, key, val)
  PROVE  IsLastAt(Put(m, key[n + 1], val[n + 1]), at \cup {n + 1}, key, val)
<1> DEFINE put == Put(m, key[n + 1], val[n + 1])
           more == at \cup {n + 1}
<1>1. DOMAIN put = DOMAIN m \cup {key[n + 1]} /\ put[key[n + 1]] = val[n + 1] /\ \A x \in DOMAIN m : x # key[n + 1] => put[x] = m[x]
  BY DEF Put
<1> HIDE DEF put
<1>2. DOMAIN m = {key[k] : k \in at} /\ \A i \in at : (\A j \in at : j > i => key[j] # key[i]) => m[key[i]] = val[i]
  BY DEF IsLastAt
<1>3. DOMAIN put = {key[k] : k \in more}
  BY <1>1, <1>2
<1>4. ASSUME NEW i \in more, \A j \in more : j > i => key[j] # key[i] PROVE put[key[i]] = val[i]
  <2>1. CASE i = n + 1
    BY <1>1, <2>1
  <2>2. CASE i # n + 1
    <3>1. i \in at /\ i \in 1 .. n
      BY <2>2
    <3>2. n + 1 \in more /\ n + 1 > i
      BY <3>1
    <3>3. key[n + 1] # key[i]
      BY <1>4, <3>2
    <3>4. m[key[i]] = val[i] /\ key[i] \in DOMAIN m
      BY <1>2, <1>4, <3>1
    <3> QED BY <1>1, <3>3, <3>4
  <2> QED BY <2>1, <2>2
<1> QED BY <1>3, <1>4 DEF IsLastAt, put, more

\* The headings of sections, and the numbers below one.
Headings(lines) == {k \in DOMAIN lines : lines[k].t \in {"max", "current"}}
NumberPlaces(lines, n) ==
    {k \in 1 .. n : lines[k].t = "pair" /\ LatestIn(Headings(lines), k) # 0 /\ Digits(lines[k])}
SectionKeys(lines) == [k \in DOMAIN lines |-> <<lines[LatestIn(Headings(lines), k)].t, lines[k].key>>]

\* What has been read of sections after n lines.
SectionInv(s, lines, n) ==
    LET last == LatestIn(Headings(lines), n)
    IN /\ s.section = IF last = 0 THEN None ELSE lines[last].t
       /\ IsLastAt(s.map, NumberPlaces(lines, n), SectionKeys(lines), [k \in DOMAIN lines |-> lines[k].val])

\* The invariant of the sections goes from one line to the next.
LEMMA SectionsGrow ==
  ASSUME NEW lines, NEW N \in Nat, DOMAIN lines = 1 .. N, NEW n \in 0 .. N, n < N,
         NEW s, NEW keys, NEW vals, s \in [section : {None, "max", "current"}, map : Maps(keys, vals)],
         SectionInv(s, lines, n)
  PROVE  SectionInv(SectionLine(s, lines[n + 1]), lines, n + 1)
<1> DEFINE heads == Headings(lines)
           l == lines[n + 1]
           t == SectionLine(s, l)
           key == SectionKeys(lines)
           val == [k \in DOMAIN lines |-> lines[k].val]
           last == LatestIn(heads, n)
           next == LatestIn(heads, n + 1)
<1>1. n \in Nat /\ n + 1 \in 1 .. N /\ n + 1 # 0 /\ 1 .. (n + 1) = (1 .. n) \cup {n + 1}
  OBVIOUS
<1>2. next = IF n + 1 \in heads THEN n + 1 ELSE last
  BY <1>1, LatestMoves
<1>3. n + 1 \in heads <=> l.t \in {"max", "current"}
  BY <1>1 DEF Headings
<1>4. (last = 0 => s.section = None) /\ (last # 0 => s.section = lines[last].t) /\ IsLastAt(s.map, NumberPlaces(lines, n), key, val)
  BY DEF SectionInv
<1>5. key[n + 1] = <<lines[next].t, l.key>> /\ val[n + 1] = l.val
  BY <1>1 DEF SectionKeys
<1>6. NumberPlaces(lines, n + 1) = IF l.t = "pair" /\ next # 0 /\ Digits(l) THEN NumberPlaces(lines, n) \cup {n + 1}
                                   ELSE NumberPlaces(lines, n)
  BY <1>1 DEF NumberPlaces
<1>7. NumberPlaces(lines, n) \in SUBSET (1 .. n)
  BY DEF NumberPlaces
<1>8. last # 0 => lines[last].t # None
  <2>1. last # 0 => last \in heads
    BY <1>1, LatestMoves
  <2> QED BY <2>1 DEF Headings, None
<1>9. CASE l.t \in {"max", "current"}
  <2>1. t = [s EXCEPT !.section = l.t]
    BY <1>9 DEF SectionLine
  <2>2. t.section = l.t /\ t.map = s.map
    BY <2>1
  <2>3. next = n + 1
    BY <1>2, <1>3, <1>9
  <2>4. NumberPlaces(lines, n + 1) = NumberPlaces(lines, n)
    BY <1>6, <1>9
  <2> HIDE DEF t, key, val, heads
  <2> QED BY <1>1, <1>4, <2>2, <2>3, <2>4 DEF SectionInv, t, key, val, heads
<1>10. CASE l.t = "pair" /\ s.section # None /\ Digits(l)
  <2>1. t = [s EXCEPT !.map = Put(@, <<s.section, l.key>>, l.val)]
    BY <1>10 DEF SectionLine
  <2>2. t.section = s.section /\ t.map = Put(s.map, <<s.section, l.key>>, l.val)
    BY <2>1
  <2>3. next = last /\ last # 0 /\ s.section = lines[last].t
    BY <1>2, <1>3, <1>4, <1>10
  <2>4. NumberPlaces(lines, n + 1) = NumberPlaces(lines, n) \cup {n + 1}
    BY <1>6, <1>10, <2>3
  <2>5. t.map = Put(s.map, key[n + 1], val[n + 1])
    BY <1>5, <2>2, <2>3
  <2> HIDE DEF t, key, val, heads, last, next
  <2> DEFINE at == NumberPlaces(lines, n)
  <2>7. at \in SUBSET (1 .. n) /\ IsLastAt(s.map, at, key, val)
    BY <1>4, <1>7
  <2> HIDE DEF at
  <2>8. IsLastAt(Put(s.map, key[n + 1], val[n + 1]), at \cup {n + 1}, key, val)
    BY <1>1, <2>7, LastAtGrows
  <2>6. IsLastAt(t.map, NumberPlaces(lines, n + 1), key, val)
    BY <2>4, <2>5, <2>8 DEF at
  <2> QED BY <2>2, <2>3, <2>6 DEF SectionInv, t, key, val, heads, next
<1>11. CASE l.t \notin {"max", "current"} /\ ~ (l.t = "pair" /\ s.section # None /\ Digits(l))
  <2>1. t = s
    BY <1>11 DEF SectionLine
  <2>2. next = last
    BY <1>2, <1>3, <1>11
  <2>3. NumberPlaces(lines, n + 1) = NumberPlaces(lines, n)
    BY <1>4, <1>6, <1>8, <1>11, <2>2
  <2> HIDE DEF t, key, val, heads
  <2> QED BY <1>4, <2>1, <2>2, <2>3 DEF SectionInv, t, key, val, heads
<1> QED BY <1>9, <1>10, <1>11

\* Numbers are under the section they are printed in, the last of each name counting.
LEMMA SectionsAreLast ==
  ASSUME NEW lines, NEW N \in Nat, DOMAIN lines = 1 .. N
  PROVE  IsLastAt(ParseSectioned(lines), NumberPlaces(lines, N), SectionKeys(lines), [k \in DOMAIN lines |-> lines[k].val])
<1> DEFINE keys == {"max", "current"} \X {lines[k].key : k \in 1 .. N}
           vals == {lines[k].val : k \in 1 .. N}
           S == [section : {None, "max", "current"}, map : Maps(keys, vals)]
           start == [section |-> None, map |-> Empty]
<1>1. start \in S
  <2>1. Empty \in Maps(keys, vals)
    BY EmptyIsMap
  <2> QED BY <2>1
<1>2. ASSUME NEW s \in S, NEW k \in 1 .. N PROVE SectionLine(s, lines[k]) \in S
  <2> DEFINE l == lines[k]
             maps == Maps(keys, vals)
  <2>1. l.key \in {lines[j].key : j \in 1 .. N} /\ l.val \in vals
    OBVIOUS
  <2>2. s.section \in {None, "max", "current"} /\ s.map \in Maps(keys, vals)
    OBVIOUS
  <2>3. ASSUME s.section # None PROVE Put(s.map, <<s.section, l.key>>, l.val) \in Maps(keys, vals)
    <3>1. <<s.section, l.key>> \in keys
      BY <2>1, <2>2, <2>3
    <3> HIDE DEF keys, vals, l
    <3> QED BY <2>1, <2>2, <3>1, PutIsMap
  <2> HIDE DEF keys, vals, l
  <2> QED BY <2>1, <2>2, <2>3 DEF SectionLine, l
<1> HIDE DEF S
<1>3. PICK h : SectionTrace(start, lines, N, S, h)
  <2> HIDE DEF start
  <2> QED BY <1>1, <1>2, SectionFold
<1>4. /\ h \in [0 .. N -> S] /\ h[0] = start /\ ParseSectioned(lines) = h[N].map
      /\ \A k \in 1 .. N : h[k] = SectionLine(h[k - 1], lines[k])
  BY <1>3, Zenon DEF SectionTrace, ParseSectioned
<1> DEFINE A == {n \in 0 .. N : SectionInv(h[n], lines, n)}
<1>5. 0 \in A
  <2>1. start.section = None /\ start.map = Empty /\ DOMAIN Empty = {} /\ 0 \in 0 .. N
    BY EmptyIsMap
  <2>2. LatestIn(Headings(lines), 0) = 0
    BY LatestMoves
  <2>3. NumberPlaces(lines, 0) = {}
    BY DEF NumberPlaces
  <2>4. IsLastAt(Empty, {}, SectionKeys(lines), [k \in DOMAIN lines |-> lines[k].val])
    BY <2>1 DEF IsLastAt
  <2> HIDE DEF start
  <2>5. SectionInv(h[0], lines, 0)
    BY <1>4, <2>1, <2>2, <2>3, <2>4, Zenon DEF SectionInv
  <2> QED BY <2>1, <2>5
<1>6. ASSUME NEW n \in 0 .. N, n \in A, n < N PROVE n + 1 \in A
  <2>1. n + 1 \in 1 .. N /\ n + 1 \in 0 .. N /\ (n + 1) - 1 = n
    BY <1>6
  <2>2. h[n + 1] = SectionLine(h[n], lines[n + 1]) /\ h[n] \in S
    <3>1. h[n + 1] = SectionLine(h[(n + 1) - 1], lines[n + 1])
      BY <1>4, <2>1, Zenon
    <3> QED BY <1>4, <2>1, <3>1
  <2> HIDE DEF keys, vals
  <2>3. SectionInv(SectionLine(h[n], lines[n + 1]), lines, n + 1)
    BY <1>6, <2>2, SectionsGrow DEF S
  <2> QED BY <2>1, <2>2, <2>3
<1>7. N \in A
  <2> HIDE DEF A
  <2>1. N \in 0 .. N
    OBVIOUS
  <2> QED BY <1>5, <1>6, <2>1, Induction
<1>8. SectionInv(h[N], lines, N)
  BY <1>7
<1> QED BY <1>4, <1>8, Zenon DEF SectionInv

----------------------------------------------------------------------------
\* The interfaces.

\* The interfaces before the commands are asked about them.
Encapsulations == {None, "Ethernet", "PPP", "SLIP", "VJSLIP", "IPIP", "6to4", "Loopback"}

Bares(names, addrs) ==
    [name : names, addrs : Seq(addrs), encapsulation : Encapsulations,
     routes : {<<>>}, ethtool : {Empty}, vlan : {Nil}, tunnel : {Nil}, xdp : {Nil}]

\* Which interface each is folded into, by its place; and whether those that others are
\* folded into are in front of all that are folded.
AliasesOK(N, into) == N \in Nat /\ into \in [1 .. N -> 0 .. N]
AliasesInOrder(N, into) == \A j, m \in 1 .. N : into[j] # 0 /\ into[m] # 0 => into[j] < m

\* Those that are kept, and those that are folded into one of them.
KeptUpto(into, n) == {k \in 1 .. n : into[k] = 0}
FoldedInto(into, n, k) == {j \in 1 .. n : into[j] = k}
Gathered(bare, into, n, k) == Range(bare[k].addrs) \cup UNION {Range(bare[j].addrs) : j \in FoldedInto(into, n, k)}

\* What is kept so far is at the front of the array under its name, and what is behind has
\* its own; with the aliases in order the former has the addresses of its aliases as well,
\* and what is behind is as it was.
IsPlaced(array, at, bare) == \A k \in at : array[Rank(at, k)].name = bare[k].name

IsGathered(array, at, bare, into, n) == \A k \in at : Range(array[Rank(at, k)].addrs) = Gathered(bare, into, n, k)

AliasInv(s, N, bare, into, n) ==
    /\ s.len = Cardinality(KeptUpto(into, n))
    /\ \A k \in (n + 1) .. N : s.array[k].name = bare[k].name
    /\ IsPlaced(s.array, KeptUpto(into, n), bare)

AliasSum(s, N, bare, into, n) ==
    /\ \A k \in (n + 1) .. N : s.array[k] = bare[k]
    /\ IsGathered(s.array, KeptUpto(into, n), bare, into, n)

\* An interface that is kept moves down, and one that is folded leaves its addresses.
AliasMoved(t, s, a, N) ==
    /\ a.into = 0 => /\ t.len = s.len + 1
                     /\ s.len + 1 \in 1 .. N => t.array[s.len + 1] = s.array[a.at]
                     /\ \A k \in 1 .. N : k # s.len + 1 => t.array[k] = s.array[k]
    /\ a.into # 0 => /\ t.len = s.len /\ t.array[a.into].name = s.array[a.into].name
                     /\ Range(t.array[a.into].addrs) = Range(s.array[a.into].addrs) \cup Range(s.array[a.at].addrs)
                     /\ \A k \in 1 .. N : k # a.into => t.array[k] = s.array[k]

\* Folding one interface keeps the types and moves or extends one place of the array.
LEMMA FoldAliasMoves ==
  ASSUME NEW N \in Nat, NEW I, NEW s, s \in [array : [1 .. N -> I], len : Nat], NEW a, a.at \in 1 .. N, a.into \in 0 .. N,
         NEW names, NEW addrs, I = Bares(names, addrs)
  PROVE  FoldAlias(s, a) \in [array : [1 .. N -> I], len : Nat] /\ AliasMoved(FoldAlias(s, a), s, a, N)
<1> DEFINE t == FoldAlias(s, a)
           i == s.array[a.into]
           j == s.array[a.at]
           more == i.addrs \o j.addrs
           grown == [i EXCEPT !.addrs = more]
<1>1. s.array \in [1 .. N -> I] /\ s.len \in Nat /\ j \in I /\ s = [array |-> s.array, len |-> s.len]
  OBVIOUS
<1>2. CASE a.into = 0
  <2> DEFINE moved == [s.array EXCEPT ![s.len + 1] = j]
  <2>1. t = [array |-> moved, len |-> s.len + 1]
    BY <1>2 DEF FoldAlias
  <2>2. t.array = moved /\ t.len = s.len + 1
    BY <2>1
  <2>3. moved \in [1 .. N -> I]
    BY <1>1
  <2>4. /\ s.len + 1 \in 1 .. N => moved[s.len + 1] = j
        /\ \A k \in 1 .. N : k # s.len + 1 => moved[k] = s.array[k]
    BY <1>1
  <2> HIDE DEF moved
  <2>5. t \in [array : [1 .. N -> I], len : Nat]
    BY <1>1, <2>1, <2>3
  <2> QED BY <1>2, <2>2, <2>4, <2>5 DEF AliasMoved
<1>3. CASE a.into # 0
  <2>1. a.into \in 1 .. N /\ i \in I
    BY <1>1, <1>3
  <2>2. more \in Seq(addrs)
    BY <1>1, <2>1 DEF Bares
  <2>3. Range(more) = Range(i.addrs) \cup Range(j.addrs)
    <3>1. i.addrs \in Seq(addrs) /\ j.addrs \in Seq(addrs)
      BY <1>1, <2>1 DEF Bares
    <3> HIDE DEF i, j
    <3> QED BY <3>1, RangeConcatenation DEF more
  <2>4. grown \in I /\ grown.name = i.name /\ grown.addrs = more
    <3> HIDE DEF more, i
    <3> QED BY <2>1, <2>2 DEF Bares
  <2> DEFINE array == [s.array EXCEPT ![a.into] = grown]
  <2>5. t = [s EXCEPT !.array[a.into].addrs = @ \o s.array[a.at].addrs]
    BY <1>3, Zenon DEF FoldAlias
  <2>6. t = [array |-> array, len |-> s.len]
    BY <1>1, <2>5
  <2> HIDE DEF grown
  <2>7. t.array = array /\ t.len = s.len
    BY <2>6
  <2>8. array \in [1 .. N -> I] /\ array[a.into] = grown /\ \A k \in 1 .. N : k # a.into => array[k] = s.array[k]
    BY <1>1, <2>1, <2>4
  <2> HIDE DEF array
  <2>9. t \in [array : [1 .. N -> I], len : Nat]
    BY <1>1, <2>6, <2>8
  <2> HIDE DEF t
  <2> QED BY <1>3, <2>3, <2>4, <2>7, <2>8, <2>9 DEF t, AliasMoved
<1> QED BY <1>2, <1>3 DEF t

\* What is kept in front of a place, and one that others are folded into keeps its place.
LEMMA KeptPlaces ==
  ASSUME NEW N, NEW into, AliasesOK(N, into), NEW n \in 0 .. N
  PROVE  /\ KeptUpto(into, n) \in SUBSET (1 .. n) /\ Cardinality(KeptUpto(into, n)) \in 0 .. n
         /\ \A k \in KeptUpto(into, n) : Rank(KeptUpto(into, n), k) \in 1 .. Cardinality(KeptUpto(into, n))
         /\ \A i, j \in KeptUpto(into, n) : Rank(KeptUpto(into, n), i) = Rank(KeptUpto(into, n), j) => i = j
         /\ AliasesInOrder(N, into) => \A j \in 1 .. N : into[j] \in 1 .. n =>
               into[j] \in KeptUpto(into, n) /\ Rank(KeptUpto(into, n), into[j]) = into[j]
<1> DEFINE at == KeptUpto(into, n)
<1>1. at \in SUBSET (1 .. n) /\ N \in Nat /\ n \in Nat /\ into \in [1 .. N -> 0 .. N]
  BY DEF AliasesOK, KeptUpto
<1>2. /\ Cardinality(at) \in Nat /\ \A k \in at : Rank(at, k) \in 1 .. Cardinality(at)
      /\ \A i, j \in at : i < j => Rank(at, i) < Rank(at, j)
  BY <1>1, RanksCount
<1>3. Cardinality(at) \in 0 .. n
  <2>1. IsFiniteSet(1 .. n) /\ Cardinality(1 .. n) = n
    <3>1. 1 \in Int /\ n \in Int
      BY <1>1
    <3>2. IsFiniteSet(1 .. n) /\ Cardinality(1 .. n) = IF 1 > n THEN 0 ELSE n - 1 + 1
      BY <3>1, FS_Interval
    <3> QED BY <1>1, <3>2
  <2>2. Cardinality(at) =< n
    BY <1>1, <2>1, FS_Subset
  <2> QED BY <1>1, <1>2, <2>2
<1>4. ASSUME NEW i \in at, NEW j \in at, Rank(at, i) = Rank(at, j) PROVE i = j
  <2>1. i \in Nat /\ j \in Nat /\ Rank(at, i) \in Nat /\ Rank(at, j) \in Nat
    BY <1>1, <1>2
  <2>2. ~ (i < j) /\ ~ (j < i)
    BY <1>2, <1>4, <2>1
  <2> QED BY <2>1, <2>2
<1>5. ASSUME AliasesInOrder(N, into), NEW j \in 1 .. N, into[j] \in 1 .. n PROVE into[j] \in at /\ Rank(at, into[j]) = into[j]
  <2> DEFINE b == into[j]
  <2>1. b \in Nat /\ b # 0 /\ b \in 1 .. n
    BY <1>5
  <2>2. \A k \in 1 .. N : into[k] # 0 => b < k
    BY <1>5, <2>1 DEF AliasesInOrder
  <2>3. ASSUME NEW k \in 1 .. b PROVE k \in at
    <3>1. k \in 1 .. N /\ k \in 1 .. n /\ ~ (b < k)
      BY <1>1, <2>1
    <3>2. into[k] = 0
      BY <2>2, <3>1
    <3> QED BY <3>1, <3>2 DEF KeptUpto
  <2> HIDE DEF at, b
  <2>4. {k \in at : k <= b} = 1 .. b
    <3>1. \A k \in at : k \in Nat /\ k >= 1
      BY <1>1
    <3>2. \A k \in at : k <= b => k \in 1 .. b
      BY <2>1, <3>1
    <3>3. \A k \in 1 .. b : k <= b
      BY <2>1
    <3> QED BY <2>3, <3>2, <3>3
  <2>5. Cardinality(1 .. b) = b
    <3>1. 1 \in Int /\ b \in Int
      BY <2>1
    <3>2. Cardinality(1 .. b) = IF 1 > b THEN 0 ELSE b - 1 + 1
      BY <3>1, FS_Interval
    <3> QED BY <2>1, <3>2
  <2>6. Rank(at, b) = b
    BY <2>4, <2>5 DEF Rank
  <2>7. b \in at
    BY <2>1, <2>3
  <2> QED BY <2>6, <2>7 DEF b
<1> QED BY <1>1, <1>2, <1>3, <1>4, <1>5

\* The invariant of the aliases goes from one interface to the next.
LEMMA AliasesPlace ==
  ASSUME NEW N, NEW into, AliasesOK(N, into), NEW names, NEW addrs, NEW bare, bare \in [1 .. N -> Bares(names, addrs)],
         NEW n \in 0 .. N, n < N, NEW s, s \in [array : [1 .. N -> Bares(names, addrs)], len : Nat],
         NEW a, a.at = n + 1, a.into = into[n + 1], AliasInv(s, N, bare, into, n)
  PROVE  AliasInv(FoldAlias(s, a), N, bare, into, n + 1)
<1> DEFINE t == FoldAlias(s, a)
           at == KeptUpto(into, n)
           more == KeptUpto(into, n + 1)
           c == Cardinality(at)
<1>1. N \in Nat /\ into \in [1 .. N -> 0 .. N] /\ n \in Nat /\ n + 1 \in 1 .. N /\ 1 .. (n + 1) = (1 .. n) \cup {n + 1}
      /\ (n + 1) + 1 = n + 2
  BY DEF AliasesOK
<1>2. AliasMoved(t, s, a, N)
  <2>1. a.at \in 1 .. N /\ a.into \in 0 .. N
    BY <1>1
  <2> QED BY <1>1, <2>1, FoldAliasMoves
<1> HIDE DEF t
<1>3. at \in SUBSET (1 .. n) /\ c \in 0 .. n /\ \A k \in at : Rank(at, k) \in 1 .. c
  BY KeptPlaces
<1>4. s.len = c /\ (\A k \in (n + 1) .. N : s.array[k].name = bare[k].name) /\ \A k \in at : s.array[Rank(at, k)].name = bare[k].name
  BY DEF AliasInv, IsPlaced
<1>5. more = IF into[n + 1] = 0 THEN at \cup {n + 1} ELSE at
  BY <1>1 DEF KeptUpto
<1>6. CASE into[n + 1] = 0
  <2>1. /\ t.len = s.len + 1 /\ (s.len + 1 \in 1 .. N => t.array[s.len + 1] = s.array[n + 1])
        /\ \A k \in 1 .. N : k # s.len + 1 => t.array[k] = s.array[k]
    BY <1>2, <1>6 DEF AliasMoved
  <2>2. more = at \cup {n + 1}
    BY <1>5, <1>6
  <2> HIDE DEF at, more
  <2>3. /\ Cardinality(more) = c + 1 /\ \A k \in at : Rank(more, k) = Rank(at, k)
        /\ Rank(more, n + 1) = c + 1
    <3>1. /\ Cardinality(at \cup {n + 1}) = Cardinality(at) + 1
          /\ \A k \in at : Rank(at \cup {n + 1}, k) = Rank(at, k)
          /\ Rank(at \cup {n + 1}, n + 1) = Cardinality(at) + 1
      BY <1>1, <1>3, RankGrows
    <3> QED BY <2>2, <3>1
  <2> HIDE DEF c
  <2>4. t.len = Cardinality(more) /\ t.array[c + 1].name = bare[n + 1].name /\ \A k \in 1 .. N : k # c + 1 => t.array[k] = s.array[k]
    <3>1. c + 1 \in 1 .. N /\ n + 1 \in (n + 1) .. N
      BY <1>1, <1>3
    <3> QED BY <1>4, <2>1, <2>3, <3>1
  <2>5. ASSUME NEW k \in (n + 2) .. N PROVE t.array[k].name = bare[k].name
    <3>1. k \in 1 .. N /\ k # c + 1 /\ k \in (n + 1) .. N
      BY <1>1, <1>3
    <3> QED BY <1>4, <2>4, <3>1
  <2>6. ASSUME NEW k \in more PROVE t.array[Rank(more, k)].name = bare[k].name
    <3>1. CASE k \in at
      <4>1. Rank(more, k) = Rank(at, k) /\ Rank(at, k) \in 1 .. N /\ Rank(at, k) # c + 1
        BY <1>1, <1>3, <2>3, <3>1
      <4> QED BY <1>4, <2>4, <3>1, <4>1
    <3>2. CASE k = n + 1
      BY <2>3, <2>4, <3>2
    <3> QED BY <2>2, <3>1, <3>2
  <2> QED BY <1>1, <2>4, <2>5, <2>6 DEF AliasInv, IsPlaced, more, t
<1>7. CASE into[n + 1] # 0
  <2> DEFINE b == into[n + 1]
  <2>1. t.len = s.len /\ t.array[b].name = s.array[b].name /\ \A k \in 1 .. N : k # b => t.array[k] = s.array[k]
    BY <1>2, <1>7 DEF AliasMoved
  <2>2. more = at
    BY <1>5, <1>7
  <2> HIDE DEF at, more, b, c
  <2>3. \A k \in 1 .. N : t.array[k].name = s.array[k].name
    BY <2>1
  <2>4. (\A k \in (n + 2) .. N : k \in 1 .. N /\ k \in (n + 1) .. N) /\ \A k \in at : Rank(at, k) \in 1 .. N
    BY <1>1, <1>3
  <2>5. t.len = c /\ (\A k \in (n + 2) .. N : t.array[k].name = bare[k].name) /\ \A k \in at : t.array[Rank(at, k)].name = bare[k].name
    BY <1>4, <2>1, <2>3, <2>4
  <2> QED BY <1>1, <2>2, <2>5 DEF AliasInv, IsPlaced, more, t, c
<1> QED BY <1>6, <1>7 DEF t

\* With the aliases in order every address reaches its interface.
LEMMA AliasesGather ==
  ASSUME NEW N, NEW into, AliasesOK(N, into), AliasesInOrder(N, into), NEW names, NEW addrs, NEW bare, bare \in [1 .. N -> Bares(names, addrs)],
         NEW n \in 0 .. N, n < N, NEW s, s \in [array : [1 .. N -> Bares(names, addrs)], len : Nat],
         NEW a, a.at = n + 1, a.into = into[n + 1], AliasInv(s, N, bare, into, n),
         AliasSum(s, N, bare, into, n)
  PROVE  AliasSum(FoldAlias(s, a), N, bare, into, n + 1)
<1> DEFINE t == FoldAlias(s, a)
           at == KeptUpto(into, n)
           more == KeptUpto(into, n + 1)
           c == Cardinality(at)
<1>1. N \in Nat /\ into \in [1 .. N -> 0 .. N] /\ n \in Nat /\ n + 1 \in 1 .. N /\ 1 .. (n + 1) = (1 .. n) \cup {n + 1}
  BY DEF AliasesOK
<1>2. AliasMoved(t, s, a, N)
  <2>1. a.at \in 1 .. N /\ a.into \in 0 .. N
    BY <1>1
  <2> QED BY <1>1, <2>1, FoldAliasMoves
<1> HIDE DEF t
<1>3. /\ at \in SUBSET (1 .. n) /\ c \in 0 .. n /\ \A k \in at : Rank(at, k) \in 1 .. c
      /\ \A i, j \in at : Rank(at, i) = Rank(at, j) => i = j
      /\ \A j \in 1 .. N : into[j] \in 1 .. n => into[j] \in at /\ Rank(at, into[j]) = into[j]
  BY KeptPlaces
<1>4. s.len = c /\ (\A k \in (n + 1) .. N : s.array[k] = bare[k]) /\ IsGathered(s.array, at, bare, into, n)
  BY DEF AliasInv, AliasSum
<1>5. s.array[n + 1] = bare[n + 1]
  BY <1>1, <1>4
<1>6. \A k \in at : Range(s.array[Rank(at, k)].addrs) = Gathered(bare, into, n, k)
  BY <1>4 DEF IsGathered
<1>7. more = IF into[n + 1] = 0 THEN at \cup {n + 1} ELSE at
  BY <1>1 DEF KeptUpto
<1>8. \A k : FoldedInto(into, n + 1, k) = IF into[n + 1] = k THEN FoldedInto(into, n, k) \cup {n + 1} ELSE FoldedInto(into, n, k)
  BY <1>1 DEF FoldedInto
<1>9. CASE into[n + 1] = 0
  <2>1. /\ t.len = s.len + 1 /\ (s.len + 1 \in 1 .. N => t.array[s.len + 1] = s.array[n + 1])
        /\ \A k \in 1 .. N : k # s.len + 1 => t.array[k] = s.array[k]
    BY <1>2, <1>9 DEF AliasMoved
  <2>2. more = at \cup {n + 1}
    BY <1>7, <1>9
  <2> HIDE DEF at, more
  <2>3. /\ Cardinality(more) = c + 1 /\ \A k \in at : Rank(more, k) = Rank(at, k)
        /\ Rank(more, n + 1) = c + 1
    <3>1. /\ Cardinality(at \cup {n + 1}) = Cardinality(at) + 1
          /\ \A k \in at : Rank(at \cup {n + 1}, k) = Rank(at, k)
          /\ Rank(at \cup {n + 1}, n + 1) = Cardinality(at) + 1
      BY <1>1, <1>3, RankGrows
    <3> QED BY <2>2, <3>1
  <2> HIDE DEF c
  <2>4. t.len = Cardinality(more) /\ t.array[c + 1] = bare[n + 1] /\ \A k \in 1 .. N : k # c + 1 => t.array[k] = s.array[k]
    <3>1. c + 1 \in 1 .. N
      BY <1>1, <1>3
    <3> QED BY <1>4, <1>5, <2>1, <2>3, <3>1
  <2>5. ASSUME NEW k \in (n + 2) .. N PROVE t.array[k] = bare[k]
    <3>1. k \in 1 .. N /\ k # c + 1 /\ k \in (n + 1) .. N
      BY <1>1, <1>3
    <3> QED BY <1>4, <2>4, <3>1
  <2>6. ASSUME NEW k \in more
        PROVE Range(t.array[Rank(more, k)].addrs) = Gathered(bare, into, n + 1, k)
    <3>1. CASE k \in at
      <4>1. Rank(more, k) = Rank(at, k) /\ Rank(at, k) \in 1 .. c
        BY <1>3, <2>3, <3>1
      <4>2. t.array[Rank(more, k)] = s.array[Rank(at, k)]
        <5>1. Rank(at, k) \in 1 .. N /\ Rank(at, k) # c + 1
          BY <1>1, <1>3, <4>1
        <5> QED BY <2>4, <4>1, <5>1
      <4>3. k # 0
        BY <1>3, <3>1
      <4>4. FoldedInto(into, n + 1, k) = FoldedInto(into, n, k)
        BY <1>8, <1>9, <4>3
      <4>5. Gathered(bare, into, n + 1, k) = Gathered(bare, into, n, k)
        BY <4>4 DEF Gathered
      <4> QED BY <1>6, <3>1, <4>2, <4>5
    <3>2. CASE k = n + 1
      <4>1. t.array[Rank(more, k)] = bare[k]
        BY <2>3, <2>4, <3>2
      <4>2. FoldedInto(into, n + 1, k) = {}
        <5>1. ASSUME NEW j \in 1 .. (n + 1), into[j] = k PROVE FALSE
          <6>1. j \in 1 .. N /\ into[j] # 0
            BY <1>1, <3>2, <5>1
          <6>2. k < j
            BY <1>1, <5>1, <6>1 DEF AliasesInOrder
          <6> QED BY <1>1, <3>2, <5>1, <6>2
        <5> QED BY <5>1 DEF FoldedInto
      <4>3. Gathered(bare, into, n + 1, k) = Range(bare[k].addrs)
        BY <4>2 DEF Gathered
      <4> QED BY <4>1, <4>3
    <3> QED BY <2>2, <3>1, <3>2
  <2>7. (n + 1) + 1 = n + 2
    BY <1>1
  <2>8. IsGathered(t.array, more, bare, into, n + 1)
    BY <2>6 DEF IsGathered
  <2> QED BY <2>5, <2>7, <2>8 DEF AliasSum, more, t
<1>10. CASE into[n + 1] # 0
  <2> DEFINE b == into[n + 1]
  <2>1. /\ t.len = s.len /\ t.array[b].name = s.array[b].name
        /\ Range(t.array[b].addrs) = Range(s.array[b].addrs) \cup Range(s.array[n + 1].addrs)
        /\ \A k \in 1 .. N : k # b => t.array[k] = s.array[k]
    BY <1>2, <1>10 DEF AliasMoved
  <2>2. more = at
    BY <1>7, <1>10
  <2>3. b < n + 1 /\ b \in 1 .. n
    <3>1. b < n + 1
      BY <1>1, <1>10 DEF AliasesInOrder
    <3>2. b \in 0 .. N /\ b # 0
      BY <1>1, <1>10
    <3> QED BY <1>1, <3>1, <3>2
  <2>4. b \in at /\ Rank(at, b) = b
    BY <1>1, <1>3, <2>3
  <2>b. b = into[n + 1]
    OBVIOUS
  <2> HIDE DEF at, more, b
  <2>5. ASSUME NEW k \in (n + 2) .. N PROVE t.array[k] = bare[k]
    <3>1. k \in 1 .. N /\ k # b /\ k \in (n + 1) .. N
      BY <1>1, <2>3
    <3> QED BY <1>4, <2>1, <3>1
  <2>6. ASSUME NEW k \in at
        PROVE Range(t.array[Rank(at, k)].addrs) = Gathered(bare, into, n + 1, k)
    <3>1. CASE k = b
      <4>1. FoldedInto(into, n + 1, k) = FoldedInto(into, n, k) \cup {n + 1}
        BY <1>8, <2>b, <3>1
      <4>2. Gathered(bare, into, n + 1, k) = Gathered(bare, into, n, k) \cup Range(bare[n + 1].addrs)
        BY <4>1 DEF Gathered
      <4>3. Range(t.array[b].addrs) = Gathered(bare, into, n, b) \cup Range(bare[n + 1].addrs)
        BY <1>5, <1>6, <2>1, <2>4
      <4> QED BY <2>4, <3>1, <4>2, <4>3
    <3>2. CASE k # b
      <4>1. Rank(at, k) # b /\ Rank(at, k) \in 1 .. N
        <5>1. Rank(at, k) # Rank(at, b)
          BY <1>3, <2>4, <3>2
        <5>2. Rank(at, k) \in 1 .. c /\ c \in 0 .. n
          BY <1>3
        <5> HIDE DEF c
        <5> QED BY <1>1, <2>4, <5>1, <5>2
      <4>2. t.array[Rank(at, k)] = s.array[Rank(at, k)]
        BY <2>1, <4>1
      <4>3. FoldedInto(into, n + 1, k) = FoldedInto(into, n, k)
        BY <1>8, <2>b, <3>2
      <4>4. Gathered(bare, into, n + 1, k) = Gathered(bare, into, n, k)
        BY <4>3 DEF Gathered
      <4> QED BY <1>6, <4>2, <4>4
    <3> QED BY <3>1, <3>2
  <2>7. (n + 1) + 1 = n + 2
    BY <1>1
  <2>8. IsGathered(t.array, more, bare, into, n + 1)
    BY <2>2, <2>6 DEF IsGathered
  <2> QED BY <2>5, <2>7, <2>8 DEF AliasSum, more, t
<1> QED BY <1>9, <1>10 DEF t

\* The places of all are their ranks.
LEMMA RankOfAll == ASSUME NEW n \in Nat PROVE Cardinality(1 .. n) = n /\ \A k \in 1 .. n : Rank(1 .. n, k) = k
<1>1. ASSUME NEW m \in Nat PROVE Cardinality(1 .. m) = m
  <2>1. 1 \in Int /\ m \in Int
    OBVIOUS
  <2>2. Cardinality(1 .. m) = IF 1 > m THEN 0 ELSE m - 1 + 1
    BY <2>1, FS_Interval
  <2> QED BY <2>2
<1>2. ASSUME NEW k \in 1 .. n PROVE Rank(1 .. n, k) = k
  <2>1. {j \in 1 .. n : j <= k} = 1 .. k
    OBVIOUS
  <2>2. Cardinality(1 .. k) = k
    BY <1>1
  <2> QED BY <2>1, <2>2 DEF Rank
<1> QED BY <1>1, <1>2

\* What a host's aliases are folded into, and who is left.
FoldedAt(h) == [k \in DOMAIN h.ifaces |-> IF OpenVZGuest(h) THEN Targets(h)[k].into ELSE 0]
Stays(h) == KeptUpto(FoldedAt(h), Len(h.ifaces))

\* The addresses that parse.
AddressesOf(h, k) == Range(h.ifaces[k].addrs) \ {"bad"}

\* The interfaces that are read, and those that are left when aliases are folded.
BareInterfaces(h) == ApplyEncapsulation(h, ReadInterfaces(h))
MergedInterfaces(h) == OpenVZAliasMerge(h, BareInterfaces(h))

\* Interfaces are read with the addresses that parse.
LEMMA InterfacesAreRead ==
  ASSUME NEW h, NetworkHostOK(h)
  PROVE  /\ Len(h.ifaces) \in Nat /\ DOMAIN h.ifaces = 1 .. Len(h.ifaces)
         /\ BareInterfaces(h) \in [1 .. Len(h.ifaces) -> Bares({i.name : i \in Range(h.ifaces)}, UNION {Range(i.addrs) : i \in Range(h.ifaces)})]
         /\ \A k \in DOMAIN h.ifaces : BareInterfaces(h)[k].name = h.ifaces[k].name /\ Range(BareInterfaces(h)[k].addrs) = AddressesOf(h, k)
<1> DEFINE N == Len(h.ifaces)
           names == {i.name : i \in Range(h.ifaces)}
           addrs == UNION {Range(i.addrs) : i \in Range(h.ifaces)}
           I == Bares(names, addrs)
           bare == BareInterfaces(h)
<1>1. IsSeq(h.ifaces) /\ \A i \in Range(h.ifaces) : IsSeq(i.addrs)
  BY DEF NetworkHostOK, InterfacesOK
<1>2. N \in Nat /\ DOMAIN h.ifaces = 1 .. N
  BY <1>1, LenProperties DEF IsSeq
<1> DEFINE Read(k) == [name |-> h.ifaces[k].name, addrs |-> ParseAddresses(h.ifaces[k].addrs),
                       encapsulation |-> None, routes |-> <<>>, ethtool |-> Empty, vlan |-> Nil, tunnel |-> Nil, xdp |-> Nil]
           read == ReadInterfaces(h)
<1>3. read = [k \in DOMAIN h.ifaces |-> Read(k)]
  BY Zenon DEF ReadInterfaces
<1>4. bare = [k \in DOMAIN read |-> [read[k] EXCEPT !.encapsulation = Encapsulation(h.ifaces[k].arphrd)]]
  BY Zenon DEF BareInterfaces, ApplyEncapsulation
<1> HIDE DEF read, bare, N
<1>5. ASSUME NEW k \in 1 .. N
      PROVE bare[k] \in I /\ bare[k].name = h.ifaces[k].name /\ Range(bare[k].addrs) = AddressesOf(h, k)
  <2> DEFINE said == h.ifaces[k].addrs
             at == {j \in DOMAIN said : said[j] # "bad"}
             good == ParseAddresses(said)
             e == Encapsulation(h.ifaces[k].arphrd)
  <2>1. h.ifaces[k] \in Range(h.ifaces)
    BY <1>2 DEF Range
  <2>2. IsSeq(said)
    BY <1>1, <2>1
  <2>3. Len(said) \in Nat /\ DOMAIN said = 1 .. Len(said) /\ at \in SUBSET (1 .. Len(said))
    BY <2>2, LenProperties DEF IsSeq
  <2>4. good = Kept(said, at)
    BY DEF ParseAddresses
  <2>5. \A i \in at : said[i] \in addrs
    <3>1. \A i \in at : said[i] \in Range(said)
      BY DEF Range
    <3> HIDE DEF at
    <3> QED BY <2>1, <3>1
  <2>6. Range(good) = {said[i] : i \in at} /\ good \in Seq(addrs)
    <3> DEFINE n == Len(said)
    <3>1. n \in Nat /\ DOMAIN said = 1 .. n /\ at \in SUBSET (1 .. n)
      BY <2>3
    <3> HIDE DEF at, addrs, n, said, good
    <3>2. Range(Kept(said, at)) = {said[i] : i \in at}
      BY <3>1, KeptRange
    <3>3. Kept(said, at) \in Seq(addrs)
      BY <2>5, <3>1, KeptHolds
    <3> QED BY <2>4, <3>2, <3>3
  <2>7. Range(good) = AddressesOf(h, k)
    BY <2>6 DEF AddressesOf, Range
  <2>8. e \in Encapsulations
    BY DEF Encapsulation, Encapsulations
  <2>9. h.ifaces[k].name \in names
    BY <2>1
  <2> HIDE DEF good, e, said, names, addrs
  <2>10. read[k] = [name |-> h.ifaces[k].name, addrs |-> good, encapsulation |-> None, routes |-> <<>>, ethtool |-> Empty,
                    vlan |-> Nil, tunnel |-> Nil, xdp |-> Nil] /\ k \in DOMAIN read
    BY <1>2, <1>3 DEF good, said
  <2>11. bare[k] = [read[k] EXCEPT !.encapsulation = e]
    BY <1>4, <2>10 DEF e
  <2>12. bare[k] = [name |-> h.ifaces[k].name, addrs |-> good, encapsulation |-> e, routes |-> <<>>, ethtool |-> Empty,
                    vlan |-> Nil, tunnel |-> Nil, xdp |-> Nil]
    BY <2>10, <2>11
  <2>13. bare[k] \in I
    BY <2>6, <2>8, <2>9, <2>12 DEF Bares
  <2> QED BY <2>7, <2>12, <2>13
<1>6. bare \in [1 .. N -> I]
  <2>1. DOMAIN read = 1 .. N
    BY <1>2, <1>3
  <2>2. bare = [k \in 1 .. N |-> bare[k]]
    BY <1>4, <2>1
  <2> HIDE DEF I
  <2> QED BY <1>5, <2>2
<1> HIDE DEF I
<1> QED BY <1>2, <1>5, <1>6 DEF bare, N, I

\* What an alias is folded into is an interface that stays.
LEMMA AliasesAreOK ==
  ASSUME NEW h, NetworkHostOK(h)
  PROVE  /\ AliasesOK(Len(h.ifaces), FoldedAt(h)) /\ (AliasesComeLast(h) => AliasesInOrder(Len(h.ifaces), FoldedAt(h)))
         /\ \A k \in DOMAIN h.ifaces : Targets(h)[k].at = k /\ Targets(h)[k].into \in 0 .. Len(h.ifaces)
         /\ \A k \in DOMAIN h.ifaces : FoldedAt(h)[k] # 0 <=> OpenVZGuest(h) /\ h.ifaces[k].base # None /\ ByName(h, h.ifaces[k].base) # 0
         /\ \A k \in DOMAIN h.ifaces : FoldedAt(h)[k] # 0 =>
               h.ifaces[FoldedAt(h)[k]].name = h.ifaces[k].base /\ FoldedAt(h)[FoldedAt(h)[k]] = 0
<1> DEFINE N == Len(h.ifaces)
           into == FoldedAt(h)
<1>1. N \in Nat /\ DOMAIN h.ifaces = 1 .. N
  BY InterfacesAreRead
<1> HIDE DEF N
<1>2. ASSUME NEW n PROVE ByName(h, n) \in 0 .. N /\ (ByName(h, n) # 0 => h.ifaces[ByName(h, n)].name = n)
  <2> DEFINE S == {0} \cup {k \in DOMAIN h.ifaces : h.ifaces[k].name = n}
  <2>1. S \in SUBSET (0 .. N) /\ S # {}
    BY <1>1
  <2>2. Max(S) \in S
    <3> HIDE DEF S
    <3> QED BY <1>1, <2>1, MaxIsGreatest
  <2>3. ByName(h, n) = Max(S)
    BY Zenon DEF ByName
  <2> QED BY <1>1, <2>2, <2>3
<1>3. ASSUME NEW k \in 1 .. N
      PROVE /\ Targets(h)[k].at = k
            /\ h.ifaces[k].base = None => Targets(h)[k].into = 0
            /\ h.ifaces[k].base # None => Targets(h)[k].into = ByName(h, h.ifaces[k].base)
            /\ OpenVZGuest(h) => into[k] = Targets(h)[k].into
            /\ ~ OpenVZGuest(h) => into[k] = 0
  <2> DEFINE to == IF h.ifaces[k].base = None THEN 0 ELSE ByName(h, h.ifaces[k].base)
  <2>1. Targets(h)[k] = [at |-> k, into |-> to]
    BY <1>1 DEF Targets
  <2>2. into[k] = IF OpenVZGuest(h) THEN Targets(h)[k].into ELSE 0
    BY <1>1 DEF FoldedAt
  <2> HIDE DEF to, into
  <2>3. Targets(h)[k].at = k /\ Targets(h)[k].into = to
    BY <2>1
  <2> QED BY <2>2, <2>3 DEF to
<1> HIDE DEF into
<1>4. ASSUME NEW k \in 1 .. N PROVE Targets(h)[k].at = k /\ Targets(h)[k].into \in 0 .. N /\ into[k] \in 0 .. N
  BY <1>1, <1>2, <1>3
<1>5. ASSUME NEW k \in 1 .. N
      PROVE into[k] # 0 <=> OpenVZGuest(h) /\ h.ifaces[k].base # None /\ ByName(h, h.ifaces[k].base) # 0
  BY <1>3
<1>6. ASSUME NEW k \in 1 .. N, into[k] # 0 PROVE into[k] = ByName(h, h.ifaces[k].base) /\ into[k] \in 1 .. N /\ h.ifaces[into[k]].name = h.ifaces[k].base
  <2>1. into[k] = ByName(h, h.ifaces[k].base)
    BY <1>3, <1>6
  <2> QED BY <1>2, <1>4, <1>6, <2>1
<1>7. ASSUME AliasesComeLast(h), NEW j \in 1 .. N, NEW m \in 1 .. N, into[j] # 0, into[m] # 0 PROVE into[j] < m
  <2>1. ByName(h, h.ifaces[m].base) # 0
    BY <1>5, <1>7
  <2>2. into[j] \in DOMAIN h.ifaces /\ h.ifaces[j].base = h.ifaces[into[j]].name /\ j \in DOMAIN h.ifaces /\ m \in DOMAIN h.ifaces
    BY <1>1, <1>6, <1>7
  <2> QED BY <1>7, <2>1, <2>2 DEF AliasesComeLast
<1>11. ASSUME NEW k \in 1 .. N, into[k] # 0 PROVE into[into[k]] = 0
  <2>1. into[k] \in 1 .. N /\ h.ifaces[k].base = h.ifaces[into[k]].name
    BY <1>6, <1>11
  <2>2. \A x, y \in DOMAIN h.ifaces : h.ifaces[x].base = h.ifaces[y].name => h.ifaces[y].base = None
    BY DEF NetworkHostOK, InterfacesOK
  <2>3. h.ifaces[into[k]].base = None
    BY <1>1, <2>1, <2>2
  <2> QED BY <1>5, <2>1, <2>3
<1>8. into = [k \in 1 .. N |-> into[k]]
  BY <1>1 DEF into, FoldedAt
<1>9. into \in [1 .. N -> 0 .. N]
  BY <1>4, <1>8
<1>10. AliasesOK(N, into) /\ (AliasesComeLast(h) => AliasesInOrder(N, into))
  BY <1>1, <1>7, <1>9 DEF AliasesOK, AliasesInOrder
<1> QED BY <1>1, <1>4, <1>5, <1>6, <1>10, <1>11 DEF into, N

\* What an interface is before the commands are asked about it.
IsBare(i) ==
    /\ DOMAIN i = {"name", "addrs", "encapsulation", "routes", "ethtool", "vlan", "tunnel", "xdp"} /\ i.name # None
    /\ i.routes = <<>> /\ i.ethtool = Empty /\ i.vlan = Nil /\ i.tunnel = Nil /\ i.xdp = Nil

\* The interfaces that are left under their names, each with its addresses and those of its
\* aliases if these are in order.
IsMerged(h, ifs) ==
    /\ DOMAIN ifs = 1 .. Cardinality(Stays(h)) /\ \A k \in DOMAIN ifs : IsBare(ifs[k])
    /\ IsPlaced(ifs, Stays(h), BareInterfaces(h))
    /\ AliasesInOrder(Len(h.ifaces), FoldedAt(h)) => IsGathered(ifs, Stays(h), BareInterfaces(h), FoldedAt(h), Len(h.ifaces))

\* The interfaces of any host that are left are so.
LEMMA InterfacesAreMerged == ASSUME NEW h, NetworkHostOK(h) PROVE IsMerged(h, MergedInterfaces(h))
<1> DEFINE N == Len(h.ifaces)
           names == {i.name : i \in Range(h.ifaces)}
           addrs == UNION {Range(i.addrs) : i \in Range(h.ifaces)}
           I == Bares(names, addrs)
           bare == BareInterfaces(h)
           into == FoldedAt(h)
           ifs == MergedInterfaces(h)
           at == Stays(h)
<1>1. N \in Nat /\ DOMAIN h.ifaces = 1 .. N /\ bare \in [1 .. N -> I]
  BY InterfacesAreRead
<1>2. /\ AliasesOK(N, into) /\ (\A k \in 1 .. N : Targets(h)[k].at = k /\ Targets(h)[k].into \in 0 .. N)
      /\ \A k \in 1 .. N : into[k] = IF OpenVZGuest(h) THEN Targets(h)[k].into ELSE 0
  BY <1>1, AliasesAreOK DEF FoldedAt
<1>3. at = KeptUpto(into, N)
  BY DEF Stays
<1>4. \A i \in I : IsBare(i)
  <2>1. None \notin names
    BY DEF NetworkHostOK, InterfacesOK
  <2> QED BY <2>1 DEF Bares, IsBare
<1> HIDE DEF names, addrs, N, bare, into, at
<1>5. CASE ~ OpenVZGuest(h)
  <2>1. ifs = bare
    BY <1>5, Zenon DEF MergedInterfaces, OpenVZAliasMerge, bare
  <2>2. \A k \in 1 .. N : into[k] = 0
    BY <1>2, <1>5
  <2>3. at = 1 .. N
    BY <1>3, <2>2 DEF KeptUpto
  <2>4. Cardinality(at) = N /\ \A k \in at : Rank(at, k) = k
    BY <1>1, <2>3, RankOfAll
  <2>5. ASSUME NEW k \in at PROVE Gathered(bare, into, N, k) = Range(bare[k].addrs)
    <3>1. k # 0
      BY <1>1, <2>3
    <3>2. FoldedInto(into, N, k) = {}
      BY <2>2, <3>1 DEF FoldedInto
    <3> QED BY <3>2 DEF Gathered
  <2> HIDE DEF ifs, I
  <2>6. IsPlaced(ifs, at, bare) /\ IsGathered(ifs, at, bare, into, N)
    BY <2>1, <2>4, <2>5 DEF IsPlaced, IsGathered
  <2>7. DOMAIN ifs = 1 .. Cardinality(at) /\ \A k \in DOMAIN ifs : IsBare(ifs[k])
    BY <1>1, <1>4, <2>1, <2>4
  <2> QED BY <2>6, <2>7 DEF IsMerged, ifs, at, bare, into, N
<1>6. CASE OpenVZGuest(h)
  <2> DEFINE S == [array : [1 .. N -> I], len : Nat]
             start == [array |-> bare, len |-> 0]
             targets == Targets(h)
             end == FoldLeft(FoldAlias, start, targets)
  <2>1. start \in S
    BY <1>1
  <2>2. DOMAIN targets = 1 .. N
    BY <1>1 DEF Targets
  <2>3. ASSUME NEW s \in S, NEW k \in 1 .. N PROVE FoldAlias(s, targets[k]) \in S
    <3>1. targets[k].at \in 1 .. N /\ targets[k].into \in 0 .. N
      BY <1>2
    <3> DEFINE a == targets[k]
    <3>2. I = Bares(names, addrs)
      OBVIOUS
    <3>3. a.at \in 1 .. N /\ a.into \in 0 .. N
      BY <3>1
    <3> HIDE DEF a, I
    <3>4. FoldAlias(s, a) \in S
      BY <1>1, <3>2, <3>3, FoldAliasMoves
    <3> QED BY <3>4 DEF a
  <2>4. ifs = SubSeq(end.array, 1, end.len)
    BY <1>6, Zenon DEF MergedInterfaces, OpenVZAliasMerge, bare
  <2> HIDE DEF S, targets, start, I, ifs
  <2>5. PICK g : AliasTrace(start, targets, N, S, g)
    BY <1>1, <2>1, <2>2, <2>3, AliasFold
  <2>6. g \in [0 .. N -> S] /\ g[0] = start /\ end = g[N] /\ \A k \in 1 .. N : g[k] = FoldAlias(g[k - 1], targets[k])
    BY <2>5, Zenon DEF AliasTrace
  <2> HIDE DEF end
  <2> DEFINE Placed(n) == AliasInv(g[n], N, bare, into, n) /\ (AliasesInOrder(N, into) => AliasSum(g[n], N, bare, into, n))
             A == {n \in 0 .. N : Placed(n)}
  <2>7. 0 \in A
    <3>1. KeptUpto(into, 0) = {} /\ 0 \in 0 .. N
      BY <1>1 DEF KeptUpto
    <3>2. g[0].len = Cardinality(KeptUpto(into, 0)) /\ g[0].array = bare
      <4>1. Cardinality(KeptUpto(into, 0)) = 0
        BY <3>1, FS_EmptySet
      <4>2. start.array = bare /\ start.len = 0
        BY DEF start
      <4> QED BY <2>6, <4>1, <4>2
    <3>3. IsPlaced(g[0].array, KeptUpto(into, 0), bare) /\ IsGathered(g[0].array, KeptUpto(into, 0), bare, into, 0)
      BY <3>1 DEF IsPlaced, IsGathered
    <3>4. AliasInv(g[0], N, bare, into, 0) /\ AliasSum(g[0], N, bare, into, 0)
      BY <3>2, <3>3 DEF AliasInv, AliasSum
    <3> QED BY <3>1, <3>4
  <2>8. ASSUME NEW n \in 0 .. N, n \in A, n < N PROVE n + 1 \in A
    <3>1. n + 1 \in 1 .. N /\ n + 1 \in 0 .. N /\ (n + 1) - 1 = n
      BY <1>1, <2>8
    <3>2. g[n + 1] = FoldAlias(g[n], targets[n + 1]) /\ g[n] \in S
      <4>1. g[n + 1] = FoldAlias(g[(n + 1) - 1], targets[n + 1])
        BY <2>6, <3>1, Zenon
      <4> QED BY <2>6, <3>1, <4>1
    <3> DEFINE a == targets[n + 1]
               s == g[n]
    <3>3. a.at = n + 1 /\ a.into = into[n + 1]
      BY <1>2, <1>6, <3>1 DEF targets
    <3>4. s \in [array : [1 .. N -> Bares(names, addrs)], len : Nat] /\ AliasInv(s, N, bare, into, n)
          /\ (AliasesInOrder(N, into) => AliasSum(s, N, bare, into, n))
      BY <2>8, <3>2 DEF S, I
    <3>5. bare \in [1 .. N -> Bares(names, addrs)] /\ n < N
      BY <1>1, <2>8 DEF I
    <3> HIDE DEF a, s
    <3>6. AliasInv(FoldAlias(s, a), N, bare, into, n + 1)
      BY <1>2, <3>3, <3>4, <3>5, AliasesPlace
    <3>7. AliasesInOrder(N, into) => AliasSum(FoldAlias(s, a), N, bare, into, n + 1)
      BY <1>2, <3>3, <3>4, <3>5, AliasesGather
    <3> QED BY <3>1, <3>2, <3>6, <3>7 DEF a, s
  <2>9. N \in A
    <3> HIDE DEF A
    <3>1. N \in 0 .. N
      BY <1>1
    <3> QED BY <1>1, <2>7, <2>8, <3>1, Induction
  <2>10. AliasInv(end, N, bare, into, N) /\ (AliasesInOrder(N, into) => AliasSum(end, N, bare, into, N)) /\ end \in S
    BY <1>1, <2>6, <2>9
  <2>11. end.len = Cardinality(at) /\ IsPlaced(end.array, at, bare) /\ (AliasesInOrder(N, into) => IsGathered(end.array, at, bare, into, N)) /\ end.array \in [1 .. N -> I] /\ end.len \in Nat
    BY <1>3, <2>10 DEF AliasInv, AliasSum, S
  <2>12. Cardinality(at) \in 0 .. N /\ \A k \in at : Rank(at, k) \in 1 .. Cardinality(at)
    <3>1. N \in 0 .. N
      BY <1>1
    <3> QED BY <1>2, <1>3, <3>1, KeptPlaces
  <2> DEFINE c == Cardinality(at)
  <2>13. DOMAIN ifs = 1 .. c /\ \A k \in 1 .. c : ifs[k] = end.array[k] /\ ifs[k] \in I
    <3>1. c \in 0 .. N /\ end.len = c
      BY <2>11, <2>12
    <3> HIDE DEF c
    <3>2. \A k \in 1 .. c : end.array[k] \in I
      BY <1>1, <2>11, <3>1
    <3>3. /\ SubSeq(end.array, 1, c) \in Seq(I) /\ Len(SubSeq(end.array, 1, c)) = IF 1 <= c THEN c - 1 + 1 ELSE 0
          /\ \A k \in 1 .. c - 1 + 1 : SubSeq(end.array, 1, c)[k] = end.array[1 + k - 1]
      BY <1>1, <3>1, <3>2, SubSeqProperties
    <3>4. ifs \in Seq(I) /\ Len(ifs) = c /\ \A k \in 1 .. c : ifs[k] = end.array[k]
      BY <2>4, <3>1, <3>3
    <3> QED BY <3>2, <3>4, LenProperties
  <2>14. IsPlaced(ifs, at, bare) /\ (AliasesInOrder(N, into) => IsGathered(ifs, at, bare, into, N))
    BY <2>11, <2>12, <2>13 DEF IsPlaced, IsGathered
  <2>15. \A k \in DOMAIN ifs : IsBare(ifs[k])
    BY <1>4, <2>13
  <2> QED BY <2>13, <2>14, <2>15 DEF IsMerged, ifs, at, bare, into, N
<1> QED BY <1>5, <1>6

----------------------------------------------------------------------------
\* Routes.

\* The places of a sequence behind another one.
Shifted(n, bt) == {n + i : i \in bt}

\* Places up to a number.
ArePlaces(at, n) == n \in Nat /\ at \in SUBSET (1 .. n)

\* Places behind others are counted on.
CountsOn(all, n, m, at, bt) ==
    /\ all \in SUBSET (1 .. (n + m)) /\ Cardinality(all) = Cardinality(at) + Cardinality(bt)
    /\ \A k \in at : Rank(all, k) = Rank(at, k)
    /\ \A i \in bt : Rank(all, n + i) = Cardinality(at) + Rank(bt, i)

\* The ranks of places go on in those of a sequence that is put behind.
LEMMA RanksGoOn ==
  ASSUME NEW n, NEW m, NEW at, NEW bt, ArePlaces(at, n), ArePlaces(bt, m)
  PROVE  CountsOn(at \cup Shifted(n, bt), n, m, at, bt)
<1> DEFINE all == at \cup Shifted(n, bt)
<1>0. n \in Nat /\ m \in Nat /\ at \in SUBSET (1 .. n) /\ bt \in SUBSET (1 .. m)
  BY DEF ArePlaces
<1> USE <1>0
<1>1. ASSUME NEW part \in SUBSET bt
      PROVE IsFiniteSet(Shifted(n, part)) /\ Cardinality(Shifted(n, part)) = Cardinality(part)
            /\ Cardinality(at \cup Shifted(n, part)) = Cardinality(at) + Cardinality(part)
  <2> DEFINE f == [i \in part |-> n + i]
             image == Shifted(n, part)
  <2>1. IsFiniteSet(part) /\ Cardinality(part) \in Nat
    <3>1. part \in SUBSET (1 .. m)
      OBVIOUS
    <3> QED BY <3>1, RanksCount
  <2>2. \A i \in part : i \in Nat /\ i > 0
    OBVIOUS
  <2>3. f \in [part -> image] /\ (\A i, j \in part : f[i] = f[j] => i = j) /\ \A y \in image : \E i \in part : f[i] = y
    BY <2>2 DEF Shifted
  <2>4. at \cap image = {}
    BY <2>2 DEF Shifted
  <2> HIDE DEF f, image
  <2>5. f \in Bijection(part, image)
    BY <2>3 DEF Bijection, Injection, Surjection, IsInjective
  <2>6. IsFiniteSet(image) /\ Cardinality(image) = Cardinality(part)
    BY <2>1, <2>5, FS_Bijection DEF ExistsBijection
  <2>7. IsFiniteSet(at) /\ Cardinality(at) \in Nat
    BY RanksCount
  <2>8. Cardinality(at \cup image) = Cardinality(at) + Cardinality(image) - Cardinality(at \cap image)
    BY <2>6, <2>7, FS_Union
  <2>9. Cardinality(at \cap image) = 0
    BY <2>4, FS_EmptySet
  <2>10. Cardinality(at \cup image) = Cardinality(at) + Cardinality(part)
    BY <2>1, <2>6, <2>7, <2>8, <2>9
  <2> QED BY <2>6, <2>10 DEF image
<1>2. all \in SUBSET (1 .. (n + m))
  <2>1. \A k \in at : k \in 1 .. (n + m)
    OBVIOUS
  <2>2. \A i \in bt : n + i \in 1 .. (n + m)
    OBVIOUS
  <2> QED BY <2>1, <2>2 DEF Shifted
<1>3. Cardinality(all) = Cardinality(at) + Cardinality(bt)
  <2>1. bt \in SUBSET bt
    OBVIOUS
  <2> QED BY <1>1, <2>1
<1>4. ASSUME NEW k \in at PROVE Rank(all, k) = Rank(at, k)
  <2>1. \A i \in bt : ~ (n + i <= k)
    OBVIOUS
  <2>2. {j \in all : j <= k} = {j \in at : j <= k}
    BY <2>1 DEF Shifted
  <2> QED BY <2>2 DEF Rank
<1>5. ASSUME NEW i \in bt PROVE Rank(all, n + i) = Cardinality(at) + Rank(bt, i)
  <2> DEFINE part == {j \in bt : j <= i}
  <2>1. \A k \in at : k <= n + i
    OBVIOUS
  <2>2. \A j \in bt : n + j <= n + i <=> j <= i
    OBVIOUS
  <2>3. {j \in all : j <= n + i} = at \cup Shifted(n, part)
    BY <2>1, <2>2 DEF Shifted
  <2>4. part \in SUBSET bt
    OBVIOUS
  <2> HIDE DEF part, all
  <2>5. Cardinality(at \cup Shifted(n, part)) = Cardinality(at) + Cardinality(part)
    BY <1>1, <2>4
  <2> QED BY <2>3, <2>5 DEF Rank, part
<1> QED BY <1>2, <1>3, <1>4, <1>5 DEF CountsOn

\* What is kept of two sequences one after the other is kept of each.
LEMMA KeptOfBoth ==
  ASSUME NEW F, NEW s, NEW t, NEW n, NEW m, NEW at, NEW bt, s \in Seq(F), t \in Seq(F), Len(s) = n, Len(t) = m,
         ArePlaces(at, n), ArePlaces(bt, m)
  PROVE  Kept(s \o t, at \cup Shifted(n, bt)) = Kept(s, at) \o Kept(t, bt)
<1> DEFINE all == at \cup Shifted(n, bt)
           both == s \o t
           a == Kept(s, at)
           b == Kept(t, bt)
           c == Cardinality(at)
           d == Cardinality(bt)
           ab == a \o b
           kept == Kept(both, all)
<1>1. n \in Nat /\ m \in Nat /\ DOMAIN s = 1 .. n /\ DOMAIN t = 1 .. m
  BY LenProperties
<1>2. both \in Seq(F) /\ Len(both) = n + m /\ \A i \in 1 .. n + m : both[i] = IF i <= n THEN s[i] ELSE t[i - n]
  BY ConcatProperties
<1>3. DOMAIN both = 1 .. (n + m)
  BY <1>2, LenProperties
<1>4. at \in SUBSET (1 .. n) /\ bt \in SUBSET (1 .. m)
  BY DEF ArePlaces
<1>5. /\ all \in SUBSET (1 .. (n + m)) /\ Cardinality(all) = c + d
      /\ (\A k \in at : Rank(all, k) = Rank(at, k)) /\ \A i \in bt : Rank(all, n + i) = c + Rank(bt, i)
  <2>1. CountsOn(all, n, m, at, bt)
    BY RanksGoOn
  <2> HIDE DEF all
  <2> QED BY <2>1 DEF CountsOn
<1>6. /\ c \in Nat /\ \A i \in at : Rank(at, i) \in 1 .. c /\ a[Rank(at, i)] = s[i]
      /\ a \in Seq(F) /\ Len(a) = c
  <2>1. \A i \in at : s[i] \in F
    BY <1>1, <1>4
  <2> QED BY <1>1, <1>4, <2>1, KeptHolds
<1>7. /\ d \in Nat /\ \A i \in bt : Rank(bt, i) \in 1 .. d /\ b[Rank(bt, i)] = t[i]
      /\ b \in Seq(F) /\ Len(b) = d
  <2>1. \A i \in bt : t[i] \in F
    BY <1>1, <1>4
  <2> QED BY <1>1, <1>4, <2>1, KeptHolds
<1>a. \A k \in all : k \in at \/ \E i \in bt : k = n + i
  BY DEF Shifted
<1> HIDE DEF both, all, a, b
<1>8. /\ Cardinality(all) \in Nat /\ DOMAIN kept = 1 .. Cardinality(all)
      /\ \A r \in 1 .. Cardinality(all) : \E i \in all : Rank(all, i) = r /\ kept[r] = both[i]
      /\ kept \in Seq(F) /\ Len(kept) = Cardinality(all)
  <2>1. \A i \in all : both[i] \in F
    BY <1>2, <1>3, <1>5
  <2>2. n + m \in Nat
    BY <1>1
  <2> QED BY <1>3, <1>5, <2>1, <2>2, KeptHolds
<1> HIDE DEF c, d
<1>9. ab \in Seq(F) /\ Len(ab) = c + d /\ \A r \in 1 .. c + d : ab[r] = IF r <= c THEN a[r] ELSE b[r - c]
  <2>1. /\ a \o b \in Seq(F) /\ Len(a \o b) = Len(a) + Len(b)
        /\ \A r \in 1 .. Len(a) + Len(b) : (a \o b)[r] = IF r <= Len(a) THEN a[r] ELSE b[r - Len(a)]
    BY <1>6, <1>7, ConcatProperties
  <2> QED BY <1>6, <1>7, <2>1
<1> HIDE DEF kept, ab
<1>10. ASSUME NEW r \in 1 .. c + d PROVE kept[r] = ab[r]
  <2>1. PICK k \in all : Rank(all, k) = r /\ kept[r] = both[k]
    BY <1>5, <1>8
  <2>2. CASE k \in at
    <3>1. r = Rank(at, k) /\ r \in 1 .. c /\ a[r] = s[k]
      BY <1>5, <1>6, <2>1, <2>2
    <3>2. both[k] = s[k]
      <4>1. k \in 1 .. n + m /\ k <= n
        BY <1>1, <1>4, <2>2
      <4> QED BY <1>2, <4>1
    <3>3. ab[r] = a[r]
      BY <1>6, <1>9, <3>1
    <3> QED BY <2>1, <3>1, <3>2, <3>3
  <2>3. ASSUME NEW i \in bt, k = n + i PROVE kept[r] = ab[r]
    <3>1. r = c + Rank(bt, i) /\ Rank(bt, i) \in 1 .. d /\ b[Rank(bt, i)] = t[i]
      BY <1>5, <1>7, <2>1, <2>3
    <3>2. both[k] = t[i]
      <4>1. i \in 1 .. m
        BY <1>4
      <4>2. k \in 1 .. n + m /\ ~ (k <= n) /\ k - n = i
        BY <1>1, <2>3, <4>1
      <4> QED BY <1>2, <4>2
    <3>3. ~ (r <= c) /\ r - c = Rank(bt, i)
      BY <1>6, <3>1
    <3>4. ab[r] = b[Rank(bt, i)]
      BY <1>9, <3>3
    <3> QED BY <2>1, <3>1, <3>2, <3>4
  <2> QED BY <1>a, <2>1, <2>2, <2>3
<1>11. kept = ab
  BY <1>5, <1>8, <1>9, <1>10, SeqEqual
<1> QED BY <1>11 DEF kept, ab, both, all, a, b

\* The fragments of a route: what starts it, and its hops.
IsRoute(F, b) == b \in Seq(F) /\ \A m \in 1 .. Len(b) : b[m].hop <=> m > 1

\* The routes that are said in fragments.
SaidAt(frags) == {k \in 1 .. Len(frags) : frags[k].hop \/ k = Len(frags) \/ ~ frags[k + 1].hop}

\* The fragments of one more route say what that says.
LEMMA FragmentsGrow ==
  ASSUME NEW F, NEW s \in Seq(F), NEW b, IsRoute(F, b)
  PROVE  /\ RouteFragments(s \o b) = RouteFragments(s) \o RouteFragments(b)
         /\ RouteFragments(s) = Kept(s, SaidAt(s)) /\ RouteFragments(b) = Kept(b, SaidAt(b))
<1> DEFINE n == Len(s)
           m == Len(b)
           both == s \o b
<1>1. b \in Seq(F) /\ \A i \in 1 .. m : b[i].hop <=> i > 1
  BY DEF IsRoute
<1>2. n \in Nat /\ m \in Nat /\ DOMAIN s = 1 .. n /\ DOMAIN b = 1 .. m
  BY <1>1, LenProperties
<1>3. both \in Seq(F) /\ Len(both) = n + m /\ \A i \in 1 .. n + m : both[i] = IF i <= n THEN s[i] ELSE b[i - n]
  BY <1>1, ConcatProperties
<1>4. DOMAIN both = 1 .. (n + m)
  BY <1>3, LenProperties
<1>5. RouteFragments(s) = Kept(s, SaidAt(s)) /\ RouteFragments(b) = Kept(b, SaidAt(b)) /\ RouteFragments(both) = Kept(both, SaidAt(both))
  BY <1>2, <1>3, <1>4 DEF RouteFragments, SaidAt
<1>s. /\ SaidAt(s) = {k \in 1 .. n : s[k].hop \/ k = n \/ ~ s[k + 1].hop}
      /\ SaidAt(b) = {k \in 1 .. m : b[k].hop \/ k = m \/ ~ b[k + 1].hop}
      /\ SaidAt(both) = {k \in 1 .. (n + m) : both[k].hop \/ k = n + m \/ ~ both[k + 1].hop}
  BY <1>3 DEF SaidAt
<1> HIDE DEF n, m, both
<1>6. ASSUME NEW k \in 1 .. n PROVE k \in SaidAt(both) <=> k \in SaidAt(s)
  <2>1. k \in 1 .. (n + m) /\ k \in 1 .. n + m /\ k <= n /\ both[k] = s[k]
    BY <1>2, <1>3
  <2>2. CASE k < n
    <3>1. k + 1 \in 1 .. n + m /\ k + 1 <= n /\ k # n /\ k # n + m
      BY <1>2, <2>2
    <3>2. both[k + 1] = s[k + 1]
      BY <1>3, <3>1
    <3> QED BY <1>s, <2>1, <3>1, <3>2
  <2>3. CASE k = n
    <3>1. CASE m = 0
      BY <1>2, <1>s, <2>1, <2>3, <3>1
    <3>2. CASE m # 0
      <4>1. k + 1 \in 1 .. n + m /\ ~ (k + 1 <= n) /\ (k + 1) - n = 1 /\ 1 \in 1 .. m
        BY <1>2, <2>3, <3>2
      <4>2. both[k + 1] = b[1] /\ ~ b[1].hop
        BY <1>1, <1>3, <4>1
      <4> QED BY <1>s, <2>1, <2>3, <4>2
    <3> QED BY <3>1, <3>2
  <2> QED BY <1>2, <2>2, <2>3
<1>7. ASSUME NEW i \in 1 .. m PROVE n + i \in SaidAt(both) <=> i \in SaidAt(b)
  <2>1. n + i \in 1 .. n + m /\ ~ (n + i <= n) /\ (n + i) - n = i
    BY <1>2
  <2>2. both[n + i] = b[i]
    BY <1>3, <2>1
  <2>3. n + i = n + m <=> i = m
    BY <1>2
  <2>4. CASE i = m
    BY <1>s, <2>1, <2>3, <2>4
  <2>5. CASE i # m
    <3>1. (n + i) + 1 \in 1 .. n + m /\ ~ ((n + i) + 1 <= n) /\ ((n + i) + 1) - n = i + 1
      BY <1>2, <2>5
    <3>2. both[(n + i) + 1] = b[i + 1]
      BY <1>3, <3>1
    <3> QED BY <1>s, <2>1, <2>2, <2>3, <2>5, <3>2
  <2> QED BY <2>4, <2>5
<1>8. SaidAt(both) = SaidAt(s) \cup Shifted(n, SaidAt(b))
  <2>1. \A k \in SaidAt(s) : k \in 1 .. n
    BY <1>s
  <2>2. \A i \in SaidAt(b) : i \in 1 .. m
    BY <1>s
  <2>3. ASSUME NEW k \in SaidAt(both) PROVE k \in SaidAt(s) \/ \E i \in SaidAt(b) : k = n + i
    <3>1. CASE k \in 1 .. n
      BY <1>6, <3>1
    <3>2. CASE k \notin 1 .. n
      <4>1. k \in 1 .. (n + m)
        BY <1>s
      <4>2. k - n \in 1 .. m /\ k = n + (k - n)
        BY <1>2, <3>2, <4>1
      <4> QED BY <1>7, <4>2
    <3> QED BY <3>1, <3>2
  <2>4. \A k \in SaidAt(s) : k \in SaidAt(both)
    BY <1>6, <2>1
  <2>5. \A i \in SaidAt(b) : n + i \in SaidAt(both)
    BY <1>7, <2>2
  <2> QED BY <2>3, <2>4, <2>5 DEF Shifted
<1>9. SaidAt(s) \in SUBSET (1 .. n) /\ SaidAt(b) \in SUBSET (1 .. m)
  BY <1>s
<1>10. Kept(both, SaidAt(s) \cup Shifted(n, SaidAt(b))) = Kept(s, SaidAt(s)) \o Kept(b, SaidAt(b))
  <2>1. Len(s) = n /\ Len(b) = m /\ s \in Seq(F) /\ b \in Seq(F)
    BY <1>1 DEF n, m
  <2>2. ArePlaces(SaidAt(s), n) /\ ArePlaces(SaidAt(b), m)
    BY <1>2, <1>9 DEF ArePlaces
  <2> QED BY <2>1, <2>2, KeptOfBoth DEF both
<1>11. RouteFragments(both) = RouteFragments(s) \o RouteFragments(b)
  BY <1>5, <1>8, <1>10 DEF both
<1> QED BY <1>5, <1>11 DEF both

\* The routes that fragments make.
RoutesFrom(F, family) ==
    [dest : {f.dest : f \in F}, family : {family}, via : {f.via : f \in F}, dev : {f.dev : f \in F},
     src : {f.src : f \in F}, proto : {f.proto : f \in F}]

\* Routes are what is told, one by one.
AreTold(routes, told) == Len(routes) = Len(told) /\ \A k \in 1 .. Len(told) : routes[k].via = told[k].via

\* A route is expanded into the one that it is, or into one for each hop.
AreHops(routes, b) ==
    /\ Len(b) = 0 => routes = <<>>
    /\ Len(b) = 1 => Len(routes) = 1 /\ routes[1].via = b[1].via
    /\ Len(b) > 1 => Len(routes) = Len(b) - 1 /\ \A k \in 1 .. (Len(b) - 1) : routes[k].via = b[k + 1].via

\* A line is expanded into a route of each of its hops, or the one it is.
LEMMA ExpandedAreHops ==
  ASSUME NEW F, NEW family, NEW b, b \in Seq(F)
  PROVE  ExpandRouteLine(b, family) \in Seq(RoutesFrom(F, family)) /\ AreHops(ExpandRouteLine(b, family), b)
<1> DEFINE m == Len(b)
           R == RoutesFrom(F, family)
           out == ExpandRouteLine(b, family)
           first == b[1]
           route == ParseRoute(first, family)
           Hop(f) == [route EXCEPT !.via = f.via, !.dev = f.dev, !.src = f.src]
<1>1. m \in Nat /\ DOMAIN b = 1 .. m /\ \A i \in 1 .. m : b[i] \in F
  BY LenProperties
<1>2. /\ b = <<>> => out = <<>>
      /\ b # <<>> /\ m = 1 => out = <<route>>
      /\ b # <<>> /\ m # 1 => out = [k \in 1 .. (m - 1) |-> Hop(b[k + 1])]
  <2>1. CASE b = <<>>
    BY <2>1 DEF ExpandRouteLine
  <2>2. CASE b # <<>> /\ m = 1
    BY <2>2 DEF ExpandRouteLine
  <2>3. CASE b # <<>> /\ m # 1
    <3> HIDE DEF m
    <3>1. b # <<>> /\ Len(b) # 1
      BY <2>3 DEF m
    <3>2. ExpandRouteLine(b, family) = [k \in 1 .. (Len(b) - 1) |-> Hop(b[k + 1])]
      BY <3>1 DEF ExpandRouteLine
    <3> QED BY <2>3, <3>2 DEF m
  <2> QED BY <2>1, <2>2, <2>3
<1>3. b = <<>> <=> m = 0
  BY <1>1, EmptySeq
<1>4. ASSUME m # 0
      PROVE route \in R /\ route.via = first.via /\ \A k \in 1 .. m : Hop(b[k]) \in R /\ Hop(b[k]).via = b[k].via
  <2>1. first \in F
    BY <1>1, <1>4
  <2>2. route = [dest |-> first.dest, family |-> family, via |-> first.via, dev |-> first.dev, src |-> first.src, proto |-> first.proto]
    BY DEF ParseRoute
  <2> HIDE DEF first
  <2>3. route \in R
    BY <2>1, <2>2 DEF RoutesFrom
  <2>4. ASSUME NEW k \in 1 .. m PROVE Hop(b[k]) \in R /\ Hop(b[k]).via = b[k].via
    <3> DEFINE f == b[k]
    <3>1. f \in F
      BY <1>1
    <3> HIDE DEF f, route
    <3>2. Hop(f) \in R /\ Hop(f).via = f.via
      BY <2>3, <3>1 DEF RoutesFrom
    <3> QED BY <3>2 DEF f
  <2>5. route.via = first.via
    BY <2>2
  <2> HIDE DEF route, Hop, R
  <2> QED BY <2>3, <2>4, <2>5
<1> HIDE DEF m, R, out, route, Hop
<1>5. CASE m = 0
  <2>1. out = <<>> /\ out \in Seq(R)
    BY <1>2, <1>3, <1>5
  <2> QED BY <1>5, <2>1 DEF AreHops, out, R, m
<1>6. CASE m = 1
  <2>1. out = <<route>> /\ route \in R /\ route.via = first.via
    BY <1>2, <1>3, <1>4, <1>6
  <2>2. out \in Seq(R) /\ Len(out) = 1 /\ out[1] = route
    BY <2>1
  <2> QED BY <1>6, <2>1, <2>2 DEF AreHops, out, R, m
<1>7. CASE m > 1
  <2>1. out = [k \in 1 .. (m - 1) |-> Hop(b[k + 1])]
    BY <1>1, <1>2, <1>3, <1>7
  <2>2. \A k \in 1 .. (m - 1) : k + 1 \in 1 .. m
    BY <1>1, <1>7
  <2>3. \A k \in 1 .. (m - 1) : Hop(b[k + 1]) \in R /\ Hop(b[k + 1]).via = b[k + 1].via
    BY <1>1, <1>4, <1>7, <2>2
  <2>4. m - 1 \in Nat /\ out \in [1 .. (m - 1) -> R] /\ DOMAIN out = 1 .. (m - 1)
    BY <1>1, <1>7, <2>1, <2>3
  <2>5. out \in Seq(R) /\ Len(out) = m - 1
    <3>1. out \in Seq(R)
      BY <2>4, SeqDef
    <3> QED BY <2>4, <3>1, LenProperties
  <2>6. \A k \in 1 .. (m - 1) : out[k].via = b[k + 1].via
    BY <2>1, <2>3
  <2> QED BY <1>7, <2>5, <2>6 DEF AreHops, out, R, m
<1> QED BY <1>1, <1>5, <1>6, <1>7

\* That is what its fragments say.
LEMMA ExpandedIsSaid ==
  ASSUME NEW F, NEW family, NEW b, IsRoute(F, b)
  PROVE  RouteFragments(b) \in Seq(F) /\ AreTold(ExpandRouteLine(b, family), RouteFragments(b))
<1> DEFINE m == Len(b)
           out == ExpandRouteLine(b, family)
           said == RouteFragments(b)
           at == SaidAt(b)
<1>1. b \in Seq(F) /\ (\A i \in 1 .. m : b[i].hop <=> i > 1) /\ m \in Nat /\ DOMAIN b = 1 .. m /\ \A i \in 1 .. m : b[i] \in F
  BY LenProperties DEF IsRoute
<1>2. said = Kept(b, at)
  BY <1>1, EmptySeq, FragmentsGrow
<1>3. at = {k \in 1 .. m : b[k].hop \/ k = m \/ ~ b[k + 1].hop}
  BY DEF SaidAt
<1>4. AreHops(out, b)
  BY <1>1, ExpandedAreHops
<1> HIDE DEF m, out, said, at
<1>7. /\ Cardinality(at) \in Nat /\ Len(said) = Cardinality(at) /\ said \in Seq(F)
      /\ \A i \in at : Rank(at, i) \in 1 .. Cardinality(at) /\ said[Rank(at, i)] = b[i]
  <2>1. at \in SUBSET (1 .. m) /\ \A i \in at : b[i] \in F
    BY <1>1, <1>3
  <2> QED BY <1>1, <1>2, <2>1, KeptHolds
<1>8. CASE m = 0
  <2>1. out = <<>> /\ Len(out) = 0
    BY <1>4, <1>8 DEF AreHops, m
  <2>2. at = {}
    BY <1>3, <1>8
  <2>3. Len(said) = 0
    BY <1>7, <2>2, FS_EmptySet
  <2> QED BY <1>7, <2>1, <2>3 DEF AreTold, out, said
<1>9. CASE m = 1
  <2>1. Len(out) = 1 /\ out[1].via = b[1].via
    BY <1>4, <1>9 DEF AreHops, m
  <2>3. at = {1}
    BY <1>3, <1>9
  <2>4. Cardinality(at) = 1
    BY <2>3, FS_Singleton
  <2>5. said[1] = b[1] /\ Len(said) = 1
    <3>1. 1 \in at /\ Rank(at, 1) \in 1 .. 1
      BY <1>7, <2>3, <2>4
    <3> QED BY <1>7, <2>4, <3>1
  <2> QED BY <1>7, <2>1, <2>5 DEF AreTold, out, said
<1>10. CASE m > 1
  <2>1. Len(out) = m - 1 /\ \A k \in 1 .. (m - 1) : out[k].via = b[k + 1].via
    BY <1>4, <1>10 DEF AreHops, m
  <2>6. at = 2 .. m
    <3>1. \A k \in 2 .. m : k \in 1 .. m /\ b[k].hop
      BY <1>1
    <3>2. 1 \in 1 .. m /\ ~ b[1].hop /\ 1 # m /\ 2 \in 1 .. m /\ b[1 + 1].hop
      BY <1>1, <1>10
    <3>3. 1 \notin at
      BY <1>3, <3>2
    <3>4. \A k \in 1 .. m : k = 1 \/ k \in 2 .. m
      BY <1>1
    <3> QED BY <1>3, <3>1, <3>3, <3>4
  <2>7. ASSUME NEW k \in 1 .. m PROVE Cardinality(2 .. k) = k - 1
    <3>1. 2 \in Int /\ k \in Int
      BY <1>1
    <3>2. Cardinality(2 .. k) = IF 2 > k THEN 0 ELSE k - 2 + 1
      BY <3>1, FS_Interval
    <3> QED BY <1>1, <3>2
  <2>8. Len(said) = m - 1
    <3>1. m \in 1 .. m
      BY <1>1, <1>10
    <3> QED BY <1>7, <2>6, <2>7, <3>1
  <2>9. ASSUME NEW k \in 1 .. (m - 1) PROVE said[k] = b[k + 1]
    <3> DEFINE i == k + 1
    <3>1. i \in 2 .. m /\ i \in 1 .. m /\ i - 1 = k
      BY <1>1
    <3>2. {j \in at : j <= i} = 2 .. i
      BY <1>1, <2>6, <3>1
    <3>3. Rank(at, i) = k
      BY <2>7, <3>1, <3>2 DEF Rank
    <3> HIDE DEF i
    <3> QED BY <1>7, <2>6, <3>1, <3>3 DEF i
  <2>10. AreTold(out, said)
    BY <2>1, <2>8, <2>9 DEF AreTold
  <2> QED BY <1>7, <2>10 DEF out, said
<1> QED BY <1>1, <1>8, <1>9, <1>10

\* More routes are what more is told.
LEMMA ToldGoesOn ==
  ASSUME NEW R, NEW F, NEW r1, NEW r2, NEW t1, NEW t2, r1 \in Seq(R), r2 \in Seq(R), t1 \in Seq(F), t2 \in Seq(F),
         AreTold(r1, t1), AreTold(r2, t2)
  PROVE  AreTold(r1 \o r2, t1 \o t2)
<1> DEFINE r == r1 \o r2
           t == t1 \o t2
           n == Len(t1)
           m == Len(t2)
<1>1. n \in Nat /\ m \in Nat /\ Len(r1) = n /\ Len(r2) = m
      /\ (\A k \in 1 .. n : r1[k].via = t1[k].via) /\ \A k \in 1 .. m : r2[k].via = t2[k].via
  BY LenProperties DEF AreTold
<1>2. Len(r) = n + m /\ \A k \in 1 .. n + m : r[k] = IF k <= n THEN r1[k] ELSE r2[k - n]
  <2>1. Len(r) = Len(r1) + Len(r2) /\ \A k \in 1 .. Len(r1) + Len(r2) : r[k] = IF k <= Len(r1) THEN r1[k] ELSE r2[k - Len(r1)]
    BY ConcatProperties
  <2> HIDE DEF r, n, m
  <2> QED BY <1>1, <2>1
<1>3. Len(t) = n + m /\ \A k \in 1 .. n + m : t[k] = IF k <= n THEN t1[k] ELSE t2[k - n]
  BY <1>1, ConcatProperties
<1> HIDE DEF r, t, n, m
<1>4. ASSUME NEW k \in 1 .. n + m PROVE r[k].via = t[k].via
  <2>1. CASE k <= n
    <3>1. k \in 1 .. n
      BY <1>1, <2>1
    <3>2. r[k] = r1[k] /\ t[k] = t1[k]
      BY <1>2, <1>3, <2>1
    <3> QED BY <1>1, <3>1, <3>2
  <2>2. CASE ~ (k <= n)
    <3>1. k - n \in 1 .. m
      BY <1>1, <2>2
    <3>2. r[k] = r2[k - n] /\ t[k] = t2[k - n]
      BY <1>2, <1>3, <2>2
    <3> QED BY <1>1, <3>1, <3>2
  <2> QED BY <2>1, <2>2
<1>5. AreTold(r, t)
  BY <1>2, <1>3, <1>4 DEF AreTold
<1> QED BY <1>5 DEF r, t

\* A line goes on with a route that the lines in front of it have left open.
OpenAt(out, k) == \E j \in 1 .. (k - 1) : out[j].frags # <<>> /\ \A i \in j .. (k - 1) : out[i].cont

\* The lines of ip, as a host has them.
AreRouteLines(F, out, N) ==
    /\ N \in Nat /\ DOMAIN out = 1 .. N
    /\ \A k \in 1 .. N : out[k].frags \in Seq(F) /\ out[k].cont \in BOOLEAN
                         /\ \A m \in 1 .. Len(out[k].frags) : out[k].frags[m].hop <=> m > 1 \/ OpenAt(out, k)

\* A route is open behind a line that goes on with it, or starts it.
LEMMA OpenGoesOn ==
  ASSUME NEW out, NEW n \in Nat
  PROVE  ~ OpenAt(out, 1) /\ (OpenAt(out, n + 2) <=> out[n + 1].cont /\ (out[n + 1].frags # <<>> \/ OpenAt(out, n + 1)))
<1>1. ~ OpenAt(out, 1)
  <2>1. 1 .. (1 - 1) = {}
    OBVIOUS
  <2> QED BY <2>1 DEF OpenAt
<1>2. (n + 2) - 1 = n + 1 /\ (n + 1) - 1 = n
  OBVIOUS
<1>3. OpenAt(out, n + 2) <=> \E j \in 1 .. (n + 1) : out[j].frags # <<>> /\ \A i \in j .. (n + 1) : out[i].cont
  BY <1>2 DEF OpenAt
<1>4. OpenAt(out, n + 1) <=> \E j \in 1 .. n : out[j].frags # <<>> /\ \A i \in j .. n : out[i].cont
  BY <1>2 DEF OpenAt
<1>5. ASSUME OpenAt(out, n + 2) PROVE out[n + 1].cont /\ (out[n + 1].frags # <<>> \/ OpenAt(out, n + 1))
  <2>1. PICK j \in 1 .. (n + 1) : out[j].frags # <<>> /\ \A i \in j .. (n + 1) : out[i].cont
    BY <1>3, <1>5
  <2>2. n + 1 \in j .. (n + 1)
    OBVIOUS
  <2>3. CASE j = n + 1
    BY <2>1, <2>2, <2>3
  <2>4. CASE j # n + 1
    <3>1. j \in 1 .. n /\ \A i \in j .. n : i \in j .. (n + 1)
      BY <2>4
    <3> QED BY <1>4, <2>1, <2>2, <3>1
  <2> QED BY <2>3, <2>4
<1>6. ASSUME out[n + 1].cont, out[n + 1].frags # <<>> PROVE OpenAt(out, n + 2)
  <2>1. n + 1 \in 1 .. (n + 1) /\ \A i \in (n + 1) .. (n + 1) : i = n + 1
    OBVIOUS
  <2> QED BY <1>3, <1>6, <2>1
<1>7. ASSUME out[n + 1].cont, OpenAt(out, n + 1) PROVE OpenAt(out, n + 2)
  <2>1. PICK j \in 1 .. n : out[j].frags # <<>> /\ \A i \in j .. n : out[i].cont
    BY <1>4, <1>7
  <2>2. j \in 1 .. (n + 1) /\ \A i \in j .. (n + 1) : i \in j .. n \/ i = n + 1
    OBVIOUS
  <2>3. \A i \in j .. (n + 1) : out[i].cont
    BY <1>7, <2>1, <2>2
  <2> QED BY <1>3, <2>1, <2>2, <2>3
<1> QED BY <1>1, <1>5, <1>6, <1>7

\* A line goes on with a route, or starts one.
LEMMA RouteGoesOn ==
  ASSUME NEW F, NEW p, NEW b, NEW open, IsRoute(F, p), p # <<>> <=> open, b \in Seq(F),
         \A m \in 1 .. Len(b) : b[m].hop <=> m > 1 \/ open
  PROVE  IsRoute(F, p \o b) /\ (p \o b # <<>> <=> b # <<>> \/ open)
<1> DEFINE c == p \o b
           n == Len(p)
           m == Len(b)
<1>1. p \in Seq(F) /\ (\A i \in 1 .. n : p[i].hop <=> i > 1) /\ n \in Nat /\ m \in Nat
  BY LenProperties DEF IsRoute
<1>2. c \in Seq(F) /\ Len(c) = n + m /\ \A i \in 1 .. n + m : c[i] = IF i <= n THEN p[i] ELSE b[i - n]
  BY <1>1, ConcatProperties
<1>3. (p = <<>> <=> n = 0) /\ (b = <<>> <=> m = 0) /\ (c = <<>> <=> Len(c) = 0)
  BY <1>1, <1>2, EmptySeq
<1>4. \A i \in 1 .. m : b[i].hop <=> i > 1 \/ open
  OBVIOUS
<1>o. p # <<>> <=> open
  OBVIOUS
<1> HIDE DEF c, n, m
<1>5. ASSUME NEW i \in 1 .. n + m PROVE c[i].hop <=> i > 1
  <2>1. CASE i <= n
    <3>1. i \in 1 .. n
      BY <1>1, <2>1
    <3> QED BY <1>1, <1>2, <2>1, <3>1
  <2>2. CASE ~ (i <= n)
    <3>1. i - n \in 1 .. m
      BY <1>1, <2>2
    <3>2. c[i] = b[i - n] /\ (b[i - n].hop <=> i - n > 1 \/ open)
      BY <1>2, <1>4, <2>2, <3>1
    <3>3. CASE n = 0
      <4>1. ~ open /\ i - n = i
        BY <1>1, <1>3, <1>o, <3>3
      <4> QED BY <3>2, <4>1
    <3>4. CASE n # 0
      <4>1. open /\ i > 1
        BY <1>1, <1>3, <1>o, <2>2, <3>4
      <4> QED BY <3>2, <4>1
    <3> QED BY <3>3, <3>4
  <2> QED BY <2>1, <2>2
<1>6. IsRoute(F, c)
  BY <1>2, <1>5 DEF IsRoute
<1>7. c # <<>> <=> b # <<>> \/ open
  BY <1>1, <1>2, <1>3, <1>o
<1> QED BY <1>6, <1>7 DEF c

\* The lines that end a route.
RouteEnds(out) == {k \in DOMAIN out : ~ out[k].cont}

\* Routes are what fragments tell.
Tells(F, routes, frags) == RouteFragments(frags) \in Seq(F) /\ AreTold(routes, RouteFragments(frags))

\* What has been read of the routes after n lines; c is what the lines say up to the
\* last that ends a route, as far as they have been read.
RouteInv(F, s, c, out, end, n) ==
    /\ IsRoute(F, s.pending) /\ (s.pending # <<>> <=> OpenAt(out, n + 1))
    /\ n <= end => \E closed \in Seq(F) : c = closed \o s.pending /\ Tells(F, s.routes, closed)
    /\ n >= end => Tells(F, s.routes, c)

\* What is read of routes has these values.
RouteStates(F, family) == [family : {family}, pending : Seq(F), routes : Seq(RoutesFrom(F, family))]

\* A line that does not end a route, and one that does.
LEMMA LineIsRead ==
  ASSUME NEW s, NEW l
  PROVE  /\ l.cont => ReadRouteLine(s, l) = [s EXCEPT !.pending = s.pending \o l.frags]
         /\ ~ l.cont => ReadRouteLine(s, l) =
                [s EXCEPT !.pending = <<>>, !.routes = @ \o ExpandRouteLine(s.pending \o l.frags, s.family)]
BY Zenon DEF ReadRouteLine

\* What a line makes of what has been read.
LineMoved(F, family, s, l, t) ==
    /\ t \in RouteStates(F, family) /\ s.pending \o l.frags \in Seq(F)
    /\ l.cont => t.pending = s.pending \o l.frags /\ t.routes = s.routes
    /\ ~ l.cont => t.pending = <<>> /\ t.routes = s.routes \o ExpandRouteLine(s.pending \o l.frags, family)

\* A line of ip joins what is pending, or ends it with its routes.
LEMMA LineMoves ==
  ASSUME NEW F, NEW family, NEW s \in RouteStates(F, family), NEW l, l.frags \in Seq(F), l.cont \in BOOLEAN
  PROVE  LineMoved(F, family, s, l, ReadRouteLine(s, l))
<1> DEFINE t == ReadRouteLine(s, l)
           b == s.pending \o l.frags
           R == RoutesFrom(F, family)
           more == ExpandRouteLine(b, family)
           out == s.routes \o more
<1>1. s = [family |-> family, pending |-> s.pending, routes |-> s.routes] /\ s.pending \in Seq(F) /\ s.routes \in Seq(R) /\ s.family = family
  BY DEF RouteStates
<1>2. b \in Seq(F)
  BY <1>1, ConcatProperties
<1>3. more \in Seq(R)
  <2> HIDE DEF b
  <2> QED BY <1>2, ExpandedAreHops
<1>4. out \in Seq(R)
  <2> HIDE DEF R, more
  <2> QED BY <1>1, <1>3, ConcatProperties
<1>5. ExpandRouteLine(b, s.family) = more
  BY <1>1
<1>6. l.cont => t = [s EXCEPT !.pending = b]
  BY LineIsRead
<1>7. ~ l.cont => t = [s EXCEPT !.pending = <<>>, !.routes = @ \o ExpandRouteLine(b, s.family)]
  BY LineIsRead
<1>8. <<>> \in Seq(F)
  OBVIOUS
<1> HIDE DEF t, b, more
<1>9. ~ l.cont => t = [s EXCEPT !.pending = <<>>, !.routes = out]
  <2>1. s.routes \o ExpandRouteLine(b, s.family) = out
    BY <1>5
  <2> HIDE DEF out
  <2> QED BY <1>7, <2>1
<1> HIDE DEF out, R
<1>10. CASE l.cont
  <2>1. t = [family |-> family, pending |-> b, routes |-> s.routes]
    BY <1>1, <1>6, <1>10
  <2>2. t \in RouteStates(F, family)
    BY <1>1, <1>2, <2>1 DEF RouteStates, R
  <2>3. s.pending \o l.frags = b
    BY DEF b
  <2>4. t.pending = b /\ t.routes = s.routes
    BY <2>1
  <2>5. LineMoved(F, family, s, l, t)
    BY Zenon, <1>2, <1>10, <2>2, <2>3, <2>4 DEF LineMoved
  <2> QED BY <2>5 DEF t
<1>11. CASE ~ l.cont
  <2>1. t = [family |-> family, pending |-> <<>>, routes |-> out]
    BY <1>1, <1>9, <1>11
  <2>2. t \in RouteStates(F, family)
    BY <1>4, <1>8, <2>1 DEF RouteStates, R
  <2>3. t.routes = s.routes \o ExpandRouteLine(b, family)
    BY <2>1 DEF out, more
  <2>4. s.pending \o l.frags = b
    BY DEF b
  <2>5. t.pending = <<>>
    BY <2>1
  <2>6. LineMoved(F, family, s, l, t)
    BY Zenon, <1>2, <1>11, <2>2, <2>3, <2>4, <2>5 DEF LineMoved
  <2> QED BY <2>6 DEF t
<1> QED BY <1>10, <1>11

\* The invariant of the routes goes from one line to the next.
LEMMA RoutesGoOn ==
  ASSUME NEW F, NEW family, NEW out, NEW N, AreRouteLines(F, out, N), NEW n \in 0 .. N, n < N,
         NEW s \in RouteStates(F, family), NEW c \in Seq(F), RouteInv(F, s, c, out, LatestIn(RouteEnds(out), N), n)
  PROVE  RouteInv(F, ReadRouteLine(s, out[n + 1]),
                  c \o (IF n + 1 <= LatestIn(RouteEnds(out), N) THEN out[n + 1].frags ELSE <<>>), out, LatestIn(RouteEnds(out), N), n + 1)
<1> DEFINE end == LatestIn(RouteEnds(out), N)
           l == out[n + 1]
           t == ReadRouteLine(s, l)
           b == s.pending \o l.frags
           told == IF n + 1 <= end THEN l.frags ELSE <<>>
           d == c \o told
           p == s.pending
           open == OpenAt(out, n + 1)
<1>1. N \in Nat /\ n \in Nat /\ n + 1 \in 1 .. N /\ DOMAIN out = 1 .. N /\ (n + 1) + 1 = n + 2
  BY DEF AreRouteLines
<1>2. l.frags \in Seq(F) /\ l.cont \in BOOLEAN /\ \A m \in 1 .. Len(l.frags) : l.frags[m].hop <=> m > 1 \/ open
  BY <1>1, Zenon DEF AreRouteLines
<1>3. end \in 0 .. N /\ (end # 0 => end \in RouteEnds(out)) /\ \A j \in 1 .. N : j \in RouteEnds(out) => j <= end
  BY <1>1, LatestMoves
<1>4. /\ IsRoute(F, p) /\ (p # <<>> <=> open)
      /\ n <= end => \E closed \in Seq(F) : c = closed \o p /\ Tells(F, s.routes, closed)
      /\ n >= end => Tells(F, s.routes, c)
  BY DEF RouteInv
<1>5. n + 1 \in RouteEnds(out) <=> ~ l.cont
  BY <1>1 DEF RouteEnds
<1>6. /\ t \in RouteStates(F, family) /\ b \in Seq(F)
      /\ l.cont => t.pending = b /\ t.routes = s.routes
      /\ ~ l.cont => t.pending = <<>> /\ t.routes = s.routes \o ExpandRouteLine(b, family)
  <2>1. LineMoved(F, family, s, l, t)
    <3> HIDE DEF l
    <3> QED BY <1>2, LineMoves
  <2> QED BY <2>1 DEF LineMoved
<1>7. IsRoute(F, b) /\ (b # <<>> <=> l.frags # <<>> \/ open)
  <2>1. l.frags \in Seq(F)
    BY <1>2
  <2> DEFINE fr == l.frags
  <2>2. fr \in Seq(F) /\ \A m \in 1 .. Len(fr) : fr[m].hop <=> m > 1 \/ open
    BY <1>2
  <2> HIDE DEF fr, open, p
  <2>3. IsRoute(F, p \o fr) /\ (p \o fr # <<>> <=> fr # <<>> \/ open)
    BY <1>4, <2>2, RouteGoesOn
  <2> QED BY <2>3 DEF p, fr
<1>8. OpenAt(out, n + 2) <=> l.cont /\ (l.frags # <<>> \/ open)
  BY <1>1, OpenGoesOn
<1>9. p \in Seq(F) /\ s.routes \in Seq(RoutesFrom(F, family))
  BY DEF RouteStates
<1>10. ASSUME NEW closed \in Seq(F), c = closed \o p, n + 1 <= end PROVE d = closed \o b
  <2>1. d = (closed \o p) \o l.frags
    BY <1>10
  <2>2. (closed \o p) \o l.frags = closed \o (p \o l.frags)
    <3> DEFINE fr == l.frags
    <3>1. fr \in Seq(F)
      BY <1>2
    <3> HIDE DEF fr, p
    <3>2. (closed \o p) \o fr = closed \o (p \o fr)
      BY <1>9, <3>1, ConcatAssociative
    <3> QED BY <3>2 DEF fr
  <2> QED BY <2>1, <2>2
<1>11. ~ (n + 1 <= end) => d = c
  <2>1. c \o <<>> = c
    BY ConcatEmptySeq
  <2> QED BY <2>1
<1>t. told = IF n + 1 <= end THEN l.frags ELSE <<>>
  OBVIOUS
<1> HIDE DEF l, t, b, d, p, open, told, end
<1>12. CASE l.cont
  <2>1. t.pending = b /\ t.routes = s.routes
    BY <1>6, <1>12
  <2>2. IsRoute(F, t.pending) /\ (t.pending # <<>> <=> OpenAt(out, n + 2))
    BY <1>7, <1>8, <1>12, <2>1
  <2>3. end # n + 1
    BY <1>1, <1>3, <1>5, <1>12
  <2>4. ASSUME n + 1 <= end PROVE \E closed \in Seq(F) : d = closed \o t.pending /\ Tells(F, t.routes, closed)
    <3>1. n <= end
      BY <1>1, <1>3, <2>4
    <3>2. PICK closed \in Seq(F) : c = closed \o p /\ Tells(F, s.routes, closed)
      BY <1>4, <3>1
    <3>3. d = closed \o b
      BY <1>10, <2>4, <3>2
    <3> QED BY <2>1, <3>2, <3>3
  <2>5. ASSUME n + 1 >= end PROVE Tells(F, t.routes, d)
    <3>1. n >= end /\ ~ (n + 1 <= end)
      BY <1>1, <1>3, <2>3, <2>5
    <3> QED BY <1>4, <1>11, <2>1, <3>1
  <2>6. RouteInv(F, t, d, out, end, n + 1)
    BY <1>1, <2>2, <2>4, <2>5 DEF RouteInv
  <2> QED BY <2>6 DEF t, d, told, end, l
<1>13. CASE ~ l.cont
  <2>1. t.pending = <<>> /\ t.routes = s.routes \o ExpandRouteLine(b, family)
    BY <1>6, <1>13
  <2>2. n + 1 <= end /\ n <= end
    BY <1>1, <1>3, <1>5, <1>13
  <2>3. PICK closed \in Seq(F) : c = closed \o p /\ Tells(F, s.routes, closed)
    BY <1>4, <2>2
  <2>4. d = closed \o b
    BY <1>10, <2>2, <2>3
  <2>5. RouteFragments(closed \o b) = RouteFragments(closed) \o RouteFragments(b)
    BY <1>7, FragmentsGrow
  <2>6. RouteFragments(b) \in Seq(F) /\ AreTold(ExpandRouteLine(b, family), RouteFragments(b))
    BY <1>7, ExpandedIsSaid
  <2>7. RouteFragments(closed) \in Seq(F) /\ AreTold(s.routes, RouteFragments(closed))
    BY <2>3 DEF Tells
  <2>8. ExpandRouteLine(b, family) \in Seq(RoutesFrom(F, family))
    BY <1>6, ExpandedAreHops
  <2> DEFINE r1 == s.routes
             r2 == ExpandRouteLine(b, family)
             t1 == RouteFragments(closed)
             t2 == RouteFragments(b)
             R == RoutesFrom(F, family)
  <2>9. r1 \in Seq(R) /\ r2 \in Seq(R) /\ t1 \in Seq(F) /\ t2 \in Seq(F) /\ AreTold(r1, t1) /\ AreTold(r2, t2)
    BY <1>9, <2>6, <2>7, <2>8
  <2> HIDE DEF r1, r2, t1, t2, R
  <2>10. AreTold(r1 \o r2, t1 \o t2) /\ t1 \o t2 \in Seq(F)
    BY <2>9, ToldGoesOn, ConcatProperties
  <2>11. Tells(F, t.routes, d)
    BY <2>1, <2>4, <2>5, <2>10 DEF Tells, r1, r2, t1, t2
  <2>12. d \in Seq(F)
    BY <1>6, <2>4, ConcatProperties
  <2>13. d = d \o <<>>
    BY <2>12, ConcatEmptySeq
  <2>14. IsRoute(F, <<>>)
    BY DEF IsRoute
  <2>15. RouteInv(F, t, d, out, end, n + 1)
    BY <1>1, <1>8, <1>13, <2>1, <2>11, <2>12, <2>13, <2>14 DEF RouteInv
  <2> QED BY <2>15 DEF t, d, told, end, l
<1> QED BY <1>2, <1>12, <1>13

\* The fragments of a family's lines, and what its complete lines tell.
FragmentsOf(h, family) == UNION {Range(l.frags) : l \in Range(h.routes[family].out)}
ToldOf(h, family) == IF h.routes[family].ok THEN RouteFragments(CompleteLines(h.routes[family].out)) ELSE <<>>

\* The lines that a host answers are lines of routes.
LEMMA HostsRoutesAreLines ==
  ASSUME NEW h, NetworkHostOK(h), NEW family \in {"inet", "inet6"}, h.routes[family].ok
  PROVE  AreRouteLines(FragmentsOf(h, family), h.routes[family].out, Len(h.routes[family].out))
<1> DEFINE out == h.routes[family].out
           F == FragmentsOf(h, family)
           N == Len(out)
<1>1. ListOf(h.routes[family], {"frags", "cont"}) /\ (\A l \in Range(out) : IsSeq(l.frags) /\ l.cont \in BOOLEAN) /\ RouteLinesOK(out)
  BY DEF NetworkHostOK
<1>2. out \in Seq(Range(out))
  BY <1>1 DEF ListOf, IsSeq
<1>3. N \in Nat /\ DOMAIN out = 1 .. N
  BY <1>2, LenProperties
<1>f. F = UNION {Range(l.frags) : l \in Range(out)}
  BY DEF FragmentsOf
<1> HIDE DEF N, out, F
<1>4. ASSUME NEW k \in 1 .. N
      PROVE out[k].frags \in Seq(F) /\ out[k].cont \in BOOLEAN /\ \A m \in 1 .. Len(out[k].frags) : out[k].frags[m].hop <=> m > 1 \/ OpenAt(out, k)
  <2> DEFINE l == out[k]
             fr == l.frags
  <2>1. l \in Range(out)
    BY <1>3 DEF Range
  <2>2. fr \in Seq(Range(fr)) /\ l.cont \in BOOLEAN
    BY <1>1, <2>1 DEF IsSeq
  <2>3. DOMAIN fr = 1 .. Len(fr)
    BY <2>2, LenProperties
  <2>4. \A m \in DOMAIN fr : fr[m].hop <=> m > 1 \/ OpenAt(out, k)
    BY <1>1, <1>3, Zenon DEF RouteLinesOK, OpenAt
  <2>5. Range(fr) \in SUBSET F
    BY <1>f, <2>1
  <2>6. fr \in Seq(F)
    <3> HIDE DEF fr
    <3> QED BY <2>2, <2>5, <2>3
  <2> QED BY <2>2, <2>3, <2>4, <2>6
<1>5. AreRouteLines(F, out, N)
  BY <1>3, <1>4 DEF AreRouteLines
<1> QED BY <1>5 DEF out, F, N

\* Every route that the complete lines of a family tell is read, in order.
LEMMA LinesTellRoutes ==
  ASSUME NEW F, NEW family, NEW out, NEW N, AreRouteLines(F, out, N)
  PROVE  LET start == [family |-> family, pending |-> <<>>, routes |-> <<>>]
         IN /\ FoldLeft(ReadRouteLine, start, out).routes \in Seq(RoutesFrom(F, family))
            /\ Tells(F, FoldLeft(ReadRouteLine, start, out).routes, CompleteLines(out))
<1> DEFINE start == [family |-> family, pending |-> <<>>, routes |-> <<>>]
           S == RouteStates(F, family)
           Q == Seq(F)
           end == LatestIn(RouteEnds(out), N)
           told == [k \in DOMAIN out |-> IF k <= end THEN out[k].frags ELSE <<>>]
           nothing == <<>>
<1>1. N \in Nat /\ DOMAIN out = 1 .. N /\ \A k \in 1 .. N : out[k].frags \in Q /\ out[k].cont \in BOOLEAN
  BY DEF AreRouteLines
<1>2. start \in S /\ nothing \in Q
  BY DEF RouteStates
<1>3. ASSUME NEW s \in S, NEW k \in 1 .. N PROVE ReadRouteLine(s, out[k]) \in S
  <2> DEFINE l == out[k]
  <2>1. l.frags \in Seq(F) /\ l.cont \in BOOLEAN
    BY <1>1
  <2> HIDE DEF l
  <2>2. LineMoved(F, family, s, l, ReadRouteLine(s, l))
    BY <2>1, LineMoves
  <2> QED BY <2>2 DEF LineMoved, l
<1> HIDE DEF S, start, nothing
<1>4. PICK h : RouteTrace(start, out, N, S, h)
  BY <1>1, <1>2, <1>3, RouteFold
<1>5. /\ h \in [0 .. N -> S] /\ h[0] = start /\ FoldLeft(ReadRouteLine, start, out) = h[N]
      /\ \A k \in 1 .. N : h[k] = ReadRouteLine(h[k - 1], out[k])
  BY <1>4, Zenon DEF RouteTrace
<1>6. DOMAIN told = 1 .. N /\ \A k \in 1 .. N : told[k] = IF k <= end THEN out[k].frags ELSE <<>>
  BY <1>1
<1>7. ASSUME NEW s \in Q, NEW k \in 1 .. N PROVE Then(s, told[k]) \in Q
  <2>1. told[k] \in Q
    BY <1>1, <1>2, <1>6 DEF nothing
  <2> HIDE DEF told
  <2> QED BY <2>1, ConcatProperties DEF Then
<1>8. CompleteLines(out) = FoldLeft(Then, nothing, told)
  <2>1. end = Max({0} \cup {k \in DOMAIN out : ~ out[k].cont})
    <3>1. {j \in 1 .. N : j \in RouteEnds(out)} = {k \in DOMAIN out : ~ out[k].cont}
      BY <1>1 DEF RouteEnds
    <3> QED BY <3>1 DEF LatestIn
  <2> QED BY <2>1, Zenon DEF CompleteLines, nothing
<1> HIDE DEF told, Q
<1>9. PICK g : ThenTrace(nothing, told, N, Q, g)
  BY <1>1, <1>2, <1>6, <1>7, ThenFold
<1>10. /\ g \in [0 .. N -> Q] /\ g[0] = nothing /\ FoldLeft(Then, nothing, told) = g[N]
       /\ \A k \in 1 .. N : g[k] = g[k - 1] \o told[k]
  BY <1>9, Zenon DEF ThenTrace, Then
<1> DEFINE A == {n \in 0 .. N : RouteInv(F, h[n], g[n], out, end, n)}
<1>11. 0 \in A
  <2>1. start.pending = nothing /\ start.routes = nothing
    BY DEF start, nothing
  <2>2. IsRoute(F, nothing)
    BY DEF IsRoute, nothing
  <2>3. ~ OpenAt(out, 0 + 1)
    <3>1. 0 + 1 = 1 /\ 0 \in Nat
      OBVIOUS
    <3> QED BY <3>1, OpenGoesOn
  <2>4. Tells(F, nothing, nothing)
    <3>1. RouteFragments(nothing) \in Seq(F) /\ AreTold(ExpandRouteLine(nothing, family), RouteFragments(nothing))
      BY <2>2, ExpandedIsSaid
    <3>2. ExpandRouteLine(nothing, family) = nothing
      <4>1. nothing \in Seq(F)
        BY <1>2 DEF Q
      <4>2. AreHops(ExpandRouteLine(nothing, family), nothing)
        BY <4>1, ExpandedAreHops
      <4>3. Len(nothing) = 0
        BY DEF nothing
      <4>4. Len(nothing) = 0 => ExpandRouteLine(nothing, family) = <<>>
        BY <4>2, Zenon DEF AreHops
      <4> QED BY <4>3, <4>4 DEF nothing
    <3> QED BY <3>1, <3>2 DEF Tells
  <2>5. nothing = nothing \o nothing /\ nothing \in Seq(F)
    BY DEF nothing
  <2>6. nothing = <<>>
    BY DEF nothing
  <2>7. RouteInv(F, start, nothing, out, end, 0)
    <3> HIDE DEF end
    <3> QED BY <2>1, <2>2, <2>3, <2>4, <2>5, <2>6 DEF RouteInv
  <2> QED BY <1>1, <1>5, <1>10, <2>7
<1>12. ASSUME NEW n \in 0 .. N, n \in A, n < N PROVE n + 1 \in A
  <2>1. n + 1 \in 1 .. N /\ n + 1 \in 0 .. N /\ (n + 1) - 1 = n
    BY <1>1, <1>12
  <2>2. h[n + 1] = ReadRouteLine(h[n], out[n + 1]) /\ h[n] \in S
    <3>1. h[n + 1] = ReadRouteLine(h[(n + 1) - 1], out[n + 1])
      BY <1>5, <2>1, Zenon
    <3> QED BY <1>5, <2>1, <3>1
  <2>3. g[n + 1] = g[n] \o (IF n + 1 <= end THEN out[n + 1].frags ELSE <<>>) /\ g[n] \in Q
    <3>1. g[n + 1] = g[(n + 1) - 1] \o told[n + 1]
      BY <1>10, <2>1, Zenon
    <3>2. told[n + 1] = IF n + 1 <= end THEN out[n + 1].frags ELSE <<>>
      BY <1>6, <2>1
    <3>3. g[n] \in Q
      BY <1>10
    <3> QED BY <2>1, <3>1, <3>2, <3>3
  <2>4. RouteInv(F, h[n], g[n], out, end, n)
    BY <1>12
  <2> DEFINE s == h[n]
             c == g[n]
  <2>5. s \in RouteStates(F, family) /\ c \in Seq(F)
    BY <2>2, <2>3 DEF S, Q
  <2> HIDE DEF s, c
  <2>6. RouteInv(F, ReadRouteLine(s, out[n + 1]), c \o (IF n + 1 <= end THEN out[n + 1].frags ELSE <<>>), out, end, n + 1)
    BY <1>12, <2>4, <2>5, RoutesGoOn DEF s, c
  <2> HIDE DEF end
  <2>7. RouteInv(F, h[n + 1], g[n + 1], out, end, n + 1)
    BY <2>2, <2>3, <2>6 DEF s, c
  <2> QED BY <2>1, <2>7
<1>13. N \in A
  <2> HIDE DEF A
  <2>1. N \in 0 .. N
    BY <1>1
  <2> QED BY <1>1, <1>11, <1>12, <2>1, Induction
<1>14. RouteInv(F, h[N], g[N], out, end, N)
  BY <1>13
<1>15. end \in 0 .. N
  BY <1>1, LatestMoves
<1>16. Tells(F, h[N].routes, g[N])
  <2> HIDE DEF end
  <2>1. N >= end
    BY <1>1, <1>15
  <2> QED BY <1>14, <2>1, Zenon DEF RouteInv
<1>17. h[N].routes \in Seq(RoutesFrom(F, family))
  <2>1. h[N] \in S
    BY <1>1, <1>5
  <2> QED BY <2>1 DEF S, RouteStates
<1>18. FoldLeft(ReadRouteLine, start, out).routes = h[N].routes /\ CompleteLines(out) = g[N]
  BY <1>5, <1>8, <1>10
<1> QED BY <1>16, <1>17, <1>18 DEF start

\* The routes of a family are what its complete lines tell.
LEMMA RoutesAreTold ==
  ASSUME NEW h, NetworkHostOK(h), NEW family \in {"inet", "inet6"}
  PROVE  /\ RoutesOf(h, family) \in Seq(RoutesFrom(FragmentsOf(h, family), family))
         /\ ToldOf(h, family) \in Seq(FragmentsOf(h, family)) /\ AreTold(RoutesOf(h, family), ToldOf(h, family))
<1> DEFINE F == FragmentsOf(h, family)
           out == h.routes[family].out
           start == [family |-> family, pending |-> <<>>, routes |-> <<>>]
<1>1. CASE h.routes[family].ok
  <2>1. AreRouteLines(F, out, Len(out))
    BY <1>1, HostsRoutesAreLines
  <2>2. RoutesOf(h, family) = FoldLeft(ReadRouteLine, start, out).routes
    BY <1>1, Zenon DEF RoutesOf
  <2>3. ToldOf(h, family) = RouteFragments(CompleteLines(out))
    BY <1>1, Zenon DEF ToldOf
  <2> HIDE DEF F, out
  <2>4. /\ FoldLeft(ReadRouteLine, start, out).routes \in Seq(RoutesFrom(F, family))
        /\ Tells(F, FoldLeft(ReadRouteLine, start, out).routes, CompleteLines(out))
    BY <2>1, LinesTellRoutes
  <2> HIDE DEF start
  <2> QED BY <2>2, <2>3, <2>4 DEF Tells, F, out
<1>2. CASE ~ h.routes[family].ok
  <2>1. RoutesOf(h, family) = <<>> /\ ToldOf(h, family) = <<>>
    BY <1>2, Zenon DEF RoutesOf, ToldOf
  <2>2. AreTold(<<>>, <<>>)
    BY DEF AreTold
  <2> HIDE DEF F
  <2>3. <<>> \in Seq(F) /\ <<>> \in Seq(RoutesFrom(F, family))
    OBVIOUS
  <2> QED BY <2>1, <2>2, <2>3 DEF F
<1>3. h.routes[family].ok \/ ~ h.routes[family].ok
  OBVIOUS
<1> QED BY <1>1, <1>2, <1>3

\* The default of the first n routes is one of them: the first that names its interface,
\* or if none does, none.
DefaultInv(d, routes, n) ==
    LET defaults == {k \in 1 .. n : routes[k].dest = "default"}
    IN /\ d.dev = None => \A k \in defaults : routes[k].dev = None
       /\ d.dev # None => \E k \in defaults : routes[k].dev = d.dev /\ routes[k].via = d.via
                                              /\ \A j \in defaults : j < k => routes[j].dev = None

\* That goes from one route to the next.
LEMMA DefaultGoesOn ==
  ASSUME NEW d, NEW routes, NEW n \in Nat, DefaultInv(d, routes, n)
  PROVE  DefaultInv(DefaultRoute(d, routes[n + 1]), routes, n + 1)
<1> DEFINE r == routes[n + 1]
           defaults == {k \in 1 .. n : routes[k].dest = "default"}
           more == {k \in 1 .. (n + 1) : routes[k].dest = "default"}
           e == DefaultRoute(d, r)
<1>1. n + 1 \in 1 .. (n + 1) /\ \A k \in 1 .. (n + 1) : k = n + 1 \/ (k \in 1 .. n /\ k < n + 1)
  OBVIOUS
<1>2. more = IF r.dest = "default" THEN defaults \cup {n + 1} ELSE defaults
  BY <1>1
<1>3. /\ d.dev = None => \A k \in defaults : routes[k].dev = None
      /\ d.dev # None => \E k \in defaults : routes[k].dev = d.dev /\ routes[k].via = d.via
                                             /\ \A j \in defaults : j < k => routes[j].dev = None
  BY Zenon DEF DefaultInv
<1>4. \A k \in defaults : k < n + 1 /\ ~ (n + 1 < k)
  OBVIOUS
<1>5. e = IF r.dest = "default" /\ d.dev = None THEN [dev |-> r.dev, via |-> r.via] ELSE d
  BY DEF DefaultRoute, IsDefaultDestination
<1>6. n + 1 \notin defaults
  OBVIOUS
<1> HIDE DEF defaults, more, r, e
<1>7. CASE r.dest = "default" /\ d.dev = None
  <2>1. e.dev = r.dev /\ e.via = r.via
    BY <1>5, <1>7
  <2>2. more = defaults \cup {n + 1} /\ \A k \in defaults : routes[k].dev = None
    BY <1>2, <1>3, <1>7
  <2>3. CASE r.dev = None
    BY <2>1, <2>2, <2>3, Zenon DEF DefaultInv, more, r, e
  <2>4. CASE r.dev # None
    <3>1. n + 1 \in more /\ routes[n + 1].dev = e.dev /\ routes[n + 1].via = e.via
      BY <2>1, <2>2 DEF r
    <3>2. \A j \in more : j < n + 1 => routes[j].dev = None
      <4>1. ~ (n + 1 < n + 1)
        OBVIOUS
      <4> QED BY <2>2, <4>1
    <3>3. e.dev # None
      BY <2>1, <2>4
    <3> QED BY <3>1, <3>2, <3>3, Zenon DEF DefaultInv, more, r, e
  <2> QED BY <2>3, <2>4
<1>8. CASE ~ (r.dest = "default" /\ d.dev = None)
  <2>1. e = d
    BY <1>5, <1>8
  <2>2. CASE d.dev = None
    <3>1. more = defaults
      BY <1>2, <1>8, <2>2
    <3>2. \A k \in more : routes[k].dev = None
      BY <1>3, <2>2, <3>1
    <3> QED BY <2>1, <2>2, <3>2, Zenon DEF DefaultInv, more, r, e
  <2>3. CASE d.dev # None
    <3>1. PICK k \in defaults : routes[k].dev = d.dev /\ routes[k].via = d.via /\ \A j \in defaults : j < k => routes[j].dev = None
      BY <1>3, <2>3
    <3>2. k \in more /\ \A j \in more : j \in defaults \/ j = n + 1
      BY <1>2
    <3>3. \A j \in more : j < k => routes[j].dev = None
      BY <1>4, <3>1, <3>2
    <3> QED BY <2>1, <2>3, <3>1, <3>2, <3>3, Zenon DEF DefaultInv, more, r, e
  <2> QED BY <2>2, <2>3
<1> QED BY <1>7, <1>8

\* The default of a list of routes is one of them.
LEMMA DefaultIsFirst ==
  ASSUME NEW routes, NEW N \in Nat, DOMAIN routes = 1 .. N
  PROVE  DefaultInv(Default(routes), routes, N)
<1> DEFINE start == [dev |-> None, via |-> None]
           devs == {None} \cup {routes[k].dev : k \in 1 .. N}
           vias == {None} \cup {routes[k].via : k \in 1 .. N}
           S == [dev : devs, via : vias]
<1>1. start \in S
  OBVIOUS
<1>2. ASSUME NEW d \in S, NEW k \in 1 .. N PROVE DefaultRoute(d, routes[k]) \in S
  <2>1. routes[k].dev \in devs /\ routes[k].via \in vias
    OBVIOUS
  <2> HIDE DEF devs, vias
  <2> QED BY <2>1 DEF DefaultRoute
<1>s. start.dev = None
  OBVIOUS
<1> HIDE DEF S, start
<1>3. PICK h : DefaultTrace(start, routes, N, S, h)
  BY <1>1, <1>2, DefaultFold
<1>4. /\ h \in [0 .. N -> S] /\ h[0] = start /\ Default(routes) = h[N]
      /\ \A k \in 1 .. N : h[k] = DefaultRoute(h[k - 1], routes[k])
  BY <1>3, Zenon DEF DefaultTrace, Default, start
<1> DEFINE A == {n \in 0 .. N : DefaultInv(h[n], routes, n)}
<1>5. 0 \in A
  <2>1. {k \in 1 .. 0 : routes[k].dest = "default"} = {} /\ 0 \in 0 .. N
    OBVIOUS
  <2>2. DefaultInv(start, routes, 0)
    BY <1>s, <2>1 DEF DefaultInv
  <2> QED BY <1>4, <2>1, <2>2
<1>6. ASSUME NEW n \in 0 .. N, n \in A, n < N PROVE n + 1 \in A
  <2>1. n + 1 \in 1 .. N /\ n + 1 \in 0 .. N /\ (n + 1) - 1 = n /\ n \in Nat
    BY <1>6
  <2>2. h[n + 1] = DefaultRoute(h[n], routes[n + 1])
    BY <1>4, <2>1
  <2>3. DefaultInv(h[n], routes, n)
    BY <1>6
  <2>4. DefaultInv(DefaultRoute(h[n], routes[n + 1]), routes, n + 1)
    BY <2>1, <2>3, DefaultGoesOn
  <2> QED BY <2>1, <2>2, <2>4
<1>7. N \in A
  <2> HIDE DEF A
  <2>1. N \in 0 .. N
    OBVIOUS
  <2> QED BY <1>5, <1>6, <2>1, Induction
<1> QED BY <1>4, <1>7

\* The routes of both families, and with their interfaces resolved.
BothRoutes(h) == RoutesOf(h, "inet") \o RoutesOf(h, "inet6")
AllRoutes(h) == ResolveBySource(BothRoutes(h), MergedInterfaces(h))

\* Routes with nothing changed but the interface of those that name none and have a source.
IsResolved(routes, all) ==
    /\ Len(all) = Len(routes) /\ DOMAIN all = 1 .. Len(routes) /\ all \in Seq(Range(all))
    /\ \A k \in 1 .. Len(routes) :
          /\ all[k].dest = routes[k].dest /\ all[k].family = routes[k].family
          /\ all[k].via = routes[k].via /\ all[k].src = routes[k].src
          /\ routes[k].dev # None \/ routes[k].src = None => all[k].dev = routes[k].dev

AreRoutes(R) ==
    R \in SUBSET [dest : {r.dest : r \in R}, family : {r.family : r \in R}, via : {r.via : r \in R}, dev : {r.dev : r \in R},
                  src : {r.src : r \in R}, proto : {r.proto : r \in R}]

\* Looking up the interface by the source address changes that of the routes without one only.
LEMMA SourcesResolve ==
  ASSUME NEW R, AreRoutes(R), NEW routes \in Seq(R), NEW ifs
  PROVE  IsResolved(routes, ResolveBySource(routes, ifs))
<1> DEFINE Owners(a) == {k \in DOMAIN ifs : a \in Range(ifs[k].addrs)}
           Own(r) == ifs[Max(Owners(r.src))].name
           Resolve(r) == IF r.dev = None /\ r.src # None /\ Owners(r.src) # {} THEN [r EXCEPT !.dev = Own(r)] ELSE r
           all == ResolveBySource(routes, ifs)
           N == Len(routes)
<1>1. N \in Nat /\ DOMAIN routes = 1 .. N /\ \A k \in 1 .. N : routes[k] \in R
  BY LenProperties
<1>2. all = [k \in DOMAIN routes |-> Resolve(routes[k])]
  BY Zenon DEF ResolveBySource
<1> HIDE DEF all, N
<1>3. ASSUME NEW r \in R
      PROVE /\ Resolve(r).dest = r.dest /\ Resolve(r).family = r.family /\ Resolve(r).via = r.via /\ Resolve(r).src = r.src
            /\ r.dev # None \/ r.src = None => Resolve(r).dev = r.dev
  <2>1. \A v : /\ [r EXCEPT !.dev = v].dest = r.dest /\ [r EXCEPT !.dev = v].family = r.family
               /\ [r EXCEPT !.dev = v].via = r.via /\ [r EXCEPT !.dev = v].src = r.src
    BY DEF AreRoutes
  <2> HIDE DEF Own, Owners
  <2> QED BY <2>1
<1> HIDE DEF Resolve
<1>4. DOMAIN all = 1 .. N /\ \A k \in 1 .. N : all[k] = Resolve(routes[k])
  BY <1>1, <1>2
<1>5. all \in Seq(Range(all)) /\ Len(all) = N
  <2>1. all \in [1 .. N -> Range(all)]
    BY <1>2, <1>4 DEF Range
  <2>2. all \in Seq(Range(all))
    BY <1>1, <2>1, SeqDef
  <2> QED BY <1>1, <1>4, <2>2, LenProperties
<1>6. \A k \in 1 .. N : routes[k] \in R
  BY <1>1
<1>7. IsResolved(routes, all)
  BY <1>3, <1>4, <1>5, <1>6 DEF IsResolved, N
<1> QED BY <1>7 DEF all

\* The routes of both families one after the other.
AreOfFamilies(routes, v4, v6) ==
    /\ Len(v4) \in Nat /\ Len(v6) \in Nat /\ Len(routes) = Len(v4) + Len(v6)
    /\ \A k \in 1 .. Len(v4) : routes[k] = v4[k] /\ v4[k].family = "inet"
    /\ \A k \in 1 .. Len(v6) : routes[Len(v4) + k] = v6[k] /\ v6[k].family = "inet6"

\* The routes of a host are those of IPv4 and then those of IPv6, with interfaces looked up.
LEMMA FamiliesFollow ==
  ASSUME NEW h, NetworkHostOK(h)
  PROVE  AreOfFamilies(BothRoutes(h), RoutesOf(h, "inet"), RoutesOf(h, "inet6")) /\ IsResolved(BothRoutes(h), AllRoutes(h))
<1> DEFINE v4 == RoutesOf(h, "inet")
           v6 == RoutesOf(h, "inet6")
           F4 == FragmentsOf(h, "inet")
           F6 == FragmentsOf(h, "inet6")
           R4 == RoutesFrom(F4, "inet")
           R6 == RoutesFrom(F6, "inet6")
           R == R4 \cup R6
           both == BothRoutes(h)
<1>1. v4 \in Seq(R4) /\ v6 \in Seq(R6)
  BY RoutesAreTold
<1>2. /\ \A r \in R4 : r.family = "inet"
      /\ \A r \in R6 : r.family = "inet6"
  BY DEF RoutesFrom
<1>3. AreRoutes(R)
  <2>1. ASSUME NEW r \in R
        PROVE r = [dest |-> r.dest, family |-> r.family, via |-> r.via, dev |-> r.dev, src |-> r.src, proto |-> r.proto]
    <3> HIDE DEF F4, F6
    <3> QED BY DEF RoutesFrom
  <2> HIDE DEF R
  <2> QED BY <2>1 DEF AreRoutes
<1>4. both = v4 \o v6
  BY DEF BothRoutes
<1> HIDE DEF R4, R6, F4, F6, both, v4, v6
<1>5. v4 \in Seq(R) /\ v6 \in Seq(R)
  BY <1>1
<1>6. Len(v4) \in Nat /\ Len(v6) \in Nat /\ (\A k \in 1 .. Len(v4) : v4[k] \in R4) /\ \A k \in 1 .. Len(v6) : v6[k] \in R6
  BY <1>1, LenProperties
<1> HIDE DEF R
<1>7. both \in Seq(R) /\ Len(both) = Len(v4) + Len(v6)
      /\ \A k \in 1 .. Len(v4) + Len(v6) : both[k] = IF k <= Len(v4) THEN v4[k] ELSE v6[k - Len(v4)]
  BY <1>4, <1>5, ConcatProperties
<1>8. AreOfFamilies(both, v4, v6)
  <2>1. ASSUME NEW k \in 1 .. Len(v4) PROVE both[k] = v4[k] /\ v4[k].family = "inet"
    <3>1. k \in 1 .. Len(v4) + Len(v6) /\ k <= Len(v4)
      BY <1>6
    <3> QED BY <1>2, <1>6, <1>7, <3>1
  <2>2. ASSUME NEW k \in 1 .. Len(v6) PROVE both[Len(v4) + k] = v6[k] /\ v6[k].family = "inet6"
    <3>1. Len(v4) + k \in 1 .. Len(v4) + Len(v6) /\ ~ (Len(v4) + k <= Len(v4)) /\ (Len(v4) + k) - Len(v4) = k
      BY <1>6
    <3> QED BY <1>2, <1>6, <1>7, <3>1
  <2> QED BY <1>6, <1>7, <2>1, <2>2 DEF AreOfFamilies
<1>9. IsResolved(both, AllRoutes(h))
  <2>1. IsResolved(both, ResolveBySource(both, MergedInterfaces(h)))
    BY <1>3, <1>7, SourcesResolve
  <2> QED BY <2>1 DEF AllRoutes, both
<1> QED BY <1>8, <1>9 DEF both, v4, v6

----------------------------------------------------------------------------
\* What is reported.

\* What ip -d link says of an interface.
AnnotationOf(h, n) ==
    IF h.link.ok /\ n \in DOMAIN ParseIPLink(h.link.out) THEN ParseIPLink(h.link.out)[n] ELSE NoAnnotation

\* The routes of an interface.
RoutesAt(all, n) == {r \in DOMAIN all : all[r].dev # None /\ all[r].dev = n}

NetworkInterfaces(h) == ApplyIPLink(h, ApplyEthtool(h, AttachToInterface(MergedInterfaces(h), AllRoutes(h))))

\* An interface is reported with its routes, its settings and its annotations.
IsNetworkInterface(h, i, bare) ==
    /\ i.name = bare.name /\ i.addrs = bare.addrs /\ i.encapsulation = bare.encapsulation
    /\ i.routes = Kept(AllRoutes(h), RoutesAt(AllRoutes(h), bare.name))
    /\ bare.encapsulation = "Ethernet" => i.ethtool = EthtoolOf(h)
    /\ i.vlan = AnnotationOf(h, bare.name).vlan /\ i.tunnel = AnnotationOf(h, bare.name).tunnel
    /\ i.xdp = AnnotationOf(h, bare.name).xdp

\* One interface goes through the three steps.
GoesThrough(h, i, a, b, c, ann) ==
    /\ a = [i EXCEPT !.routes = Kept(AllRoutes(h), RoutesAt(AllRoutes(h), i.name))]
    /\ b = IF a.encapsulation = "Ethernet" THEN [a EXCEPT !.ethtool = EthtoolOf(h)] ELSE a
    /\ ann = IF h.link.ok THEN ParseIPLink(h.link.out) ELSE Empty
    /\ c = IF b.name \in DOMAIN ann THEN [b EXCEPT !.vlan = ann[b.name].vlan, !.tunnel = ann[b.name].tunnel, !.xdp = ann[b.name].xdp]
           ELSE b

\* What goes through the three steps is reported with what each of them adds.
LEMMA InterfaceIsReported ==
  ASSUME NEW h, NEW i, IsBare(i), NEW a, NEW b, NEW c, NEW ann, GoesThrough(h, i, a, b, c, ann)
  PROVE  IsNetworkInterface(h, c, i)
<1> DEFINE Columns == {"name", "addrs", "encapsulation", "routes", "ethtool", "vlan", "tunnel", "xdp"}
           n == i.name
           told == AnnotationOf(h, n)
           tool == EthtoolOf(h)
           routes == Kept(AllRoutes(h), RoutesAt(AllRoutes(h), n))
<1>0. /\ a = [i EXCEPT !.routes = routes]
      /\ b = IF a.encapsulation = "Ethernet" THEN [a EXCEPT !.ethtool = tool] ELSE a
      /\ ann = IF h.link.ok THEN ParseIPLink(h.link.out) ELSE Empty
      /\ c = IF b.name \in DOMAIN ann THEN [b EXCEPT !.vlan = ann[b.name].vlan, !.tunnel = ann[b.name].tunnel, !.xdp = ann[b.name].xdp]
             ELSE b
  BY Zenon DEF GoesThrough
<1>1. DOMAIN i = Columns /\ i.vlan = Nil /\ i.tunnel = Nil /\ i.xdp = Nil
  BY DEF IsBare
<1> HIDE DEF tool, routes
<1>2. DOMAIN a = Columns /\ a.name = n /\ a.addrs = i.addrs /\ a.encapsulation = i.encapsulation /\ a.routes = routes
      /\ a.vlan = Nil /\ a.tunnel = Nil /\ a.xdp = Nil
  BY <1>0, <1>1
<1>3. DOMAIN b = Columns /\ b.name = n /\ b.addrs = i.addrs /\ b.encapsulation = i.encapsulation /\ b.routes = routes
      /\ b.vlan = Nil /\ b.tunnel = Nil /\ b.xdp = Nil /\ (i.encapsulation = "Ethernet" => b.ethtool = tool)
  BY <1>0, <1>2
<1>4. told = IF n \in DOMAIN ann THEN ann[n] ELSE NoAnnotation
  <2>1. CASE h.link.ok
    <3>1. ann = ParseIPLink(h.link.out)
      BY <1>0, <2>1
    <3> QED BY <2>1, <3>1, Zenon DEF AnnotationOf
  <2>2. CASE ~ h.link.ok
    <3>1. ann = Empty
      BY <1>0, <2>2
    <3>2. DOMAIN ann = {}
      BY <3>1, EmptyIsMap
    <3> QED BY <2>2, <3>2, Zenon DEF AnnotationOf
  <2>3. h.link.ok \/ ~ h.link.ok
    OBVIOUS
  <2> QED BY <2>1, <2>2, <2>3
<1>5. NoAnnotation.vlan = Nil /\ NoAnnotation.tunnel = Nil /\ NoAnnotation.xdp = Nil
  BY DEF NoAnnotation
<1>6. c = IF n \in DOMAIN ann THEN [b EXCEPT !.vlan = told.vlan, !.tunnel = told.tunnel, !.xdp = told.xdp] ELSE b
  BY <1>0, <1>3, <1>4
<1> HIDE DEF told
<1>7. c.name = n /\ c.addrs = i.addrs /\ c.encapsulation = i.encapsulation /\ c.routes = routes
      /\ c.ethtool = b.ethtool /\ c.vlan = told.vlan /\ c.tunnel = told.tunnel /\ c.xdp = told.xdp
  <2>1. CASE n \in DOMAIN ann
    <3>1. c = [b EXCEPT !.vlan = told.vlan, !.tunnel = told.tunnel, !.xdp = told.xdp]
      BY <1>6, <2>1
    <3> QED BY <1>3, <3>1
  <2>2. CASE n \notin DOMAIN ann
    BY <1>3, <1>4, <1>5, <1>6, <2>2
  <2> QED BY <2>1, <2>2
<1> QED BY <1>3, <1>7 DEF IsNetworkInterface, told, tool, routes

\* The interfaces that are left have names of their own.
LEMMA NamesAreDistinct ==
  ASSUME NEW h, NetworkHostOK(h)
  PROVE  LET ifs == MergedInterfaces(h) IN \A j, k \in DOMAIN ifs : ifs[j].name = ifs[k].name => j = k
<1> DEFINE ifs == MergedInterfaces(h)
           at == Stays(h)
           N == Len(h.ifaces)
           bare == BareInterfaces(h)
<1>1. DOMAIN ifs = 1 .. Cardinality(at) /\ \A k \in at : ifs[Rank(at, k)].name = bare[k].name
  BY InterfacesAreMerged DEF IsMerged, IsPlaced
<1>2. N \in Nat /\ DOMAIN h.ifaces = 1 .. N /\ \A k \in 1 .. N : bare[k].name = h.ifaces[k].name
  BY InterfacesAreRead
<1>3. at \in SUBSET (1 .. N)
  BY DEF Stays, KeptUpto
<1>4. \A j, k \in 1 .. N : h.ifaces[j].name = h.ifaces[k].name => j = k
  BY <1>2 DEF NetworkHostOK, InterfacesOK
<1> HIDE DEF ifs, at, N, bare
<1>5. \A r \in 1 .. Cardinality(at) : \E k \in at : Rank(at, k) = r
  BY <1>2, <1>3, RanksCount
<1>6. ASSUME NEW j \in DOMAIN ifs, NEW k \in DOMAIN ifs, ifs[j].name = ifs[k].name PROVE j = k
  <2>1. PICK a \in at : Rank(at, a) = j
    BY <1>1, <1>5
  <2>2. PICK b \in at : Rank(at, b) = k
    BY <1>1, <1>5
  <2>3. h.ifaces[a].name = h.ifaces[b].name
    BY <1>1, <1>2, <1>3, <1>6, <2>1, <2>2
  <2> QED BY <1>3, <1>4, <2>1, <2>2, <2>3
<1> QED BY <1>6 DEF ifs

\* Every interface is reported so.
LEMMA InterfacesAreReported ==
  ASSUME NEW h, NetworkHostOK(h)
  PROVE  /\ DOMAIN NetworkInterfaces(h) = DOMAIN MergedInterfaces(h)
         /\ \A k \in DOMAIN MergedInterfaces(h) : IsNetworkInterface(h, NetworkInterfaces(h)[k], MergedInterfaces(h)[k])
<1> DEFINE ifs == MergedInterfaces(h)
           all == AllRoutes(h)
           first == AttachToInterface(ifs, all)
           second == ApplyEthtool(h, first)
           third == ApplyIPLink(h, second)
           ann == IF h.link.ok THEN ParseIPLink(h.link.out) ELSE Empty
           IsFirst(k) == \A j \in 1..(k - 1) : ifs[j].name # ifs[k].name
           Mine(k) == Kept(all, RoutesAt(all, ifs[k].name))
           Annotated(i) == IF i.name \in DOMAIN ann
                           THEN [i EXCEPT !.vlan = ann[i.name].vlan, !.tunnel = ann[i.name].tunnel, !.xdp = ann[i.name].xdp]
                           ELSE i
<1>1. DOMAIN ifs = 1 .. Cardinality(Stays(h)) /\ (\A k \in DOMAIN ifs : IsBare(ifs[k]))
      /\ \A j, k \in DOMAIN ifs : ifs[j].name = ifs[k].name => j = k
  BY InterfacesAreMerged, NamesAreDistinct DEF IsMerged
<1>2. first = [k \in DOMAIN ifs |-> IF IsFirst(k) THEN [ifs[k] EXCEPT !.routes = Mine(k)] ELSE ifs[k]]
  BY Zenon DEF AttachToInterface, RoutesAt
<1>3. second = [k \in DOMAIN first |-> IF first[k].encapsulation = "Ethernet" THEN [first[k] EXCEPT !.ethtool = EthtoolOf(h)] ELSE first[k]]
  BY Zenon DEF ApplyEthtool
<1>4. third = [k \in DOMAIN second |-> Annotated(second[k])]
  BY Zenon DEF ApplyIPLink
<1>5. Cardinality(Stays(h)) \in Nat
  <2>1. Len(h.ifaces) \in Nat /\ Stays(h) \in SUBSET (1 .. Len(h.ifaces))
    BY InterfacesAreRead DEF Stays, KeptUpto
  <2> QED BY <2>1, RanksCount
<1> HIDE DEF ifs, first, second, third, ann, all
<1>6. ASSUME NEW k \in DOMAIN ifs PROVE IsFirst(k)
  <2>1. \A j \in 1 .. (k - 1) : j \in DOMAIN ifs /\ j # k
    BY <1>1, <1>5
  <2> QED BY <1>1, <2>1
<1> HIDE DEF IsFirst, Mine, Annotated
<1>7. DOMAIN third = DOMAIN ifs
  BY <1>2, <1>3, <1>4
<1>8. ASSUME NEW k \in DOMAIN ifs PROVE IsNetworkInterface(h, third[k], ifs[k])
  <2> DEFINE i == ifs[k]
             a == first[k]
             b == second[k]
             c == third[k]
             routes == Mine(k)
             tool == EthtoolOf(h)
  <2>1. a = [i EXCEPT !.routes = routes]
    BY <1>2, <1>6
  <2>2. b = IF a.encapsulation = "Ethernet" THEN [a EXCEPT !.ethtool = tool] ELSE a
    <3> HIDE DEF tool
    <3>1. second = [j \in DOMAIN first |-> IF first[j].encapsulation = "Ethernet" THEN [first[j] EXCEPT !.ethtool = tool] ELSE first[j]]
      BY <1>3 DEF tool
    <3> QED BY <1>2, <3>1
  <2>3. c = Annotated(b)
    BY <1>2, <1>3, <1>4
  <2>4. IsBare(i)
    BY <1>1
  <2>5. routes = Kept(AllRoutes(h), RoutesAt(AllRoutes(h), i.name))
    BY DEF Mine, all
  <2>6. ann = IF h.link.ok THEN ParseIPLink(h.link.out) ELSE Empty
    BY DEF ann
  <2> HIDE DEF i, a, b, c, routes
  <2>7. c = IF b.name \in DOMAIN ann THEN [b EXCEPT !.vlan = ann[b.name].vlan, !.tunnel = ann[b.name].tunnel, !.xdp = ann[b.name].xdp]
            ELSE b
    BY <2>3, Zenon DEF Annotated
  <2>8. GoesThrough(h, i, a, b, c, ann)
    BY <2>1, <2>2, <2>5, <2>6, <2>7, Zenon DEF GoesThrough, tool
  <2>9. IsNetworkInterface(h, c, i)
    BY <2>4, <2>8, InterfaceIsReported
  <2> QED BY <2>9 DEF c, i
<1>9. NetworkInterfaces(h) = third
  BY DEF NetworkInterfaces, third, second, first, ifs, all
<1> QED BY <1>7, <1>8, <1>9 DEF ifs

\* What is reported of a host that does not run macOS.
LEMMA NetworkIsReported ==
  ASSUME NEW h, ~ h.darwin
  PROVE  /\ NetworkInfo(h).ifaces = NetworkInterfaces(h) /\ NetworkInfo(h).routes = AllRoutes(h)
         /\ NetworkInfo(h).default = Default(RoutesOf(h, "inet")) /\ NetworkInfo(h).default6 = Default(RoutesOf(h, "inet6"))
<1> DEFINE ifaces == NetworkInterfaces(h)
           routes == AllRoutes(h)
           d4 == Default(RoutesOf(h, "inet"))
           d6 == Default(RoutesOf(h, "inet6"))
<1>1. NetworkInfo(h) = [ifaces |-> ifaces, routes |-> routes, default |-> d4, default6 |-> d6]
  BY Zenon DEF NetworkInfo, NetworkInterfaces, AllRoutes, MergedInterfaces, BareInterfaces, BothRoutes
<1> HIDE DEF ifaces, routes, d4, d6
<1>2. NetworkInfo(h).ifaces = ifaces /\ NetworkInfo(h).routes = routes /\ NetworkInfo(h).default = d4 /\ NetworkInfo(h).default6 = d6
  BY <1>1
<1> QED BY <1>2 DEF ifaces, routes, d4, d6

\* A result of this collector is of a host that is as its module has it.
LEMMA NetworkOfHost ==
  ASSUME ReportsAreOfHosts, Collected("network")
  PROVE  /\ NetworkHostOK(host) /\ Net = NetworkInfo(host)
         /\ ~ host.darwin => /\ Net.ifaces = NetworkInterfaces(host) /\ Net.routes = AllRoutes(host)
                             /\ Net.default = Default(RoutesOf(host, "inet")) /\ Net.default6 = Default(RoutesOf(host, "inet6"))
<1>1. host.of = "network" /\ Net = NetworkInfo(host)
  BY DEF ReportsAreOfHosts, ReportersInv, Net
<1>2. NetworkHostOK(host)
  BY <1>1, NetworkHostsAreTheirOwn DEF ReportsAreOfHosts
<1> QED BY <1>1, <1>2, NetworkIsReported

----------------------------------------------------------------------------
\* The default route.

\* The default of a family is one of its default routes.
DefaultOf(default, all, family) ==
    LET defaults == {k \in DOMAIN all : all[k].dest = "default" /\ all[k].family = family}
        Named(k) == all[k].dev # None /\ all[k].src = None
    IN /\ default.dev = None => \A k \in defaults : ~ Named(k)
       /\ default.dev # None => \E k \in defaults :
            /\ all[k].dev = default.dev /\ all[k].via = default.via
            /\ \A j \in defaults : j < k => ~ Named(j)

\* The routes of a family are all the routes of its name, from some place on.
IsFamily(routes, v, o, family) ==
    /\ o \in Nat /\ Len(v) \in Nat /\ Len(routes) \in Nat /\ o + Len(v) <= Len(routes)
    /\ \A k \in 1 .. Len(v) : routes[o + k] = v[k]
    /\ \A k \in 1 .. Len(routes) : routes[k].family = family <=> k - o \in 1 .. Len(v)

\* The routes of a family are a segment of all routes.
LEMMA FamiliesAreApart ==
  ASSUME NEW routes, NEW v4, NEW v6, AreOfFamilies(routes, v4, v6)
  PROVE  IsFamily(routes, v4, 0, "inet") /\ IsFamily(routes, v6, Len(v4), "inet6")
<1>1. /\ Len(v4) \in Nat /\ Len(v6) \in Nat /\ Len(routes) = Len(v4) + Len(v6)
      /\ \A k \in 1 .. Len(v4) : routes[k] = v4[k] /\ routes[k].family = "inet"
      /\ \A k \in 1 .. Len(v6) : routes[Len(v4) + k] = v6[k] /\ routes[Len(v4) + k].family = "inet6"
  BY DEF AreOfFamilies
<1> DEFINE n == Len(v4)
           m == Len(v6)
           N == Len(routes)
<1>2. n \in Nat /\ m \in Nat /\ N = n + m
  BY <1>1
<1>3. \A k \in 1 .. n : routes[k] = v4[k] /\ routes[k].family = "inet"
  BY <1>1
<1>4. \A k \in 1 .. m : routes[n + k] = v6[k] /\ routes[n + k].family = "inet6"
  BY <1>1
<1> HIDE DEF n, m, N
<1>5. ASSUME NEW k \in 1 .. N
      PROVE (k - 0 \in 1 .. n <=> routes[k].family = "inet") /\ (k - n \in 1 .. m <=> routes[k].family = "inet6")
  <2>1. CASE k <= n
    <3>1. k \in 1 .. n /\ k - 0 = k /\ k - n \notin 1 .. m
      BY <1>2, <2>1
    <3> QED BY <1>3, <3>1
  <2>2. CASE ~ (k <= n)
    <3>1. k - n \in 1 .. m /\ n + (k - n) = k /\ k - 0 \notin 1 .. n
      BY <1>2, <2>2
    <3>2. routes[k].family = "inet6"
      BY <1>4, <3>1
    <3> QED BY <3>1, <3>2
  <2> QED BY <2>1, <2>2
<1>6. IsFamily(routes, v4, 0, "inet")
  <2>1. 0 + n <= N /\ \A k \in 1 .. n : 0 + k = k
    BY <1>2
  <2> QED BY <1>2, <1>3, <1>5, <2>1 DEF IsFamily, n, N
<1>7. IsFamily(routes, v6, n, "inet6")
  BY <1>2, <1>4, <1>5 DEF IsFamily, m, N
<1> QED BY <1>6, <1>7 DEF n

\* The default of a family, among the routes as they are reported.
LEMMA DefaultIsReported ==
  ASSUME NEW routes, NEW all, IsResolved(routes, all), NEW v, NEW o, NEW family, IsFamily(routes, v, o, family),
         NEW d, DefaultInv(d, v, Len(v))
  PROVE  DefaultOf(d, all, family)
<1> DEFINE n == Len(v)
           N == Len(routes)
           defaults == {k \in DOMAIN all : all[k].dest = "default" /\ all[k].family = family}
           own == {k \in 1 .. n : v[k].dest = "default"}
           Named(k) == all[k].dev # None /\ all[k].src = None
<1>1. /\ o \in Nat /\ n \in Nat /\ N \in Nat /\ o + n <= N
      /\ \A k \in 1 .. n : routes[o + k] = v[k]
      /\ \A k \in 1 .. N : routes[k].family = family <=> k - o \in 1 .. n
  BY DEF IsFamily
<1>2. /\ DOMAIN all = 1 .. N
      /\ \A k \in 1 .. N : /\ all[k].dest = routes[k].dest /\ all[k].family = routes[k].family
                           /\ all[k].via = routes[k].via /\ all[k].src = routes[k].src
                           /\ routes[k].dev # None \/ routes[k].src = None => all[k].dev = routes[k].dev
  BY DEF IsResolved
<1>3. /\ d.dev = None => \A k \in own : v[k].dev = None
      /\ d.dev # None => \E k \in own : v[k].dev = d.dev /\ v[k].via = d.via /\ \A j \in own : j < k => v[j].dev = None
  BY Zenon DEF DefaultInv
<1> HIDE DEF n, N
<1>4. ASSUME NEW k \in defaults PROVE k - o \in own /\ k \in 1 .. N /\ routes[k] = v[k - o] /\ (Named(k) => v[k - o].dev # None)
  <2>1. k \in 1 .. N /\ routes[k].family = family /\ routes[k].dest = "default"
    BY <1>2
  <2>2. k - o \in 1 .. n /\ o + (k - o) = k
    BY <1>1, <2>1
  <2>3. routes[k] = v[k - o]
    BY <1>1, <2>2
  <2>4. Named(k) => routes[k].dev # None
    BY <1>2, <2>1
  <2> QED BY <2>1, <2>2, <2>3, <2>4
<1>5. ASSUME NEW i \in own PROVE o + i \in defaults /\ routes[o + i] = v[i]
  <2>1. i \in 1 .. n /\ o + i \in 1 .. N /\ (o + i) - o = i
    BY <1>1
  <2>2. routes[o + i] = v[i] /\ routes[o + i].family = family
    BY <1>1, <2>1
  <2> QED BY <1>2, <2>1, <2>2
<1> HIDE DEF own
<1>6. CASE d.dev = None
  <2>1. \A k \in defaults : ~ Named(k)
    BY <1>3, <1>4, <1>6
  <2> QED BY <1>6, <2>1, Zenon DEF DefaultOf
<1>7. CASE d.dev # None
  <2>1. PICK i \in own : v[i].dev = d.dev /\ v[i].via = d.via /\ \A j \in own : j < i => v[j].dev = None
    BY <1>3, <1>7
  <2> DEFINE k == o + i
  <2>2. k \in defaults /\ routes[k] = v[i]
    BY <1>5
  <2>3. all[k].dev = d.dev /\ all[k].via = d.via
    <3>1. k \in 1 .. N
      BY <1>4, <2>2
    <3> QED BY <1>2, <1>7, <2>1, <2>2, <3>1
  <2>i. i \in Int
    BY <1>1 DEF own
  <2>4. ASSUME NEW j \in defaults, j < k PROVE ~ Named(j)
    <3>1. j - o \in own /\ (Named(j) => v[j - o].dev # None) /\ j \in 1 .. N
      BY <1>4
    <3>2. j - o < i
      BY <1>1, <2>i, <2>4, <3>1
    <3> QED BY <2>1, <3>1, <3>2
  <2> HIDE DEF k
  <2> QED BY <1>7, <2>2, <2>3, <2>4, Zenon DEF DefaultOf
<1> QED BY <1>6, <1>7

\* The default interface and gateway of a family are of one route, on any host.
THEOREM DefaultIsOneRouteHolds == Spec => []DefaultIsOneRoute
<1>1. ASSUME ReportsAreOfHosts, Collected("network"), ~ host.darwin
      PROVE DefaultOf(Net.default, Net.routes, "inet") /\ DefaultOf(Net.default6, Net.routes, "inet6")
  <2> DEFINE v4 == RoutesOf(host, "inet")
             v6 == RoutesOf(host, "inet6")
             both == BothRoutes(host)
             all == AllRoutes(host)
  <2>1. NetworkHostOK(host) /\ Net.routes = all /\ Net.default = Default(v4) /\ Net.default6 = Default(v6)
    BY <1>1, NetworkOfHost
  <2>2. AreOfFamilies(both, v4, v6) /\ IsResolved(both, all)
    BY <2>1, FamiliesFollow
  <2>3. v4 \in Seq(RoutesFrom(FragmentsOf(host, "inet"), "inet")) /\ v6 \in Seq(RoutesFrom(FragmentsOf(host, "inet6"), "inet6"))
    BY <2>1, RoutesAreTold
  <2> HIDE DEF v4, v6, both, all
  <2>4. DefaultInv(Default(v4), v4, Len(v4)) /\ DefaultInv(Default(v6), v6, Len(v6))
    BY <2>3, LenProperties, DefaultIsFirst
  <2>5. IsFamily(both, v4, 0, "inet") /\ IsFamily(both, v6, Len(v4), "inet6")
    BY <2>2, FamiliesAreApart
  <2>6. DefaultOf(Default(v4), all, "inet") /\ DefaultOf(Default(v6), all, "inet6")
    BY <2>2, <2>4, <2>5, DefaultIsReported
  <2> QED BY <2>1, <2>6
<1>2. ASSUME ReportsAreOfHosts PROVE DefaultIsOneRoute
  <2>1. ASSUME NEW family \in {"inet", "inet6"}, Collected("network"), ~ host.darwin
        PROVE DefaultOf(IF family = "inet" THEN Net.default ELSE Net.default6, Net.routes, family)
    BY <1>1, <1>2, <2>1
  <2> QED BY <2>1, Zenon DEF DefaultIsOneRoute, DefaultOf
<1>3. ReportsAreOfHosts => DefaultIsOneRoute
  BY <1>2
<1> QED BY <1>3, ReportersInvHolds, PTL

----------------------------------------------------------------------------
\* The routing table.

\* What is told of both families is reported, route by route.
LEMMA ToldIsReported ==
  ASSUME NEW h, NetworkHostOK(h)
  PROVE  /\ AreTold(AllRoutes(h), ToldOf(h, "inet") \o ToldOf(h, "inet6"))
         /\ ToldOf(h, "inet") \o ToldOf(h, "inet6") \in Seq(Range(ToldOf(h, "inet") \o ToldOf(h, "inet6")))
<1> DEFINE v4 == RoutesOf(h, "inet")
           v6 == RoutesOf(h, "inet6")
           t4 == ToldOf(h, "inet")
           t6 == ToldOf(h, "inet6")
           F4 == FragmentsOf(h, "inet")
           F6 == FragmentsOf(h, "inet6")
           R4 == RoutesFrom(F4, "inet")
           R6 == RoutesFrom(F6, "inet6")
           R == R4 \cup R6
           F == F4 \cup F6
           both == BothRoutes(h)
           all == AllRoutes(h)
           told == t4 \o t6
<1>1. v4 \in Seq(R4) /\ v6 \in Seq(R6) /\ t4 \in Seq(F4) /\ t6 \in Seq(F6) /\ AreTold(v4, t4) /\ AreTold(v6, t6)
  BY RoutesAreTold
<1>2. both = v4 \o v6 /\ IsResolved(both, all)
  BY FamiliesFollow DEF BothRoutes
<1> HIDE DEF R4, R6, F4, F6, both, v4, v6, t4, t6, all
<1>3. v4 \in Seq(R) /\ v6 \in Seq(R) /\ t4 \in Seq(F) /\ t6 \in Seq(F)
  BY <1>1
<1> HIDE DEF R, F
<1>4. AreTold(both, told)
  BY <1>1, <1>2, <1>3, ToldGoesOn
<1>5. told \in Seq(F)
  BY <1>3, ConcatProperties
<1> HIDE DEF told
<1>6. told \in Seq(Range(told))
  <2>1. Len(told) \in Nat /\ DOMAIN told = 1 .. Len(told) /\ told = [k \in 1 .. Len(told) |-> told[k]]
    BY <1>5, LenProperties
  <2>2. told \in [1 .. Len(told) -> Range(told)]
    BY <2>1 DEF Range
  <2> QED BY <2>1, <2>2, SeqDef
<1>7. AreTold(all, told)
  <2>1. /\ Len(all) = Len(both) /\ \A k \in 1 .. Len(both) : all[k].via = both[k].via
    BY <1>2, Zenon DEF IsResolved
  <2>2. Len(both) = Len(told) /\ \A k \in 1 .. Len(told) : both[k].via = told[k].via
    BY <1>4 DEF AreTold
  <2> QED BY <2>1, <2>2 DEF AreTold
<1> QED BY <1>6, <1>7 DEF told, t4, t6, all

\* An interface is reported with all the routes that are its own, in their order.
LEMMA RoutesAreOwn ==
  ASSUME NEW h, NetworkHostOK(h), NEW i \in Range(NetworkInterfaces(h)), NEW mine,
         mine = {k \in DOMAIN AllRoutes(h) : AllRoutes(h)[k].dev = i.name}
  PROVE  Len(i.routes) = Cardinality(mine) /\ \A k \in mine : i.routes[Rank(mine, k)] = AllRoutes(h)[k]
<1> DEFINE all == AllRoutes(h)
           ifs == MergedInterfaces(h)
           N == Len(BothRoutes(h))
<1>1. DOMAIN all = 1 .. N /\ N \in Nat
  BY FamiliesFollow DEF IsResolved, AreOfFamilies
<1>2. PICK r \in DOMAIN ifs : i = NetworkInterfaces(h)[r] /\ IsNetworkInterface(h, i, ifs[r])
  BY InterfacesAreReported DEF Range
<1>3. ifs[r].name # None /\ i.name = ifs[r].name /\ i.routes = Kept(all, RoutesAt(all, ifs[r].name))
  BY <1>2, InterfacesAreMerged DEF IsMerged, IsBare, IsNetworkInterface
<1>4. RoutesAt(all, ifs[r].name) = mine
  BY <1>3 DEF RoutesAt
<1>5. mine \in SUBSET (1 .. N)
  BY <1>1
<1> HIDE DEF all, ifs, N
<1>6. Len(Kept(all, mine)) = Cardinality(mine) /\ \A k \in mine : Kept(all, mine)[Rank(mine, k)] = all[k]
  BY <1>1, <1>5, KeptHolds
<1> QED BY <1>3, <1>4, <1>6 DEF all

\* Every route that ip tells is reported once, and under its own interface, on any host.
THEOREM RoutesAreCompleteHolds == Spec => []RoutesAreComplete
<1>1. ASSUME ReportsAreOfHosts, Collected("network"), ~ host.darwin
      PROVE  LET Complete(family) == IF host.routes[family].ok THEN RouteFragments(CompleteLines(host.routes[family].out)) ELSE <<>>
                 told == Complete("inet") \o Complete("inet6")
             IN /\ Len(Net.routes) = Len(told) /\ \A k \in DOMAIN told : Net.routes[k].via = told[k].via
                /\ \A i \in Range(Net.ifaces) :
                     LET mine == {k \in DOMAIN Net.routes : Net.routes[k].dev = i.name}
                     IN Len(i.routes) = Cardinality(mine) /\ \A k \in mine : i.routes[Rank(mine, k)] = Net.routes[k]
  <2> DEFINE told == ToldOf(host, "inet") \o ToldOf(host, "inet6")
             all == AllRoutes(host)
             ifaces == NetworkInterfaces(host)
             Own(i) == {k \in DOMAIN all : all[k].dev = i.name}
  <2>1. NetworkHostOK(host) /\ Net.routes = all /\ Net.ifaces = ifaces
    BY <1>1, NetworkOfHost
  <2>2. AreTold(all, told) /\ told \in Seq(Range(told))
    BY <2>1, ToldIsReported
  <2>3. ASSUME NEW i \in Range(ifaces) PROVE Len(i.routes) = Cardinality(Own(i)) /\ \A k \in Own(i) : i.routes[Rank(Own(i), k)] = all[k]
    <3> DEFINE mine == Own(i)
    <3>1. mine = {k \in DOMAIN all : all[k].dev = i.name}
      OBVIOUS
    <3> HIDE DEF mine
    <3>2. Len(i.routes) = Cardinality(mine) /\ \A k \in mine : i.routes[Rank(mine, k)] = all[k]
      BY <2>1, <2>3, <3>1, RoutesAreOwn
    <3> QED BY <3>2 DEF mine
  <2>4. told = (IF host.routes["inet"].ok THEN RouteFragments(CompleteLines(host.routes["inet"].out)) ELSE <<>>)
               \o (IF host.routes["inet6"].ok THEN RouteFragments(CompleteLines(host.routes["inet6"].out)) ELSE <<>>)
    BY Zenon DEF ToldOf
  <2> HIDE DEF told, all, ifaces
  <2>5. Len(all) = Len(told) /\ \A k \in DOMAIN told : all[k].via = told[k].via
    <3>1. DOMAIN told = 1 .. Len(told)
      BY <2>2, LenProperties
    <3> QED BY <2>2, <3>1 DEF AreTold
  <2> QED BY <2>1, <2>3, <2>4, <2>5, Zenon
<1>2. ReportsAreOfHosts => RoutesAreComplete
  BY <1>1, Zenon DEF RoutesAreComplete
<1> QED BY <1>2, ReportersInvHolds, PTL

----------------------------------------------------------------------------
\* The settings.

\* The heading above a line, the name of a pair, and the pairs and numbers of a call.
SectionOf(out, k) == Max({0} \cup {j \in 1 .. k : out[j].t \in {"max", "current"}})
NameOf(c, out, k) == IF c \in {"-g", "-l"} THEN <<out[SectionOf(out, k)].t, out[k].key>> ELSE out[k].key
PairsOf(c, out) == {k \in DOMAIN out : out[k].t = "pair" /\ (c \in {"-g", "-l"} => SectionOf(out, k) # 0)}
NumbersOf(c, out) == {k \in PairsOf(c, out) : out[k].val \in Numbers /\ out[k].key # None}

\* A map has the numbers of a call, the last of each name with its value.
HasNumbers(m, c, out) ==
    \A k \in NumbersOf(c, out) :
        /\ NameOf(c, out, k) \in DOMAIN m
        /\ (\A j \in PairsOf(c, out) : j > k => NameOf(c, out, j) # NameOf(c, out, k)) =>
                m[NameOf(c, out, k)] = out[k].val

\* It has them if it has the last of each name of some pairs, the numbers with them.
LEMMA NumbersAreAmong ==
  ASSUME NEW c, NEW out, NEW m, NEW at, NEW key, NEW val, IsLastAt(m, at, key, val),
         NumbersOf(c, out) \in SUBSET at, at \in SUBSET PairsOf(c, out),
         \A k \in at : key[k] = NameOf(c, out, k) /\ val[k] = out[k].val
  PROVE  HasNumbers(m, c, out)
<1>1. DOMAIN m = {key[k] : k \in at} /\ \A i \in at : (\A j \in at : j > i => key[j] # key[i]) => m[key[i]] = val[i]
  BY DEF IsLastAt
<1>2. ASSUME NEW k \in NumbersOf(c, out)
      PROVE NameOf(c, out, k) \in DOMAIN m
            /\ ((\A j \in PairsOf(c, out) : j > k => NameOf(c, out, j) # NameOf(c, out, k)) => m[NameOf(c, out, k)] = out[k].val)
  <2>1. k \in at /\ key[k] = NameOf(c, out, k) /\ val[k] = out[k].val
    OBVIOUS
  <2>2. ASSUME \A j \in PairsOf(c, out) : j > k => NameOf(c, out, j) # NameOf(c, out, k) PROVE m[NameOf(c, out, k)] = out[k].val
    <3>1. \A j \in at : j > k => key[j] # key[k]
      BY <2>1, <2>2
    <3> QED BY <1>1, <2>1, <3>1
  <2> QED BY <1>1, <2>1, <2>2
<1> QED BY <1>2, Zenon DEF HasNumbers

\* The pairs that are parsed have the numbers of a call that has no sections.
LEMMA PairsHaveNumbers ==
  ASSUME NEW c, c \notin {"-g", "-l"}, NEW out, NEW N \in Nat, DOMAIN out = 1 .. N, NEW at \in SUBSET (1 .. N),
         \A k \in 1 .. N : out[k].val \in Numbers /\ out[k].key # None => k \in at
  PROVE  HasNumbers(ParsePairs(out, at), c, out)
<1> DEFINE places == {k \in at : out[k].t = "pair"}
           key == [k \in 1 .. N |-> out[k].key]
           val == [k \in 1 .. N |-> out[k].val]
           m == ParsePairs(out, at)
<1>1. IsLastAt(m, places, key, val)
  BY PairsAreLast
<1>2. PairsOf(c, out) = {k \in 1 .. N : out[k].t = "pair"} /\ \A k : NameOf(c, out, k) = out[k].key
  BY DEF PairsOf, NameOf
<1>3. NumbersOf(c, out) \in SUBSET places
  BY <1>2 DEF NumbersOf
<1>4. places \in SUBSET PairsOf(c, out)
  BY <1>2
<1>5. \A k \in places : key[k] = NameOf(c, out, k) /\ val[k] = out[k].val
  BY <1>2
<1> HIDE DEF m, places, key, val
<1>6. HasNumbers(m, c, out)
  BY <1>1, <1>3, <1>4, <1>5, NumbersAreAmong
<1> QED BY <1>6 DEF m

\* And so do the sections.
LEMMA SectionsHaveNumbers ==
  ASSUME NEW c, c \in {"-g", "-l"}, NEW out, NEW N \in Nat, DOMAIN out = 1 .. N
  PROVE  HasNumbers(ParseSectioned(out), c, out)
<1> DEFINE places == NumberPlaces(out, N)
           key == SectionKeys(out)
           val == [k \in DOMAIN out |-> out[k].val]
           m == ParseSectioned(out)
<1>1. IsLastAt(m, places, key, val)
  BY SectionsAreLast
<1>2. ASSUME NEW k \in 1 .. N PROVE SectionOf(out, k) = LatestIn(Headings(out), k)
  <2>1. \A j \in 1 .. k : j \in DOMAIN out
    OBVIOUS
  <2>2. {j \in 1 .. k : j \in Headings(out)} = {j \in 1 .. k : out[j].t \in {"max", "current"}}
    BY <2>1 DEF Headings
  <2> QED BY <2>2 DEF SectionOf, LatestIn
<1>3. places = {k \in 1 .. N : out[k].t = "pair" /\ SectionOf(out, k) # 0 /\ out[k].val \in Numbers}
  BY <1>2 DEF NumberPlaces, Digits
<1>4. PairsOf(c, out) = {k \in 1 .. N : out[k].t = "pair" /\ SectionOf(out, k) # 0}
  BY DEF PairsOf
<1>5. NumbersOf(c, out) \in SUBSET places
  BY <1>3, <1>4 DEF NumbersOf
<1>6. \A k \in 1 .. N : key[k] = NameOf(c, out, k) /\ val[k] = out[k].val
  BY <1>2 DEF SectionKeys, NameOf
<1> HIDE DEF m, key, val
<1>7. places \in SUBSET PairsOf(c, out) /\ \A k \in places : key[k] = NameOf(c, out, k) /\ val[k] = out[k].val
  BY <1>3, <1>4, <1>6
<1> HIDE DEF places
<1>8. HasNumbers(m, c, out)
  BY <1>1, <1>5, <1>7, NumbersAreAmong
<1> QED BY <1>8 DEF m

\* What a call says has its numbers; no pause parameter is a number, and all but "on" are off.
CallIsTold(c, out) ==
    \A k \in NumbersOf(c, out) :
        /\ NameOf(c, out, k) \in DOMAIN Parse(c, out)
        /\ (\A j \in PairsOf(c, out) : j > k => NameOf(c, out, j) # NameOf(c, out, k)) =>
                Parse(c, out)[NameOf(c, out, k)] = IF c = "-a" THEN "false" ELSE out[k].val

\* Every call of ethtool is told whole, whatever its output is.
LEMMA CallsAreTold ==
  ASSUME NEW c \in EthtoolCalls, NEW out, IsSeq(out)
  PROVE  CallIsTold(c, out)
<1> DEFINE N == Len(out)
<1>1. N \in Nat /\ DOMAIN out = 1 .. N
  BY LenProperties DEF IsSeq
<1> HIDE DEF N
<1>2. \A x \in Numbers : x # None /\ x # "on"
  BY DEF Numbers, None
<1>3. c # "-a" /\ HasNumbers(Parse(c, out), c, out) => CallIsTold(c, out)
  BY Zenon DEF HasNumbers, CallIsTold
<1>4. CASE c = "-i"
  <2> DEFINE at == {k \in DOMAIN out : out[k].key # None}
  <2>1. Parse(c, out) = ParsePairs(out, at)
    BY <1>4 DEF Parse, DriverInfo
  <2>2. at \in SUBSET (1 .. N) /\ \A k \in 1 .. N : out[k].val \in Numbers /\ out[k].key # None => k \in at
    BY <1>1
  <2> HIDE DEF at
  <2> QED BY <1>1, <1>3, <1>4, <2>1, <2>2, PairsHaveNumbers
<1>5. CASE c = "-c"
  <2> DEFINE at == {k \in DOMAIN out : Digits(out[k])}
  <2>1. Parse(c, out) = ParsePairs(out, at)
    BY <1>5 DEF Parse, Coalesce
  <2>2. at \in SUBSET (1 .. N) /\ \A k \in 1 .. N : out[k].val \in Numbers /\ out[k].key # None => k \in at
    BY <1>1 DEF Digits
  <2> HIDE DEF at
  <2> QED BY <1>1, <1>3, <1>5, <2>1, <2>2, PairsHaveNumbers
<1>6. Valued(out) \in SUBSET (1 .. N) /\ \A k \in 1 .. N : out[k].val \in Numbers /\ out[k].key # None => k \in Valued(out)
  BY <1>1, <1>2 DEF Valued
<1>7. CASE c = "-k"
  <2>1. Parse(c, out) = ParsePairs(out, Valued(out))
    BY <1>7 DEF Parse, Offload
  <2> QED BY <1>1, <1>3, <1>6, <1>7, <2>1, PairsHaveNumbers
<1>8. CASE c = "-a"
  <2> DEFINE given == ParsePairs(out, Valued(out))
             on == [k \in DOMAIN given |-> IF given[k] = "on" THEN "true" ELSE "false"]
  <2>1. Parse(c, out) = on
    BY <1>8 DEF Parse, Pause
  <2>2. HasNumbers(given, c, out)
    BY <1>1, <1>6, <1>8, PairsHaveNumbers
  <2> HIDE DEF given
  <2>3. ASSUME NEW k \in NumbersOf(c, out)
        PROVE /\ NameOf(c, out, k) \in DOMAIN on
              /\ (\A j \in PairsOf(c, out) : j > k => NameOf(c, out, j) # NameOf(c, out, k)) => on[NameOf(c, out, k)] = "false"
    <3>1. out[k].val # "on"
      BY <1>2 DEF NumbersOf
    <3>2. /\ NameOf(c, out, k) \in DOMAIN given
          /\ (\A j \in PairsOf(c, out) : j > k => NameOf(c, out, j) # NameOf(c, out, k)) => given[NameOf(c, out, k)] = out[k].val
      BY <2>2, Zenon DEF HasNumbers
    <3> QED BY <3>1, <3>2
  <2> HIDE DEF on
  <2> QED BY <1>8, <2>1, <2>3, Zenon DEF CallIsTold
<1>9. CASE c \in {"-g", "-l"}
  <2>1. Parse(c, out) = ParseSectioned(out)
    BY <1>9 DEF Parse
  <2>2. HasNumbers(Parse(c, out), c, out)
    BY <1>1, <1>9, <2>1, SectionsHaveNumbers
  <2> QED BY <1>3, <1>9, <2>2
<1> QED BY <1>4, <1>5, <1>7, <1>8, <1>9 DEF EthtoolCalls

\* A call that succeeds is reported, whatever the others do.
LEMMA EthtoolTellsCalls ==
  ASSUME NEW h, NetworkHostOK(h), NEW c \in EthtoolCalls, h.ethtool[c].ok
  PROVE  \A k \in NumbersOf(c, h.ethtool[c].out) : c \in DOMAIN EthtoolOf(h) /\ EthtoolOf(h)[c] = Parse(c, h.ethtool[c].out)
<1> DEFINE out == h.ethtool[c].out
           said == {x \in EthtoolCalls : h.ethtool[x].ok /\ Parse(x, h.ethtool[x].out) # Empty}
<1>1. IsSeq(out)
  BY DEF NetworkHostOK, ListOf
<1>2. EthtoolOf(h) = [x \in said |-> Parse(x, h.ethtool[x].out)]
  BY Zenon DEF EthtoolOf
<1>3. ASSUME NEW k \in NumbersOf(c, out) PROVE c \in DOMAIN EthtoolOf(h) /\ EthtoolOf(h)[c] = Parse(c, out)
  <2>1. NameOf(c, out, k) \in DOMAIN Parse(c, out)
    BY <1>1, CallsAreTold, Zenon DEF CallIsTold
  <2>2. DOMAIN Empty = {}
    BY EmptyIsMap
  <2>3. Parse(c, out) # Empty
    BY <2>1, <2>2
  <2>4. c \in said
    BY <2>3
  <2> HIDE DEF said
  <2> QED BY <1>2, <2>4
<1> QED BY <1>3

\* What a call of ethtool says does not depend on the others, on any host.
THEOREM EthtoolCallsAreIndependentHolds == Spec => []EthtoolCallsAreIndependent
<1>1. ASSUME ReportsAreOfHosts, Collected("network"), ~ host.darwin, NEW i \in Range(Net.ifaces), NEW c \in EthtoolCalls
      PROVE  LET out == host.ethtool[c].out
                 Section(k) == Max({0} \cup {j \in 1..k : out[j].t \in {"max", "current"}})
                 Name(k) == IF c \in {"-g", "-l"} THEN <<out[Section(k)].t, out[k].key>> ELSE out[k].key
                 pairs == {k \in DOMAIN out : out[k].t = "pair" /\ (c \in {"-g", "-l"} => Section(k) # 0)}
                 told == {k \in pairs : out[k].val \in Numbers /\ out[k].key # None}
             IN i.encapsulation = "Ethernet" /\ host.ethtool[c].ok =>
                 \A k \in told :
                     /\ c \in DOMAIN i.ethtool /\ Name(k) \in DOMAIN i.ethtool[c]
                     /\ (\A j \in pairs : j > k => Name(j) # Name(k)) =>
                             i.ethtool[c][Name(k)] = IF c = "-a" THEN "false" ELSE out[k].val
  <2> DEFINE out == host.ethtool[c].out
             ifs == MergedInterfaces(host)
             Name(k) == NameOf(c, out, k)
             pairs == PairsOf(c, out)
             told == NumbersOf(c, out)
  <2>1. NetworkHostOK(host) /\ Net.ifaces = NetworkInterfaces(host)
    BY <1>1, NetworkOfHost
  <2>2. PICK r \in DOMAIN ifs : i = NetworkInterfaces(host)[r] /\ IsNetworkInterface(host, i, ifs[r])
    BY <1>1, <2>1, InterfacesAreReported DEF Range
  <2>3. i.encapsulation = "Ethernet" => i.ethtool = EthtoolOf(host)
    BY <2>2 DEF IsNetworkInterface
  <2>4. ASSUME i.encapsulation = "Ethernet", host.ethtool[c].ok, NEW k \in told
        PROVE /\ c \in DOMAIN i.ethtool /\ Name(k) \in DOMAIN i.ethtool[c]
              /\ (\A j \in pairs : j > k => Name(j) # Name(k)) => i.ethtool[c][Name(k)] = IF c = "-a" THEN "false" ELSE out[k].val
    <3>1. IsSeq(out)
      BY <2>1, <2>4 DEF NetworkHostOK, ListOf
    <3>2. CallIsTold(c, out)
      BY <3>1, CallsAreTold
    <3>3. c \in DOMAIN EthtoolOf(host) /\ EthtoolOf(host)[c] = Parse(c, out)
      BY <2>1, <2>4, EthtoolTellsCalls
    <3> HIDE DEF out
    <3> QED BY <2>3, <2>4, <3>2, <3>3 DEF CallIsTold
  <2> QED BY <2>4, Zenon DEF NameOf, PairsOf, NumbersOf, SectionOf
<1>2. ReportsAreOfHosts => EthtoolCallsAreIndependent
  BY <1>1, Zenon DEF EthtoolCallsAreIndependent
<1> QED BY <1>2, ReportersInvHolds, PTL

----------------------------------------------------------------------------
\* The addresses.

\* The owner of addresses is an interface that stays: that which an alias is folded into,
\* or itself.
LEMMA OwnersStay ==
  ASSUME NEW h, NetworkHostOK(h), NEW k \in DOMAIN h.ifaces
  PROVE  /\ FoldedAt(h)[k] = 0 => k \in Stays(h) /\ OwnerOf(h, h.ifaces[k]) = h.ifaces[k].name
         /\ FoldedAt(h)[k] # 0 => FoldedAt(h)[k] \in Stays(h) /\ OwnerOf(h, h.ifaces[k]) = h.ifaces[FoldedAt(h)[k]].name
<1> DEFINE N == Len(h.ifaces)
           into == FoldedAt(h)
<1>1. N \in Nat /\ DOMAIN h.ifaces = 1 .. N
  BY InterfacesAreRead
<1>2. /\ into \in [1 .. N -> 0 .. N]
      /\ into[k] # 0 <=> OpenVZGuest(h) /\ h.ifaces[k].base # None /\ ByName(h, h.ifaces[k].base) # 0
      /\ into[k] # 0 => h.ifaces[into[k]].name = h.ifaces[k].base /\ into[into[k]] = 0
  BY AliasesAreOK DEF AliasesOK
<1>3. Stays(h) = {j \in 1 .. N : into[j] = 0}
  BY DEF Stays, KeptUpto
<1>4. OwnerOf(h, h.ifaces[k]) = IF into[k] # 0 THEN h.ifaces[k].base ELSE h.ifaces[k].name
  BY <1>2 DEF OwnerOf
<1> HIDE DEF N, into
<1>5. into[k] # 0 => into[k] \in 1 .. N
  BY <1>1, <1>2
<1> QED BY <1>1, <1>2, <1>3, <1>4, <1>5 DEF into

\* The interfaces that are reported are those that stay, and with the aliases in order each
\* has the addresses of its own and those of what is folded into it.
LEMMA AddressesAreOwners ==
  ASSUME NEW h, NetworkHostOK(h)
  PROVE  /\ {i.name : i \in Range(NetworkInterfaces(h))} = {OwnerOf(h, i) : i \in Range(h.ifaces)}
         /\ \A j, k \in DOMAIN NetworkInterfaces(h) : NetworkInterfaces(h)[j].name = NetworkInterfaces(h)[k].name => j = k
         /\ AliasesComeLast(h) => \A j \in Range(NetworkInterfaces(h)) :
              Range(j.addrs) = UNION {Range(i.addrs) \ {"bad"} : i \in {i \in Range(h.ifaces) : OwnerOf(h, i) = j.name}}
<1> DEFINE N == Len(h.ifaces)
           net == NetworkInterfaces(h)
           ifs == MergedInterfaces(h)
           bare == BareInterfaces(h)
           into == FoldedAt(h)
           at == Stays(h)
           c == Cardinality(at)
<1>1. N \in Nat /\ DOMAIN h.ifaces = 1 .. N /\ at \in SUBSET (1 .. N)
      /\ \A k \in 1 .. N : bare[k].name = h.ifaces[k].name /\ Range(bare[k].addrs) = AddressesOf(h, k)
  BY InterfacesAreRead DEF Stays, KeptUpto
<1>2. DOMAIN ifs = 1 .. c /\ IsPlaced(ifs, at, bare) /\ (AliasesComeLast(h) => IsGathered(ifs, at, bare, into, N))
  BY InterfacesAreMerged, AliasesAreOK DEF IsMerged
<1>3. DOMAIN net = 1 .. c /\ \A r \in 1 .. c : net[r].name = ifs[r].name /\ net[r].addrs = ifs[r].addrs
  BY <1>2, InterfacesAreReported DEF IsNetworkInterface
<1>4. \A j, k \in DOMAIN ifs : ifs[j].name = ifs[k].name => j = k
  BY NamesAreDistinct
<1>5. \A k \in 1 .. N : /\ into[k] = 0 => k \in at /\ OwnerOf(h, h.ifaces[k]) = h.ifaces[k].name
                        /\ into[k] # 0 => into[k] \in at /\ OwnerOf(h, h.ifaces[k]) = h.ifaces[into[k]].name
  BY <1>1, OwnersStay
<1>6. \A j, k \in 1 .. N : h.ifaces[j].name = h.ifaces[k].name => j = k
  BY <1>1 DEF NetworkHostOK, InterfacesOK
<1>7. \A k \in at : into[k] = 0
  BY DEF Stays, KeptUpto
<1> HIDE DEF N, net, ifs, bare, into, at, c
<1>8. (\A k \in at : Rank(at, k) \in 1 .. c) /\ \A r \in 1 .. c : \E k \in at : Rank(at, k) = r
  BY <1>1, RanksCount DEF c
<1>9. Range(h.ifaces) = {h.ifaces[k] : k \in 1 .. N} /\ Range(net) = {net[r] : r \in 1 .. c}
  BY <1>1, <1>3 DEF Range
<1>10. ASSUME NEW k \in at
       PROVE /\ net[Rank(at, k)].name = h.ifaces[k].name
             /\ AliasesComeLast(h) => Range(net[Rank(at, k)].addrs) =
                    AddressesOf(h, k) \cup UNION {AddressesOf(h, m) : m \in {m \in 1 .. N : into[m] = k}}
  <2>1. Rank(at, k) \in 1 .. c /\ k \in 1 .. N
    BY <1>1, <1>8
  <2>2. /\ ifs[Rank(at, k)].name = bare[k].name
        /\ AliasesComeLast(h) => Range(ifs[Rank(at, k)].addrs) = Gathered(bare, into, N, k)
    BY <1>2 DEF IsPlaced, IsGathered
  <2>3. Gathered(bare, into, N, k) = AddressesOf(h, k) \cup UNION {AddressesOf(h, m) : m \in {m \in 1 .. N : into[m] = k}}
    BY <1>1, <2>1 DEF Gathered, FoldedInto
  <2> QED BY <1>1, <1>3, <2>1, <2>2, <2>3
<1>11. {i.name : i \in Range(net)} = {OwnerOf(h, i) : i \in Range(h.ifaces)}
  <2>1. ASSUME NEW r \in 1 .. c PROVE \E m \in 1 .. N : net[r].name = OwnerOf(h, h.ifaces[m])
    <3>1. PICK k \in at : Rank(at, k) = r
      BY <1>8
    <3> QED BY <1>1, <1>5, <1>7, <1>10, <3>1
  <2>2. ASSUME NEW m \in 1 .. N PROVE \E r \in 1 .. c : net[r].name = OwnerOf(h, h.ifaces[m])
    <3>1. PICK k \in at : OwnerOf(h, h.ifaces[m]) = h.ifaces[k].name
      BY <1>5
    <3> QED BY <1>8, <1>10, <3>1
  <2> QED BY <1>9, <2>1, <2>2
<1>12. \A j, k \in DOMAIN net : net[j].name = net[k].name => j = k
  BY <1>2, <1>3, <1>4
<1>13. ASSUME AliasesComeLast(h), NEW r \in 1 .. c
       PROVE Range(net[r].addrs) = UNION {Range(i.addrs) \ {"bad"} : i \in {i \in Range(h.ifaces) : OwnerOf(h, i) = net[r].name}}
  <2>1. PICK k \in at : Rank(at, k) = r
    BY <1>8
  <2>2. net[r].name = h.ifaces[k].name /\ k \in 1 .. N /\ into[k] = 0
        /\ Range(net[r].addrs) = AddressesOf(h, k) \cup UNION {AddressesOf(h, m) : m \in {m \in 1 .. N : into[m] = k}}
    BY <1>1, <1>7, <1>10, <1>13, <2>1
  <2>3. ASSUME NEW m \in 1 .. N PROVE OwnerOf(h, h.ifaces[m]) = net[r].name <=> m = k \/ into[m] = k
    <3>1. CASE into[m] = 0
      <4>1. into[m] # k
        BY <1>1, <2>2, <3>1
      <4> QED BY <1>5, <1>6, <2>2, <3>1, <4>1
    <3>2. CASE into[m] # 0
      <4>1. into[m] \in at /\ into[m] \in 1 .. N /\ OwnerOf(h, h.ifaces[m]) = h.ifaces[into[m]].name
        BY <1>1, <1>5, <3>2
      <4>2. m # k
        BY <2>2, <3>2
      <4> QED BY <1>6, <2>2, <4>1, <4>2
    <3> QED BY <3>1, <3>2
  <2>4. {i \in Range(h.ifaces) : OwnerOf(h, i) = net[r].name} = {h.ifaces[m] : m \in {m \in 1 .. N : m = k \/ into[m] = k}}
    BY <1>9, <2>3
  <2>5. UNION {Range(i.addrs) \ {"bad"} : i \in {h.ifaces[m] : m \in {m \in 1 .. N : m = k \/ into[m] = k}}}
        = UNION {AddressesOf(h, m) : m \in {m \in 1 .. N : m = k \/ into[m] = k}}
    BY DEF AddressesOf
  <2>6. UNION {AddressesOf(h, m) : m \in {m \in 1 .. N : m = k \/ into[m] = k}}
        = AddressesOf(h, k) \cup UNION {AddressesOf(h, m) : m \in {m \in 1 .. N : into[m] = k}}
    BY <2>2
  <2> QED BY <2>2, <2>4, <2>5, <2>6
<1>14. AliasesComeLast(h) => \A j \in Range(net) : Range(j.addrs) = UNION {Range(i.addrs) \ {"bad"} : i \in {i \in Range(h.ifaces) : OwnerOf(h, i) = j.name}}
  BY <1>9, <1>13
<1> QED BY <1>11, <1>12, <1>14 DEF net

\* Every address reaches its interface, on any host.
THEOREM AddressesReachTheirInterfaceHolds == Spec => []AddressesReachTheirInterface
<1>1. ASSUME ReportsAreOfHosts, Collected("network"), ~ host.darwin
      PROVE  /\ {i.name : i \in Range(Net.ifaces)} = {OwnerOf(host, i) : i \in Range(host.ifaces)}
             /\ \A j, k \in DOMAIN Net.ifaces : Net.ifaces[j].name = Net.ifaces[k].name => j = k
             /\ AliasesComeLast(host) => AddressesAreOfOwners
  <2>1. NetworkHostOK(host) /\ Net.ifaces = NetworkInterfaces(host)
    BY <1>1, NetworkOfHost
  <2> QED BY <2>1, AddressesAreOwners, Zenon DEF AddressesAreOfOwners
<1>2. ReportsAreOfHosts => AddressesReachTheirInterface
  BY <1>1, Zenon DEF AddressesReachTheirInterface
<1> QED BY <1>2, ReportersInvHolds, PTL

----------------------------------------------------------------------------
\* The annotations.

\* The head of a line's block, and the last mode that the block announces up to the line.
LinkHeads(out) == {k \in Nat : out[k].t = "head"}
HeadAt(out, k) == Max({0} \cup {j \in 1 .. k : out[j].t = "head"})
ModeAt(out, k) == Max({0} \cup {j \in HeadAt(out, k) .. k : j # 0 /\ out[j].t = "mode"})
ModeSaid(out, k) == IF ModeAt(out, k) = 0 THEN None ELSE Announced(out[ModeAt(out, k)].v)

\* The lines of an interface among the first m, of a kind.
OfInterface(out, n, k) == HeadAt(out, k) # 0 /\ out[HeadAt(out, k)].v = n
LinkLines(out, n, t, m) == {k \in 1 .. m : out[k].t = t /\ OfInterface(out, n, k)}
PointedAt(out, n, t, m) == IF LinkLines(out, n, t, m) = {} THEN Nil ELSE Pointer(out[Max(LinkLines(out, n, t, m))].v)

\* An annotation is what the lines of its interface say among the first m.
IsAnnotated(a, out, n, m) ==
    /\ a.vlan = PointedAt(out, n, "vlan", m) /\ a.tunnel = PointedAt(out, n, "tunnel", m)
    /\ a.xdp = Nil <=> LinkLines(out, n, "mode", m) \cup LinkLines(out, n, "prog", m) = {}
    /\ \A progs \in a.xdp :
         /\ Len(progs) = Cardinality(LinkLines(out, n, "prog", m))
         /\ \A k \in LinkLines(out, n, "prog", m) :
              progs[Rank(LinkLines(out, n, "prog", m), k)] = Program(ModeSaid(out, k), out[k])

\* A head starts a block; a mode is announced for the rest of its block.
LEMMA BlocksMove ==
  ASSUME NEW out, NEW N \in Nat, DOMAIN out = 1 .. N, NEW m \in 0 .. N, m < N
  PROVE  /\ HeadAt(out, 0) = 0 /\ HeadAt(out, m) \in 0 .. m
         /\ HeadAt(out, m + 1) = IF out[m + 1].t = "head" THEN m + 1 ELSE HeadAt(out, m)
         /\ out[m + 1].t = "head" => ModeSaid(out, m + 1) = None
         /\ out[m + 1].t = "mode" => ModeSaid(out, m + 1) = Announced(out[m + 1].v)
         /\ out[m + 1].t \notin {"head", "mode"} => ModeSaid(out, m + 1) = ModeSaid(out, m)
<1> DEFINE head == HeadAt(out, m)
           next == HeadAt(out, m + 1)
           S(k) == {j \in HeadAt(out, k) .. k : j # 0 /\ out[j].t = "mode"}
<1>1. m \in Nat /\ m + 1 \in 1 .. N
  OBVIOUS
<1>2. m + 1 \in LinkHeads(out) <=> out[m + 1].t = "head"
  BY <1>1 DEF LinkHeads
<1>3. HeadAt(out, 0) = 0 /\ head \in 0 .. m /\ next = IF out[m + 1].t = "head" THEN m + 1 ELSE head
  <2>1. \A k : HeadAt(out, k) = LatestIn(LinkHeads(out), k)
    <3>1. ASSUME NEW k PROVE {j \in 1 .. k : out[j].t = "head"} = {j \in 1 .. k : j \in LinkHeads(out)}
      BY DEF LinkHeads
    <3> QED BY <3>1 DEF HeadAt, LatestIn
  <2> QED BY <1>1, <1>2, <2>1, LatestMoves
<1> HIDE DEF head, next
<1>4. S(m) = {j \in head .. m : j # 0 /\ out[j].t = "mode"} /\ S(m + 1) = {j \in next .. (m + 1) : j # 0 /\ out[j].t = "mode"}
  BY DEF head, next
<1>5. \A k : ModeAt(out, k) = Max({0} \cup S(k))
  BY Zenon DEF ModeAt
<1> HIDE DEF S
<1>6. ASSUME out[m + 1].t = "head" PROVE ModeSaid(out, m + 1) = None
  <2>1. S(m + 1) = {}
    BY <1>1, <1>3, <1>4, <1>6
  <2>2. {0} \cup S(m + 1) \in SUBSET (0 .. 0) /\ {0} \cup S(m + 1) # {}
    BY <2>1
  <2>3. Max({0} \cup S(m + 1)) \in {0} \cup S(m + 1)
    BY <2>2, MaxIsGreatest
  <2>4. ModeAt(out, m + 1) = 0
    BY <1>5, <2>1, <2>3
  <2> QED BY <2>4 DEF ModeSaid
<1>7. ASSUME out[m + 1].t = "mode" PROVE ModeSaid(out, m + 1) = Announced(out[m + 1].v)
  <2> DEFINE T == {0} \cup S(m + 1)
  <2>1. m + 1 \in T
    BY <1>1, <1>3, <1>4, <1>7
  <2>2. T \in SUBSET (0 .. (m + 1)) /\ T # {}
    BY <1>1, <1>3, <1>4
  <2> HIDE DEF T
  <2>3. Max(T) \in T /\ \A k \in T : k =< Max(T)
    <3>1. m + 1 \in Nat
      BY <1>1
    <3> QED BY <2>2, <3>1, MaxIsGreatest
  <2>4. Max(T) = m + 1
    <3>1. Max(T) \in 0 .. (m + 1) /\ m + 1 =< Max(T)
      BY <2>1, <2>2, <2>3
    <3> QED BY <1>1, <3>1
  <2>5. ModeAt(out, m + 1) = m + 1 /\ m + 1 # 0
    BY <1>1, <1>5, <2>4 DEF T
  <2> QED BY <2>5 DEF ModeSaid
<1>8. ASSUME out[m + 1].t \notin {"head", "mode"} PROVE ModeSaid(out, m + 1) = ModeSaid(out, m)
  <2>1. next = head
    BY <1>3, <1>8
  <2>2. \A j \in head .. (m + 1) : j = m + 1 \/ j \in head .. m
    BY <1>1, <1>3
  <2>3. \A j \in head .. m : j \in head .. (m + 1)
    BY <1>1, <1>3
  <2>4. S(m + 1) = S(m)
    BY <1>4, <1>8, <2>1, <2>2, <2>3
  <2>5. ModeAt(out, m + 1) = ModeAt(out, m)
    BY <1>5, <2>4
  <2> QED BY <2>5 DEF ModeSaid
<1> QED BY <1>3, <1>6, <1>7, <1>8 DEF head, next

\* The lines of an interface grow by the next line if it is one.
LEMMA LinesGrow ==
  ASSUME NEW out, NEW m \in Nat, NEW n, NEW t
  PROVE  /\ LinkLines(out, n, t, m) \in SUBSET (1 .. m) /\ LinkLines(out, n, t, 0) = {}
         /\ LinkLines(out, n, t, m + 1) = IF out[m + 1].t = t /\ OfInterface(out, n, m + 1)
                                        THEN LinkLines(out, n, t, m) \cup {m + 1} ELSE LinkLines(out, n, t, m)
<1>1. 1 .. (m + 1) = (1 .. m) \cup {m + 1}
  OBVIOUS
<1>2. 1 .. 0 = {}
  OBVIOUS
<1> HIDE DEF OfInterface
<1> QED BY <1>1, <1>2 DEF LinkLines

\* What does not speak of an interface leaves its annotation.
LEMMA AnnotationStays ==
  ASSUME NEW out, NEW m \in Nat, NEW n, NEW a, IsAnnotated(a, out, n, m),
         out[m + 1].t \in {"vlan", "tunnel", "mode", "prog"} => ~ OfInterface(out, n, m + 1)
  PROVE  IsAnnotated(a, out, n, m + 1)
<1>1. ASSUME NEW t \in {"vlan", "tunnel", "mode", "prog"} PROVE LinkLines(out, n, t, m + 1) = LinkLines(out, n, t, m)
  BY LinesGrow
<1>2. PointedAt(out, n, "vlan", m + 1) = PointedAt(out, n, "vlan", m) /\ PointedAt(out, n, "tunnel", m + 1) = PointedAt(out, n, "tunnel", m)
  BY <1>1 DEF PointedAt
<1>3. LinkLines(out, n, "mode", m + 1) = LinkLines(out, n, "mode", m) /\ LinkLines(out, n, "prog", m + 1) = LinkLines(out, n, "prog", m)
  BY <1>1
<1> DEFINE modes == LinkLines(out, n, "mode", m)
           programs == LinkLines(out, n, "prog", m)
           vlan == PointedAt(out, n, "vlan", m)
           tunnel == PointedAt(out, n, "tunnel", m)
<1>4. /\ a.vlan = vlan /\ a.tunnel = tunnel /\ (a.xdp = Nil <=> modes \cup programs = {})
      /\ \A progs \in a.xdp :
         /\ Len(progs) = Cardinality(programs)
         /\ \A k \in programs : progs[Rank(programs, k)] = Program(ModeSaid(out, k), out[k])
  BY Zenon DEF IsAnnotated
<1>5. /\ PointedAt(out, n, "vlan", m + 1) = vlan /\ PointedAt(out, n, "tunnel", m + 1) = tunnel
      /\ LinkLines(out, n, "mode", m + 1) = modes /\ LinkLines(out, n, "prog", m + 1) = programs
  BY <1>2, <1>3
<1> HIDE DEF modes, programs, vlan, tunnel
<1> QED BY <1>4, <1>5 DEF IsAnnotated

\* What a line makes of an annotation.
LineAnnotates(b, a, mode, l) ==
    /\ b.vlan = IF l.t = "vlan" THEN Pointer(l.v) ELSE a.vlan
    /\ b.tunnel = IF l.t = "tunnel" THEN Pointer(l.v) ELSE a.tunnel
    /\ l.t = "mode" => b.xdp = IF a.xdp = Nil THEN {<<>>} ELSE a.xdp
    /\ l.t = "prog" => b.xdp = IF a.xdp = Nil THEN {<<Program(mode, l)>>} ELSE {Append(progs, Program(mode, l)) : progs \in a.xdp}
    /\ l.t \notin {"mode", "prog"} => b.xdp = a.xdp

\* A line of an interface adds to its annotation what it says.
LEMMA AnnotationGrows ==
  ASSUME NEW out, NEW m \in Nat, NEW n, NEW a, NEW b, NEW mode, NEW P, IsAnnotated(a, out, n, m), OfInterface(out, n, m + 1),
         LineAnnotates(b, a, mode, out[m + 1]), out[m + 1].t = "prog" => mode = ModeSaid(out, m + 1),
         a.xdp \in SUBSET Seq(P), Program(mode, out[m + 1]) \in P
  PROVE  IsAnnotated(b, out, n, m + 1)
<1> DEFINE l == out[m + 1]
           At(t) == LinkLines(out, n, t, m)
           More(t) == LinkLines(out, n, t, m + 1)
           p == Program(mode, l)
           xa == a.xdp
           xb == b.xdp
           old == At("prog")
           new == More("prog")
<1>1. \A t : /\ At(t) \in SUBSET (1 .. m)
             /\ More(t) = IF l.t = t THEN At(t) \cup {m + 1} ELSE At(t)
  BY LinesGrow
<1>2. /\ a.vlan = PointedAt(out, n, "vlan", m) /\ a.tunnel = PointedAt(out, n, "tunnel", m)
      /\ xa = Nil <=> At("mode") \cup old = {}
      /\ \A progs \in xa : Len(progs) = Cardinality(old)
                           /\ \A k \in old : progs[Rank(old, k)] = Program(ModeSaid(out, k), out[k])
  BY Zenon DEF IsAnnotated
<1>3. /\ b.vlan = IF l.t = "vlan" THEN Pointer(l.v) ELSE a.vlan
      /\ b.tunnel = IF l.t = "tunnel" THEN Pointer(l.v) ELSE a.tunnel
      /\ l.t = "mode" => xb = IF xa = Nil THEN {<<>>} ELSE xa
      /\ l.t = "prog" => xb = IF xa = Nil THEN {<<p>>} ELSE {Append(progs, p) : progs \in xa}
      /\ l.t \notin {"mode", "prog"} => xb = xa
  BY Zenon DEF LineAnnotates
<1>4. (l.t = "prog" => mode = ModeSaid(out, m + 1)) /\ xa \in SUBSET Seq(P) /\ p \in P
  OBVIOUS
<1>p. p = Program(mode, out[m + 1])
  OBVIOUS
<1>5. ASSUME NEW t PROVE PointedAt(out, n, t, m + 1) = IF l.t = t THEN Pointer(l.v) ELSE PointedAt(out, n, t, m)
  <2>1. CASE l.t = t
    <3>1. More(t) = At(t) \cup {m + 1} /\ At(t) \in SUBSET (1 .. m)
      BY <1>1, <2>1
    <3> DEFINE S == More(t)
    <3>2. S \in SUBSET (0 .. (m + 1)) /\ S # {} /\ m + 1 \in S /\ m + 1 \in Nat
      BY <3>1
    <3> HIDE DEF S
    <3>3. Max(S) \in S /\ \A k \in S : k =< Max(S)
      BY <3>2, MaxIsGreatest
    <3>4. Max(S) = m + 1
      <4>1. Max(S) \in 0 .. (m + 1) /\ m + 1 =< Max(S)
        BY <3>2, <3>3
      <4> QED BY <4>1
    <3> QED BY <2>1, <3>2, <3>4 DEF PointedAt, S
  <2>2. CASE l.t # t
    <3>1. More(t) = At(t)
      BY <1>1, <2>2
    <3> QED BY <2>2, <3>1 DEF PointedAt
  <2> QED BY <2>1, <2>2
<1>6. b.vlan = PointedAt(out, n, "vlan", m + 1) /\ b.tunnel = PointedAt(out, n, "tunnel", m + 1)
  BY <1>2, <1>3, <1>5
<1>o. old \in SUBSET (1 .. m) /\ new = (IF l.t = "prog" THEN old \cup {m + 1} ELSE old)
  BY <1>1
<1>n. More("mode") = IF l.t = "mode" THEN At("mode") \cup {m + 1} ELSE At("mode")
  BY <1>1
<1>c. Cardinality({}) = 0
  BY FS_EmptySet
<1> HIDE DEF p, xa, xb, old, new, l, At, More
<1>7. xb = Nil <=> More("mode") \cup new = {}
  <2>1. CASE l.t = "mode"
    <3>1. xb # Nil
      BY <1>3, <2>1 DEF Nil
    <3> QED BY <1>n, <2>1, <3>1
  <2>2. CASE l.t = "prog"
    <3>1. xb # Nil
      BY <1>3, <2>2 DEF Nil
    <3> QED BY <1>o, <2>2, <3>1
  <2>3. CASE l.t \notin {"mode", "prog"}
    BY <1>2, <1>3, <1>n, <1>o, <2>3
  <2> QED BY <2>1, <2>2, <2>3
<1>8. ASSUME NEW progs \in xb
      PROVE Len(progs) = Cardinality(new) /\ \A k \in new : progs[Rank(new, k)] = Program(ModeSaid(out, k), out[k])
  <2>1. CASE l.t = "mode"
    <3>1. new = old
      BY <1>o, <2>1
    <3>2. CASE xa = Nil
      <4>1. old = {} /\ progs = <<>>
        BY <1>2, <1>3, <1>8, <2>1, <3>2
      <4>2. Len(progs) = 0
        BY <4>1
      <4> QED BY <1>c, <3>1, <4>1, <4>2
    <3>3. CASE xa # Nil
      <4>1. progs \in xa
        BY <1>3, <1>8, <2>1, <3>3
      <4> QED BY <1>2, <3>1, <4>1
    <3> QED BY <3>2, <3>3
  <2>2. CASE l.t = "prog"
    <3>1. new = old \cup {m + 1} /\ \A k \in old : k # m + 1
      BY <1>o, <2>2
    <3>2. /\ Cardinality(new) = Cardinality(old) + 1 /\ Rank(new, m + 1) = Cardinality(old) + 1
          /\ \A k \in old : Rank(new, k) = Rank(old, k)
      <4>1. /\ Cardinality(old \cup {m + 1}) = Cardinality(old) + 1 /\ Rank(old \cup {m + 1}, m + 1) = Cardinality(old) + 1
            /\ \A k \in old : Rank(old \cup {m + 1}, k) = Rank(old, k)
        BY <1>o, RankGrows
      <4> QED BY <3>1, <4>1
    <3>3. Program(ModeSaid(out, m + 1), out[m + 1]) = p
      BY <1>4, <1>p, <2>2
    <3>4. CASE xa = Nil
      <4>1. old = {} /\ progs = <<p>>
        BY <1>2, <1>3, <1>8, <2>2, <3>4
      <4>2. Len(progs) = 1 /\ progs[1] = p
        BY <4>1
      <4>3. new = {m + 1} /\ Cardinality(new) = 1 /\ Rank(new, m + 1) = 1
        BY <1>c, <3>1, <3>2, <4>1
      <4> QED BY <3>3, <4>2, <4>3
    <3>5. CASE xa # Nil
      <4>1. PICK before \in xa : progs = Append(before, p)
        BY <1>3, <1>8, <2>2, <3>5
      <4>2. before \in Seq(P) /\ Len(before) = Cardinality(old)
            /\ \A k \in old : before[Rank(old, k)] = Program(ModeSaid(out, k), out[k])
        BY <1>2, <1>4, <4>1
      <4>3. /\ Len(before) \in Nat /\ Len(progs) = Len(before) + 1 /\ progs[Len(before) + 1] = p
            /\ \A i \in 1 .. Len(before) : progs[i] = before[i]
        BY <1>4, <4>1, <4>2, AppendAdds
      <4>4. \A k \in old : Rank(old, k) \in 1 .. Cardinality(old)
        BY <1>o, RanksCount
      <4>5. ASSUME NEW k \in old PROVE progs[Rank(new, k)] = Program(ModeSaid(out, k), out[k])
        BY <3>2, <4>2, <4>3, <4>4
      <4>6. progs[Rank(new, m + 1)] = Program(ModeSaid(out, m + 1), out[m + 1])
        BY <3>2, <3>3, <4>2, <4>3
      <4> QED BY <3>1, <3>2, <4>2, <4>3, <4>5, <4>6
    <3> QED BY <3>4, <3>5
  <2>3. CASE l.t \notin {"mode", "prog"}
    <3>1. new = old /\ progs \in xa
      BY <1>3, <1>8, <1>o, <2>3
    <3> QED BY <1>2, <3>1
  <2> QED BY <2>1, <2>2, <2>3
<1> QED BY <1>6, <1>7, <1>8 DEF IsAnnotated, xb, new, More

\* The annotations that lines make, and what is read of them.
AnnotationSet(V, P) == [vlan : {Nil} \cup {{v} : v \in V}, tunnel : {Nil} \cup {{v} : v \in V}, xdp : SUBSET Seq(P)]
Modes(V) == {None} \cup V \cup {Announced(v) : v \in V}
Programs(V, I) == [mode : Modes(V), id : I]
LinkStates(V, I) == [name : {None} \cup V, mode : Modes(V), ann : Maps(V, AnnotationSet(V, Programs(V, I)))]

\* A line makes an annotation out of one, and changes what it is about only.
LEMMA AnnotationIsMade ==
  ASSUME NEW V, NEW P, NEW a \in AnnotationSet(V, P), NEW mode, NEW l, l.v \in V, Program(mode, l) \in P
  PROVE  Annotate(a, mode, l) \in AnnotationSet(V, P) /\ LineAnnotates(Annotate(a, mode, l), a, mode, l)
<1> DEFINE b == Annotate(a, mode, l)
           p == Program(mode, l)
           at == Pointer(l.v)
           W == {Nil} \cup {{v} : v \in V}
           Q == Seq(P)
           modes == IF a.xdp = Nil THEN {<<>>} ELSE a.xdp
           progs == IF a.xdp = Nil THEN {<<p>>} ELSE {Append(x, p) : x \in a.xdp}
<1>1. a = [vlan |-> a.vlan, tunnel |-> a.tunnel, xdp |-> a.xdp] /\ a.vlan \in W /\ a.tunnel \in W /\ a.xdp \in SUBSET Q
  BY DEF AnnotationSet
<1>2. at \in W
  BY DEF Pointer
<1>3. modes \in SUBSET Q
  BY <1>1
<1>4. progs \in SUBSET Q
  <2>1. p \in P
    OBVIOUS
  <2> HIDE DEF p
  <2>2. <<p>> \in Q /\ \A x \in Q : Append(x, p) \in Q
    BY <2>1
  <2> HIDE DEF Q
  <2> QED BY <1>1, <2>2
<1>5. /\ l.t = "vlan" => b = [a EXCEPT !.vlan = at]
      /\ l.t = "tunnel" => b = [a EXCEPT !.tunnel = at]
      /\ l.t \notin {"vlan", "tunnel", "mode", "prog"} => b = a
  BY DEF Annotate
<1>6. l.t = "mode" => b = [a EXCEPT !.xdp = modes]
  BY DEF Annotate
<1>7. l.t = "prog" => b = [a EXCEPT !.xdp = progs]
  <2>1. ASSUME l.t = "prog" PROVE b = [a EXCEPT !.xdp = IF @ = Nil THEN {<<p>>} ELSE {Append(x, p) : x \in @}]
    BY <2>1 DEF Annotate
  <2> HIDE DEF b, p
  <2> QED BY <2>1
<1> HIDE DEF b, at, W, Q, modes, progs
<1>8. CASE l.t = "vlan"
  <2>1. b = [vlan |-> at, tunnel |-> a.tunnel, xdp |-> a.xdp]
    BY <1>1, <1>5, <1>8
  <2>2. b \in AnnotationSet(V, P)
    BY <1>1, <1>2, <2>1 DEF AnnotationSet, W, Q
  <2>3. b.vlan = at /\ b.tunnel = a.tunnel /\ b.xdp = a.xdp
    BY <2>1
  <2> QED BY <1>8, <2>2, <2>3 DEF LineAnnotates, at, b
<1>9. CASE l.t = "tunnel"
  <2>1. b = [vlan |-> a.vlan, tunnel |-> at, xdp |-> a.xdp]
    BY <1>1, <1>5, <1>9
  <2>2. b \in AnnotationSet(V, P)
    BY <1>1, <1>2, <2>1 DEF AnnotationSet, W, Q
  <2>3. b.vlan = a.vlan /\ b.tunnel = at /\ b.xdp = a.xdp
    BY <2>1
  <2> QED BY <1>9, <2>2, <2>3 DEF LineAnnotates, at, b
<1>10. CASE l.t = "mode"
  <2>1. b = [vlan |-> a.vlan, tunnel |-> a.tunnel, xdp |-> modes]
    BY <1>1, <1>6, <1>10
  <2>2. b \in AnnotationSet(V, P)
    BY <1>1, <1>3, <2>1 DEF AnnotationSet, W, Q
  <2>3. b.vlan = a.vlan /\ b.tunnel = a.tunnel /\ b.xdp = modes
    BY <2>1
  <2> QED BY <1>10, <2>2, <2>3 DEF LineAnnotates, modes, b
<1>11. CASE l.t = "prog"
  <2>1. b = [vlan |-> a.vlan, tunnel |-> a.tunnel, xdp |-> progs]
    BY <1>1, <1>7, <1>11
  <2>2. b \in AnnotationSet(V, P)
    BY <1>1, <1>4, <2>1 DEF AnnotationSet, W, Q
  <2>3. b.vlan = a.vlan /\ b.tunnel = a.tunnel /\ b.xdp = progs
    BY <2>1
  <2> QED BY <1>11, <2>2, <2>3 DEF LineAnnotates, progs, b
<1>12. CASE l.t \notin {"vlan", "tunnel", "mode", "prog"}
  <2>1. b = a
    BY <1>5, <1>12
  <2> QED BY <1>12, <2>1 DEF LineAnnotates, b
<1> QED BY <1>8, <1>9, <1>10, <1>11, <1>12

\* What has been read of an interface so far.
EntryOf(ann, n) == IF n \in DOMAIN ann THEN ann[n] ELSE NoAnnotation

\* What a line makes of what has been read.
LinkMoved(t, s, l) ==
    /\ l.t = "head" => t.name = l.v /\ t.mode = None /\ t.ann = s.ann
    /\ l.t # "head" /\ s.name = None => t = s
    /\ l.t # "head" /\ s.name # None =>
         /\ t.name = s.name /\ t.mode = (IF l.t = "mode" THEN Announced(l.v) ELSE s.mode)
         /\ t.ann = Put(s.ann, s.name, Annotate(EntryOf(s.ann, s.name), s.mode, l))

\* A program of a line is of the type of programs.
LEMMA ProgramIsOne ==
  ASSUME NEW V, NEW I, NEW mode \in Modes(V), NEW l, l.v \in V, l.id \in I
  PROVE  Program(mode, l) \in Programs(V, I)
BY DEF Program, Programs, Modes

\* An entry, or what stands for none, is an annotation.
LEMMA EntriesAreAnnotations ==
  ASSUME NEW V, NEW P, NEW ann \in Maps(V, AnnotationSet(V, P)), NEW n
  PROVE  EntryOf(ann, n) \in AnnotationSet(V, P)
<1>1. NoAnnotation \in AnnotationSet(V, P)
  BY DEF NoAnnotation, AnnotationSet, Nil
<1>2. PICK D \in SUBSET V : ann \in [D -> AnnotationSet(V, P)]
  BY DEF Maps
<1> HIDE DEF AnnotationSet
<1> QED BY <1>1, <1>2 DEF EntryOf

\* A line of ip -d link changes the entry of its block only.
LEMMA LinkLineMoves ==
  ASSUME NEW V, NEW I, NEW s \in LinkStates(V, I), NEW l, l.v \in V, l.id \in I
  PROVE  ReadLinkLine(s, l) \in LinkStates(V, I) /\ LinkMoved(ReadLinkLine(s, l), s, l)
<1> DEFINE t == ReadLinkLine(s, l)
           P == Programs(V, I)
           A == AnnotationSet(V, P)
           M == Modes(V)
           maps == Maps(V, A)
           entry == EntryOf(s.ann, s.name)
           more == Annotate(entry, s.mode, l)
           put == Put(s.ann, s.name, more)
           mode == IF l.t = "mode" THEN Announced(l.v) ELSE s.mode
<1>1. s = [name |-> s.name, mode |-> s.mode, ann |-> s.ann] /\ s.name \in {None} \cup V /\ s.mode \in M /\ s.ann \in maps
  BY DEF LinkStates
<1>2. None \in M /\ mode \in M
  BY <1>1 DEF Modes
<1>3. more \in A
  <2>1. Program(s.mode, l) \in P
    BY <1>1, ProgramIsOne
  <2>2. entry \in A
    BY <1>1, EntriesAreAnnotations
  <2> HIDE DEF P, A, entry
  <2>3. Annotate(entry, s.mode, l) \in AnnotationSet(V, P)
    BY <2>1, <2>2, AnnotationIsMade DEF A
  <2> QED BY <2>3 DEF A
<1> HIDE DEF P, A, M, entry, mode, more
<1>4. s.name # None => put \in maps
  BY <1>1, <1>3, PutIsMap
<1>5. /\ l.t = "head" => t = [s EXCEPT !.name = l.v, !.mode = None]
      /\ l.t # "head" /\ s.name = None => t = s
  BY DEF ReadLinkLine, ParseHead
<1>6. l.t # "head" /\ s.name # None => t = [s EXCEPT !.mode = mode, !.ann = put]
  <2>1. ASSUME l.t # "head", s.name # None
        PROVE t = [s EXCEPT !.mode = IF l.t = "mode" THEN Announced(l.v) ELSE @, !.ann = Put(@, s.name, more)]
    BY <2>1 DEF ReadLinkLine, EntryOf, entry, more
  <2>2. ASSUME l.t # "head", s.name # None PROVE t = [s EXCEPT !.mode = IF l.t = "mode" THEN Announced(l.v) ELSE s.mode, !.ann = Put(s.ann, s.name, more)]
    <3> HIDE DEF t
    <3> QED BY <1>1, <2>1, <2>2
  <2> HIDE DEF t, put
  <2> QED BY <2>2 DEF put, mode
<1> HIDE DEF t, put, maps
<1>7. CASE l.t = "head"
  <2>1. t = [name |-> l.v, mode |-> None, ann |-> s.ann]
    BY <1>1, <1>5, <1>7
  <2>2. t \in LinkStates(V, I)
    BY <1>1, <1>2, <2>1 DEF LinkStates, M, maps, A, P
  <2>3. t.name = l.v /\ t.mode = None /\ t.ann = s.ann
    BY <2>1
  <2> QED BY <1>7, <2>2, <2>3 DEF LinkMoved, t
<1>8. CASE l.t # "head" /\ s.name = None
  BY <1>5, <1>8 DEF LinkMoved, t
<1>9. CASE l.t # "head" /\ s.name # None
  <2>1. t = [name |-> s.name, mode |-> mode, ann |-> put]
    BY <1>1, <1>6, <1>9
  <2>2. t \in LinkStates(V, I)
    BY <1>1, <1>2, <1>4, <1>9, <2>1 DEF LinkStates, M, maps, A, P
  <2>3. t.name = s.name /\ t.mode = mode /\ t.ann = put
    BY <2>1
  <2> QED BY <1>9, <2>2, <2>3 DEF LinkMoved, t, put, mode, more, entry
<1> QED BY <1>7, <1>8, <1>9

\* What has been read of the annotations after m lines.
LinkInv(s, out, m) ==
    /\ s.name = IF HeadAt(out, m) = 0 THEN None ELSE out[HeadAt(out, m)].v
    /\ s.name # None => s.mode = ModeSaid(out, m)
    /\ \A n : n # None => IsAnnotated(EntryOf(s.ann, n), out, n, m)

\* That goes from one line to the next.
LEMMA AnnotationsGoOn ==
  ASSUME NEW out, NEW N \in Nat, DOMAIN out = 1 .. N, NEW m \in 0 .. N, m < N, NEW V, NEW I, NEW s \in LinkStates(V, I),
         out[m + 1].v \in V, out[m + 1].id \in I, LinkInv(s, out, m)
  PROVE  LinkInv(ReadLinkLine(s, out[m + 1]), out, m + 1)
<1> DEFINE l == out[m + 1]
           t == ReadLinkLine(s, l)
           head == HeadAt(out, m)
           next == HeadAt(out, m + 1)
<1>1. m \in Nat /\ m + 1 # 0
  OBVIOUS
<1>2. /\ head \in 0 .. m /\ next = IF l.t = "head" THEN m + 1 ELSE head
      /\ l.t = "head" => ModeSaid(out, m + 1) = None
      /\ l.t = "mode" => ModeSaid(out, m + 1) = Announced(l.v)
      /\ l.t \notin {"head", "mode"} => ModeSaid(out, m + 1) = ModeSaid(out, m)
  BY BlocksMove
<1>3. /\ s.name = IF head = 0 THEN None ELSE out[head].v
      /\ s.name # None => s.mode = ModeSaid(out, m)
      /\ \A n : n # None => IsAnnotated(EntryOf(s.ann, n), out, n, m)
  BY Zenon DEF LinkInv
<1>4. LinkMoved(t, s, l)
  <2> HIDE DEF l
  <2>1. l.v \in V /\ l.id \in I
    BY DEF l
  <2> QED BY <2>1, LinkLineMoves
<1>5. \A n : OfInterface(out, n, m + 1) <=> next # 0 /\ out[next].v = n
  BY DEF OfInterface
<1>6. s.name \in {None} \cup V /\ s.mode \in Modes(V) /\ s.ann \in Maps(V, AnnotationSet(V, Programs(V, I)))
  BY DEF LinkStates
<1>l. l = out[m + 1]
  OBVIOUS
<1>v. l.v \in V /\ l.id \in I
  OBVIOUS
<1> HIDE DEF l, t, head, next
<1>7. CASE l.t = "head"
  <2>1. t.name = l.v /\ t.mode = None /\ t.ann = s.ann
    BY <1>4, <1>7 DEF LinkMoved
  <2>2. t.name = (IF next = 0 THEN None ELSE out[next].v) /\ t.mode = ModeSaid(out, m + 1)
    BY <1>1, <1>2, <1>7, <1>l, <2>1
  <2>3. ASSUME NEW n, n # None PROVE IsAnnotated(EntryOf(t.ann, n), out, n, m + 1)
    <3>1. out[m + 1].t \notin {"vlan", "tunnel", "mode", "prog"}
      BY <1>7, <1>l
    <3> DEFINE a == EntryOf(s.ann, n)
    <3>2. IsAnnotated(a, out, n, m)
      BY <1>3, <2>3
    <3> HIDE DEF a
    <3>3. IsAnnotated(a, out, n, m + 1)
      BY <1>1, <3>1, <3>2, AnnotationStays
    <3> QED BY <2>1, <3>3 DEF a
  <2> QED BY <2>2, <2>3 DEF LinkInv, t, next, l
<1>8. CASE l.t # "head" /\ s.name = None
  <2>1. t = s
    BY <1>4, <1>8 DEF LinkMoved
  <2>2. next = head
    BY <1>2, <1>8
  <2>3. ASSUME NEW n, n # None PROVE IsAnnotated(EntryOf(t.ann, n), out, n, m + 1)
    <3>1. ~ OfInterface(out, n, m + 1)
      BY <1>3, <1>5, <1>8, <2>2, <2>3
    <3> DEFINE a == EntryOf(s.ann, n)
    <3>2. IsAnnotated(a, out, n, m)
      BY <1>3, <2>3
    <3> HIDE DEF a
    <3>3. IsAnnotated(a, out, n, m + 1)
      BY <1>1, <3>1, <3>2, AnnotationStays
    <3> QED BY <2>1, <3>3 DEF a
  <2>4. t.name = (IF next = 0 THEN None ELSE out[next].v) /\ t.name = None
    BY <1>3, <1>8, <2>1, <2>2
  <2> QED BY <2>3, <2>4 DEF LinkInv, t, next, l
<1>9. CASE l.t # "head" /\ s.name # None
  <2> DEFINE entry == EntryOf(s.ann, s.name)
             more == Annotate(entry, s.mode, l)
  <2>1. t.name = s.name /\ t.mode = (IF l.t = "mode" THEN Announced(l.v) ELSE s.mode) /\ t.ann = Put(s.ann, s.name, more)
    BY <1>4, <1>9 DEF LinkMoved
  <2>2. next = head /\ head # 0 /\ s.name = out[head].v
    BY <1>2, <1>3, <1>9
  <2>3. t.name = (IF next = 0 THEN None ELSE out[next].v) /\ t.mode = ModeSaid(out, m + 1)
    BY <1>2, <1>3, <1>9, <2>1, <2>2
  <2>4. IsAnnotated(more, out, s.name, m + 1)
    <3> DEFINE P == Programs(V, I)
               name == s.name
               mode == s.mode
    <3>1. entry \in AnnotationSet(V, P)
      BY <1>6, EntriesAreAnnotations
    <3>2. Program(mode, l) \in P
      BY <1>6, <1>v, ProgramIsOne
    <3>3. IsAnnotated(entry, out, name, m)
      BY <1>3, <1>9
    <3>4. OfInterface(out, name, m + 1)
      BY <1>5, <2>2
    <3>5. l.t = "prog" => mode = ModeSaid(out, m + 1)
      BY <1>2, <1>3, <1>9
    <3> HIDE DEF P, name, mode, entry
    <3>6. LineAnnotates(Annotate(entry, mode, l), entry, mode, l)
      BY <1>v, <3>1, <3>2, AnnotationIsMade
    <3>7. entry.xdp \in SUBSET Seq(P)
      BY <3>1 DEF AnnotationSet
    <3> DEFINE b == Annotate(entry, mode, l)
    <3>8. LineAnnotates(b, entry, mode, out[m + 1]) /\ Program(mode, out[m + 1]) \in P /\ (out[m + 1].t = "prog" => mode = ModeSaid(out, m + 1))
      BY <1>l, <3>2, <3>5, <3>6
    <3> HIDE DEF b
    <3>9. IsAnnotated(b, out, name, m + 1)
      BY <1>1, <3>3, <3>4, <3>7, <3>8, AnnotationGrows
    <3> QED BY <3>9 DEF b, name, mode
  <2> HIDE DEF more
  <2>5. EntryOf(t.ann, s.name) = more /\ \A n : n # s.name => EntryOf(t.ann, n) = EntryOf(s.ann, n)
    <3> DEFINE put == Put(s.ann, s.name, more)
    <3>1. DOMAIN put = DOMAIN s.ann \cup {s.name} /\ put[s.name] = more /\ \A n \in DOMAIN s.ann : n # s.name => put[n] = s.ann[n]
      BY DEF Put
    <3> HIDE DEF put
    <3>2. t.ann = put
      BY <2>1 DEF put
    <3> QED BY <3>1, <3>2 DEF EntryOf
  <2>6. ASSUME NEW n, n # None PROVE IsAnnotated(EntryOf(t.ann, n), out, n, m + 1)
    <3>1. CASE n = s.name
      BY <2>4, <2>5, <3>1
    <3>2. CASE n # s.name
      <4>1. ~ OfInterface(out, n, m + 1)
        BY <1>5, <2>2, <3>2
      <4> DEFINE a == EntryOf(s.ann, n)
      <4>2. IsAnnotated(a, out, n, m)
        BY <1>3, <2>6
      <4> HIDE DEF a
      <4>3. IsAnnotated(a, out, n, m + 1)
        BY <1>1, <4>1, <4>2, AnnotationStays
      <4>4. EntryOf(t.ann, n) = a
        BY <2>5, <3>2 DEF a
      <4> QED BY <4>3, <4>4
    <3> QED BY <3>1, <3>2
  <2> QED BY <2>3, <2>6 DEF LinkInv, t, next, l
<1> QED BY <1>7, <1>8, <1>9

\* Before any line nothing is said.
LEMMA NothingIsAnnotated == ASSUME NEW out, NEW n PROVE IsAnnotated(NoAnnotation, out, n, 0)
<1>1. \A t : LinkLines(out, n, t, 0) = {}
  BY LinesGrow
<1>2. \A t : PointedAt(out, n, t, 0) = Nil
  BY <1>1 DEF PointedAt
<1>3. NoAnnotation.vlan = Nil /\ NoAnnotation.tunnel = Nil /\ NoAnnotation.xdp = Nil
  BY DEF NoAnnotation
<1>4. \A x \in Nil : FALSE
  BY DEF Nil
<1> QED BY <1>1, <1>2, <1>3, <1>4 DEF IsAnnotated

\* Every interface is annotated with what all lines say of it.
LEMMA AnnotationsAreRead ==
  ASSUME NEW out, IsSeq(out), NEW n, n # None
  PROVE  IsAnnotated(EntryOf(ParseIPLink(out), n), out, n, Len(out))
<1> DEFINE N == Len(out)
           V == {out[k].v : k \in 1 .. N}
           I == {out[k].id : k \in 1 .. N}
           S == LinkStates(V, I)
           start == [name |-> None, mode |-> None, ann |-> Empty]
           parsed == ParseIPLink(out)
<1>1. N \in Nat /\ DOMAIN out = 1 .. N
  BY LenProperties DEF IsSeq
<1> HIDE DEF N
<1>2. \A k \in 1 .. N : out[k].v \in V /\ out[k].id \in I
  OBVIOUS
<1> HIDE DEF V, I
<1>3. start \in S
  <2>1. Empty \in Maps(V, AnnotationSet(V, Programs(V, I)))
    BY EmptyIsMap
  <2>2. None \in Modes(V)
    BY DEF Modes
  <2> QED BY <2>1, <2>2 DEF LinkStates
<1>4. ASSUME NEW s \in S, NEW k \in 1 .. N PROVE ReadLinkLine(s, out[k]) \in S
  <2> DEFINE l == out[k]
  <2>1. l.v \in V /\ l.id \in I
    BY <1>2
  <2> HIDE DEF l
  <2>2. ReadLinkLine(s, l) \in S
    BY <2>1, LinkLineMoves
  <2> QED BY <2>2 DEF l
<1>5. start.name = None /\ start.ann = Empty
  OBVIOUS
<1> HIDE DEF S, start
<1>6. PICK h : LinkTrace(start, out, N, S, h)
  BY <1>1, <1>3, <1>4, LinkFold
<1>7. /\ h \in [0 .. N -> S] /\ h[0] = start /\ FoldLeft(ReadLinkLine, start, out) = h[N]
      /\ \A k \in 1 .. N : h[k] = ReadLinkLine(h[k - 1], out[k])
  BY <1>6, Zenon DEF LinkTrace
<1> DEFINE A == {m \in 0 .. N : LinkInv(h[m], out, m)}
<1>8. 0 \in A
  <2>1. HeadAt(out, 0) = 0
    <3>1. {j \in 1 .. 0 : out[j].t = "head"} = {}
      OBVIOUS
    <3>2. {0} \cup {j \in 1 .. 0 : out[j].t = "head"} = {0}
      BY <3>1
    <3>3. Max({0}) = 0
      <4>1. 0 \in Nat /\ {0} \in SUBSET (0 .. 0) /\ {0} # {}
        OBVIOUS
      <4>2. Max({0}) \in {0}
        BY <4>1, MaxIsGreatest
      <4> QED BY <4>2
    <3> QED BY <3>2, <3>3, Zenon DEF HeadAt
  <2>2. \A x : EntryOf(Empty, x) = NoAnnotation
    BY EmptyIsMap DEF EntryOf
  <2>3. LinkInv(start, out, 0)
    BY <1>5, <2>1, <2>2, NothingIsAnnotated DEF LinkInv
  <2> QED BY <1>1, <1>7, <2>3
<1>9. ASSUME NEW m \in 0 .. N, m \in A, m < N PROVE m + 1 \in A
  <2>1. m + 1 \in 1 .. N /\ m + 1 \in 0 .. N /\ (m + 1) - 1 = m
    BY <1>1, <1>9
  <2> DEFINE s == h[m]
  <2>2. h[m + 1] = ReadLinkLine(s, out[m + 1]) /\ s \in S
    <3>1. h[m + 1] = ReadLinkLine(h[(m + 1) - 1], out[m + 1])
      BY <1>7, <2>1, Zenon
    <3> QED BY <1>7, <2>1, <3>1
  <2>3. LinkInv(s, out, m)
    BY <1>9
  <2>4. out[m + 1].v \in V /\ out[m + 1].id \in I
    BY <1>2, <2>1
  <2> HIDE DEF s
  <2>5. LinkInv(ReadLinkLine(s, out[m + 1]), out, m + 1)
    BY <1>1, <1>9, <2>2, <2>3, <2>4, AnnotationsGoOn DEF S
  <2> QED BY <2>1, <2>2, <2>5
<1>10. N \in A
  <2> HIDE DEF A
  <2>1. N \in 0 .. N
    BY <1>1
  <2> QED BY <1>1, <1>8, <1>9, <2>1, Induction
<1>11. IsAnnotated(EntryOf(h[N].ann, n), out, n, N)
  BY <1>10 DEF LinkInv
<1> DEFINE ann == h[N].ann
<1>12. parsed = [x \in {x \in DOMAIN ann : ann[x] # NoAnnotation} |-> ann[x]]
  <2>1. FoldLeft(ReadLinkLine, [name |-> None, mode |-> None, ann |-> Empty], out) = h[N]
    BY <1>7 DEF start
  <2> QED BY <2>1, Zenon DEF ParseIPLink
<1> HIDE DEF ann, parsed
<1>13. EntryOf(parsed, n) = EntryOf(ann, n)
  <2>1. DOMAIN parsed = {x \in DOMAIN ann : ann[x] # NoAnnotation} /\ \A x \in DOMAIN parsed : parsed[x] = ann[x]
    BY <1>12
  <2> QED BY <2>1 DEF EntryOf
<1> QED BY <1>11, <1>13 DEF ann, parsed, N

\* An interface has the annotations of its own blocks, on any host.
THEOREM AnnotationsStayInTheirBlockHolds == Spec => []AnnotationsStayInTheirBlock
<1>1. ASSUME ReportsAreOfHosts, Collected("network"), ~ host.darwin, host.link.ok, NEW i \in Range(Net.ifaces)
      PROVE  LET out == host.link.out
                 HeadOf(k) == Max({0} \cup {j \in 1..k : out[j].t = "head"})
                 ModeOf(k) == Max({0} \cup {j \in HeadOf(k)..k : j # 0 /\ out[j].t = "mode"})
                 Of(n, t) == {k \in DOMAIN out : out[k].t = t /\ HeadOf(k) # 0 /\ out[HeadOf(k)].v = n}
                 Pointed(n, t) == IF Of(n, t) = {} THEN Nil ELSE Pointer(out[Max(Of(n, t))].v)
             IN /\ i.vlan = Pointed(i.name, "vlan") /\ i.tunnel = Pointed(i.name, "tunnel")
                /\ i.xdp = Nil <=> Of(i.name, "mode") \cup Of(i.name, "prog") = {}
                /\ \A progs \in i.xdp :
                    /\ Len(progs) = Cardinality(Of(i.name, "prog"))
                    /\ \A k \in Of(i.name, "prog") :
                        progs[Rank(Of(i.name, "prog"), k)] =
                            Program(IF ModeOf(k) = 0 THEN None ELSE Announced(out[ModeOf(k)].v), out[k])
  <2> DEFINE out == host.link.out
             ifs == MergedInterfaces(host)
             N == Len(out)
             a == EntryOf(ParseIPLink(out), i.name)
  <2>1. NetworkHostOK(host) /\ Net.ifaces = NetworkInterfaces(host)
    BY <1>1, NetworkOfHost
  <2>2. PICK r \in DOMAIN ifs : i = NetworkInterfaces(host)[r] /\ IsNetworkInterface(host, i, ifs[r])
    BY <1>1, <2>1, InterfacesAreReported DEF Range
  <2>3. i.name = ifs[r].name /\ i.name # None
    BY <2>1, <2>2, InterfacesAreMerged DEF IsMerged, IsBare, IsNetworkInterface
  <2>4. AnnotationOf(host, i.name) = a
    BY <1>1, Zenon DEF AnnotationOf, EntryOf
  <2>5. i.vlan = a.vlan /\ i.tunnel = a.tunnel /\ i.xdp = a.xdp
    BY <2>2, <2>3, <2>4 DEF IsNetworkInterface
  <2>6. IsSeq(out)
    BY <1>1, <2>1 DEF NetworkHostOK, ListOf
  <2>7. DOMAIN out = 1 .. N
    BY <2>6, LenProperties DEF IsSeq
  <2>8. IsAnnotated(a, out, i.name, N)
    BY <2>3, <2>6, AnnotationsAreRead
  <2> HIDE DEF a, N, out
  <2>9. /\ i.vlan = PointedAt(out, i.name, "vlan", N) /\ i.tunnel = PointedAt(out, i.name, "tunnel", N)
        /\ i.xdp = Nil <=> LinkLines(out, i.name, "mode", N) \cup LinkLines(out, i.name, "prog", N) = {}
        /\ \A progs \in i.xdp :
             /\ Len(progs) = Cardinality(LinkLines(out, i.name, "prog", N))
             /\ \A k \in LinkLines(out, i.name, "prog", N) :
                  progs[Rank(LinkLines(out, i.name, "prog", N), k)] = Program(ModeSaid(out, k), out[k])
    BY <2>5, <2>8 DEF IsAnnotated
  <2> DEFINE Of(n, t) == {k \in DOMAIN out : out[k].t = t /\ HeadAt(out, k) # 0 /\ out[HeadAt(out, k)].v = n}
  <2>10. \A t : LinkLines(out, i.name, t, N) = Of(i.name, t)
    BY <2>7 DEF LinkLines, OfInterface
  <2>11. \A t : PointedAt(out, i.name, t, N) = IF Of(i.name, t) = {} THEN Nil ELSE Pointer(out[Max(Of(i.name, t))].v)
    BY <2>10, Zenon DEF PointedAt
  <2> HIDE DEF Of
  <2>12. /\ i.vlan = (IF Of(i.name, "vlan") = {} THEN Nil ELSE Pointer(out[Max(Of(i.name, "vlan"))].v))
         /\ i.tunnel = (IF Of(i.name, "tunnel") = {} THEN Nil ELSE Pointer(out[Max(Of(i.name, "tunnel"))].v))
         /\ i.xdp = Nil <=> Of(i.name, "mode") \cup Of(i.name, "prog") = {}
         /\ \A progs \in i.xdp :
              /\ Len(progs) = Cardinality(Of(i.name, "prog"))
              /\ \A k \in Of(i.name, "prog") : progs[Rank(Of(i.name, "prog"), k)] = Program(ModeSaid(out, k), out[k])
    BY <2>9, <2>10, <2>11
  <2> QED BY <2>12, Zenon DEF Of, HeadAt, ModeSaid, ModeAt, out
<1>2. ReportsAreOfHosts => AnnotationsStayInTheirBlock
  BY <1>1, Zenon DEF AnnotationsStayInTheirBlock
<1> QED BY <1>2, ReportersInvHolds, PTL

\* What the network collector reports is what the commands it asks say together, on any host.
THEOREM NetworkIsWholeHolds == Spec => []NetworkIsWhole
BY DefaultIsOneRouteHolds, RoutesAreCompleteHolds, EthtoolCallsAreIndependentHolds, AnnotationsStayInTheirBlockHolds,
   AddressesReachTheirInterfaceHolds, PTL DEF NetworkIsWhole
=============================================================================
