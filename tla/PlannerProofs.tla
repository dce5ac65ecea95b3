---------------------------- MODULE PlannerProofs ----------------------------
(***************************************************************************)
(* What Planner computes, for every registry and every request.            *)
(***************************************************************************)
EXTENDS Planner, FiniteSetTheorems, SequenceTheorems, TLAPS

----------------------------------------------------------------------------
\* The inductive invariant.

\* The visit has marked only what the request needs (it stays inside every
\* closed set around the request), and still has on its list whatever keeps
\* the marked names from being closed.
VisitInv ==
    /\ Range(request) \subseteq wanted \cup Range(todo)
    /\ \A n \in wanted : Range(deps[n]) \subseteq wanted \cup Range(todo)
    /\ \A C \in SUBSET Names :
          Range(request) \subseteq C /\ Closed(deps, C) => wanted \cup Range(todo) \subseteq C
    /\ Expanded => todo = <<>>
    /\ pc = "unknown" => todo # <<>> /\ Head(todo) \notin DOMAIN deps

\* What the peeling keeps true of the levels found so far: a name waits for
\* names of lower levels only, and of one on the level just below.
LevelsInv ==
    /\ \A j, k \in DOMAIN levels : j # k => levels[j] \cap levels[k] = {}
    /\ \A k \in DOMAIN levels : levels[k] # {}
    /\ \A k \in DOMAIN levels : \A n \in levels[k] : \A m \in Declared(deps, n) :
          \E j \in DOMAIN levels : j < k /\ m \in levels[j]
    /\ \A k \in DOMAIN levels : k > 1 =>
          \A n \in levels[k] : \E m \in Declared(deps, n) : m \in levels[k - 1]
    /\ levels # <<>> =>
          \A n \in DOMAIN indeg : \E m \in Declared(deps, n) :
              m \in DOMAIN indeg \/ m \in levels[Len(levels)]
    /\ Len(levels) + Cardinality(DOMAIN indeg) <= Cardinality(wanted)

\* Names that wait for each other are never placed.
KnotInv ==
    /\ \A K \in SUBSET wanted : Knot(deps, K) => K \subseteq DOMAIN indeg
    /\ pc = "cycle" => remaining > 0 /\ Ready = {}
    /\ pc = "planned" => remaining = 0

IInv ==
    /\ TypeOK
    /\ VisitInv
    /\ ~ Expanded => levels = <<>>
    /\ Expanded => CountsAreUnmetEntries /\ LevelsInv /\ KnotInv

----------------------------------------------------------------------------
\* Sequences and the sets of their elements.

LEMMA RangeEmpty == Range(<<>>) = {}
  BY DEF Range

LEMMA RangeElement ==
  ASSUME NEW S, NEW s \in Seq(S)
  PROVE  Range(s) \subseteq S /\ \A i \in 1 .. Len(s) : s[i] \in Range(s)
  BY DEF Range

LEMMA RangeHeadTail ==
  ASSUME NEW S, NEW s \in Seq(S), s # <<>>
  PROVE  Range(s) = {Head(s)} \cup Range(Tail(s))
<1>1. Len(s) \in Nat \ {0} /\ DOMAIN s = 1 .. Len(s) /\ Head(s) = s[1]
  BY EmptySeq
<1>2. /\ Tail(s) \in Seq(S) /\ Len(Tail(s)) = Len(s) - 1
      /\ \A i \in 1 .. Len(Tail(s)) : Tail(s)[i] = s[i + 1]
  BY HeadTailProperties
<1>3. DOMAIN Tail(s) = 1 .. Len(Tail(s))
  BY <1>2
<1>4. ASSUME NEW x \in Range(s) PROVE x = Head(s) \/ x \in Range(Tail(s))
  <2>1. PICK i \in 1 .. Len(s) : x = s[i]
    BY <1>1 DEF Range
  <2>2. CASE i = 1
    BY <1>1, <2>1, <2>2
  <2>3. CASE i # 1
    <3>1. i - 1 \in 1 .. Len(Tail(s)) /\ (i - 1) + 1 = i
      BY <1>1, <1>2, <2>3
    <3>2. Tail(s)[i - 1] = x
      BY <3>1, <1>2, <2>1
    <3> QED BY <3>1, <3>2, <1>3 DEF Range
  <2> QED BY <2>2, <2>3
<1>5. ASSUME NEW x \in Range(Tail(s)) PROVE x \in Range(s)
  <2>1. PICK i \in 1 .. Len(Tail(s)) : x = Tail(s)[i]
    BY <1>3 DEF Range
  <2>2. x = s[i + 1] /\ i + 1 \in 1 .. Len(s)
    BY <2>1, <1>1, <1>2
  <2> QED BY <2>2, <1>1 DEF Range
<1>6. Head(s) \in Range(s)
  BY <1>1 DEF Range
<1> QED BY <1>4, <1>5, <1>6

LEMMA RangeConcat ==
  ASSUME NEW S, NEW s \in Seq(S), NEW t \in Seq(S)
  PROVE  Range(s \o t) = Range(s) \cup Range(t)
<1> DEFINE u == s \o t
<1>1. /\ Len(s) \in Nat /\ Len(t) \in Nat /\ Len(u) = Len(s) + Len(t)
      /\ DOMAIN s = 1 .. Len(s) /\ DOMAIN t = 1 .. Len(t) /\ DOMAIN u = 1 .. Len(u)
  BY ConcatProperties, LenProperties
<1>2. \A i \in 1 .. Len(u) : u[i] = IF i <= Len(s) THEN s[i] ELSE t[i - Len(s)]
  BY ConcatProperties, <1>1
<1>3. ASSUME NEW x \in Range(u) PROVE x \in Range(s) \cup Range(t)
  <2>1. PICK i \in 1 .. Len(u) : x = u[i]
    BY <1>1 DEF Range
  <2>2. i \in 1 .. Len(s) \/ i - Len(s) \in 1 .. Len(t)
    BY <1>1
  <2> QED BY <1>1, <1>2, <2>1, <2>2 DEF Range
<1>4. ASSUME NEW x \in Range(s) PROVE x \in Range(u)
  <2>1. PICK i \in 1 .. Len(s) : x = s[i]
    BY <1>1 DEF Range
  <2>2. i \in 1 .. Len(u) /\ u[i] = x
    BY <1>1, <1>2, <2>1
  <2> QED BY <1>1, <2>2 DEF Range
<1>5. ASSUME NEW x \in Range(t) PROVE x \in Range(u)
  <2>1. PICK i \in 1 .. Len(t) : x = t[i]
    BY <1>1 DEF Range
  <2>2. i + Len(s) \in 1 .. Len(u) /\ ~ (i + Len(s) <= Len(s)) /\ (i + Len(s)) - Len(s) = i
    BY <1>1
  <2>3. u[i + Len(s)] = x
    BY <1>2, <2>1, <2>2
  <2> QED BY <1>1, <2>2, <2>3 DEF Range
<1> QED BY <1>3, <1>4, <1>5

LEMMA RangeAppend ==
  ASSUME NEW S, NEW s \in Seq(S), NEW e \in S
  PROVE  Range(Append(s, e)) = Range(s) \cup {e}
<1>1. /\ Len(s) \in Nat /\ DOMAIN s = 1 .. Len(s)
      /\ DOMAIN Append(s, e) = 1 .. Len(s) + 1
  BY LenProperties, AppendProperties
<1>2. /\ \A i \in 1 .. Len(s) : Append(s, e)[i] = s[i]
      /\ Append(s, e)[Len(s) + 1] = e
  BY AppendProperties
<1>3. 1 .. Len(s) + 1 = 1 .. Len(s) \cup {Len(s) + 1}
  BY <1>1
<1> QED BY <1>1, <1>2, <1>3 DEF Range

----------------------------------------------------------------------------
\* List entries, counted.

LEMMA EntriesFinite ==
  ASSUME NEW n, deps[n] \in Seq(Names), NEW S
  PROVE  IsFiniteSet(Entries(n, S)) /\ Cardinality(Entries(n, S)) \in Nat
<1>1. Len(deps[n]) \in Nat /\ Entries(n, S) \subseteq 1 .. Len(deps[n])
  BY LenProperties DEF Entries
<1>2. IsFiniteSet(1 .. Len(deps[n]))
  BY <1>1, FS_Interval
<1> QED BY <1>1, <1>2, FS_Subset, FS_CardinalityType

\* A count of zero says that nothing declared is in S.
LEMMA NoEntries ==
  ASSUME NEW n, deps[n] \in Seq(Names), NEW S
  PROVE  Cardinality(Entries(n, S)) = 0 <=> Range(deps[n]) \cap S = {}
<1>1. Cardinality(Entries(n, S)) = 0 <=> Entries(n, S) = {}
  BY EntriesFinite, FS_EmptySet
<1>2. Entries(n, S) = {} <=> Range(deps[n]) \cap S = {}
  BY DEF Entries, Range
<1> QED BY <1>1, <1>2

\* Taking T out of S takes its entries out of the count.
LEMMA EntriesRemoved ==
  ASSUME NEW n, deps[n] \in Seq(Names), NEW S, NEW T \in SUBSET S
  PROVE  Cardinality(Entries(n, S \ T)) =
            Cardinality(Entries(n, S)) - Cardinality(Entries(n, T))
<1>1. Entries(n, S \ T) = Entries(n, S) \ Entries(n, T)
  BY DEF Entries
<1>2. Entries(n, S) \cap Entries(n, T) = Entries(n, T)
  BY DEF Entries
<1>3. IsFiniteSet(Entries(n, S))
  BY EntriesFinite
<1> HIDE DEF Entries
<1>4. Cardinality(Entries(n, S) \ Entries(n, T)) =
         Cardinality(Entries(n, S)) - Cardinality(Entries(n, S) \cap Entries(n, T))
  BY <1>3, FS_Difference
<1> QED BY <1>1, <1>2, <1>4
----------------------------------------------------------------------------
THEOREM InitIInv == Init => IInv
<1> SUFFICES ASSUME Init PROVE IInv
  OBVIOUS
<1> USE DEF Init
<1>1. todo \in Seq(Names) /\ request \in Seq(Names)
  BY ListsAssumption
<1>2. deps \in [DOMAIN deps -> Seq(Names)] /\ DOMAIN deps \subseteq Names
  BY ListsAssumption
<1>3. TypeOK
  BY <1>1, <1>2 DEF TypeOK
<1>4. VisitInv
  BY DEF VisitInv, Expanded
<1> QED BY <1>3, <1>4 DEF IInv, Expanded

----------------------------------------------------------------------------
\* What one round of the peeling does, in terms of the invariant.
LEMMA PeelFacts ==
  ASSUME TypeOK, CountsAreUnmetEntries, Expanded, Peel
  PROVE  /\ IsFiniteSet(DOMAIN indeg) /\ IsFiniteSet(wanted)
         /\ Ready \subseteq DOMAIN indeg /\ Ready # {}
         /\ \A n \in DOMAIN indeg :
               /\ deps[n] \in Seq(Names) /\ Declared(deps, n) = Range(deps[n])
               /\ n \in Ready <=> Declared(deps, n) \cap DOMAIN indeg = {}
         /\ DOMAIN indeg' = DOMAIN indeg \ Ready
         /\ indeg' \in [DOMAIN indeg' -> Nat]
         /\ \A n \in DOMAIN indeg' : indeg'[n] = Cardinality(Entries(n, DOMAIN indeg'))
         /\ remaining' \in Nat /\ remaining' = Cardinality(DOMAIN indeg')
         /\ Cardinality(DOMAIN indeg') < Cardinality(DOMAIN indeg)
<1> USE DEF TypeOK, CountsAreUnmetEntries
<1> DEFINE D == DOMAIN indeg
<1> HIDE DEF D
<1>1. IsFiniteSet(wanted) /\ IsFiniteSet(D) /\ Cardinality(D) \in Nat
  BY NamesAssumption, FS_Subset, FS_CardinalityType DEF D
<1>2. Ready \subseteq D /\ Ready # {}
  BY DEF Ready, Peel, D
<1>3. /\ IsFiniteSet(Ready) /\ Cardinality(Ready) \in Nat /\ Cardinality(Ready) # 0
  BY <1>1, <1>2, FS_Subset, FS_EmptySet, FS_CardinalityType
<1>4. ASSUME NEW n \in D
      PROVE  /\ deps[n] \in Seq(Names) /\ Declared(deps, n) = Range(deps[n])
             /\ n \in Ready <=> Declared(deps, n) \cap D = {}
  <2>1. deps[n] \in Seq(Names) /\ Declared(deps, n) = Range(deps[n])
    BY DEF Declared, D
  <2>2. n \in Ready <=> Cardinality(Entries(n, D)) = 0
    BY DEF Ready, D
  <2> QED BY <2>1, <2>2, NoEntries
<1>5. D \cap Ready = Ready
  BY <1>2
<1>6. /\ IsFiniteSet(D \ Ready) /\ Cardinality(D \ Ready) \in Nat
      /\ Cardinality(D \ Ready) = Cardinality(D) - Cardinality(Ready)
  <2>1. /\ IsFiniteSet(D \ Ready)
        /\ Cardinality(D \ Ready) = Cardinality(D) - Cardinality(D \cap Ready)
    BY <1>1, FS_Difference
  <2> QED BY <2>1, <1>5, FS_CardinalityType
<1>7. DOMAIN indeg' = D \ Ready
  BY DEF Peel, D
<1>8. ASSUME NEW n \in D \ Ready
      PROVE  indeg'[n] = Cardinality(Entries(n, D \ Ready)) /\ indeg'[n] \in Nat
  <2>1. indeg'[n] = Cardinality(Entries(n, D)) - Cardinality(Entries(n, Ready))
    BY DEF Peel, D
  <2>2. deps[n] \in Seq(Names)
    BY <1>4
  <2>3. Cardinality(Entries(n, D \ Ready)) =
            Cardinality(Entries(n, D)) - Cardinality(Entries(n, Ready))
    BY <2>2, <1>2, EntriesRemoved
  <2>4. Cardinality(Entries(n, D \ Ready)) \in Nat
    BY <2>2, EntriesFinite
  <2> QED BY <2>1, <2>3, <2>4
<1>9. indeg' \in [D \ Ready -> Nat]
  BY <1>8 DEF Peel, D
<1>10. remaining' = Cardinality(D) - Cardinality(Ready)
  BY DEF Peel, D
<1>11. Cardinality(D \ Ready) < Cardinality(D)
  BY <1>1, <1>3, <1>6
<1>12. remaining' = Cardinality(D \ Ready)
  BY <1>6, <1>10
<1>13. DOMAIN indeg = D
  BY DEF D
<1> HIDE DEF TypeOK, CountsAreUnmetEntries
<1> QED BY <1>1, <1>2, <1>3, <1>4, <1>6, <1>7, <1>8, <1>9, <1>11, <1>12, <1>13

----------------------------------------------------------------------------
LEMMA NextType == IInv /\ [Next]_vars => TypeOK'
<1> SUFFICES ASSUME IInv, [Next]_vars PROVE TypeOK'
  OBVIOUS
<1> USE DEF TypeOK, IInv
<1>0. IsFiniteSet(wanted) /\ Cardinality(wanted) \in Nat
  BY NamesAssumption, FS_Subset, FS_CardinalityType
<1>1. CASE VisitSeen
  BY <1>1, HeadTailProperties DEF VisitSeen
<1>2. CASE VisitUnknown
  BY <1>2 DEF VisitUnknown
<1>3. CASE VisitNew
  <2>1. Head(todo) \in Names /\ Tail(todo) \in Seq(Names)
    BY <1>3, HeadTailProperties DEF VisitNew
  <2>2. todo' \in Seq(Names)
    BY <1>3, <2>1, ConcatProperties DEF VisitNew
  <2>3. levels' \in Seq(SUBSET wanted')
    BY <1>3, SeqMonotonic DEF VisitNew
  <2> QED BY <1>3, <2>2, <2>3 DEF VisitNew
<1>4. CASE Count
  <2>1. \A n \in wanted : Len(deps[n]) \in Nat
    BY LenProperties
  <2> QED BY <1>0, <1>4, <2>1 DEF Count
<1>5. CASE Peel
  <2>1. /\ DOMAIN indeg' \subseteq DOMAIN indeg
        /\ indeg' \in [DOMAIN indeg' -> Nat] /\ remaining' \in Nat
    BY <1>5, PeelFacts DEF Expanded, Peel
  <2>2. Ready \in SUBSET wanted
    BY DEF Ready
  <2>3. levels' \in Seq(SUBSET wanted)
    BY <1>5, <2>2, AppendProperties DEF Peel
  <2> QED BY <1>5, <2>1, <2>3 DEF Peel
<1>6. CASE Stuck
  BY <1>6 DEF Stuck
<1>7. CASE Planned
  BY <1>7 DEF Planned
<1>8. CASE UNCHANGED vars
  BY <1>8 DEF vars
<1> QED BY <1>1, <1>2, <1>3, <1>4, <1>5, <1>6, <1>7, <1>8 DEF Next

----------------------------------------------------------------------------
LEMMA NextVisit == IInv /\ [Next]_vars => VisitInv'
<1> SUFFICES ASSUME IInv, [Next]_vars PROVE VisitInv'
  OBVIOUS
<1> USE DEF IInv, VisitInv, Expanded
<1>1. CASE VisitSeen
  <2>1. Range(todo) = {Head(todo)} \cup Range(todo')
    BY <1>1, RangeHeadTail DEF VisitSeen, TypeOK
  <2> QED BY <1>1, <2>1 DEF VisitSeen
<1>2. CASE VisitUnknown
  BY <1>2 DEF VisitUnknown
<1>3. CASE VisitNew
  <2> DEFINE n == Head(todo)
  <2>1. n \in DOMAIN deps /\ deps[n] \in Seq(Names) /\ Tail(todo) \in Seq(Names)
    BY <1>3, HeadTailProperties DEF VisitNew, TypeOK
  <2>2. Range(todo) = {n} \cup Range(Tail(todo))
    BY <1>3, RangeHeadTail DEF VisitNew, TypeOK
  <2>3. Range(todo') = Range(deps[n]) \cup Range(Tail(todo))
    <3>1. todo' = deps[n] \o Tail(todo)
      BY <1>3 DEF VisitNew
    <3> QED BY ONLY <3>1, <2>1, RangeConcat
  <2>4. wanted' \cup Range(todo') = wanted \cup Range(todo) \cup Range(deps[n])
    BY <1>3, <2>2, <2>3 DEF VisitNew
  <2>5. ASSUME NEW C \in SUBSET Names, Range(request) \subseteq C, Closed(deps, C)
        PROVE  wanted' \cup Range(todo') \subseteq C
    <3>1. wanted \cup Range(todo) \subseteq C
      BY <2>5
    <3>2. n \in C /\ Declared(deps, n) = Range(deps[n])
      BY <3>1, <2>1, <2>2 DEF Declared
    <3> QED BY <3>1, <3>2, <2>4, <2>5 DEF Closed
  <2> HIDE DEF n
  <2>6. wanted' = wanted \cup {n} /\ UNCHANGED <<deps, request, pc>> /\ pc = "visit"
    BY <1>3 DEF VisitNew, n
  <2>7. \A m \in wanted' : Range(deps[m]) \subseteq wanted' \cup Range(todo')
    BY <2>4, <2>6
  <2> QED BY <2>4, <2>5, <2>6, <2>7
<1>4. CASE Count
  BY <1>4 DEF Count
<1>5. CASE Peel
  BY <1>5 DEF Peel
<1>6. CASE Stuck
  BY <1>6 DEF Stuck
<1>7. CASE Planned
  BY <1>7 DEF Planned
<1>8. CASE UNCHANGED vars
  BY <1>8 DEF vars
<1> QED BY <1>1, <1>2, <1>3, <1>4, <1>5, <1>6, <1>7, <1>8 DEF Next

----------------------------------------------------------------------------
LEMMA NextCounts == IInv /\ [Next]_vars => (Expanded => CountsAreUnmetEntries)'
<1> SUFFICES ASSUME IInv, [Next]_vars, Expanded' PROVE CountsAreUnmetEntries'
  OBVIOUS
<1> USE DEF IInv, TypeOK
<1>4. CASE Count
  <2>1. \A n \in wanted : Range(deps[n]) \subseteq wanted
    BY <1>4, RangeEmpty DEF Count, VisitInv
  <2>2. ASSUME NEW n \in wanted PROVE Cardinality(Entries(n, wanted)) = Len(deps[n])
    <3>1. Len(deps[n]) \in Nat /\ DOMAIN deps[n] = 1 .. Len(deps[n])
      BY LenProperties
    <3>2. Entries(n, wanted) = 1 .. Len(deps[n])
      BY <2>1, <3>1 DEF Entries, Range
    <3>3. Cardinality(1 .. Len(deps[n])) = Len(deps[n])
      <4>1. Cardinality(1 .. Len(deps[n])) =
                IF 1 > Len(deps[n]) THEN 0 ELSE Len(deps[n]) - 1 + 1
        <5>1. 1 \in Int /\ Len(deps[n]) \in Int
          BY <3>1
        <5> QED BY ONLY <5>1, FS_Interval
      <4> QED BY <3>1, <4>1
    <3> QED BY <3>2, <3>3
  <2>3. levels' = <<>> /\ indeg' = [n \in wanted |-> Len(deps[n])]
        /\ remaining' = Cardinality(wanted) /\ wanted' = wanted /\ deps' = deps
    BY <1>4 DEF Count, Expanded
  <2>4. UNION Range(levels') = {}
    BY <2>3, RangeEmpty
  <2> QED BY <2>2, <2>3, <2>4 DEF CountsAreUnmetEntries, Entries
<1>5. CASE Peel
  <2>1. /\ Ready \subseteq DOMAIN indeg /\ DOMAIN indeg' = DOMAIN indeg \ Ready
        /\ \A n \in DOMAIN indeg' : indeg'[n] = Cardinality(Entries(n, DOMAIN indeg'))
        /\ remaining' = Cardinality(DOMAIN indeg')
    BY <1>5, PeelFacts DEF Expanded, Peel
  <2>2. UNION Range(levels') = (UNION Range(levels)) \cup Ready
    <3>1. Ready \in SUBSET wanted /\ levels' = Append(levels, Ready)
      BY <1>5, <2>1 DEF Peel
    <3>2. Range(levels') = Range(levels) \cup {Ready}
      BY <3>1, RangeAppend
    <3> QED BY <3>2
  <2>3. UNION Range(levels) = wanted \ DOMAIN indeg /\ wanted' = wanted /\ deps' = deps
    BY <1>5 DEF CountsAreUnmetEntries, Expanded, Peel
  <2>4. UNION Range(levels') = wanted' \ DOMAIN indeg'
    BY <2>1, <2>2, <2>3
  <2> QED BY <2>1, <2>3, <2>4 DEF CountsAreUnmetEntries, Entries
<1>9. CASE Expanded /\ UNCHANGED <<deps, wanted, indeg, remaining, levels>>
  BY <1>9 DEF CountsAreUnmetEntries, Entries
<1> QED
  BY <1>4, <1>5, <1>9
  DEF Next, VisitSeen, VisitUnknown, VisitNew, Stuck, Planned, Expanded, vars

----------------------------------------------------------------------------
LEMMA NextKnots == IInv /\ [Next]_vars => (Expanded => KnotInv)'
<1> SUFFICES ASSUME IInv, [Next]_vars, Expanded' PROVE KnotInv'
  OBVIOUS
<1> USE DEF IInv, TypeOK
<1>4. CASE Count
  BY <1>4 DEF Count, KnotInv
<1>5. CASE Peel
  <2>1. /\ DOMAIN indeg' = DOMAIN indeg \ Ready
        /\ \A n \in Ready : Declared(deps, n) \cap DOMAIN indeg = {}
    BY <1>5, PeelFacts DEF Expanded, Peel
  <2>2. \A K \in SUBSET wanted : Knot(deps, K) => K \subseteq DOMAIN indeg
    BY <1>5 DEF KnotInv, Expanded, Peel
  <2>3. ASSUME NEW K \in SUBSET wanted, Knot(deps, K) PROVE K \subseteq DOMAIN indeg'
    <3>1. K \subseteq DOMAIN indeg
      BY <2>2, <2>3
    <3>2. \A n \in K : Declared(deps, n) \cap DOMAIN indeg # {}
      BY <3>1, <2>3 DEF Knot
    <3> QED BY <3>1, <3>2, <2>1
  <2>4. wanted' = wanted /\ deps' = deps /\ pc' = "peel"
    BY <1>5 DEF Peel
  <2>5. \A K \in SUBSET wanted' : Knot(deps', K) => K \subseteq DOMAIN indeg'
    BY <2>3, <2>4
  <2> QED BY <2>4, <2>5 DEF KnotInv
<1>6. CASE Stuck
  BY <1>6 DEF Stuck, KnotInv, Expanded, Ready
<1>7. CASE Planned
  BY <1>7 DEF Planned, KnotInv, Expanded
<1>8. CASE UNCHANGED vars
  BY <1>8 DEF vars, KnotInv, Expanded, Ready
<1> QED
  BY <1>4, <1>5, <1>6, <1>7, <1>8
  DEF Next, VisitSeen, VisitUnknown, VisitNew, Expanded

----------------------------------------------------------------------------
LEMMA NextLevels == IInv /\ [Next]_vars => (Expanded => LevelsInv)'
<1> SUFFICES ASSUME IInv, [Next]_vars, Expanded' PROVE LevelsInv'
  OBVIOUS
<1> USE DEF IInv, TypeOK
<1>0. IsFiniteSet(wanted) /\ Cardinality(wanted) \in Nat
  BY NamesAssumption, FS_Subset, FS_CardinalityType
<1>4. CASE Count
  <2>1. levels' = <<>> /\ DOMAIN indeg' = wanted /\ wanted' = wanted
    BY <1>4 DEF Count, Expanded
  <2>2. DOMAIN levels' = {} /\ Len(levels') = 0
    BY <2>1
  <2> QED BY <1>0, <2>1, <2>2 DEF LevelsInv
<1>5. CASE Peel
  <2> DEFINE L == Len(levels)
  <2>1. /\ Ready \subseteq DOMAIN indeg /\ Ready # {}
        /\ \A n \in DOMAIN indeg : n \in Ready <=> Declared(deps, n) \cap DOMAIN indeg = {}
        /\ DOMAIN indeg' = DOMAIN indeg \ Ready
        /\ Cardinality(DOMAIN indeg') < Cardinality(DOMAIN indeg)
        /\ IsFiniteSet(DOMAIN indeg)
    BY <1>5, PeelFacts DEF Expanded, Peel
  <2>2. /\ LevelsInv /\ CountsAreUnmetEntries /\ VisitInv /\ todo = <<>>
        /\ wanted' = wanted /\ deps' = deps
    BY <1>5 DEF Expanded, Peel, VisitInv
  <2>3. /\ L \in Nat /\ DOMAIN levels = 1 .. L
        /\ DOMAIN levels' = 1 .. L + 1 /\ Len(levels') = L + 1 /\ levels' # <<>>
        /\ \A k \in 1 .. L : levels'[k] = levels[k]
        /\ levels'[L + 1] = Ready
    <3>1. Ready \in SUBSET wanted /\ levels' = Append(levels, Ready)
      BY <1>5, <2>1 DEF Peel
    <3> QED BY <3>1, LenProperties, AppendProperties
  <2>4. \A k \in 1 .. L + 1 : k \in 1 .. L \/ k = L + 1
    BY <2>3
  <2>5. \A k \in 1 .. L : levels[k] \subseteq wanted \ DOMAIN indeg
    BY <2>2, <2>3 DEF CountsAreUnmetEntries, Expanded, Peel, Range
  <2>6. \A n \in wanted : Declared(deps, n) \subseteq wanted
    BY <2>2, RangeEmpty DEF VisitInv, Declared
  <2> HIDE DEF L
  <2>10. \A j, k \in DOMAIN levels' : j # k => levels'[j] \cap levels'[k] = {}
    <3>1. \A k \in 1 .. L : levels'[k] \cap Ready = {}
      BY <2>1, <2>3, <2>5
    <3>2. \A j, k \in 1 .. L : j # k => levels'[j] \cap levels'[k] = {}
      BY <2>2, <2>3 DEF LevelsInv
    <3> QED BY <2>3, <2>4, <3>1, <3>2
  <2>11. \A k \in DOMAIN levels' : levels'[k] # {}
    BY <2>1, <2>2, <2>3, <2>4 DEF LevelsInv
  <2>12. \A k \in DOMAIN levels' : \A n \in levels'[k] : \A m \in Declared(deps, n) :
            \E j \in DOMAIN levels' : j < k /\ m \in levels'[j]
    <3> SUFFICES ASSUME NEW k \in 1 .. L + 1, NEW n \in levels'[k], NEW m \in Declared(deps, n)
                 PROVE  \E j \in 1 .. L + 1 : j < k /\ m \in levels'[j]
      BY <2>3
    <3>1. CASE k \in 1 .. L
      <4>1. PICK j \in 1 .. L : j < k /\ m \in levels[j]
        BY <3>1, <2>2, <2>3 DEF LevelsInv
      <4> QED BY <4>1, <2>3
    <3>2. CASE k = L + 1
      <4>1. n \in Ready /\ m \in wanted /\ m \notin DOMAIN indeg
        BY <3>2, <2>1, <2>3, <2>6
      <4>2. m \in UNION Range(levels)
        BY <4>1, <2>2, <1>5 DEF CountsAreUnmetEntries, Expanded, Peel
      <4>3. PICK j \in 1 .. L : m \in levels[j]
        BY <4>2, <2>3 DEF Range
      <4>4. j \in 1 .. L + 1 /\ j < k /\ m \in levels'[j]
        BY <4>3, <3>2, <2>3
      <4> QED BY <4>4
    <3> QED BY <3>1, <3>2, <2>4
  <2>13. \A k \in DOMAIN levels' : k > 1 =>
            \A n \in levels'[k] : \E m \in Declared(deps, n) : m \in levels'[k - 1]
    <3> SUFFICES ASSUME NEW k \in 1 .. L + 1, k > 1, NEW n \in levels'[k]
                 PROVE  \E m \in Declared(deps, n) : m \in levels'[k - 1]
      BY <2>3
    <3>0. k - 1 \in 1 .. L /\ levels'[k - 1] = levels[k - 1]
      BY <2>3
    <3>1. CASE k \in 1 .. L
      BY <3>0, <3>1, <2>2, <2>3 DEF LevelsInv
    <3>2. CASE k = L + 1
      <4>1. n \in Ready /\ k - 1 = L /\ levels # <<>> /\ L = Len(levels)
        BY <3>0, <3>2, <2>3 DEF L
      <4>2. PICK m \in Declared(deps, n) : m \in DOMAIN indeg \/ m \in levels[L]
        BY <4>1, <2>1, <2>2 DEF LevelsInv
      <4>3. m \notin DOMAIN indeg
        BY <4>1, <2>1
      <4> QED BY <4>1, <4>2, <4>3, <3>0
    <3> QED BY <3>1, <3>2, <2>4
  <2>14. \A n \in DOMAIN indeg' : \E m \in Declared(deps, n) :
            m \in DOMAIN indeg' \/ m \in levels'[L + 1]
    BY <2>1, <2>3
  <2>15. Len(levels') + Cardinality(DOMAIN indeg') <= Cardinality(wanted)
    <3>1. L + Cardinality(DOMAIN indeg) <= Cardinality(wanted)
      BY <2>2 DEF LevelsInv, L
    <3>2. Cardinality(DOMAIN indeg) \in Nat /\ Cardinality(DOMAIN indeg') \in Nat
      BY <2>1, FS_CardinalityType, FS_Difference
    <3> QED BY <3>1, <3>2, <2>1, <2>3, <1>0
  <2> QED BY <2>2, <2>3, <2>10, <2>11, <2>12, <2>13, <2>14, <2>15 DEF LevelsInv
<1>9. CASE Expanded /\ UNCHANGED <<deps, wanted, indeg, levels>>
  BY <1>9 DEF LevelsInv
<1> QED
  BY <1>4, <1>5, <1>9
  DEF Next, VisitSeen, VisitUnknown, VisitNew, Stuck, Planned, Expanded, vars

----------------------------------------------------------------------------
\* Everything the planning keeps true, for every registry and request.
THEOREM Inductive == Spec => []IInv
<1>1. IInv /\ [Next]_vars => IInv'
  <2> SUFFICES ASSUME IInv, [Next]_vars PROVE IInv'
    OBVIOUS
  <2>1. TypeOK' /\ VisitInv'
    BY NextType, NextVisit
  <2>2. (Expanded => CountsAreUnmetEntries /\ LevelsInv /\ KnotInv)'
    BY NextCounts, NextLevels, NextKnots
  <2>3. (~ Expanded => levels = <<>>)'
    BY DEF IInv, Next, VisitSeen, VisitUnknown, VisitNew, Count, Peel, Stuck, Planned,
           Expanded, vars
  <2> QED BY <2>1, <2>2, <2>3 DEF IInv
<1> QED BY InitIInv, <1>1, PTL DEF Spec

\* The types of the planner's state: among them that a count of unmet
\* dependencies never goes below zero.
THEOREM TypeCorrect == Spec => []TypeOK
<1>1. IInv => TypeOK
  BY DEF IInv
<1> QED BY Inductive, <1>1, PTL

\* topoLevels' counts are the unmet list entries, whatever Dependencies()
\* repeats.
THEOREM CountsCorrect == Spec => []CountsAreUnmetEntries
<1>1. IInv => CountsAreUnmetEntries
  BY DEF IInv, CountsAreUnmetEntries
<1> QED BY Inductive, <1>1, PTL

\* expandWithDeps returns the least closed set around the request, and fails
\* only when that set leaves the registry.
THEOREM ExpansionCorrect == Spec => []ExpansionIsClosure
<1>1. IInv => ExpansionIsClosure
  <2> SUFFICES ASSUME IInv PROVE ExpansionIsClosure
    OBVIOUS
  <2> USE DEF IInv, TypeOK
  <2> DEFINE C == Closure(deps, Names, Range(request))
  <2>1. wanted \cup Range(todo) \subseteq C
    <3>1. wanted \cup Range(todo) \subseteq Names
      BY RangeElement
    <3> QED BY <3>1 DEF VisitInv, Closure
  <2>2. ASSUME Expanded PROVE C \subseteq wanted
    <3>1. Range(request) \subseteq wanted /\ \A n \in wanted : Range(deps[n]) \subseteq wanted
      BY <2>2, RangeEmpty DEF VisitInv
    <3>2. wanted \in SUBSET Names /\ Closed(deps, wanted)
      BY <3>1 DEF Closed, Declared
    <3> QED BY <3>1, <3>2 DEF Closure
  <2>3. ASSUME pc = "unknown" PROVE ~ (C \subseteq DOMAIN deps)
    <3>1. Head(todo) \in Range(todo) /\ Head(todo) \notin DOMAIN deps
      BY <2>3, RangeHeadTail DEF VisitInv
    <3> QED BY <3>1, <2>1
  <2>4. Expanded => wanted \subseteq C
    BY <2>1
  <2> QED BY <2>2, <2>3, <2>4 DEF ExpansionIsClosure
<1> QED BY Inductive, <1>1, PTL

\* A cycle is reported when, and only when, what the request needs has one.
THEOREM CycleCorrect == Spec => []CycleReportedIffKnot
<1>1. IInv /\ ExpansionIsClosure => CycleReportedIffKnot
  <2> SUFFICES ASSUME IInv, ExpansionIsClosure PROVE CycleReportedIffKnot
    OBVIOUS
  <2> USE DEF IInv
  <2>1. ASSUME pc = "cycle" PROVE Knot(deps, DOMAIN indeg) /\ DOMAIN indeg \subseteq wanted
    <3>1. /\ CountsAreUnmetEntries /\ remaining > 0 /\ Ready = {}
          /\ Expanded /\ DOMAIN indeg \subseteq wanted
      BY <2>1 DEF Expanded, KnotInv, TypeOK
    <3>2. DOMAIN indeg # {}
      BY <3>1, FS_EmptySet DEF CountsAreUnmetEntries
    <3>3. ASSUME NEW n \in DOMAIN indeg PROVE Declared(deps, n) \cap DOMAIN indeg # {}
      <4>1. deps[n] \in Seq(Names) /\ Declared(deps, n) = Range(deps[n])
        BY <3>1 DEF TypeOK, Declared
      <4>2. Cardinality(Entries(n, DOMAIN indeg)) # 0
        BY <3>1 DEF Ready, CountsAreUnmetEntries
      <4> QED BY <4>1, <4>2, NoEntries
    <3> QED BY <3>1, <3>2, <3>3 DEF Knot
  <2>2. ASSUME pc = "planned", NEW K \in SUBSET wanted, Knot(deps, K) PROVE FALSE
    <3>1. /\ CountsAreUnmetEntries /\ KnotInv /\ remaining = 0
          /\ Expanded /\ DOMAIN indeg \subseteq wanted
      BY <2>2 DEF Expanded, KnotInv, TypeOK
    <3>2. IsFiniteSet(DOMAIN indeg)
      BY <3>1, NamesAssumption, FS_Subset DEF TypeOK
    <3>3. DOMAIN indeg = {}
      BY <3>1, <3>2, FS_EmptySet DEF CountsAreUnmetEntries
    <3> QED BY <3>1, <3>3, <2>2 DEF KnotInv, Knot
  <2> QED BY <2>1, <2>2 DEF CycleReportedIffKnot, Cyclic, ExpansionIsClosure, Expanded
<1> QED BY Inductive, ExpansionCorrect, <1>1, PTL

\* topoLevels places every wanted collector once, after all it declares and
\* as early as that allows.
THEOREM LevelsCorrect == Spec => []LevelsAreRanking
<1>1. IInv => LevelsAreRanking
  <2> SUFFICES ASSUME IInv, pc = "planned" PROVE LevelsAreRanking
    BY DEF LevelsAreRanking
  <2> USE DEF IInv
  <2>1. CountsAreUnmetEntries /\ LevelsInv /\ VisitInv /\ todo = <<>> /\ remaining = 0 /\ Expanded
    BY DEF Expanded, KnotInv, VisitInv
  <2>2. IsFiniteSet(wanted) /\ Cardinality(wanted) \in Nat /\ IsFiniteSet(DOMAIN indeg)
    BY NamesAssumption, FS_Subset, FS_CardinalityType DEF TypeOK
  <2>3. DOMAIN indeg = {} /\ Cardinality(DOMAIN indeg) = 0
    BY <2>1, <2>2, FS_EmptySet DEF CountsAreUnmetEntries
  <2>4. UNION Range(levels) = wanted
    BY <2>1, <2>3 DEF CountsAreUnmetEntries
  <2>5. DOMAIN levels = 1 .. Len(levels) /\ Len(levels) \in Nat /\ Len(levels) <= Cardinality(wanted)
    BY <2>1, <2>2, <2>3, LenProperties DEF TypeOK, LevelsInv
  <2>6. ASSUME NEW n \in wanted
        PROVE  /\ LevelOf[n] \in DOMAIN levels /\ n \in levels[LevelOf[n]]
               /\ \A k \in DOMAIN levels : n \in levels[k] => LevelOf[n] = k
    <3>1. \E k \in DOMAIN levels : n \in levels[k]
      BY <2>4 DEF Range
    <3>2. LevelOf[n] = CHOOSE k \in DOMAIN levels : n \in levels[k]
      BY DEF LevelOf
    <3>3. LevelOf[n] \in DOMAIN levels /\ n \in levels[LevelOf[n]]
      BY <3>1, <3>2
    <3> QED BY <3>3, <2>1 DEF LevelsInv
  <2>7. LevelOf \in [wanted -> 1 .. Cardinality(wanted)]
    <3>1. \A n \in wanted : LevelOf[n] \in 1 .. Cardinality(wanted)
      BY <2>2, <2>5, <2>6
    <3> QED BY <3>1 DEF LevelOf
  <2>8. ASSUME NEW n \in wanted
        PROVE  /\ LevelOf[n] >= 1
               /\ \A m \in Declared(deps, n) : LevelOf[m] < LevelOf[n]
               /\ LevelOf[n] > 1 => \E m \in Declared(deps, n) : LevelOf[m] = LevelOf[n] - 1
    <3>1. LevelOf[n] \in 1 .. Len(levels)
      BY <2>5, <2>6
    <3>2. \A m \in Declared(deps, n) : m \in wanted
      BY <2>1, RangeEmpty DEF VisitInv, Declared
    <3>3. ASSUME NEW m \in Declared(deps, n) PROVE LevelOf[m] < LevelOf[n]
      <4>1. PICK j \in DOMAIN levels : j < LevelOf[n] /\ m \in levels[j]
        BY <2>1, <2>6 DEF LevelsInv
      <4> QED BY <4>1, <3>2, <2>6
    <3>4. ASSUME LevelOf[n] > 1
          PROVE  \E m \in Declared(deps, n) : LevelOf[m] = LevelOf[n] - 1
      <4>1. PICK m \in Declared(deps, n) : m \in levels[LevelOf[n] - 1]
        BY <2>1, <2>6, <3>4 DEF LevelsInv
      <4>2. LevelOf[n] - 1 \in DOMAIN levels
        BY <3>1, <3>4, <2>5
      <4> QED BY <4>1, <4>2, <3>2, <2>6
    <3> QED BY <3>1, <3>3, <3>4
  <2>9. LevelOf \in Rankings(deps, wanted)
    BY <2>7, <2>8 DEF Rankings, IsRanking
  <2> QED BY <2>1, <2>4, <2>9 DEF LevelsAreRanking, LevelsInv
<1> QED BY Inductive, <1>1, PTL
=============================================================================
