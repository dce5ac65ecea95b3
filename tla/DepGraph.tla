------------------------------ MODULE DepGraph ------------------------------
(***************************************************************************)
(* The vocabulary of internal/collector about dependency graphs, stated    *)
(* as mathematics: what expandWithDeps and topoLevels of registry.go have  *)
(* to compute.  Planner models how they compute it, Registry uses what     *)
(* they return.                                                            *)
(*                                                                         *)
(* A graph d maps the name of every registered collector to the list its   *)
(* Dependencies() method returns.  The list may mention names nobody       *)
(* registered, and may mention a name twice.                               *)
(***************************************************************************)
EXTENDS Integers, FiniteSets, Functions

\* The names a collector declares; a name nobody registered declares none.
Declared(d, n) == IF n \in DOMAIN d THEN Range(d[n]) ELSE {}

\* A set of names that holds everything its members declare.
Closed(d, C) == \A n \in C : Declared(d, n) \subseteq C

\* The least closed set of names around S: everything a run asked for S needs.
Closure(d, Names, S) ==
    {n \in Names : \A C \in SUBSET Names : S \subseteq C /\ Closed(d, C) => n \in C}

\* A set in which everybody waits for somebody of the set.
Knot(d, K) == K # {} /\ \A n \in K : Declared(d, n) \cap K # {}

Cyclic(d, W) == \E K \in SUBSET W : Knot(d, K)

\* The level of every name of W, counted from 1: above all it declares, and
\* no higher than that forces it to be.
IsRanking(d, W, rank) ==
    \A n \in W :
        /\ rank[n] >= 1
        /\ \A m \in Declared(d, n) : rank[m] < rank[n]
        /\ rank[n] > 1 => \E m \in Declared(d, n) : rank[m] = rank[n] - 1

Rankings(d, W) == {rank \in [W -> 1 .. Cardinality(W)] : IsRanking(d, W, rank)}
=============================================================================
