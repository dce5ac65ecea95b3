------------------------------ MODULE MCPlanner ------------------------------
(* Instances of Planner over every small graph. *)
EXTENDS Planner, SequencesExt

CONSTANTS a, b, c, d

\* Lists of at most two names in one order, since what order a list has is
\* not looked at, and lists that name one collector twice.
RankOf == a :> 1 @@ b :> 2 @@ c :> 3 @@ d :> 4
ShortLists ==
    {s \in BoundedSeq(Names, 2) : \A i, j \in DOMAIN s : i < j => RankOf[s[i]] < RankOf[s[j]]}
    \cup {<<n, n>> : n \in Names}

\* One collector, two of which one is asked for twice, and all.
SomeRequests == {<<a>>, <<b, a, b>>, <<d, c, b, a>>}
=============================================================================
