------------------------------- MODULE Planner -------------------------------
(***************************************************************************)
(* One call of expandWithDeps and topoLevels (internal/collector/          *)
(* registry.go), the planning half of Registry.Run.  Both run under the    *)
(* registry's read lock, so the collectors they look at are fixed.         *)
(***************************************************************************)
EXTENDS DepGraph, Sequences

CONSTANTS
    Names,      \* the names that may be registered, declared or asked for
    DepLists,   \* the lists Dependencies() may return
    Requests    \* the lists of names Run may be asked for

ASSUME NamesAssumption == IsFiniteSet(Names)
ASSUME ListsAssumption == DepLists \subseteq Seq(Names) /\ Requests \subseteq Seq(Names)

VARIABLES
    deps,       \* r.collectors: registered name -> its Dependencies()
    request,    \* Run's names argument
    pc,         \* the loop the call is in, or how it returned
    todo,       \* names the pending visit calls still have to look at, in order
    wanted,     \* expandWithDeps' result
    indeg,      \* topoLevels' map from name to unmet dependencies
    remaining,  \* topoLevels' count of names not yet placed
    levels      \* topoLevels' result; the order inside a level is left out

vars == <<deps, request, pc, todo, wanted, indeg, remaining, levels>>

Init ==
    /\ deps \in UNION {[R -> DepLists] : R \in SUBSET Names}
    /\ request \in Requests
    /\ pc = "visit"
    /\ todo = request
    /\ wanted = {}
    /\ indeg = [n \in {} |-> 0]
    /\ remaining = 0
    /\ levels = <<>>

----------------------------------------------------------------------------
\* expandWithDeps.  The recursive visit looks at a name, then at everything
\* it declares, then at the rest of its caller's list: todo is the pending
\* calls' lists laid end to end.

\* visit(n) of a name already wanted returns at once.
VisitSeen ==
    /\ pc = "visit" /\ todo # <<>>
    /\ Head(todo) \in wanted
    /\ todo' = Tail(todo)
    /\ UNCHANGED <<deps, request, pc, wanted, indeg, remaining, levels>>

\* A mutant: a name nobody registered is kept.
VisitUnknownKept ==
    /\ pc = "visit" /\ todo # <<>>
    /\ Head(todo) \notin wanted
    /\ Head(todo) \notin DOMAIN deps
    /\ wanted' = wanted \cup {Head(todo)}
    /\ todo' = Tail(todo)
    /\ UNCHANGED <<deps, request, pc, indeg, remaining, levels>>

\* visit(n) of a name nobody registered fails, and every caller with it.
VisitUnknown ==
    /\ pc = "visit" /\ todo # <<>>
    /\ Head(todo) \notin wanted
    /\ Head(todo) \notin DOMAIN deps
    /\ pc' = "unknown"
    /\ UNCHANGED <<deps, request, todo, wanted, indeg, remaining, levels>>

\* A mutant: visit does not follow the dependencies.
VisitNewAlone ==
    /\ pc = "visit" /\ todo # <<>>
    /\ Head(todo) \notin wanted
    /\ Head(todo) \in DOMAIN deps
    /\ wanted' = wanted \cup {Head(todo)}
    /\ todo' = Tail(todo)
    /\ UNCHANGED <<deps, request, pc, indeg, remaining, levels>>

\* visit(n) marks n before it looks at its dependencies: a cycle ends here.
VisitNew ==
    /\ pc = "visit" /\ todo # <<>>
    /\ Head(todo) \notin wanted
    /\ Head(todo) \in DOMAIN deps
    /\ wanted' = wanted \cup {Head(todo)}
    /\ todo' = deps[Head(todo)] \o Tail(todo)
    /\ UNCHANGED <<deps, request, pc, indeg, remaining, levels>>

----------------------------------------------------------------------------
\* topoLevels.

\* A mutant: a name declared twice is counted once.
CountDistinct ==
    /\ pc = "visit" /\ todo = <<>>
    /\ indeg' = [n \in wanted |-> Cardinality(Range(deps[n]))]
    /\ remaining' = Cardinality(wanted)
    /\ pc' = "peel"
    /\ UNCHANGED <<deps, request, todo, wanted, levels>>

\* One count per list entry, a name declared twice is counted twice.
Count ==
    /\ pc = "visit" /\ todo = <<>>
    /\ indeg' = [n \in wanted |-> Len(deps[n])]
    /\ remaining' = Cardinality(wanted)
    /\ pc' = "peel"
    /\ UNCHANGED <<deps, request, todo, wanted, levels>>

\* A mutant: a collector goes while it still waits for one.
ReadyEarly == {n \in DOMAIN indeg : indeg[n] <= 1}

Ready == {n \in DOMAIN indeg : indeg[n] = 0}

\* A mutant: a name declared twice is met once.
EntriesOnce(n, S) == Range(deps[n]) \cap S

\* The list entries of n that name a member of S.
Entries(n, S) == {i \in DOMAIN deps[n] : deps[n][i] \in S}

Peel ==
    /\ pc = "peel" /\ remaining > 0
    /\ Ready # {}
    /\ levels' = Append(levels, Ready)
    /\ remaining' = remaining - Cardinality(Ready)
    /\ indeg' = [n \in DOMAIN indeg \ Ready |->
                    indeg[n] - Cardinality(Entries(n, Ready))]
    /\ UNCHANGED <<deps, request, pc, todo, wanted>>

\* A mutant: the loop has no way out of a cycle.
StuckSpins ==
    /\ pc = "peel" /\ remaining > 0
    /\ Ready = {}
    /\ UNCHANGED vars

\* Nobody is free of unmet dependencies: dependency cycle detected.
Stuck ==
    /\ pc = "peel" /\ remaining > 0
    /\ Ready = {}
    /\ pc' = "cycle"
    /\ UNCHANGED <<deps, request, todo, wanted, indeg, remaining, levels>>

Planned ==
    /\ pc = "peel" /\ remaining = 0
    /\ pc' = "planned"
    /\ UNCHANGED <<deps, request, todo, wanted, indeg, remaining, levels>>

Next ==
    \/ VisitSeen \/ VisitUnknown \/ VisitNew
    \/ Count \/ Peel \/ Stuck \/ Planned

Spec == Init /\ [][Next]_vars /\ WF_vars(Next)

----------------------------------------------------------------------------
\* The planner's variables stay in the sets of their values; above all no
\* in-degree, and no count of collectors left, goes below zero.
TypeOK ==
    /\ DOMAIN deps \subseteq Names /\ deps \in [DOMAIN deps -> Seq(Names)]
    /\ request \in Seq(Names)
    /\ pc \in {"visit", "peel", "unknown", "cycle", "planned"}
    /\ todo \in Seq(Names)
    /\ wanted \subseteq DOMAIN deps
    /\ DOMAIN indeg \subseteq wanted
    /\ indeg \in [DOMAIN indeg -> Nat]
    /\ remaining \in Nat
    /\ levels \in Seq(SUBSET wanted)

\* expandWithDeps has returned a set, and topoLevels works on it.
Expanded == pc \in {"peel", "cycle", "planned"}

\* expandWithDeps auto-includes the dependencies, all of them and nothing
\* else, however the lists share names or run in circles; and it fails for a
\* name nobody registered exactly when the request reaches one.
ExpansionIsClosure ==
    /\ Expanded => wanted = Closure(deps, Names, Range(request))
    /\ pc = "unknown" => ~ (Closure(deps, Names, Range(request)) \subseteq DOMAIN deps)

\* topoLevels puts every wanted collector on a level of its own choosing
\* once, after everything it declares, and as early as that allows: the
\* levels are the ones with the most concurrency.
LevelOf == [n \in wanted |-> CHOOSE k \in DOMAIN levels : n \in levels[k]]

LevelsAreRanking ==
    pc = "planned" =>
        /\ UNION Range(levels) = wanted
        /\ \A j, k \in DOMAIN levels : j # k => levels[j] \cap levels[k] = {}
        /\ \A k \in DOMAIN levels : levels[k] # {}
        /\ LevelOf \in Rankings(deps, wanted)

\* A cycle is reported exactly when what the request needs has one; one that
\* lies elsewhere in the registry disturbs nobody.
CycleReportedIffKnot ==
    /\ pc = "cycle" => Cyclic(deps, Closure(deps, Names, Range(request)))
    /\ pc = "planned" => ~ Cyclic(deps, Closure(deps, Names, Range(request)))

\* While levels are peeled off, a name's count is the number of its list
\* entries that still wait: duplicates are added and subtracted alike.
CountsAreUnmetEntries ==
    Expanded =>
        /\ \A n \in DOMAIN indeg : indeg[n] = Cardinality(Entries(n, DOMAIN indeg))
        /\ remaining = Cardinality(DOMAIN indeg)
        /\ UNION Range(levels) = wanted \ DOMAIN indeg

\* Planning ends, on graphs with cycles and with duplicates too.
PlanningEnds == <>(pc \in {"unknown", "cycle", "planned"})
=============================================================================
