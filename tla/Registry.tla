------------------------------ MODULE Registry ------------------------------
(***************************************************************************)
(* internal/collector/registry.go: one Registry and the goroutines that    *)
(* use it.  Callers register collectors, read the registry and run         *)
(* collectors; a run plans (expandWithDeps and topoLevels, see Planner),   *)
(* then starts one goroutine per collector and level and waits for the     *)
(* level.  A collector's Collect is its environment: it may succeed or     *)
(* fail, and takes as long as it likes.                                    *)
(***************************************************************************)
EXTENDS DepGraph, Sequences, RWMutex

CONSTANTS
    Names,      \* the names that may be registered, declared or asked for
    Collectors, \* the collector objects there are to register
    NoCollector,
    NameOf,     \* a collector's Name(); the empty name is not in Names
    DepsOf,     \* a collector's Dependencies()
    Requests,   \* the sets of names Run may be asked for
    Hooks       \* which of Hooks' fields are set: "OnComplete", "OnError"

ASSUME NamesAssumption == IsFiniteSet(Names)
ASSUME CollectorsAssumption ==
    /\ NoCollector \notin Collectors
    /\ \A o \in Collectors : DepsOf[o] \in Seq(Names)
ASSUME RequestsAssumption == Requests \subseteq SUBSET Names

VARIABLES
    collectors, \* r.collectors: registered name -> collector object
    pc,         \* the operation each caller is in, and how far it is
    object,     \* Register's argument
    request,    \* Run's names argument
    answer,     \* what the last operation returned: an error or "ok", and Run's
                \* results; forgotten when the next begins
    wanted,     \* Run's wanted
    rank,       \* Run's levels: the number of the level a wanted name is on
    level,      \* the number of the level Run's loop is at, 0 before the first
    prior,      \* the names in the level's snapshot of results
    results,    \* the names in Run's results
    wg,         \* the WaitGroup's counter
    phase,      \* how far the goroutine of each collector is
    outcome,    \* whether its Collect returned a result or an error
    samples,    \* what the OnComplete hook was told of each collector
    failures    \* the collectors the OnError hook was told of

callVars == <<pc, object, request, answer>>
planVars == <<wanted, rank>>
loopVars == <<level, prior>>
workVars == <<results, wg, phase, outcome, samples, failures>>
vars == <<collectors, readers, blocked, writer, pc, object, request, answer,
          wanted, rank, level, prior, results, wg, phase, outcome, samples, failures>>

\* The registry as the graph the planner sees.
Deps == [n \in DOMAIN collectors |-> DepsOf[collectors[n]]]

\* What a run needs for the names it was asked for.
Needs(c) == Closure(Deps, Names, request[c])

AtLevel(c, k) == {n \in wanted[c] : rank[c][n] = k}

NoAnswer == [err |-> "ok", results |-> {}]

Init ==
    /\ MuInit
    /\ collectors = [n \in {} |-> NoCollector]
    /\ pc = [c \in Callers |-> "idle"]
    /\ object = [c \in Callers |-> NoCollector]
    /\ request = [c \in Callers |-> {}]
    /\ answer = [c \in Callers |-> NoAnswer]
    /\ wanted = [c \in Callers |-> {}]
    /\ rank = [c \in Callers |-> [n \in Names |-> 0]]
    /\ level = [c \in Callers |-> 0]
    /\ prior = [c \in Callers |-> {}]
    /\ results = [c \in Callers |-> {}]
    /\ wg = [c \in Callers |-> 0]
    /\ phase = [c \in Callers |-> [n \in Names |-> "waiting"]]
    /\ outcome = [c \in Callers |-> [n \in Names |-> "none"]]
    /\ samples = [c \in Callers |-> [n \in Names |-> "none"]]
    /\ failures = [c \in Callers |-> {}]

\* The beginning of an operation.
Enter(c, at) ==
    /\ pc[c] = "idle"
    /\ pc' = [pc EXCEPT ![c] = at]
    /\ answer' = [answer EXCEPT ![c] = NoAnswer]

\* The end of an operation.  Init holds the values of a Run's local variables
\* outside of it.
Return(c, err, found) ==
    /\ pc' = [pc EXCEPT ![c] = "idle"]
    /\ answer' = [answer EXCEPT ![c] = [err |-> err, results |-> found]]

----------------------------------------------------------------------------
\* Register.

\* An empty name is refused before the lock.
RegisterUnnamed(c) ==
    /\ pc[c] = "idle"
    /\ \E o \in Collectors : NameOf[o] \notin Names
    /\ Return(c, "unnamed", {})
    /\ UNCHANGED <<collectors, muVars, object, request, planVars, loopVars, workVars>>

CallRegister(c, o) ==
    /\ NameOf[o] \in Names
    /\ Enter(c, "lock")
    /\ object' = [object EXCEPT ![c] = o]
    /\ UNCHANGED <<collectors, muVars, request, planVars, loopVars, workVars>>

LockRegistry(c) ==
    /\ pc[c] = "lock"
    /\ Announce(c)
    /\ pc' = [pc EXCEPT ![c] = "drain"]
    /\ UNCHANGED <<collectors, object, request, answer, planVars, loopVars, workVars>>

\* A mutant: the lock is not exclusive.
EnterRegisterShared(c) ==
    /\ pc[c] = "drain"
    /\ writer = c
    /\ pc' = [pc EXCEPT ![c] = "write"]
    /\ UNCHANGED <<collectors, muVars, object, request, answer, planVars, loopVars, workVars>>

EnterRegister(c) ==
    /\ pc[c] = "drain"
    /\ Drained(c)
    /\ pc' = [pc EXCEPT ![c] = "write"]
    /\ UNCHANGED <<collectors, muVars, object, request, answer, planVars, loopVars, workVars>>

RegisterDuplicate(c) ==
    /\ pc[c] = "write"
    /\ NameOf[object[c]] \in DOMAIN collectors
    /\ Unlock(c)
    /\ Return(c, "duplicate", {})
    /\ object' = [object EXCEPT ![c] = NoCollector]
    /\ UNCHANGED <<collectors, request, planVars, loopVars, workVars>>

\* A mutant: a name that is taken is taken over.
RegisterOver(c) ==
    /\ pc[c] = "write"
    /\ collectors' = [n \in DOMAIN collectors \cup {NameOf[object[c]]} |->
                         IF n = NameOf[object[c]] THEN object[c] ELSE collectors[n]]
    /\ Unlock(c)
    /\ Return(c, "ok", {})
    /\ object' = [object EXCEPT ![c] = NoCollector]
    /\ UNCHANGED <<request, planVars, loopVars, workVars>>

RegisterNew(c) ==
    /\ pc[c] = "write"
    /\ NameOf[object[c]] \notin DOMAIN collectors
    /\ collectors' = [n \in DOMAIN collectors \cup {NameOf[object[c]]} |->
                         IF n = NameOf[object[c]] THEN object[c] ELSE collectors[n]]
    /\ Unlock(c)
    /\ Return(c, "ok", {})
    /\ object' = [object EXCEPT ![c] = NoCollector]
    /\ UNCHANGED <<request, planVars, loopVars, workVars>>

----------------------------------------------------------------------------
\* Get, Names, NamesInCategory and SelectedWith: they read the map under the
\* read lock and change nothing.

CallRead(c) ==
    /\ Enter(c, "read")
    /\ RLock(c)
    /\ UNCHANGED <<collectors, object, request, planVars, loopVars, workVars>>

Read(c) ==
    /\ pc[c] = "read" /\ c \in readers
    /\ RUnlock(c)
    /\ Return(c, "ok", {})
    /\ UNCHANGED <<collectors, object, request, planVars, loopVars, workVars>>

----------------------------------------------------------------------------
\* Run, the caller's goroutine.

CallRun(c, S) ==
    /\ Enter(c, "plan")
    /\ RLock(c)
    /\ request' = [request EXCEPT ![c] = S]
    /\ UNCHANGED <<collectors, object, planVars, loopVars, workVars>>

\* expandWithDeps meets a name nobody registered.
PlanUnknown(c) ==
    /\ pc[c] = "plan" /\ c \in readers
    /\ ~ (Needs(c) \subseteq DOMAIN collectors)
    /\ RUnlock(c)
    /\ Return(c, "unknown", {})
    /\ UNCHANGED <<collectors, object, request, planVars, loopVars, workVars>>

\* topoLevels finds nobody free of unmet dependencies.
PlanCycle(c) ==
    /\ pc[c] = "plan" /\ c \in readers
    /\ Needs(c) \subseteq DOMAIN collectors
    /\ Cyclic(Deps, Needs(c))
    /\ RUnlock(c)
    /\ Return(c, "cycle", {})
    /\ UNCHANGED <<collectors, object, request, planVars, loopVars, workVars>>

Plan(c) ==
    /\ pc[c] = "plan" /\ c \in readers
    /\ Needs(c) \subseteq DOMAIN collectors
    /\ ~ Cyclic(Deps, Needs(c))
    /\ wanted' = [wanted EXCEPT ![c] = Needs(c)]
    /\ \E r \in Rankings(Deps, Needs(c)) :
          rank' = [rank EXCEPT ![c] = [n \in Names |-> IF n \in Needs(c) THEN r[n] ELSE 0]]
    /\ pc' = [pc EXCEPT ![c] = "levels"]
    /\ UNCHANGED <<collectors, muVars, object, request, answer, loopVars, workVars>>

\* A mutant: wg.Add is missing.
StartLevelUncounted(c) ==
    /\ pc[c] = "levels"
    /\ \E n \in wanted[c] : rank[c][n] > level[c]
    /\ level' = [level EXCEPT ![c] = level[c] + 1]
    /\ prior' = [prior EXCEPT ![c] = results[c]]
    /\ phase' = [phase EXCEPT ![c] =
                    [n \in Names |-> IF n \in AtLevel(c, level[c] + 1)
                                        THEN "spawned" ELSE phase[c][n]]]
    /\ pc' = [pc EXCEPT ![c] = "wait"]
    /\ UNCHANGED <<collectors, muVars, object, request, answer, planVars,
                   results, wg, outcome, samples, failures>>

\* A mutant: the snapshot is taken once, before the loop.
StartLevelStale(c) ==
    /\ pc[c] = "levels"
    /\ \E n \in wanted[c] : rank[c][n] > level[c]
    /\ level' = [level EXCEPT ![c] = level[c] + 1]
    /\ phase' = [phase EXCEPT ![c] =
                    [n \in Names |-> IF n \in AtLevel(c, level[c] + 1)
                                        THEN "spawned" ELSE phase[c][n]]]
    /\ wg' = [wg EXCEPT ![c] = wg[c] + Cardinality(AtLevel(c, level[c] + 1))]
    /\ pc' = [pc EXCEPT ![c] = "wait"]
    /\ UNCHANGED <<collectors, muVars, object, request, answer, planVars, prior,
                   results, outcome, samples, failures>>

\* One turn of the loop over levels: the snapshot, then a goroutine for each
\* collector of the level.
StartLevel(c) ==
    /\ pc[c] = "levels"
    /\ \E n \in wanted[c] : rank[c][n] > level[c]
    /\ level' = [level EXCEPT ![c] = level[c] + 1]
    /\ prior' = [prior EXCEPT ![c] = results[c]]
    /\ phase' = [phase EXCEPT ![c] =
                    [n \in Names |-> IF n \in AtLevel(c, level[c] + 1)
                                        THEN "spawned" ELSE phase[c][n]]]
    /\ wg' = [wg EXCEPT ![c] = wg[c] + Cardinality(AtLevel(c, level[c] + 1))]
    /\ pc' = [pc EXCEPT ![c] = "wait"]
    /\ UNCHANGED <<collectors, muVars, object, request, answer, planVars,
                   results, outcome, samples, failures>>

\* A mutant: the levels are not waited for.
WaitLevelNot(c) ==
    /\ pc[c] = "wait"
    /\ pc' = [pc EXCEPT ![c] = "levels"]
    /\ UNCHANGED <<collectors, muVars, object, request, answer, planVars, loopVars, workVars>>

WaitLevel(c) ==
    /\ pc[c] = "wait"
    /\ wg[c] = 0
    /\ pc' = [pc EXCEPT ![c] = "levels"]
    /\ UNCHANGED <<collectors, muVars, object, request, answer, planVars, loopVars, workVars>>

RunReturns(c) ==
    /\ pc[c] = "levels"
    /\ \A n \in wanted[c] : rank[c][n] <= level[c]
    /\ RUnlock(c)
    /\ Return(c, "ok", results[c])
    /\ wanted' = [wanted EXCEPT ![c] = {}]
    /\ rank' = [rank EXCEPT ![c] = [n \in Names |-> 0]]
    /\ level' = [level EXCEPT ![c] = 0]
    /\ prior' = [prior EXCEPT ![c] = {}]
    /\ results' = [results EXCEPT ![c] = {}]
    /\ wg' = [wg EXCEPT ![c] = 0]
    /\ phase' = [phase EXCEPT ![c] = [n \in Names |-> "waiting"]]
    /\ outcome' = [outcome EXCEPT ![c] = [n \in Names |-> "none"]]
    /\ samples' = [samples EXCEPT ![c] = [n \in Names |-> "none"]]
    /\ failures' = [failures EXCEPT ![c] = {}]
    /\ UNCHANGED <<collectors, object, request>>

----------------------------------------------------------------------------
\* Run, the goroutine of one collector.

Step(c, n, from, to) ==
    /\ phase[c][n] = from
    /\ phase' = [phase EXCEPT ![c][n] = to]
    /\ UNCHANGED <<collectors, muVars, callVars, planVars, loopVars>>

BeginCollect(c, n) ==
    /\ Step(c, n, "spawned", "collecting")
    /\ UNCHANGED <<results, wg, outcome, samples, failures>>

EndCollect(c, n) ==
    /\ Step(c, n, "collecting", "collected")
    /\ \E o \in {"ok", "err"} : outcome' = [outcome EXCEPT ![c][n] = o]
    /\ UNCHANGED <<results, wg, samples, failures>>

OnComplete(c, n) ==
    /\ Step(c, n, "collected", "reported")
    /\ samples' = IF "OnComplete" \in Hooks
                     THEN [samples EXCEPT ![c][n] = outcome[c][n]] ELSE samples
    /\ UNCHANGED <<results, wg, outcome, failures>>

\* A mutant: the return is missing, and the failed result is stored.
OnErrorStores(c, n) ==
    /\ outcome[c][n] = "err"
    /\ Step(c, n, "reported", "leaving")
    /\ failures' = IF "OnError" \in Hooks
                      THEN [failures EXCEPT ![c] = failures[c] \cup {n}] ELSE failures
    /\ results' = [results EXCEPT ![c] = results[c] \cup {n}]
    /\ UNCHANGED <<wg, outcome, samples>>

\* A mutant: wg.Done is not deferred, and skipped by the return.
OnErrorUndone(c, n) ==
    /\ outcome[c][n] = "err"
    /\ Step(c, n, "reported", "done")
    /\ failures' = IF "OnError" \in Hooks
                      THEN [failures EXCEPT ![c] = failures[c] \cup {n}] ELSE failures
    /\ UNCHANGED <<results, wg, outcome, samples>>

\* The early return of a collector that failed.
OnError(c, n) ==
    /\ outcome[c][n] = "err"
    /\ Step(c, n, "reported", "leaving")
    /\ failures' = IF "OnError" \in Hooks
                      THEN [failures EXCEPT ![c] = failures[c] \cup {n}] ELSE failures
    /\ UNCHANGED <<results, wg, outcome, samples>>

\* A mutant: an update of the map by another goroutine is lost.
StoreResultLost(c, n) ==
    /\ outcome[c][n] = "ok"
    /\ Step(c, n, "reported", "leaving")
    /\ results' = [results EXCEPT ![c] = {n}]
    /\ UNCHANGED <<wg, outcome, samples, failures>>

\* results[c.Name()] = out, under resultsMu.
StoreResult(c, n) ==
    /\ outcome[c][n] = "ok"
    /\ Step(c, n, "reported", "leaving")
    /\ results' = [results EXCEPT ![c] = results[c] \cup {n}]
    /\ UNCHANGED <<wg, outcome, samples, failures>>

\* The deferred wg.Done.
Done(c, n) ==
    /\ Step(c, n, "leaving", "done")
    /\ wg' = [wg EXCEPT ![c] = wg[c] - 1]
    /\ UNCHANGED <<results, outcome, samples, failures>>

----------------------------------------------------------------------------
Goroutine(c, n) ==
    \/ BeginCollect(c, n) \/ EndCollect(c, n) \/ OnComplete(c, n)
    \/ OnError(c, n) \/ StoreResult(c, n) \/ Done(c, n)

\* What a caller inside an operation does next.
Caller(c) ==
    \/ EnterRegister(c) \/ RegisterDuplicate(c) \/ RegisterNew(c)
    \/ Read(c)
    \/ PlanUnknown(c) \/ PlanCycle(c) \/ Plan(c)
    \/ StartLevel(c) \/ WaitLevel(c) \/ RunReturns(c)

Call(c) ==
    \/ RegisterUnnamed(c)
    \/ \E o \in Collectors : CallRegister(c, o)
    \/ CallRead(c)
    \/ \E S \in Requests : CallRun(c, S)

Next ==
    \E c \in Callers :
        Call(c) \/ LockRegistry(c) \/ Caller(c) \/ \E n \in Names : Goroutine(c, n)

\* Goroutines are scheduled and Collect returns: weak fairness of every step
\* but the calls themselves.  Writers that wait for each other queue on a
\* sync.Mutex, which hands itself over to whoever waited longest: strong
\* fairness of the announcement.
Fairness ==
    \A c \in Callers :
        /\ WF_vars(Caller(c))
        /\ SF_vars(LockRegistry(c))
        /\ \A n \in Names : WF_vars(Goroutine(c, n))

Spec == Init /\ [][Next]_vars /\ Fairness
----------------------------------------------------------------------------
Phases == {"waiting", "spawned", "collecting", "collected", "reported", "leaving", "done"}

\* The phases in which a goroutine of the level runs.
Live == Phases \ {"waiting", "done"}

\* A run that holds a plan.
Running(c) == pc[c] \in {"levels", "wait"}

\* Every variable stays in the set of its values; above all no WaitGroup
\* counter goes below zero, which in Go is a panic.
TypeOK ==
    /\ MuTypeOK
    /\ DOMAIN collectors \subseteq Names
    /\ collectors \in [DOMAIN collectors -> Collectors]
    /\ pc \in [Callers -> {"idle", "lock", "drain", "write", "read", "plan", "levels", "wait"}]
    /\ object \in [Callers -> Collectors \cup {NoCollector}]
    /\ request \in [Callers -> SUBSET Names]
    /\ answer \in [Callers -> [err : {"ok", "unnamed", "duplicate", "unknown", "cycle"},
                               results : SUBSET Names]]
    /\ wanted \in [Callers -> SUBSET Names]
    /\ rank \in [Callers -> [Names -> Nat]]
    /\ level \in [Callers -> Nat]
    /\ prior \in [Callers -> SUBSET Names]
    /\ results \in [Callers -> SUBSET Names]
    /\ wg \in [Callers -> Nat]
    /\ phase \in [Callers -> [Names -> Phases]]
    /\ outcome \in [Callers -> [Names -> {"none", "ok", "err"}]]
    /\ samples \in [Callers -> [Names -> {"none", "ok", "err"}]]
    /\ failures \in [Callers -> SUBSET Names]

\* The RWMutex does what the map needs: while a caller writes nobody else is
\* inside, and a run or a read in progress keeps every writer out.
WriterAlone ==
    \A c \in Callers : pc[c] = "write" =>
        /\ readers = {}
        /\ \A b \in Callers \ {c} : pc[b] # "write" /\ ~ Running(b)

\* A collector starts only when everything it declares has returned, stored
\* its result or reported its error, and left.
DepsFinishFirst ==
    \A c \in Callers, n \in Names :
        Running(c) /\ phase[c][n] # "waiting" =>
            \A m \in Declared(Deps, n) : phase[c][m] = "done"

\* What a collector is handed does not depend on how the goroutines were
\* scheduled: the successes of all lower levels, nothing of its siblings.
PriorIsLowerSuccesses ==
    \A c \in Callers, n \in Names :
        phase[c][n] \in {"spawned", "collecting"} =>
            prior[c] = {m \in wanted[c] : rank[c][m] < rank[c][n] /\ outcome[c][m] = "ok"}

\* When a run returns, every collector the request needs has been called
\* once and accounted for: in the results if it succeeded, missing if not,
\* and the hooks have been told of all of them.
RunAccountsForAll ==
    \A c \in Callers :
        pc[c] = "levels" /\ (\A n \in wanted[c] : rank[c][n] <= level[c]) =>
            /\ \A n \in wanted[c] : phase[c][n] = "done" /\ outcome[c][n] # "none"
            /\ results[c] = {n \in wanted[c] : outcome[c][n] = "ok"}
            /\ "OnComplete" \in Hooks => samples[c] = outcome[c]
            /\ "OnError" \in Hooks => failures[c] = wanted[c] \ results[c]

\* The collectors do not change under a run, and a registered collector is
\* never replaced or removed, however registrations race.
RegistryIsStable ==
    [][/\ \A n \in DOMAIN collectors :
             n \in DOMAIN collectors' /\ collectors'[n] = collectors[n]
       /\ (\E c \in Callers : Running(c)) => UNCHANGED collectors]_vars

\* Every operation returns: a Run although its collectors fail, a Register
\* although other callers' runs follow each other without a gap, a reader
\* although a writer held it back.
OperationsReturn == \A c \in Callers : pc[c] # "idle" ~> pc[c] = "idle"

\* collector.go: prior "always includes everything declared in Dependencies".
PriorHasDeclared ==
    \A c \in Callers, n \in Names :
        phase[c][n] \in {"spawned", "collecting"} => Declared(Deps, n) \subseteq prior[c]

----------------------------------------------------------------------------
\* A collector has started when its Collect is called, and is finished when
\* its goroutine has left.
Status(c, n) ==
    IF phase[c][n] \in {"waiting", "spawned"} THEN "waiting"
    ELSE IF phase[c][n] = "done" THEN outcome[c][n] ELSE "running"

Contract == INSTANCE RunContract WITH
    running <- {c \in Callers : Running(c)},
    status  <- [c \in Callers |-> [n \in Names |-> Status(c, n)]]

\* Behind its locks, levels and counters the registry keeps the contract its
\* callers rely on, step by step ...
KeepsContract == Contract!Init /\ [][Contract!Next]_(Contract!vars)

\* ... and a run that has begun comes to its answer.
FulfilsContract == Contract!Spec
=============================================================================
