---------------------------- MODULE RegistryProofs ----------------------------
(***************************************************************************)
(* What holds of every Registry, whatever is registered, however many      *)
(* callers there are and whichever collectors fail.                        *)
(***************************************************************************)
EXTENDS Registry, FiniteSetTheorems, TLAPS

----------------------------------------------------------------------------
\* The inductive invariant.

\* What the lock's variables say about where its users are.
LockOK(c) ==
    /\ c \in readers => pc[c] \in {"read", "plan", "levels", "wait"}
    /\ c \in blocked => pc[c] \in {"read", "plan"} /\ c \notin readers
    /\ Running(c) => c \in readers
    /\ writer = c <=> pc[c] \in {"drain", "write"}
    /\ pc[c] = "write" => readers = {}
    /\ pc[c] \in {"lock", "drain", "write"} =>
          object[c] \in Collectors /\ NameOf[object[c]] \in Names

LockInv == \A c \in Callers : LockOK(c)

\* A run's plan fits the registry, which stands still for it.
PlanOK(c) ==
    /\ wanted[c] \subseteq DOMAIN collectors
    /\ Closed(Deps, wanted[c])
    /\ IsRanking(Deps, wanted[c], rank[c])

\* Levels below the current one are finished, levels above it not begun.
ProgressOK(c) ==
    \A n \in wanted[c] :
        /\ rank[c][n] > level[c] => phase[c][n] = "waiting"
        /\ rank[c][n] < level[c] \/ (rank[c][n] = level[c] /\ pc[c] = "levels")
              => phase[c][n] = "done"
        /\ rank[c][n] = level[c] => phase[c][n] # "waiting"

Before == {"waiting", "spawned", "collecting"}

\* The run's maps and counters agree with how far the goroutines are.
EntryOK(c, n) ==
    /\ n \notin wanted[c] => phase[c][n] = "waiting"
    /\ outcome[c][n] = "none" <=> phase[c][n] \in Before
    /\ n \in results[c] <=> outcome[c][n] = "ok" /\ phase[c][n] \in {"leaving", "done"}
    /\ n \in failures[c] <=> /\ "OnError" \in Hooks
                             /\ outcome[c][n] = "err"
                             /\ phase[c][n] \in {"leaving", "done"}
    /\ "OnComplete" \in Hooks =>
          samples[c][n] = IF phase[c][n] \in {"reported", "leaving", "done"}
                             THEN outcome[c][n] ELSE "none"

BooksOK(c) ==
    /\ \A n \in Names : EntryOK(c, n)
    /\ wg[c] = Cardinality({n \in Names : phase[c][n] \in Live})

PriorOK(c) ==
    prior[c] = {m \in wanted[c] : rank[c][m] < level[c] /\ outcome[c][m] = "ok"}

RunOK(c) ==
    /\ ~ Running(c) => wanted[c] = {} /\ level[c] = 0
    /\ Running(c) => PlanOK(c) /\ ProgressOK(c)
    /\ pc[c] = "wait" => PriorOK(c)
    /\ BooksOK(c)

IInv ==
    /\ TypeOK
    /\ LockInv
    /\ \A c \in Callers : RunOK(c)

----------------------------------------------------------------------------
\* A request's closure is closed, so whoever is wanted has all it declares
\* wanted too.
LEMMA NeedsClosed ==
  ASSUME TypeOK, NEW c \in Callers
  PROVE  Needs(c) \subseteq Names /\ Closed(Deps, Needs(c))
<1>1. Needs(c) \subseteq Names
  BY DEF Needs, Closure
<1>2. ASSUME NEW n \in Needs(c), NEW m \in Declared(Deps, n) PROVE m \in Needs(c)
  <2>1. n \in DOMAIN collectors /\ m \in Range(DepsOf[collectors[n]])
    BY <1>2 DEF Declared, Deps, Range
  <2>2. m \in Names
    BY <2>1, CollectorsAssumption DEF TypeOK, Range
  <2>3. ASSUME NEW C \in SUBSET Names, request[c] \subseteq C, Closed(Deps, C) PROVE m \in C
    BY <1>2, <2>3 DEF Needs, Closure, Closed
  <2> QED BY <2>2, <2>3 DEF Needs, Closure
<1> QED BY <1>1, <1>2 DEF Closed

\* Of an action that leaves a caller's run alone, its part of the invariant
\* is kept.
LEMMA RunUntouched ==
  ASSUME NEW c \in Callers, RunOK(c),
         Running(c)' = Running(c), Running(c) => pc'[c] = pc[c],
         Running(c) => collectors' = collectors,
         wanted'[c] = wanted[c], rank'[c] = rank[c], level'[c] = level[c],
         prior'[c] = prior[c], results'[c] = results[c], wg'[c] = wg[c],
         phase'[c] = phase[c], outcome'[c] = outcome[c],
         samples'[c] = samples[c], failures'[c] = failures[c]
  PROVE  RunOK(c)'
<1>1. BooksOK(c)'
  BY DEF RunOK, BooksOK, EntryOK
<1>2. ASSUME Running(c) PROVE PlanOK(c)' /\ ProgressOK(c)'
  BY <1>2 DEF RunOK, PlanOK, ProgressOK, Deps
<1>3. (pc[c] = "wait" => PriorOK(c))'
  BY DEF RunOK, PriorOK, Running
<1> QED BY <1>1, <1>2, <1>3 DEF RunOK

----------------------------------------------------------------------------
LEMMA InitIInv == Init => IInv
<1> SUFFICES ASSUME Init PROVE IInv
  OBVIOUS
<1> USE DEF Init, MuInit
<1>1. TypeOK
  BY NoCallerAssumption DEF TypeOK, MuTypeOK, NoAnswer, Phases
<1>2. LockInv
  BY NoCallerAssumption DEF LockInv, LockOK, Running
<1>3. ASSUME NEW c \in Callers PROVE RunOK(c)
  <2>1. {n \in Names : phase[c][n] \in Live} = {}
    BY DEF Live
  <2>2. BooksOK(c)
    BY <2>1, FS_EmptySet DEF BooksOK, EntryOK, Before
  <2> QED BY <2>2 DEF RunOK, Running
<1> QED BY <1>1, <1>2, <1>3 DEF IInv

----------------------------------------------------------------------------
\* A goroutine that lives belongs to the level its run waits for.
LEMMA LiveGoroutine ==
  ASSUME IInv, NEW c \in Callers, NEW n \in Names, phase[c][n] \in Live
  PROVE  /\ pc[c] = "wait" /\ n \in wanted[c] /\ rank[c][n] = level[c]
         /\ Running(c) /\ c \in readers
<1>1. RunOK(c) /\ phase[c][n] # "waiting" /\ phase[c][n] # "done"
  BY DEF IInv, Live
<1>2. n \in wanted[c]
  BY <1>1 DEF RunOK, BooksOK, EntryOK
<1>3. Running(c) /\ ProgressOK(c)
  BY <1>1, <1>2 DEF RunOK
<1>4. rank[c][n] \in Nat /\ level[c] \in Nat
  BY DEF IInv, TypeOK
<1>5. rank[c][n] = level[c] /\ pc[c] = "wait"
  BY <1>1, <1>2, <1>3, <1>4 DEF ProgressOK, Running
<1> QED BY <1>2, <1>3, <1>5 DEF IInv, LockInv, LockOK

\* The WaitGroup counts the goroutines that live: it is zero when none does.
LEMMA WaitGroup ==
  ASSUME IInv, NEW c \in Callers
  PROVE  wg[c] = 0 <=> \A n \in Names : phase[c][n] \notin Live
<1> DEFINE A == {n \in Names : phase[c][n] \in Live}
<1>1. IsFiniteSet(A)
  BY NamesAssumption, FS_Subset
<1>2. wg[c] = Cardinality(A)
  BY DEF IInv, RunOK, BooksOK, EntryOK
<1> QED BY <1>1, <1>2, FS_EmptySet

----------------------------------------------------------------------------
\* Operations that are not a planned run.
Outside(c) ==
    \/ RegisterUnnamed(c) \/ \E o \in Collectors : CallRegister(c, o)
    \/ LockRegistry(c) \/ EnterRegister(c) \/ RegisterDuplicate(c)
    \/ CallRead(c) \/ Read(c)
    \/ \E S \in Requests : CallRun(c, S)
    \/ PlanUnknown(c) \/ PlanCycle(c)

LEMMA NextSplit ==
  ASSUME Next
  PROVE  \E c \in Callers :
            \/ Outside(c) \/ RegisterNew(c)
            \/ Plan(c) \/ StartLevel(c) \/ WaitLevel(c) \/ RunReturns(c)
            \/ \E n \in Names : Goroutine(c, n)
  BY DEF Next, Call, Caller, Outside

\* They leave every run and the registered collectors alone, and stay out of
\* the run's loop.
LEMMA OutsideFacts ==
  ASSUME TypeOK, NEW c \in Callers, Outside(c)
  PROVE  /\ UNCHANGED <<collectors, planVars, loopVars, workVars>>
         /\ \A b \in Callers \ {c} : pc'[b] = pc[b]
         /\ ~ Running(c) /\ ~ Running(c)'
  BY DEF TypeOK, Outside, RegisterUnnamed, CallRegister, LockRegistry, EnterRegister,
         RegisterDuplicate, CallRead, Read, CallRun, PlanUnknown, PlanCycle,
         Enter, Return, Running

LEMMA OutsideType ==
  ASSUME TypeOK, NEW c \in Callers, Outside(c)
  PROVE  TypeOK'
<1> USE DEF TypeOK, MuTypeOK, NoAnswer
<1>0. /\ UNCHANGED <<collectors, planVars, loopVars, workVars>>
  BY OutsideFacts
<1>1. CASE RegisterUnnamed(c)
  BY <1>0, <1>1 DEF RegisterUnnamed, Return, muVars, planVars, loopVars, workVars
<1>2. ASSUME NEW o \in Collectors, CallRegister(c, o) PROVE TypeOK'
  BY <1>0, <1>2 DEF CallRegister, Enter, muVars, planVars, loopVars, workVars
<1>3. CASE LockRegistry(c)
  BY <1>0, <1>3 DEF LockRegistry, Announce, planVars, loopVars, workVars
<1>4. CASE EnterRegister(c)
  BY <1>0, <1>4 DEF EnterRegister, muVars, planVars, loopVars, workVars
<1>5. CASE RegisterDuplicate(c)
  BY <1>0, <1>5 DEF RegisterDuplicate, Return, Unlock, planVars, loopVars, workVars
<1>6. CASE CallRead(c)
  BY <1>0, <1>6 DEF CallRead, Enter, RLock, planVars, loopVars, workVars
<1>7. CASE Read(c)
  BY <1>0, <1>7 DEF Read, Return, RUnlock, planVars, loopVars, workVars
<1>8. ASSUME NEW S \in Requests, CallRun(c, S) PROVE TypeOK'
  BY <1>0, <1>8, RequestsAssumption
  DEF CallRun, Enter, RLock, planVars, loopVars, workVars
<1>9. CASE PlanUnknown(c)
  BY <1>0, <1>9 DEF PlanUnknown, Return, RUnlock, planVars, loopVars, workVars
<1>10. CASE PlanCycle(c)
  BY <1>0, <1>10 DEF PlanCycle, Return, RUnlock, planVars, loopVars, workVars
<1> QED
  BY <1>1, <1>2, <1>3, <1>4, <1>5, <1>6, <1>7, <1>8, <1>9, <1>10 DEF Outside

LEMMA OutsideLock ==
  ASSUME TypeOK, LockInv, NEW c \in Callers, Outside(c)
  PROVE  LockInv'
<1> SUFFICES ASSUME NEW b \in Callers PROVE LockOK(b)'
  BY DEF LockInv
<1>0. LockOK(b) /\ LockOK(c) /\ DOMAIN pc = Callers /\ DOMAIN object = Callers
  BY DEF LockInv, TypeOK
<1> USE <1>0, NoCallerAssumption DEF LockOK, Running
<1>1. CASE RegisterUnnamed(c)
  BY <1>1 DEF RegisterUnnamed, Return, muVars
<1>2. ASSUME NEW o \in Collectors, CallRegister(c, o) PROVE LockOK(b)'
  BY <1>2 DEF CallRegister, Enter, muVars
<1>3. CASE LockRegistry(c)
  BY <1>3 DEF LockRegistry, Announce
<1>4. CASE EnterRegister(c)
  BY <1>4 DEF EnterRegister, Drained, muVars
<1>5. CASE RegisterDuplicate(c)
  BY <1>5 DEF RegisterDuplicate, Return, Unlock
<1>6. CASE CallRead(c)
  <2>1. CASE writer = NoCaller
    BY <1>6, <2>1 DEF CallRead, Enter, RLock
  <2>2. CASE writer # NoCaller
    BY <1>6, <2>2 DEF CallRead, Enter, RLock
  <2> QED BY <2>1, <2>2
<1>7. CASE Read(c)
  BY <1>7 DEF Read, Return, RUnlock
<1>8. ASSUME NEW S \in Requests, CallRun(c, S) PROVE LockOK(b)'
  <2>1. CASE writer = NoCaller
    BY <1>8, <2>1 DEF CallRun, Enter, RLock
  <2>2. CASE writer # NoCaller
    BY <1>8, <2>2 DEF CallRun, Enter, RLock
  <2> QED BY <2>1, <2>2
<1>9. CASE PlanUnknown(c)
  BY <1>9 DEF PlanUnknown, Return, RUnlock
<1>10. CASE PlanCycle(c)
  BY <1>10 DEF PlanCycle, Return, RUnlock
<1> QED
  BY <1>1, <1>2, <1>3, <1>4, <1>5, <1>6, <1>7, <1>8, <1>9, <1>10 DEF Outside

LEMMA OutsideKeeps ==
  ASSUME IInv, NEW c \in Callers, Outside(c)
  PROVE  IInv'
<1>1. TypeOK' /\ LockInv'
  BY OutsideType, OutsideLock DEF IInv
<1>2. ASSUME NEW b \in Callers PROVE RunOK(b)'
  <2>1. /\ UNCHANGED <<collectors, planVars, loopVars, workVars>>
        /\ b # c => pc'[b] = pc[b]
        /\ b = c => ~ Running(b) /\ ~ Running(b)'
    BY OutsideFacts DEF IInv
  <2>2. Running(b)' = Running(b) /\ (Running(b) => pc'[b] = pc[b])
    BY <2>1 DEF Running
  <2>3. RunOK(b)
    BY DEF IInv
  <2> QED BY <2>1, <2>2, <2>3, RunUntouched DEF planVars, loopVars, workVars
<1> QED BY <1>1, <1>2 DEF IInv

----------------------------------------------------------------------------
\* While a caller writes nobody runs, so the map may change.
LEMMA RegisterNewKeeps ==
  ASSUME IInv, NEW c \in Callers, RegisterNew(c)
  PROVE  IInv' /\ \A b \in Callers : ~ Running(b) /\ ~ Running(b)'
<1> USE DEF IInv
<1> DEFINE o == object[c]
<1>1. /\ pc[c] = "write" /\ NameOf[o] \notin DOMAIN collectors /\ writer = c /\ readers = {}
      /\ pc' = [pc EXCEPT ![c] = "idle"] /\ object' = [object EXCEPT ![c] = NoCollector]
      /\ answer' = [answer EXCEPT ![c] = [err |-> "ok", results |-> {}]]
      /\ readers' = blocked /\ blocked' = {} /\ writer' = NoCaller
      /\ UNCHANGED <<request, planVars, loopVars, workVars>>
  BY DEF RegisterNew, Unlock, Return, LockInv, LockOK
<1>2. DOMAIN pc = Callers /\ DOMAIN object = Callers
  BY DEF TypeOK
<1>3. \A b \in Callers : ~ Running(b) /\ ~ Running(b)'
  BY <1>1, <1>2 DEF LockInv, LockOK, Running
<1>4. LockInv'
  <2> SUFFICES ASSUME NEW b \in Callers PROVE LockOK(b)'
    BY DEF LockInv
  <2>1. LockOK(b) /\ LockOK(c)
    BY DEF LockInv
  <2> QED BY <1>1, <1>2, <1>3, <2>1, NoCallerAssumption DEF LockOK
<1>5. collectors' \in [DOMAIN collectors' -> Collectors] /\ DOMAIN collectors' \subseteq Names
  <2>1. o \in Collectors /\ NameOf[o] \in Names
    BY <1>1 DEF LockInv, LockOK
  <2>2. collectors' = [n \in DOMAIN collectors \cup {NameOf[o]} |->
                          IF n = NameOf[o] THEN o ELSE collectors[n]]
    BY DEF RegisterNew
  <2> QED BY <2>1, <2>2 DEF TypeOK
<1>6. TypeOK'
  BY <1>1, <1>5 DEF TypeOK, MuTypeOK, planVars, loopVars, workVars
<1>7. ASSUME NEW b \in Callers PROVE RunOK(b)'
  <2>1. Running(b)' = Running(b)
    BY <1>3 DEF Running
  <2> QED BY <1>1, <1>3, <2>1, RunUntouched DEF planVars, loopVars, workVars
<1> QED BY <1>3, <1>4, <1>6, <1>7

----------------------------------------------------------------------------
\* Run, the caller's goroutine.

\* What an action of a run does not touch of the other runs.
LEMMA OthersKept ==
  ASSUME IInv, NEW c \in Callers, collectors' = collectors,
         \A b \in Callers \ {c} :
            /\ pc'[b] = pc[b]
            /\ wanted'[b] = wanted[b] /\ rank'[b] = rank[b] /\ level'[b] = level[b]
            /\ prior'[b] = prior[b] /\ results'[b] = results[b] /\ wg'[b] = wg[b]
            /\ phase'[b] = phase[b] /\ outcome'[b] = outcome[b]
            /\ samples'[b] = samples[b] /\ failures'[b] = failures[b]
  PROVE  \A b \in Callers \ {c} : RunOK(b)'
<1> SUFFICES ASSUME NEW b \in Callers, b # c PROVE RunOK(b)'
  OBVIOUS
<1>1. Running(b)' = Running(b)
  BY DEF Running
<1> QED BY <1>1, RunUntouched DEF IInv

LEMMA PlanKeeps ==
  ASSUME IInv, NEW c \in Callers, Plan(c)
  PROVE  IInv'
<1> USE DEF IInv
<1> DEFINE W == Needs(c)
<1>1. PICK r \in Rankings(Deps, W) :
         rank' = [rank EXCEPT ![c] = [n \in Names |-> IF n \in W THEN r[n] ELSE 0]]
  BY DEF Plan
<1>2. /\ pc[c] = "plan" /\ c \in readers /\ W \subseteq DOMAIN collectors
      /\ pc' = [pc EXCEPT ![c] = "levels"] /\ wanted' = [wanted EXCEPT ![c] = W]
      /\ UNCHANGED <<collectors, muVars, object, request, answer, loopVars, workVars>>
  BY DEF Plan
<1>3. /\ DOMAIN pc = Callers /\ DOMAIN wanted = Callers /\ DOMAIN rank = Callers
  BY DEF TypeOK
<1>4. W \subseteq Names /\ Closed(Deps, W)
  BY NeedsClosed
<1>5. r \in [W -> 1 .. Cardinality(W)] /\ IsRanking(Deps, W, r)
  BY DEF Rankings
<1> HIDE DEF W
<1>6. [n \in Names |-> IF n \in W THEN r[n] ELSE 0] \in [Names -> Nat]
  BY <1>5
<1>7. TypeOK'
  BY <1>1, <1>2, <1>4, <1>6 DEF TypeOK, MuTypeOK, muVars, loopVars, workVars
<1>8. LockInv'
  <2> SUFFICES ASSUME NEW b \in Callers PROVE LockOK(b)'
    BY DEF LockInv
  <2> QED BY <1>2, <1>3 DEF LockInv, LockOK, Running, muVars
<1>9. RunOK(c)'
  <2>1. RunOK(c) /\ ~ Running(c) /\ wanted[c] = {} /\ level[c] = 0 /\ BooksOK(c)
    BY <1>2 DEF RunOK, Running
  <2>2. wanted'[c] = W /\ \A n \in W : rank'[c][n] = r[n]
    BY <1>1, <1>2, <1>3, <1>4
  <2>3. PlanOK(c)'
    <3>1. IsRanking(Deps, W, rank'[c])
      BY <1>4, <1>5, <2>2 DEF IsRanking, Closed
    <3>2. Deps' = Deps
      BY <1>2 DEF Deps
    <3> QED BY <1>2, <1>4, <2>2, <3>1, <3>2 DEF PlanOK
  <2>4. BooksOK(c)'
    BY <1>2, <2>1, <2>2 DEF BooksOK, EntryOK, workVars
  <2>5. ProgressOK(c)'
    <3>1. ASSUME NEW n \in W PROVE rank'[c][n] \in Nat \ {0} /\ phase'[c][n] = "waiting" /\ level'[c] = 0
      BY <1>2, <1>4, <1>5, <2>1, <2>2 DEF BooksOK, EntryOK, loopVars, workVars
    <3> QED BY <1>2, <2>2, <3>1 DEF ProgressOK
  <2> QED BY <1>2, <1>3, <2>3, <2>4, <2>5 DEF RunOK, Running
<1>10. \A b \in Callers \ {c} : RunOK(b)'
  BY <1>1, <1>2, <1>3, OthersKept DEF loopVars, workVars
<1> QED BY <1>7, <1>8, <1>9, <1>10

LEMMA StartLevelKeeps ==
  ASSUME IInv, NEW c \in Callers, StartLevel(c)
  PROVE  IInv'
<1> USE DEF IInv
<1> DEFINE L == level[c] + 1
           A == AtLevel(c, L)
<1>1. /\ pc[c] = "levels"
      /\ level' = [level EXCEPT ![c] = L]
      /\ prior' = [prior EXCEPT ![c] = results[c]]
      /\ phase' = [phase EXCEPT ![c] =
                       [n \in Names |-> IF n \in A THEN "spawned" ELSE phase[c][n]]]
      /\ wg' = [wg EXCEPT ![c] = wg[c] + Cardinality(A)]
      /\ pc' = [pc EXCEPT ![c] = "wait"]
      /\ UNCHANGED <<collectors, muVars, object, request, answer, planVars,
                     results, outcome, samples, failures>>
  BY DEF StartLevel
<1>2. /\ A = {n \in wanted[c] : rank[c][n] = L} /\ A \subseteq Names
      /\ L \in Nat /\ L > level[c] /\ level[c] \in Nat
      /\ IsFiniteSet(A) /\ Cardinality(A) \in Nat
  <2>1. A \subseteq Names /\ level[c] \in Nat
    BY DEF AtLevel, TypeOK
  <2> QED BY <2>1, NamesAssumption, FS_Subset, FS_CardinalityType DEF AtLevel
<1> HIDE DEF L, A
<1>3. /\ DOMAIN pc = Callers /\ DOMAIN level = Callers /\ DOMAIN prior = Callers
      /\ DOMAIN phase = Callers /\ DOMAIN wg = Callers
  BY DEF TypeOK
<1>4. /\ Running(c) /\ PlanOK(c) /\ ProgressOK(c) /\ BooksOK(c) /\ RunOK(c)
  BY <1>1 DEF RunOK, Running
<1>5. \A n \in wanted[c] :
         /\ rank[c][n] \in Nat
         /\ rank[c][n] < L => phase[c][n] = "done"
         /\ rank[c][n] >= L => phase[c][n] = "waiting"
  <2>1. \A n \in wanted[c] : rank[c][n] \in Nat
    BY DEF TypeOK
  <2> QED BY <1>1, <1>2, <1>4, <2>1 DEF ProgressOK, L
<1>6. \A n \in Names : phase[c][n] \notin Live /\ (n \in A => phase[c][n] = "waiting")
  <2>1. \A n \in Names : phase[c][n] \in {"waiting", "done"}
    BY <1>2, <1>4, <1>5 DEF BooksOK, EntryOK
  <2> QED BY <1>2, <1>5, <2>1 DEF Live
<1>7. wg[c] = 0
  BY <1>6, WaitGroup
<1>8. TypeOK'
  <2>1. [n \in Names |-> IF n \in A THEN "spawned" ELSE phase[c][n]] \in [Names -> Phases]
    BY DEF TypeOK, Phases
  <2> QED BY <1>1, <1>2, <1>7, <2>1 DEF TypeOK, MuTypeOK, muVars, planVars
<1>9. LockInv'
  <2> SUFFICES ASSUME NEW b \in Callers PROVE LockOK(b)'
    BY DEF LockInv
  <2> QED BY <1>1, <1>3 DEF LockInv, LockOK, Running, muVars
<1>10. RunOK(c)'
  <2>1. /\ level'[c] = L /\ prior'[c] = results[c] /\ wg'[c] = Cardinality(A)
        /\ \A n \in Names : phase'[c][n] = IF n \in A THEN "spawned" ELSE phase[c][n]
        /\ wanted' = wanted /\ rank' = rank
    BY <1>1, <1>2, <1>3, <1>7 DEF planVars
  <2>2. PlanOK(c)'
    BY <1>1, <1>4, <2>1 DEF PlanOK, Deps
  <2>3. ProgressOK(c)'
    BY <1>1, <1>2, <1>3, <1>5, <2>1 DEF ProgressOK, TypeOK
  <2>4. PriorOK(c)'
    BY <1>1, <1>2, <1>4, <1>5, <2>1 DEF PriorOK, BooksOK, EntryOK, TypeOK, Before
  <2>5. BooksOK(c)'
    <3>1. {n \in Names : phase'[c][n] \in Live} = A
      BY <1>2, <1>6, <2>1 DEF Live, Phases
    <3>2. ASSUME NEW n \in Names PROVE EntryOK(c, n)'
      <4>1. EntryOK(c, n) /\ (n \in A => n \in wanted[c] /\ phase[c][n] = "waiting")
        BY <1>2, <1>4, <1>6 DEF BooksOK, EntryOK
      <4>2. CASE n \in A
        BY <1>1, <2>1, <4>1, <4>2 DEF EntryOK, Before
      <4>3. CASE n \notin A
        BY <1>1, <2>1, <4>1, <4>3 DEF EntryOK
      <4> QED BY <4>2, <4>3
    <3> QED BY <2>1, <3>1, <3>2 DEF BooksOK
  <2> QED BY <1>1, <1>3, <2>2, <2>3, <2>4, <2>5 DEF RunOK, Running
<1>11. \A b \in Callers \ {c} : RunOK(b)'
  BY <1>1, <1>3, OthersKept DEF planVars
<1> QED BY <1>8, <1>9, <1>10, <1>11

LEMMA WaitLevelKeeps ==
  ASSUME IInv, NEW c \in Callers, WaitLevel(c)
  PROVE  IInv'
<1> USE DEF IInv
<1>1. /\ pc[c] = "wait" /\ wg[c] = 0 /\ pc' = [pc EXCEPT ![c] = "levels"]
      /\ UNCHANGED <<collectors, muVars, object, request, answer, planVars, loopVars, workVars>>
  BY DEF WaitLevel
<1>2. DOMAIN pc = Callers
  BY DEF TypeOK
<1>3. RunOK(c) /\ Running(c) /\ ProgressOK(c)
  BY <1>1 DEF RunOK, Running
<1>4. TypeOK'
  BY <1>1 DEF TypeOK, MuTypeOK, muVars, planVars, loopVars, workVars
<1>5. LockInv'
  <2> SUFFICES ASSUME NEW b \in Callers PROVE LockOK(b)'
    BY DEF LockInv
  <2> QED BY <1>1, <1>2 DEF LockInv, LockOK, Running, muVars
<1>6. RunOK(c)'
  <2>1. BooksOK(c)'
    BY <1>1, <1>3 DEF RunOK, BooksOK, EntryOK, planVars, workVars
  <2>2. PlanOK(c)'
    BY <1>1, <1>3 DEF RunOK, PlanOK, Deps, planVars
  <2>3. \A n \in wanted[c] : phase[c][n] \in {"waiting", "done"}
    BY <1>1, WaitGroup DEF Live, TypeOK
  <2>4. ProgressOK(c)'
    BY <1>1, <1>3, <2>3 DEF ProgressOK, planVars, loopVars, workVars
  <2> QED BY <1>1, <1>2, <2>1, <2>2, <2>4 DEF RunOK, Running
<1>7. \A b \in Callers \ {c} : RunOK(b)'
  BY <1>1, <1>2, OthersKept DEF planVars, loopVars, workVars
<1> QED BY <1>4, <1>5, <1>6, <1>7

LEMMA RunReturnsKeeps ==
  ASSUME IInv, NEW c \in Callers, RunReturns(c)
  PROVE  IInv'
<1> USE DEF IInv
<1>1. /\ pc[c] = "levels"
      /\ pc' = [pc EXCEPT ![c] = "idle"]
      /\ answer' = [answer EXCEPT ![c] = [err |-> "ok", results |-> results[c]]]
      /\ readers' = readers \ {c} /\ UNCHANGED <<blocked, writer>>
      /\ wanted' = [wanted EXCEPT ![c] = {}]
      /\ rank' = [rank EXCEPT ![c] = [n \in Names |-> 0]]
      /\ level' = [level EXCEPT ![c] = 0]
      /\ prior' = [prior EXCEPT ![c] = {}]
      /\ results' = [results EXCEPT ![c] = {}]
      /\ wg' = [wg EXCEPT ![c] = 0]
      /\ phase' = [phase EXCEPT ![c] = [n \in Names |-> "waiting"]]
      /\ outcome' = [outcome EXCEPT ![c] = [n \in Names |-> "none"]]
      /\ samples' = [samples EXCEPT ![c] = [n \in Names |-> "none"]]
      /\ failures' = [failures EXCEPT ![c] = {}]
      /\ UNCHANGED <<collectors, object, request>>
  BY DEF RunReturns, Return, RUnlock
<1>2. /\ DOMAIN pc = Callers /\ DOMAIN wanted = Callers /\ DOMAIN rank = Callers
      /\ DOMAIN level = Callers /\ DOMAIN prior = Callers /\ DOMAIN results = Callers
      /\ DOMAIN wg = Callers /\ DOMAIN phase = Callers /\ DOMAIN outcome = Callers
      /\ DOMAIN samples = Callers /\ DOMAIN failures = Callers
  BY DEF TypeOK
<1>3. TypeOK'
  BY <1>1 DEF TypeOK, MuTypeOK, Phases
<1>4. LockInv'
  <2> SUFFICES ASSUME NEW b \in Callers PROVE LockOK(b)'
    BY DEF LockInv
  <2>1. LockOK(b) /\ LockOK(c)
    BY DEF LockInv
  <2> QED BY <1>1, <1>2, <2>1 DEF LockOK, Running
<1>5. RunOK(c)'
  <2>1. /\ wanted'[c] = {} /\ level'[c] = 0 /\ results'[c] = {} /\ wg'[c] = 0
        /\ \A n \in Names : phase'[c][n] = "waiting" /\ outcome'[c][n] = "none"
                             /\ samples'[c][n] = "none"
        /\ failures'[c] = {} /\ pc'[c] = "idle"
    BY <1>1, <1>2
  <2>2. {n \in Names : phase'[c][n] \in Live} = {}
    BY <2>1 DEF Live
  <2>3. BooksOK(c)'
    BY <2>1, <2>2, FS_EmptySet DEF BooksOK, EntryOK, Before
  <2> QED BY <2>1, <2>3 DEF RunOK, Running
<1>6. \A b \in Callers \ {c} : RunOK(b)'
  BY <1>1, <1>2, OthersKept
<1> QED BY <1>3, <1>4, <1>5, <1>6

----------------------------------------------------------------------------
\* Run, the goroutine of one collector.

\* A step of a goroutine of a level, seen from the rest of the run.
Moves(c, n, from, to) ==
    /\ from \in Live /\ to \in Live \cup {"done"}
    /\ Step(c, n, from, to)

\* It keeps all of the invariant that does not look inside the books.
LEMMA MoveKeeps ==
  ASSUME IInv, NEW c \in Callers, NEW n \in Names, NEW from, NEW to, Moves(c, n, from, to),
         TypeOK', BooksOK(c)',
         \A m \in Names \ {n} : outcome'[c][m] = outcome[c][m],
         \A b \in Callers \ {c} :
            /\ results'[b] = results[b] /\ wg'[b] = wg[b] /\ outcome'[b] = outcome[b]
            /\ samples'[b] = samples[b] /\ failures'[b] = failures[b]
  PROVE  IInv'
<1>1. /\ phase[c][n] = from /\ phase[c][n] \in Live
      /\ phase' = [phase EXCEPT ![c][n] = to] /\ to # "waiting"
      /\ UNCHANGED <<collectors, muVars, callVars, planVars, loopVars>>
  BY DEF Moves, Step, Live
<1>2. /\ pc[c] = "wait" /\ n \in wanted[c] /\ rank[c][n] = level[c] /\ Running(c)
  BY <1>1, LiveGoroutine
<1>3. /\ \A m \in Names : phase'[c][m] = IF m = n THEN to ELSE phase[c][m]
      /\ \A b \in Callers \ {c} : phase'[b] = phase[b]
  BY <1>1 DEF IInv, TypeOK
<1>4. LockInv'
  BY <1>1 DEF IInv, LockInv, LockOK, Running, muVars, callVars
<1>5. RunOK(c) /\ PlanOK(c) /\ ProgressOK(c) /\ PriorOK(c) /\ wanted[c] \subseteq Names
  BY <1>2 DEF IInv, RunOK, TypeOK
<1>6. PlanOK(c)'
  BY <1>1, <1>5 DEF PlanOK, Deps, planVars
<1>7. ProgressOK(c)'
  <2>1. rank[c][n] \in Nat
    BY DEF IInv, TypeOK
  <2> QED BY <1>1, <1>2, <1>3, <1>5, <2>1 DEF ProgressOK, planVars, loopVars, callVars
<1>8. PriorOK(c)'
  <2>1. \A m \in wanted[c] : rank[c][m] < level[c] => m # n
    BY <1>2 DEF IInv, TypeOK
  <2> QED BY <1>1, <1>5, <2>1 DEF PriorOK, planVars, loopVars
<1>9. RunOK(c)'
  BY <1>1, <1>2, <1>6, <1>7, <1>8 DEF RunOK, Running, callVars
<1>10. \A b \in Callers \ {c} : RunOK(b)'
  BY <1>1, <1>3, OthersKept DEF callVars, planVars, loopVars
<1> QED BY <1>4, <1>9, <1>10 DEF IInv

\* While it lives on, the WaitGroup's counter is still right.
LEMMA StillLive ==
  ASSUME TypeOK, NEW c \in Callers, NEW n \in Names, NEW from \in Live, NEW to \in Live,
         Step(c, n, from, to)
  PROVE  {m \in Names : phase'[c][m] \in Live} = {m \in Names : phase[c][m] \in Live}
<1>1. /\ phase[c][n] = from
      /\ \A m \in Names : phase'[c][m] = IF m = n THEN to ELSE phase[c][m]
  BY DEF Step, TypeOK
<1> QED BY <1>1

LEMMA GoroutineKeeps ==
  ASSUME IInv, NEW c \in Callers, NEW n \in Names, Goroutine(c, n)
  PROVE  IInv'
<1> USE DEF IInv
<1>0. /\ BooksOK(c) /\ TypeOK
      /\ {"spawned", "collecting", "collected", "reported", "leaving"} \subseteq Live
      /\ "done" \notin Live /\ Live \cup {"done"} \subseteq Phases
  BY DEF RunOK, Live, Phases
<1>1. CASE BeginCollect(c, n)
  <2>1. Moves(c, n, "spawned", "collecting") /\ Step(c, n, "spawned", "collecting")
    BY <1>0, <1>1 DEF BeginCollect, Moves
  <2>2. /\ phase[c][n] = "spawned" /\ phase' = [phase EXCEPT ![c][n] = "collecting"]
        /\ \A m \in Names : phase'[c][m] = IF m = n THEN "collecting" ELSE phase[c][m]
        /\ UNCHANGED <<collectors, muVars, callVars, planVars, loopVars>>
    BY <2>1 DEF Step, TypeOK
  <2>3. {m \in Names : phase'[c][m] \in Live} = {m \in Names : phase[c][m] \in Live}
    BY <1>0, <2>1, StillLive
  <2>4. TypeOK'
    BY <1>0, <1>1, <2>2 DEF BeginCollect, TypeOK, MuTypeOK, muVars, callVars, planVars, loopVars
  <2>5. BooksOK(c)'
    <3>1. ASSUME NEW m \in Names PROVE EntryOK(c, m)'
      <4>1. EntryOK(c, m) /\ EntryOK(c, n) /\ n \in wanted[c]
        BY <1>0, <2>2, LiveGoroutine DEF BooksOK
      <4> QED BY <1>1, <2>2, <4>1 DEF BeginCollect, EntryOK, Before, TypeOK, planVars
    <3> QED BY <1>0, <1>1, <2>3, <3>1 DEF BeginCollect, BooksOK
  <2> QED BY <1>1, <2>1, <2>4, <2>5, MoveKeeps DEF BeginCollect, TypeOK
<1>2. CASE EndCollect(c, n)
  <2>1. Moves(c, n, "collecting", "collected") /\ Step(c, n, "collecting", "collected")
    BY <1>0, <1>2 DEF EndCollect, Moves
  <2>2. /\ phase[c][n] = "collecting" /\ phase' = [phase EXCEPT ![c][n] = "collected"]
        /\ \A m \in Names : phase'[c][m] = IF m = n THEN "collected" ELSE phase[c][m]
        /\ UNCHANGED <<collectors, muVars, callVars, planVars, loopVars>>
    BY <2>1 DEF Step, TypeOK
  <2>3. {m \in Names : phase'[c][m] \in Live} = {m \in Names : phase[c][m] \in Live}
    BY <1>0, <2>1, StillLive
  <2>4. TypeOK'
    BY <1>0, <1>2, <2>2 DEF EndCollect, TypeOK, MuTypeOK, muVars, callVars, planVars, loopVars
  <2>5. BooksOK(c)'
    <3>1. ASSUME NEW m \in Names PROVE EntryOK(c, m)'
      <4>1. EntryOK(c, m) /\ EntryOK(c, n) /\ n \in wanted[c]
        BY <1>0, <2>2, LiveGoroutine DEF BooksOK
      <4> QED BY <1>2, <2>2, <4>1 DEF EndCollect, EntryOK, Before, TypeOK, planVars
    <3> QED BY <1>0, <1>2, <2>3, <3>1 DEF EndCollect, BooksOK
  <2>6. PICK o \in {"ok", "err"} : outcome' = [outcome EXCEPT ![c][n] = o]
    BY <1>2 DEF EndCollect
  <2>7. /\ \A m \in Names \ {n} : outcome'[c][m] = outcome[c][m]
        /\ \A b \in Callers \ {c} : outcome'[b] = outcome[b]
    BY <2>6 DEF TypeOK
  <2>8. UNCHANGED <<results, wg, samples, failures>>
    BY <1>2 DEF EndCollect
  <2> QED BY <2>1, <2>4, <2>5, <2>7, <2>8, MoveKeeps
<1>3. CASE OnComplete(c, n)
  <2>1. Moves(c, n, "collected", "reported") /\ Step(c, n, "collected", "reported")
    BY <1>0, <1>3 DEF OnComplete, Moves
  <2>2. /\ phase[c][n] = "collected" /\ phase' = [phase EXCEPT ![c][n] = "reported"]
        /\ \A m \in Names : phase'[c][m] = IF m = n THEN "reported" ELSE phase[c][m]
        /\ UNCHANGED <<collectors, muVars, callVars, planVars, loopVars>>
    BY <2>1 DEF Step, TypeOK
  <2>3. {m \in Names : phase'[c][m] \in Live} = {m \in Names : phase[c][m] \in Live}
    BY <1>0, <2>1, StillLive
  <2>4. TypeOK'
    BY <1>0, <1>3, <2>2 DEF OnComplete, TypeOK, MuTypeOK, muVars, callVars, planVars, loopVars
  <2>5. BooksOK(c)'
    <3>1. ASSUME NEW m \in Names PROVE EntryOK(c, m)'
      <4>1. EntryOK(c, m) /\ EntryOK(c, n) /\ n \in wanted[c]
        BY <1>0, <2>2, LiveGoroutine DEF BooksOK
      <4> QED BY <1>3, <2>2, <4>1 DEF OnComplete, EntryOK, Before, TypeOK, planVars
    <3> QED BY <1>0, <1>3, <2>3, <3>1 DEF OnComplete, BooksOK
  <2> QED BY <1>3, <2>1, <2>4, <2>5, MoveKeeps DEF OnComplete, TypeOK
<1>4. CASE OnError(c, n)
  <2>1. Moves(c, n, "reported", "leaving") /\ Step(c, n, "reported", "leaving")
    BY <1>0, <1>4 DEF OnError, Moves
  <2>2. /\ phase[c][n] = "reported" /\ phase' = [phase EXCEPT ![c][n] = "leaving"]
        /\ \A m \in Names : phase'[c][m] = IF m = n THEN "leaving" ELSE phase[c][m]
        /\ UNCHANGED <<collectors, muVars, callVars, planVars, loopVars>>
    BY <2>1 DEF Step, TypeOK
  <2>3. {m \in Names : phase'[c][m] \in Live} = {m \in Names : phase[c][m] \in Live}
    BY <1>0, <2>1, StillLive
  <2>4. TypeOK'
    BY <1>0, <1>4, <2>2 DEF OnError, TypeOK, MuTypeOK, muVars, callVars, planVars, loopVars
  <2>5. BooksOK(c)'
    <3>1. ASSUME NEW m \in Names PROVE EntryOK(c, m)'
      <4>1. EntryOK(c, m) /\ EntryOK(c, n) /\ n \in wanted[c]
        BY <1>0, <2>2, LiveGoroutine DEF BooksOK
      <4> QED BY <1>4, <2>2, <4>1 DEF OnError, EntryOK, Before, TypeOK, planVars
    <3> QED BY <1>0, <1>4, <2>3, <3>1 DEF OnError, BooksOK
  <2> QED BY <1>4, <2>1, <2>4, <2>5, MoveKeeps DEF OnError, TypeOK
<1>5. CASE StoreResult(c, n)
  <2>1. Moves(c, n, "reported", "leaving") /\ Step(c, n, "reported", "leaving")
    BY <1>0, <1>5 DEF StoreResult, Moves
  <2>2. /\ phase[c][n] = "reported" /\ phase' = [phase EXCEPT ![c][n] = "leaving"]
        /\ \A m \in Names : phase'[c][m] = IF m = n THEN "leaving" ELSE phase[c][m]
        /\ UNCHANGED <<collectors, muVars, callVars, planVars, loopVars>>
    BY <2>1 DEF Step, TypeOK
  <2>3. {m \in Names : phase'[c][m] \in Live} = {m \in Names : phase[c][m] \in Live}
    BY <1>0, <2>1, StillLive
  <2>4. TypeOK'
    BY <1>0, <1>5, <2>2 DEF StoreResult, TypeOK, MuTypeOK, muVars, callVars, planVars, loopVars
  <2>5. BooksOK(c)'
    <3>1. ASSUME NEW m \in Names PROVE EntryOK(c, m)'
      <4>1. EntryOK(c, m) /\ EntryOK(c, n) /\ n \in wanted[c]
        BY <1>0, <2>2, LiveGoroutine DEF BooksOK
      <4> QED BY <1>5, <2>2, <4>1 DEF StoreResult, EntryOK, Before, TypeOK, planVars
    <3> QED BY <1>0, <1>5, <2>3, <3>1 DEF StoreResult, BooksOK
  <2> QED BY <1>5, <2>1, <2>4, <2>5, MoveKeeps DEF StoreResult, TypeOK
<1>6. CASE Done(c, n)
  <2>1. Moves(c, n, "leaving", "done") /\ Step(c, n, "leaving", "done")
    BY <1>0, <1>6 DEF Done, Moves
  <2>2. /\ phase[c][n] = "leaving" /\ phase' = [phase EXCEPT ![c][n] = "done"]
        /\ \A m \in Names : phase'[c][m] = IF m = n THEN "done" ELSE phase[c][m]
        /\ UNCHANGED <<collectors, muVars, callVars, planVars, loopVars>>
    BY <2>1 DEF Step, TypeOK
  <2>3. wg'[c] = Cardinality({m \in Names : phase'[c][m] \in Live}) /\ wg'[c] \in Nat
    <3> DEFINE A == {m \in Names : phase[c][m] \in Live}
    <3>1. IsFiniteSet(A) /\ n \in A
      BY <1>0, <2>2, NamesAssumption, FS_Subset
    <3>2. {m \in Names : phase'[c][m] \in Live} = A \ {n}
      BY <1>0, <2>2
    <3>3. wg[c] = Cardinality(A) /\ wg'[c] = wg[c] - 1
      BY <1>0, <1>6 DEF BooksOK, EntryOK, Done, TypeOK
    <3> HIDE DEF A
    <3>4. IsFiniteSet(A \ {n}) /\ Cardinality(A \ {n}) = Cardinality(A) - 1
      BY <3>1, FS_RemoveElement
    <3> QED BY <3>2, <3>3, <3>4, FS_CardinalityType
  <2>4. TypeOK'
    BY <1>0, <1>6, <2>2, <2>3 DEF Done, TypeOK, MuTypeOK, muVars, callVars, planVars, loopVars
  <2>5. BooksOK(c)'
    <3>1. ASSUME NEW m \in Names PROVE EntryOK(c, m)'
      <4>1. EntryOK(c, m) /\ EntryOK(c, n) /\ n \in wanted[c]
        BY <1>0, <2>2, LiveGoroutine DEF BooksOK
      <4> QED BY <1>6, <2>2, <4>1 DEF Done, EntryOK, Before, TypeOK, planVars
    <3> QED BY <1>0, <1>6, <2>3, <3>1 DEF Done, BooksOK
  <2> QED BY <1>6, <2>1, <2>4, <2>5, MoveKeeps DEF Done, TypeOK
<1> QED BY <1>1, <1>2, <1>3, <1>4, <1>5, <1>6 DEF Goroutine

----------------------------------------------------------------------------
LEMMA NextIInv == IInv /\ [Next]_vars => IInv'
<1> SUFFICES ASSUME IInv, [Next]_vars PROVE IInv'
  OBVIOUS
<1>1. CASE Next
  <2>1. PICK c \in Callers :
            \/ Outside(c) \/ RegisterNew(c)
            \/ Plan(c) \/ StartLevel(c) \/ WaitLevel(c) \/ RunReturns(c)
            \/ \E n \in Names : Goroutine(c, n)
    BY <1>1, NextSplit
  <2>2. CASE Outside(c)
    BY <2>2, OutsideKeeps
  <2>3. CASE RegisterNew(c)
    BY <2>3, RegisterNewKeeps
  <2>4. CASE Plan(c)
    BY <2>4, PlanKeeps
  <2>5. CASE StartLevel(c)
    BY <2>5, StartLevelKeeps
  <2>6. CASE WaitLevel(c)
    BY <2>6, WaitLevelKeeps
  <2>7. CASE RunReturns(c)
    BY <2>7, RunReturnsKeeps
  <2>8. CASE \E n \in Names : Goroutine(c, n)
    BY <2>8, GoroutineKeeps
  <2> QED BY <2>1, <2>2, <2>3, <2>4, <2>5, <2>6, <2>7, <2>8
<1>2. CASE UNCHANGED vars
  <2>1. TypeOK' /\ LockInv'
    BY <1>2 DEF IInv, vars, TypeOK, MuTypeOK, LockInv, LockOK, Running
  <2>2. ASSUME NEW c \in Callers PROVE RunOK(c)'
    BY <1>2, RunUntouched DEF IInv, vars, Running
  <2> QED BY <2>1, <2>2 DEF IInv
<1> QED BY <1>1, <1>2

\* Everything the registry keeps true, for any callers, collectors and
\* requests.
THEOREM Inductive == Spec => []IInv
BY InitIInv, NextIInv, PTL DEF Spec

\* The types of the registry's state: among them that no WaitGroup's counter
\* goes below zero.
THEOREM TypeCorrect == Spec => []TypeOK
<1>1. IInv => TypeOK
  BY DEF IInv
<1> QED BY Inductive, <1>1, PTL

\* Nobody reads or runs while a caller writes the map, and one writes at a
\* time.
THEOREM WriterAloneHolds == Spec => []WriterAlone
<1>1. IInv => WriterAlone
  <2> SUFFICES ASSUME IInv, NEW c \in Callers, pc[c] = "write"
               PROVE  readers = {} /\ \A b \in Callers \ {c} : pc[b] # "write" /\ ~ Running(b)
    BY DEF WriterAlone
  <2> QED BY DEF IInv, LockInv, LockOK
<1> QED BY Inductive, <1>1, PTL

\* Whatever a collector that has been spawned declares is wanted, on a lower
\* level, and done.
LEMMA WantedFinishFirst ==
  ASSUME IInv, NEW c \in Callers, NEW n \in Names, Running(c),
         phase[c][n] # "waiting", NEW m \in Declared(Deps, n)
  PROVE  phase[c][m] = "done" /\ m \in Names
<1>1. /\ PlanOK(c) /\ ProgressOK(c) /\ n \in wanted[c] /\ wanted[c] \subseteq Names
  BY DEF IInv, RunOK, BooksOK, EntryOK, TypeOK
<1>2. m \in wanted[c] /\ rank[c][m] < rank[c][n]
  BY <1>1 DEF PlanOK, Closed, IsRanking
<1>3. rank[c][m] \in Nat /\ rank[c][n] \in Nat /\ level[c] \in Nat
  BY <1>1, <1>2 DEF IInv, TypeOK
<1>4. rank[c][n] <= level[c]
  BY <1>1, <1>3 DEF ProgressOK
<1> QED BY <1>1, <1>2, <1>3, <1>4 DEF ProgressOK

\* No collector starts before everything it declares has finished.
THEOREM DepsFinishFirstHolds == Spec => []DepsFinishFirst
<1>1. IInv => DepsFinishFirst
  BY WantedFinishFirst DEF DepsFinishFirst
<1> QED BY Inductive, <1>1, PTL

\* A collector is handed the successes of all lower levels and nothing else.
THEOREM PriorHolds == Spec => []PriorIsLowerSuccesses
<1>1. IInv => PriorIsLowerSuccesses
  <2> SUFFICES ASSUME IInv, NEW c \in Callers, NEW n \in Names,
                      phase[c][n] \in {"spawned", "collecting"}
               PROVE  prior[c] = {m \in wanted[c] : rank[c][m] < rank[c][n] /\ outcome[c][m] = "ok"}
    BY DEF PriorIsLowerSuccesses
  <2>1. pc[c] = "wait" /\ rank[c][n] = level[c]
    BY LiveGoroutine DEF Live, Phases
  <2> QED BY <2>1 DEF IInv, RunOK, PriorOK
<1> QED BY Inductive, <1>1, PTL

\* A run about to return has finished with all it wanted, and its maps say
\* how each went.
LEMMA AccountedFor == IInv => RunAccountsForAll
<1> SUFFICES ASSUME IInv, NEW c \in Callers, pc[c] = "levels",
                    \A n \in wanted[c] : rank[c][n] <= level[c]
             PROVE  /\ \A n \in wanted[c] : phase[c][n] = "done" /\ outcome[c][n] # "none"
                    /\ results[c] = {n \in wanted[c] : outcome[c][n] = "ok"}
                    /\ "OnComplete" \in Hooks => samples[c] = outcome[c]
                    /\ "OnError" \in Hooks => failures[c] = wanted[c] \ results[c]
  BY DEF RunAccountsForAll
<1>1. RunOK(c) /\ ProgressOK(c) /\ BooksOK(c) /\ TypeOK
  BY DEF IInv, RunOK, Running
<1>2. ASSUME NEW n \in wanted[c] PROVE phase[c][n] = "done" /\ outcome[c][n] \in {"ok", "err"}
  <2>1. rank[c][n] \in Nat /\ level[c] \in Nat /\ n \in Names
    BY <1>1 DEF TypeOK
  <2>2. phase[c][n] = "done"
    BY <1>1, <2>1 DEF ProgressOK
  <2>3. outcome[c][n] # "none"
    BY <1>1, <2>1, <2>2 DEF BooksOK, EntryOK, Before
  <2>4. outcome[c][n] \in {"none", "ok", "err"}
    BY <1>1, <2>1 DEF TypeOK
  <2> QED BY <2>2, <2>3, <2>4
<1>3. \A n \in Names \ wanted[c] : phase[c][n] = "waiting" /\ outcome[c][n] = "none"
  BY <1>1 DEF BooksOK, EntryOK, Before
<1>4. results[c] = {n \in wanted[c] : outcome[c][n] = "ok"}
  BY <1>1, <1>2, <1>3 DEF BooksOK, EntryOK, TypeOK
<1>5. ASSUME "OnComplete" \in Hooks PROVE samples[c] = outcome[c]
  <2>1. \A n \in Names : samples[c][n] = outcome[c][n]
    BY <1>1, <1>2, <1>3, <1>5 DEF BooksOK, EntryOK
  <2>2. /\ samples[c] \in [Names -> {"none", "ok", "err"}]
        /\ outcome[c] \in [Names -> {"none", "ok", "err"}]
    BY <1>1 DEF TypeOK
  <2> QED BY <2>1, <2>2
<1>6. ASSUME "OnError" \in Hooks PROVE failures[c] = wanted[c] \ results[c]
  BY <1>1, <1>2, <1>3, <1>6 DEF BooksOK, EntryOK, TypeOK
<1> QED BY <1>2, <1>4, <1>5, <1>6

\* A run that returns has called every collector it needed, and its results,
\* timings and errors account for each of them.
THEOREM RunAccountsHolds == Spec => []RunAccountsForAll
BY Inductive, AccountedFor, PTL

\* Registrations are permanent, and none gets in while somebody runs.
THEOREM RegistryStableHolds == Spec => RegistryIsStable
<1>1. IInv /\ [Next]_vars =>
         [/\ \A n \in DOMAIN collectors :
                n \in DOMAIN collectors' /\ collectors'[n] = collectors[n]
          /\ (\E c \in Callers : Running(c)) => UNCHANGED collectors]_vars
  <2> SUFFICES ASSUME IInv, Next, collectors' # collectors
               PROVE  /\ \A n \in DOMAIN collectors :
                            n \in DOMAIN collectors' /\ collectors'[n] = collectors[n]
                      /\ \A c \in Callers : ~ Running(c)
    OBVIOUS
  <2>1. PICK c \in Callers : RegisterNew(c)
    <3>1. TypeOK
      BY DEF IInv
    <3> QED
      BY <3>1, NextSplit, OutsideFacts
      DEF Plan, StartLevel, WaitLevel, RunReturns, Goroutine, BeginCollect, EndCollect,
          OnComplete, OnError, StoreResult, Done, Step
  <2>2. \A b \in Callers : ~ Running(b)
    BY <2>1, RegisterNewKeeps
  <2> QED BY <2>1, <2>2 DEF RegisterNew
<1> QED BY Inductive, <1>1, PTL DEF Spec, RegistryIsStable

----------------------------------------------------------------------------
\* The refinement: a Registry keeps RunContract; each of its steps is a step of
\* the contract, or one the contract's callers cannot see.

\* Outside of its call a caller still holds its answer; inside it holds none.
AnswerInv == \A c \in Callers : pc[c] # "idle" => answer[c] = NoAnswer

RInv == IInv /\ AnswerInv

runningBar == {c \in Callers : Running(c)}
statusBar == [c \in Callers |-> [n \in Names |-> Status(c, n)]]

\* What the contract sees of a step that is none of its own.
Unseen == UNCHANGED <<collectors, request, runningBar, wanted, statusBar, answer>>

\* The contract and the registry speak of the same graphs.
LEMMA SameWords ==
  /\ Contract!Deps = Deps
  /\ \A c \in Callers : Contract!Needs(c) = Needs(c)
  /\ \A n \in Names : Contract!Declared(Contract!Deps, n) = Declared(Deps, n)
  /\ \A W \in SUBSET Names : Contract!Cyclic(Contract!Deps, W) <=> Cyclic(Deps, W)
<1>1. Contract!Deps = Deps
  BY DEF Contract!Deps, Deps
<1>2. \A n : Contract!Declared(Deps, n) = Declared(Deps, n)
  BY DEF Contract!Declared, Declared, Contract!Range, Range
<1>3. \A C : Contract!Closed(Deps, C) <=> Closed(Deps, C)
  BY <1>2 DEF Contract!Closed, Closed
<1>4. \A c \in Callers : Contract!Needs(c) = Needs(c)
  BY <1>1, <1>3 DEF Contract!Needs, Needs, Contract!Closure, Closure
<1>5. \A W : Contract!Cyclic(Deps, W) <=> Cyclic(Deps, W)
  BY <1>2 DEF Contract!Cyclic, Cyclic, Contract!Knot, Knot
<1> QED BY <1>1, <1>2, <1>4, <1>5

\* A goroutine moves: only its own status can change, nobody starts or ends.
LEMMA OneMove ==
  ASSUME TypeOK, NEW c \in Callers, NEW n \in Names, NEW from, NEW to,
         Step(c, n, from, to),
         \A m \in Names \ {n} : outcome'[c][m] = outcome[c][m],
         \A b \in Callers \ {c} : outcome'[b] = outcome[b]
  PROVE  /\ phase[c][n] = from /\ phase'[c][n] = to
         /\ UNCHANGED <<collectors, request, runningBar, wanted, answer>>
         /\ statusBar' = [statusBar EXCEPT ![c][n] = Status(c, n)']
<1>1. /\ phase[c][n] = from /\ phase' = [phase EXCEPT ![c][n] = to]
      /\ UNCHANGED <<collectors, muVars, callVars, planVars, loopVars>>
  BY DEF Step
<1>2. phase[c] \in [Names -> Phases] /\ phase \in [Callers -> [Names -> Phases]]
  BY DEF TypeOK
<1>3. /\ phase'[c][n] = to
      /\ \A m \in Names \ {n} : phase'[c][m] = phase[c][m]
      /\ \A b \in Callers \ {c} : phase'[b] = phase[b]
  BY <1>1, <1>2
<1>4. UNCHANGED <<collectors, request, runningBar, wanted, answer>>
  BY <1>1 DEF callVars, planVars, runningBar, Running
<1>5. /\ \A m \in Names \ {n} : Status(c, m)' = Status(c, m)
      /\ \A b \in Callers \ {c}, m \in Names : Status(b, m)' = Status(b, m)
  BY <1>3 DEF Status
<1>6. statusBar' = [statusBar EXCEPT ![c][n] = Status(c, n)']
  <2> DEFINE s == Status(c, n)'
  <2>1. /\ statusBar' = [b \in Callers |-> [m \in Names |-> Status(b, m)']]
        /\ statusBar = [b \in Callers |-> [m \in Names |-> Status(b, m)]]
    BY DEF statusBar
  <2>2. ASSUME NEW b \in Callers
        PROVE  statusBar'[b] = IF b = c THEN [statusBar[c] EXCEPT ![n] = s] ELSE statusBar[b]
    <3> HIDE DEF s
    <3>1. statusBar'[b] = [m \in Names |-> Status(b, m)'] /\ statusBar[b] = [m \in Names |-> Status(b, m)]
      BY <2>1
    <3>2. CASE b # c
      BY <1>5, <3>1, <3>2
    <3>3. CASE b = c
      <4>1. \A m \in Names : Status(c, m)' = IF m = n THEN s ELSE Status(c, m)
        BY <1>5 DEF s
      <4> QED BY <3>1, <3>3, <4>1
    <3> QED BY <3>2, <3>3
  <2> HIDE DEF s
  <2>3. statusBar' = [statusBar EXCEPT ![c] = [statusBar[c] EXCEPT ![n] = s]]
    BY <2>1, <2>2
  <2> QED BY <2>3 DEF s
<1> QED BY <1>1, <1>3, <1>4, <1>6

----------------------------------------------------------------------------
LEMMA InitRefines == Init => Contract!Init /\ AnswerInv
<1> SUFFICES ASSUME Init PROVE Contract!Init /\ AnswerInv
  OBVIOUS
<1>1. \A c \in Callers : ~ Running(c) /\ \A n \in Names : Status(c, n) = "waiting"
  BY DEF Init, Running, Status
<1>2. AnswerInv
  BY DEF Init, AnswerInv
<1> QED BY <1>1, <1>2 DEF Init, Contract!Init, Contract!Waiting, Contract!NoAnswer, NoAnswer

LEMMA AnswerKept ==
  ASSUME TypeOK, AnswerInv, [Next]_vars
  PROVE  AnswerInv'
<1> SUFFICES ASSUME NEW b \in Callers, pc'[b] # "idle" PROVE answer'[b] = NoAnswer
  BY DEF AnswerInv
<1>0. /\ pc[b] # "idle" => answer[b] = NoAnswer
      /\ DOMAIN pc = Callers /\ DOMAIN answer = Callers
  BY DEF AnswerInv, TypeOK
<1>1. CASE UNCHANGED vars
  BY <1>0, <1>1 DEF vars
<1>2. CASE Next
  <2>1. PICK c \in Callers :
            Call(c) \/ LockRegistry(c) \/ Caller(c) \/ \E n \in Names : Goroutine(c, n)
    BY <1>2 DEF Next
  <2>2. CASE Call(c)
    BY <1>0, <2>2 DEF Call, RegisterUnnamed, CallRegister, CallRead, CallRun, Enter, Return
  <2>3. CASE LockRegistry(c)
    BY <1>0, <2>3 DEF LockRegistry
  <2>4. CASE Caller(c)
    BY <1>0, <2>4 DEF Caller, EnterRegister, RegisterDuplicate, RegisterNew, Read,
        PlanUnknown, PlanCycle, Plan, StartLevel, WaitLevel, RunReturns, Return
  <2>5. CASE \E n \in Names : Goroutine(c, n)
    BY <1>0, <2>5 DEF Goroutine, BeginCollect, EndCollect, OnComplete, OnError,
        StoreResult, Done, Step, callVars
  <2> QED BY <2>1, <2>2, <2>3, <2>4, <2>5
<1> QED BY <1>1, <1>2

----------------------------------------------------------------------------
\* Operations that are no planned run ask, are refused, or are not seen.
LEMMA OutsideRefines ==
  ASSUME RInv, NEW c \in Callers, Outside(c)
  PROVE  Contract!Next \/ Unseen
<1>1. /\ UNCHANGED <<collectors, planVars, loopVars, workVars>>
      /\ \A b \in Callers \ {c} : pc'[b] = pc[b]
      /\ ~ Running(c) /\ ~ Running(c)'
  BY OutsideFacts DEF RInv, IInv
<1>2. UNCHANGED <<collectors, runningBar, wanted, statusBar>> /\ c \notin runningBar
  BY <1>1 DEF runningBar, statusBar, Running, Status, planVars, workVars
<1>3. answer \in [Callers -> [err : {"ok", "unnamed", "duplicate", "unknown", "cycle"},
                              results : SUBSET Names]]
  BY DEF RInv, IInv, TypeOK
<1> USE DEF runningBar, statusBar
<1>4. CASE RegisterUnnamed(c)
  BY <1>2, <1>4 DEF RegisterUnnamed, Return, Contract!Next, Contract!Refuse
<1>5. ASSUME NEW o \in Collectors, CallRegister(c, o) PROVE Contract!Next \/ Unseen
  BY <1>2, <1>5 DEF CallRegister, Enter, NoAnswer, Contract!NoAnswer,
     Contract!Next, Contract!Ask
<1>6. CASE LockRegistry(c) \/ EnterRegister(c)
  BY <1>2, <1>6 DEF LockRegistry, EnterRegister, Unseen
<1>7. CASE RegisterDuplicate(c)
  BY <1>2, <1>7 DEF RegisterDuplicate, Return, Contract!Next, Contract!Refuse
<1>8. CASE CallRead(c)
  BY <1>2, <1>8 DEF CallRead, Enter, NoAnswer, Contract!NoAnswer, Contract!Next, Contract!Ask
<1>9. CASE Read(c)
  <2>1. answer[c] = NoAnswer /\ answer' = [answer EXCEPT ![c] = [err |-> "ok", results |-> {}]]
    BY <1>9 DEF Read, Return, RInv, AnswerInv
  <2>2. answer' = answer
    BY <1>3, <2>1 DEF NoAnswer
  <2> QED BY <1>2, <1>9, <2>2 DEF Read, Unseen
<1>10. ASSUME NEW S \in Requests, CallRun(c, S) PROVE Contract!Next \/ Unseen
  BY <1>2, <1>10 DEF CallRun, Enter, NoAnswer, Contract!NoAnswer,
     Contract!Next, Contract!Ask
<1>11. CASE PlanUnknown(c)
  BY <1>2, <1>11, SameWords DEF PlanUnknown, Return, Contract!Next, Contract!Refuse
<1>12. CASE PlanCycle(c)
  BY <1>2, <1>12, SameWords, NeedsClosed
  DEF PlanCycle, Return, RInv, IInv, Contract!Next, Contract!Refuse
<1> QED
  BY <1>4, <1>5, <1>6, <1>7, <1>8, <1>9, <1>10, <1>11, <1>12 DEF Outside

\* A new collector gets in while nobody runs.
LEMMA RegisterNewRefines ==
  ASSUME RInv, NEW c \in Callers, RegisterNew(c)
  PROVE  Contract!Next
<1>1. runningBar = {} /\ runningBar' = {}
  BY RegisterNewKeeps DEF RInv, runningBar
<1>2. answer[c] = NoAnswer /\ object[c] \in Collectors /\ NameOf[object[c]] \in Names
  BY DEF RegisterNew, RInv, AnswerInv, IInv, LockInv, LockOK
<1>3. answer' = answer
  BY <1>2 DEF RegisterNew, Return, NoAnswer, RInv, IInv, TypeOK
<1>4. UNCHANGED <<request, wanted, statusBar>>
  BY DEF RegisterNew, planVars, workVars, statusBar, Status
<1>5. Contract!Register(object[c])
  BY <1>1, <1>2, <1>3, <1>4 DEF RegisterNew, Contract!Register, runningBar, statusBar
<1> QED BY <1>2, <1>5 DEF Contract!Next

LEMMA PlanRefines ==
  ASSUME RInv, NEW c \in Callers, Plan(c)
  PROVE  Contract!Next
<1>1. runningBar' = runningBar \cup {c} /\ c \notin runningBar
  BY DEF Plan, RInv, IInv, TypeOK, runningBar, Running
<1>2. UNCHANGED <<collectors, request, statusBar, answer>>
  BY DEF Plan, workVars, statusBar, Status
<1>3. Contract!Begin(c)
  BY <1>1, <1>2, SameWords, NeedsClosed
  DEF Plan, RInv, IInv, Contract!Begin, runningBar, statusBar
<1> QED BY <1>3 DEF Contract!Next

\* Levels come and go unseen: a collector that is spawned has not started.
LEMMA LevelsUnseen ==
  ASSUME RInv, NEW c \in Callers, StartLevel(c) \/ WaitLevel(c)
  PROVE  Unseen
<1>1. /\ UNCHANGED <<collectors, request, wanted, answer, outcome>>
      /\ Running(c) /\ Running(c)' /\ \A b \in Callers \ {c} : pc'[b] = pc[b]
  BY DEF StartLevel, WaitLevel, planVars, workVars, RInv, IInv, TypeOK, Running
<1>2. runningBar' = runningBar
  BY <1>1 DEF runningBar, Running
<1>3. ASSUME NEW b \in Callers, NEW n \in Names PROVE Status(b, n)' = Status(b, n)
  <2>1. CASE WaitLevel(c)
    BY <2>1 DEF WaitLevel, workVars, Status
  <2>2. CASE StartLevel(c) /\ b # c
    BY <2>2 DEF StartLevel, Status, RInv, IInv, TypeOK
  <2>3. CASE StartLevel(c) /\ b = c
    <3>1. phase'[c][n] = IF n \in AtLevel(c, level[c] + 1) THEN "spawned" ELSE phase[c][n]
      BY <2>3 DEF StartLevel, RInv, IInv, TypeOK
    <3>2. ASSUME n \in AtLevel(c, level[c] + 1) PROVE phase[c][n] = "waiting"
      <4>1. ProgressOK(c) /\ level[c] \in Nat
        BY <1>1 DEF RInv, IInv, RunOK, TypeOK
      <4> QED BY <3>2, <4>1 DEF AtLevel, ProgressOK
    <3> QED BY <1>1, <2>3, <3>1, <3>2 DEF Status
  <2> QED BY <2>1, <2>2, <2>3
<1>4. statusBar' = statusBar
  BY <1>3 DEF statusBar
<1> QED BY <1>1, <1>2, <1>4 DEF Unseen

\* A run that returns has finished all it wanted, and answers the successes.
LEMMA RunReturnsRefines ==
  ASSUME RInv, NEW c \in Callers, RunReturns(c)
  PROVE  Contract!Next
<1>1. Running(c) /\ RunAccountsForAll /\ TypeOK
  BY AccountedFor DEF RunReturns, Running, RInv, IInv
<1>2. /\ \A n \in wanted[c] : phase[c][n] = "done" /\ outcome[c][n] # "none"
      /\ results[c] = {n \in wanted[c] : outcome[c][n] = "ok"}
  BY <1>1 DEF RunReturns, RunAccountsForAll
<1>3. wanted[c] \subseteq Names
  BY <1>1 DEF TypeOK
<1>4. \A n \in wanted[c] : statusBar[c][n] = outcome[c][n] /\ outcome[c][n] \in {"ok", "err"}
  BY <1>1, <1>2, <1>3 DEF statusBar, Status, TypeOK
<1>5. runningBar' = runningBar \ {c} /\ c \in runningBar
  BY <1>1 DEF RunReturns, Return, TypeOK, runningBar, Running
<1>6. answer' = [answer EXCEPT ![c] =
                   [err |-> "ok", results |-> {n \in wanted[c] : statusBar[c][n] = "ok"}]]
  BY <1>2, <1>4 DEF RunReturns, Return
<1>7. statusBar' = [statusBar EXCEPT ![c] = [n \in Names |-> "waiting"]]
  <2>1. \A n \in Names : Status(c, n)' = "waiting"
    BY <1>1 DEF RunReturns, Status, TypeOK
  <2>2. \A b \in Callers \ {c}, n \in Names : Status(b, n)' = Status(b, n)
    BY <1>1 DEF RunReturns, Status, TypeOK
  <2> QED BY <2>1, <2>2 DEF statusBar
<1>8. Contract!Answer(c)
  BY <1>4, <1>5, <1>6, <1>7
  DEF Contract!Answer, Contract!Finished, Contract!Waiting, RunReturns, runningBar, statusBar
<1> QED BY <1>8 DEF Contract!Next, Contract!Work

\* A step that leaves the status of its goroutine as it was leaves them all.
LEMMA BarKept ==
  ASSUME NEW c \in Callers, NEW n \in Names,
         statusBar' = [statusBar EXCEPT ![c][n] = Status(c, n)'],
         Status(c, n)' = statusBar[c][n]
  PROVE  statusBar' = statusBar
<1>1. statusBar = [b \in Callers |-> [m \in Names |-> Status(b, m)]]
  BY DEF statusBar
<1>2. statusBar' = [statusBar EXCEPT ![c] = [statusBar[c] EXCEPT ![n] = Status(c, n)']]
  OBVIOUS
<1> HIDE DEF statusBar
<1> DEFINE s == Status(c, n)'
           row == statusBar[c]
<1>3. row = [m \in Names |-> Status(c, m)]
  BY <1>1
<1>4. s = row[n]
  OBVIOUS
<1> HIDE DEF s
<1>5. [row EXCEPT ![n] = s] = row
  BY <1>3, <1>4
<1>6. statusBar' = [statusBar EXCEPT ![c] = row]
  BY <1>2, <1>5 DEF s
<1>7. [statusBar EXCEPT ![c] = row] = statusBar
  BY <1>1
<1> QED BY <1>6, <1>7

----------------------------------------------------------------------------
LEMMA GoroutineRefines ==
  ASSUME RInv, NEW c \in Callers, NEW n \in Names, Goroutine(c, n)
  PROVE  Contract!Next \/ Unseen
<1>0. /\ IInv /\ TypeOK
      /\ statusBar = [b \in Callers |-> [m \in Names |-> Status(b, m)]]
      /\ \A b \in Callers, m \in Names : statusBar[b][m] = Status(b, m)
  BY DEF RInv, IInv, statusBar
<1>1. CASE BeginCollect(c, n)
  <2>1. Step(c, n, "spawned", "collecting") /\ outcome' = outcome
    BY <1>1 DEF BeginCollect
  <2>2. /\ phase[c][n] = "spawned" /\ phase'[c][n] = "collecting"
        /\ UNCHANGED <<collectors, request, runningBar, wanted, answer>>
        /\ statusBar' = [statusBar EXCEPT ![c][n] = Status(c, n)']
    BY <1>0, <2>1, OneMove
  <2>3. Status(c, n) = "waiting" /\ Status(c, n)' = "running"
    BY <2>2 DEF Status
  <2>4. n \in wanted[c] /\ Running(c)
    BY <1>0, <2>2, LiveGoroutine DEF Live, Phases
  <2>5. ASSUME NEW m \in Declared(Deps, n) PROVE statusBar[c][m] \in {"ok", "err"}
    <3>1. phase[c][m] = "done" /\ m \in Names
      BY <1>0, <2>2, <2>4, WantedFinishFirst
    <3>2. outcome[c][m] \in {"ok", "err"}
      <4>1. EntryOK(c, m)
        BY <1>0, <3>1 DEF IInv, RunOK, BooksOK
      <4>2. outcome[c][m] # "none"
        BY <3>1, <4>1 DEF EntryOK, Before
      <4> QED BY <1>0, <3>1, <4>2 DEF TypeOK
    <3> QED BY <1>0, <3>1, <3>2 DEF Status
  <2>6. Contract!Start(c, n)
    BY <1>0, <2>2, <2>3, <2>4, <2>5, SameWords
    DEF Contract!Start, Contract!Finished, runningBar, statusBar
  <2> QED BY <2>6 DEF Contract!Next, Contract!Work
<1>2. CASE Done(c, n)
  <2>1. Step(c, n, "leaving", "done") /\ outcome' = outcome
    BY <1>2 DEF Done
  <2>2. /\ phase[c][n] = "leaving" /\ phase'[c][n] = "done"
        /\ UNCHANGED <<collectors, request, runningBar, wanted, answer>>
        /\ statusBar' = [statusBar EXCEPT ![c][n] = Status(c, n)']
    BY <1>0, <2>1, OneMove
  <2>3. Status(c, n) = "running" /\ Status(c, n)' = outcome[c][n]
    BY <2>1, <2>2 DEF Status
  <2>4. n \in wanted[c] /\ Running(c)
    BY <1>0, <2>2, LiveGoroutine DEF Live, Phases
  <2>5. outcome[c][n] \in {"ok", "err"}
    <3>1. EntryOK(c, n)
      BY <1>0 DEF IInv, RunOK, BooksOK
    <3>2. outcome[c][n] # "none"
      BY <2>2, <3>1 DEF EntryOK, Before
    <3> QED BY <1>0, <3>2 DEF TypeOK
  <2>6. Contract!Finish(c, n)
    BY <1>0, <2>2, <2>3, <2>4, <2>5
    DEF Contract!Finish, Contract!Finished, runningBar, statusBar
  <2> QED BY <2>6 DEF Contract!Next, Contract!Work
<1>3. CASE EndCollect(c, n)
  <2>1. PICK o \in {"ok", "err"} : outcome' = [outcome EXCEPT ![c][n] = o]
    BY <1>3 DEF EndCollect
  <2>2. /\ \A m \in Names \ {n} : outcome'[c][m] = outcome[c][m]
        /\ \A b \in Callers \ {c} : outcome'[b] = outcome[b]
    BY <1>0, <2>1 DEF TypeOK
  <2>3. /\ phase[c][n] = "collecting" /\ phase'[c][n] = "collected"
        /\ UNCHANGED <<collectors, request, runningBar, wanted, answer>>
        /\ statusBar' = [statusBar EXCEPT ![c][n] = Status(c, n)']
    BY <1>0, <1>3, <2>2, OneMove DEF EndCollect
  <2>4. Status(c, n)' = statusBar[c][n]
    BY <1>0, <2>3 DEF Status
  <2>5. statusBar' = statusBar
    BY <1>0, <2>3, <2>4, BarKept
  <2> QED BY <2>3, <2>5 DEF Unseen
<1>4. ASSUME NEW from, NEW to, Step(c, n, from, to), outcome' = outcome,
             from \in {"collected", "reported"}, to \in {"reported", "leaving"}
      PROVE  Unseen
  <2>1. /\ phase[c][n] = from /\ phase'[c][n] = to
        /\ UNCHANGED <<collectors, request, runningBar, wanted, answer>>
        /\ statusBar' = [statusBar EXCEPT ![c][n] = Status(c, n)']
    BY <1>0, <1>4, OneMove
  <2>2. Status(c, n)' = statusBar[c][n]
    BY <1>0, <1>4, <2>1 DEF Status
  <2>3. statusBar' = statusBar
    BY <1>0, <2>1, <2>2, BarKept
  <2> QED BY <2>1, <2>3 DEF Unseen
<1>5. CASE OnComplete(c, n)
  BY <1>4, <1>5 DEF OnComplete
<1>6. CASE OnError(c, n) \/ StoreResult(c, n)
  BY <1>4, <1>6 DEF OnError, StoreResult
<1> QED BY <1>1, <1>2, <1>3, <1>5, <1>6 DEF Goroutine

----------------------------------------------------------------------------
LEMMA StepRefines == RInv /\ [Next]_vars => [Contract!Next]_(Contract!vars)
<1> SUFFICES ASSUME RInv, [Next]_vars PROVE Contract!Next \/ UNCHANGED Contract!vars
  OBVIOUS
<1>1. Unseen => UNCHANGED Contract!vars
  BY DEF Unseen, Contract!vars, runningBar, statusBar
<1>2. CASE UNCHANGED vars
  BY <1>1, <1>2 DEF vars, Unseen, runningBar, statusBar, Running, Status
<1>3. CASE Next
  <2>1. PICK c \in Callers :
            \/ Outside(c) \/ RegisterNew(c)
            \/ Plan(c) \/ StartLevel(c) \/ WaitLevel(c) \/ RunReturns(c)
            \/ \E n \in Names : Goroutine(c, n)
    BY <1>3, NextSplit
  <2> QED
    BY <1>1, <2>1, OutsideRefines, RegisterNewRefines, PlanRefines, LevelsUnseen,
       RunReturnsRefines, GoroutineRefines
<1> QED BY <1>2, <1>3

\* Whatever the locks, levels and counters do, the callers of a registry see
\* a run that honours the declarations, and an answer of all its successes.
THEOREM KeepsContractHolds == Spec => KeepsContract
<1>1. RInv /\ [Next]_vars => RInv'
  BY NextIInv, AnswerKept DEF RInv, IInv
<1>2. Init => Contract!Init /\ RInv
  BY InitIInv, InitRefines DEF RInv
<1>3. RInv /\ [Next]_vars => [Contract!Next]_(Contract!vars)
  BY StepRefines
<1> QED BY <1>1, <1>2, <1>3, PTL DEF Spec, KeepsContract
=============================================================================
