------------------------------ MODULE GohaiProofs ------------------------------
(***************************************************************************)
(* What holds of every instance of gohai: of any build, any options, any   *)
(* number of callers, and whatever the collectors return.                  *)
(***************************************************************************)
EXTENDS Gohai, SequenceTheorems, TLAPS

----------------------------------------------------------------------------
\* The inductive invariant.

ContractTypeOK ==
    /\ DOMAIN collectors \subseteq Names
    /\ collectors \in [DOMAIN collectors -> Collectors]
    /\ request \in [Callers -> SUBSET Names]
    /\ running \subseteq Callers
    /\ wanted \in [Callers -> SUBSET Names]
    /\ status \in [Callers -> [Names -> {"waiting", "running", "ok", "err"}]]
    /\ answer \in [Callers -> [err : {"ok", "unknown", "cycle"}, results : SUBSET Names]]

Needed == Closure(Deps, Names, selected)

\* Once New has returned, nothing is registered any more and no option comes;
\* what is selected is what the options said, and before that nobody collects.
NewOK ==
    /\ stage # "new" => todo = <<>>
    /\ stage = "ready" => selected = Chosen /\ ~ UnknownOption
    /\ stage # "ready" => selected = {} /\ running = {} /\ \A c \in Callers : call[c] = "idle"

\* A run is Collect's, for all that is selected.
RunOK(c) ==
    /\ c \in running => call[c] = "run" /\ wanted[c] = Needed
    /\ c \notin running => status[c] = Waiting
    /\ call[c] = "run" => request[c] = selected

\* How the registry sees what a collector returned.
Outcome(c, n) == IF returned[c][n] \in {"value", "nil"} THEN "ok" ELSE returned[c][n]

\* What was returned, what the run knows of it and the samples tell the same.
EntryOK(c, n) ==
    /\ c \in running => Outcome(c, n) = IF status[c][n] \in Finished THEN status[c][n] ELSE "none"
    /\ c \in running /\ n \notin wanted[c] => status[c][n] = "waiting"
    /\ c \notin running /\ call[c] # "returned" => returned[c][n] = "none"
    /\ samples[c][n] = IF cfg.withTimings THEN Outcome(c, n) ELSE "none"

\* A refusal has a reason, and an answer covers all that was needed.
AnswerOK(c) ==
    /\ call[c] # "returned" => answer[c].err = "ok"
    /\ Answered(c) =>
          /\ RanFor(c) = Needed
          /\ facts[c] = [fields |-> {n \in Names : returned[c][n] = "value"}, timings |-> samples[c]]
    /\ answer[c].err # "ok" => ~ (Needed \subseteq DOMAIN collectors) \/ Cyclic(Deps, Needed)

CallerOK(c) ==
    /\ RunOK(c)
    /\ \A n \in Names : EntryOK(c, n)
    /\ AnswerOK(c)

GohaiInv ==
    /\ GohaiTypeOK
    /\ ContractTypeOK
    /\ NewOK
    /\ \A c \in Callers : CallerOK(c)

----------------------------------------------------------------------------
\* The names a set needs.

LEMMA ClosureHolds ==
  ASSUME NEW d, NEW S \in SUBSET Names, \A n \in Names : Declared(d, n) \subseteq Names
  PROVE  /\ Closure(d, Names, S) \subseteq Names
         /\ S \subseteq Closure(d, Names, S)
         /\ Closed(d, Closure(d, Names, S))
<1>1. Closure(d, Names, S) \subseteq Names /\ S \subseteq Closure(d, Names, S)
  BY DEF Closure
<1>2. ASSUME NEW n \in Closure(d, Names, S), NEW m \in Declared(d, n)
      PROVE  m \in Closure(d, Names, S)
  <2>1. m \in Names
    BY <1>1, <1>2
  <2>2. ASSUME NEW C \in SUBSET Names, S \subseteq C, Closed(d, C) PROVE m \in C
    BY <1>2, <2>2 DEF Closure, Closed
  <2> QED BY <2>1, <2>2 DEF Closure
<1> QED BY <1>1, <1>2 DEF Closed

\* Nobody is needed but for being asked for or declared by somebody needed.
LEMMA ClosureIsEarned ==
  ASSUME NEW d, NEW S \in SUBSET Names, \A n \in Names : Declared(d, n) \subseteq Names,
         NEW n \in Closure(d, Names, S) \ S
  PROVE  \E m \in Closure(d, Names, S) : n \in Declared(d, m)
<1> SUFFICES ASSUME \A m \in Closure(d, Names, S) : n \notin Declared(d, m) PROVE FALSE
  OBVIOUS
<1> DEFINE C == Closure(d, Names, S) \ {n}
<1>1. C \in SUBSET Names /\ S \subseteq C /\ Closed(d, C)
  BY ClosureHolds DEF Closed
<1>2. n \in C
  BY <1>1 DEF Closure
<1> QED BY <1>2

\* What the builtins declare are names.
LEMMA DeclaredAreNames ==
  ASSUME ContractTypeOK
  PROVE  \A n \in Names : Declared(Deps, n) \subseteq Names
BY DepsAssumption DEF ContractTypeOK, Declared, Deps, Range

----------------------------------------------------------------------------
LEMMA InitGohaiInv == GohaiInit => GohaiInv
<1> SUFFICES ASSUME GohaiInit PROVE GohaiInv
  OBVIOUS
<1> USE DEF GohaiInit, Init, NoOptions, NoEntries, NoFacts
<1>1. ContractTypeOK
  BY DEF ContractTypeOK, Waiting, NoAnswer
<1>2. GohaiTypeOK
  <2>1. todo \in Seq(Collectors) /\ options \in 0 .. MaxOptions
    BY BuildsAssumption, OptionsAssumption
  <2> QED BY <2>1 DEF GohaiTypeOK
<1>3. NewOK
  BY DEF NewOK
<1>4. ASSUME NEW c \in Callers PROVE CallerOK(c)
  BY DEF CallerOK, RunOK, EntryOK, Outcome, AnswerOK, Answered, NoAnswer
<1> QED BY <1>1, <1>2, <1>3, <1>4 DEF GohaiInv

\* A caller that nothing happens to.
LEMMA CallerUntouched ==
  ASSUME NEW c \in Callers, CallerOK(c), UNCHANGED <<collectors, cfg, selected>>,
         c \in running' <=> c \in running,
         request'[c] = request[c], wanted'[c] = wanted[c], status'[c] = status[c],
         answer'[c] = answer[c], call'[c] = call[c], returned'[c] = returned[c],
         samples'[c] = samples[c], facts'[c] = facts[c]
  PROVE  CallerOK(c)'
<1>1. Needed' = Needed /\ Deps' = Deps
  BY DEF Needed, Deps
<1>2. RunOK(c)' /\ \A n \in Names : EntryOK(c, n)'
  BY <1>1 DEF CallerOK, RunOK, EntryOK, Outcome
<1>3. AnswerOK(c)'
  BY <1>1 DEF CallerOK, AnswerOK, Answered, RanFor
<1> QED BY <1>2, <1>3 DEF CallerOK

\* As long as New works there are no calls its steps could disturb.
LEMMA IdleCaller ==
  ASSUME NEW c \in Callers, CallerOK(c), c \notin running, call[c] = "idle",
         UNCHANGED <<running, status, call, returned, samples, answer, facts>>
  PROVE  CallerOK(c)'
<1>1. RunOK(c)' /\ AnswerOK(c)'
  BY DEF CallerOK, RunOK, AnswerOK, Answered
<1>2. ASSUME NEW n \in Names PROVE EntryOK(c, n)'
  BY DEF CallerOK, EntryOK, Outcome
<1> QED BY <1>1, <1>2 DEF CallerOK

LEMMA NewKeepsGohaiInv ==
  ASSUME GohaiInv, New
  PROVE  GohaiInv'
<1>0. ContractTypeOK /\ GohaiTypeOK /\ NewOK /\ \A c \in Callers : CallerOK(c)
  BY DEF GohaiInv
<1>1. /\ stage = "new" /\ selected = {} /\ running = {} /\ \A c \in Callers : call[c] = "idle"
      /\ UNCHANGED <<running, status, call, returned, samples, answer, facts, request, wanted>>
  <2>1. stage = "new"
    BY <1>0 DEF New, RegisterBuiltin, SkipBuiltin, WithDefaults, WithTimings, WithEnabled,
                WithDisabled, WithCollectors, WithCategory, Apply, NewFails, NewReturns, NewOK
  <2>2. UNCHANGED <<running, status, call, returned, samples, answer, facts, request, wanted>>
    BY DEF New, RegisterBuiltin, Register, SkipBuiltin, WithDefaults, WithTimings, WithEnabled,
           WithDisabled, WithCollectors, WithCategory, Apply, NewFails, NewReturns, vars,
           collectVars
  <2> QED BY <1>0, <2>1, <2>2 DEF NewOK
<1>2. ASSUME NEW c \in Callers PROVE CallerOK(c)'
  BY <1>0, <1>1, IdleCaller
<1>3. CASE RegisterBuiltin
  <2>1. Head(todo) \in Collectors /\ Tail(todo) \in Seq(Collectors)
    BY <1>0, <1>3, HeadTailProperties DEF RegisterBuiltin, GohaiTypeOK
  <2>2. ContractTypeOK'
    BY <1>0, <1>1, <1>3, <2>1 DEF ContractTypeOK, RegisterBuiltin, Register
  <2>3. GohaiTypeOK'
    BY <1>0, <1>1, <1>3, <2>1 DEF GohaiTypeOK, RegisterBuiltin, collectVars
  <2>4. NewOK'
    BY <1>0, <1>1, <1>3 DEF NewOK, RegisterBuiltin, collectVars
  <2> QED BY <1>2, <2>2, <2>3, <2>4 DEF GohaiInv
<1>4. CASE SkipBuiltin
  <2>1. Tail(todo) \in Seq(Collectors)
    BY <1>0, <1>4, HeadTailProperties DEF SkipBuiltin, GohaiTypeOK
  <2>2. ContractTypeOK'
    BY <1>0, <1>1, <1>4 DEF ContractTypeOK, SkipBuiltin, vars
  <2>3. GohaiTypeOK'
    BY <1>0, <1>1, <1>4, <2>1 DEF GohaiTypeOK, SkipBuiltin, vars, collectVars
  <2>4. NewOK'
    BY <1>0, <1>1, <1>4 DEF NewOK, SkipBuiltin, vars, collectVars
  <2> QED BY <1>2, <2>2, <2>3, <2>4 DEF GohaiInv
<1>5. ASSUME NEW opts, Apply(opts),
             opts \in [useDefaults : BOOLEAN, enabled : SUBSET Names, disabled : SUBSET Names,
                       only : SUBSET Names, categories : SUBSET Categories, withTimings : BOOLEAN]
      PROVE  GohaiInv'
  <2>1. ContractTypeOK'
    BY <1>0, <1>1, <1>5 DEF ContractTypeOK, Apply, vars
  <2>2. GohaiTypeOK'
    BY <1>0, <1>1, <1>5, OptionsAssumption DEF GohaiTypeOK, Apply, vars, collectVars
  <2>3. NewOK'
    BY <1>0, <1>1, <1>5 DEF NewOK, Apply, vars, collectVars
  <2> QED BY <1>2, <2>1, <2>2, <2>3 DEF GohaiInv
<1>6. CASE \/ WithDefaults \/ WithTimings
           \/ \E n \in Names : WithEnabled(n) \/ WithDisabled(n) \/ WithCollectors(n)
           \/ \E k \in Categories : WithCategory(k)
  BY <1>0, <1>5, <1>6
     DEF GohaiTypeOK, WithDefaults, WithTimings, WithEnabled, WithDisabled, WithCollectors,
         WithCategory
<1>7. CASE NewFails
  <2>1. ContractTypeOK' /\ GohaiTypeOK' /\ NewOK'
    BY <1>0, <1>1, <1>7 DEF ContractTypeOK, GohaiTypeOK, NewOK, NewFails, vars, collectVars
  <2> QED BY <1>2, <2>1 DEF GohaiInv
<1>8. CASE NewReturns
  <2>1. Chosen \subseteq DOMAIN collectors
    BY <1>8 DEF NewReturns, UnknownOption, Chosen
  <2>2. Chosen' = Chosen /\ (UnknownOption' <=> UnknownOption)
    BY <1>8 DEF NewReturns, vars, Chosen, Enabled, NamesInCategory, UnknownOption
  <2>3. ContractTypeOK' /\ GohaiTypeOK'
    BY <1>0, <1>1, <1>8, <2>1 DEF ContractTypeOK, GohaiTypeOK, NewReturns, vars, collectVars
  <2>4. NewOK'
    BY <1>0, <1>8, <2>2 DEF NewOK, NewReturns, vars, collectVars
  <2> QED BY <1>2, <2>3, <2>4 DEF GohaiInv
<1> QED BY <1>3, <1>4, <1>6, <1>7, <1>8 DEF New

----------------------------------------------------------------------------
\* A step of one caller's Collect, which leaves the instance and the others
\* alone.
OnlyOf(c) ==
    /\ UNCHANGED <<collectors, gohaiVars>>
    /\ \A b \in Callers \ {c} :
          /\ b \in running' <=> b \in running
          /\ request'[b] = request[b] /\ wanted'[b] = wanted[b] /\ status'[b] = status[b]
          /\ answer'[b] = answer[b] /\ call'[b] = call[b] /\ returned'[b] = returned[b]
          /\ samples'[b] = samples[b] /\ facts'[b] = facts[b]

LEMMA OnlyOfKeepsGohaiInv ==
  ASSUME GohaiInv, NEW c \in Callers, OnlyOf(c), stage = "ready",
         ContractTypeOK', GohaiTypeOK', CallerOK(c)'
  PROVE  GohaiInv'
<1>1. NewOK'
  BY DEF GohaiInv, NewOK, OnlyOf, gohaiVars, Chosen, Enabled, NamesInCategory, UnknownOption
<1>2. ASSUME NEW b \in Callers \ {c} PROVE CallerOK(b)'
  BY CallerUntouched DEF GohaiInv, OnlyOf, gohaiVars
<1> QED BY <1>1, <1>2 DEF GohaiInv

LEMMA CallCollectKeepsGohaiInv ==
  ASSUME GohaiInv, NEW c \in Callers, CallCollect(c)
  PROVE  GohaiInv'
<1>0. ContractTypeOK /\ GohaiTypeOK /\ NewOK /\ CallerOK(c)
  BY DEF GohaiInv
<1>1. /\ stage = "ready" /\ c \notin running
      /\ UNCHANGED <<collectors, running, wanted, status, gohaiVars>>
      /\ answer' = [answer EXCEPT ![c] = NoAnswer]
      /\ request' = [request EXCEPT ![c] = selected]
      /\ call' = [call EXCEPT ![c] = "run"]
      /\ returned' = [returned EXCEPT ![c] = NoEntries]
      /\ samples' = [samples EXCEPT ![c] = NoEntries]
      /\ facts' = [facts EXCEPT ![c] = NoFacts]
  BY DEF CallCollect, Ask
<1>2. OnlyOf(c)
  BY <1>0, <1>1 DEF OnlyOf, ContractTypeOK, GohaiTypeOK
<1>3. ContractTypeOK'
  BY <1>0, <1>1 DEF ContractTypeOK, GohaiTypeOK, gohaiVars, NoAnswer
<1>4. GohaiTypeOK'
  BY <1>0, <1>1 DEF GohaiTypeOK, gohaiVars, NoEntries, NoFacts
<1>5. CallerOK(c)'
  <2>1. /\ request'[c] = selected' /\ call'[c] = "run" /\ answer'[c].err = "ok"
        /\ returned'[c] = NoEntries /\ samples'[c] = NoEntries
        /\ status'[c] = Waiting /\ c \notin running'
    BY <1>0, <1>1
       DEF ContractTypeOK, GohaiTypeOK, gohaiVars, NoAnswer, CallerOK, RunOK, Waiting
  <2>2. RunOK(c)' /\ AnswerOK(c)'
    BY <2>1 DEF RunOK, AnswerOK, Answered, Waiting
  <2>3. ASSUME NEW n \in Names PROVE EntryOK(c, n)'
    BY <2>1, <2>3 DEF EntryOK, Outcome, NoEntries
  <2> QED BY <2>2, <2>3 DEF CallerOK
<1> QED BY <1>1, <1>2, <1>3, <1>4, <1>5, OnlyOfKeepsGohaiInv

\* A caller in the middle of a call has New behind it.
LEMMA InCallReady ==
  ASSUME GohaiInv, NEW c \in Callers, call[c] = "run" \/ c \in running
  PROVE  stage = "ready" /\ call[c] = "run" /\ request[c] = selected
BY DEF GohaiInv, NewOK, CallerOK, RunOK, GohaiTypeOK

LEMMA RunRefusedKeepsGohaiInv ==
  ASSUME GohaiInv, NEW c \in Callers, RunRefused(c)
  PROVE  GohaiInv'
<1>0. ContractTypeOK /\ GohaiTypeOK /\ CallerOK(c)
  BY DEF GohaiInv
<1>1. PICK err \in {"unknown", "cycle"} : Refuse(c, err)
  BY DEF RunRefused
<1>2. /\ call[c] = "run" /\ c \notin running
      /\ UNCHANGED <<collectors, request, running, wanted, status, gohaiVars, returned, samples, facts>>
      /\ answer' = [answer EXCEPT ![c] = [err |-> err, results |-> {}]]
      /\ call' = [call EXCEPT ![c] = "returned"]
  BY <1>1 DEF RunRefused, Refuse
<1>3. stage = "ready" /\ Needs(c) = Needed
  BY <1>2, InCallReady DEF Needs, Needed
<1>4. ~ (Needed \subseteq DOMAIN collectors) \/ Cyclic(Deps, Needed)
  BY <1>1, <1>3 DEF Refuse
<1>5. OnlyOf(c)
  BY <1>0, <1>2 DEF OnlyOf, ContractTypeOK, GohaiTypeOK
<1>6. ContractTypeOK' /\ GohaiTypeOK'
  BY <1>0, <1>2 DEF ContractTypeOK, GohaiTypeOK, gohaiVars
<1>7. CallerOK(c)'
  <2>1. /\ answer'[c] = [err |-> err, results |-> {}] /\ call'[c] = "returned"
        /\ UNCHANGED <<Needed, Deps>>
    BY <1>0, <1>2 DEF ContractTypeOK, GohaiTypeOK, Needed, Deps, gohaiVars
  <2>2. RunOK(c)' /\ AnswerOK(c)'
    BY <1>0, <1>2, <1>4, <2>1 DEF CallerOK, RunOK, AnswerOK, Answered
  <2>3. ASSUME NEW n \in Names PROVE EntryOK(c, n)'
    BY <1>0, <1>2, <2>3 DEF CallerOK, EntryOK, Outcome, gohaiVars
  <2> QED BY <2>2, <2>3 DEF CallerOK
<1> QED BY <1>3, <1>5, <1>6, <1>7, OnlyOfKeepsGohaiInv

LEMMA RunBeginsKeepsGohaiInv ==
  ASSUME GohaiInv, NEW c \in Callers, RunBegins(c)
  PROVE  GohaiInv'
<1>0. ContractTypeOK /\ GohaiTypeOK /\ CallerOK(c)
  BY DEF GohaiInv
<1>1. /\ call[c] = "run" /\ c \notin running
      /\ running' = running \cup {c} /\ wanted' = [wanted EXCEPT ![c] = Needs(c)]
      /\ UNCHANGED <<collectors, request, status, answer, gohaiVars, collectVars>>
  BY DEF RunBegins, Begin
<1>2. stage = "ready" /\ Needs(c) = Needed /\ Needed \subseteq Names
  BY <1>1, InCallReady DEF Needs, Needed, Closure
<1>3. OnlyOf(c)
  BY <1>0, <1>1 DEF OnlyOf, ContractTypeOK, GohaiTypeOK, collectVars
<1>4. ContractTypeOK' /\ GohaiTypeOK'
  BY <1>0, <1>1, <1>2 DEF ContractTypeOK, GohaiTypeOK, gohaiVars, collectVars
<1>5. CallerOK(c)'
  <2>1. wanted'[c] = Needed /\ UNCHANGED <<Needed, Deps>> /\ c \in running'
    BY <1>0, <1>1, <1>2 DEF ContractTypeOK, Needed, Deps, gohaiVars
  <2>2. RunOK(c)' /\ AnswerOK(c)'
    BY <1>0, <1>1, <2>1 DEF CallerOK, RunOK, AnswerOK, Answered, collectVars, gohaiVars
  <2>3. ASSUME NEW n \in Names PROVE EntryOK(c, n)'
    <3>1. status'[c][n] = "waiting" /\ returned[c][n] = "none"
      BY <1>0, <1>1, <2>3 DEF CallerOK, RunOK, EntryOK, Waiting
    <3> QED BY <1>0, <1>1, <3>1 DEF CallerOK, EntryOK, Outcome, Finished, collectVars, gohaiVars
  <2> QED BY <2>2, <2>3 DEF CallerOK
<1> QED BY <1>2, <1>3, <1>4, <1>5, OnlyOfKeepsGohaiInv

LEMMA CollectorStartsKeepsGohaiInv ==
  ASSUME GohaiInv, NEW c \in Callers, NEW n \in Names, CollectorStarts(c, n)
  PROVE  GohaiInv'
<1>0. ContractTypeOK /\ GohaiTypeOK /\ CallerOK(c)
  BY DEF GohaiInv
<1>1. /\ c \in running /\ n \in wanted[c] /\ status[c][n] = "waiting"
      /\ status' = [status EXCEPT ![c][n] = "running"]
      /\ UNCHANGED <<collectors, request, running, wanted, answer, gohaiVars, collectVars>>
  BY DEF CollectorStarts, Start
<1>2. /\ status'[c][n] = "running"
      /\ \A m \in Names \ {n} : status'[c][m] = status[c][m]
      /\ \A b \in Callers \ {c} : status'[b] = status[b]
  BY <1>0, <1>1 DEF ContractTypeOK
<1>3. OnlyOf(c)
  BY <1>1, <1>2 DEF OnlyOf, collectVars
<1>4. ContractTypeOK' /\ GohaiTypeOK'
  BY <1>0, <1>1 DEF ContractTypeOK, GohaiTypeOK, gohaiVars, collectVars
<1>5. CallerOK(c)'
  <2>1. UNCHANGED <<Needed, Deps>>
    BY <1>1 DEF Needed, Deps, gohaiVars
  <2>2. RunOK(c)' /\ AnswerOK(c)'
    BY <1>0, <1>1, <2>1
       DEF CallerOK, RunOK, AnswerOK, Answered, RanFor, collectVars, gohaiVars
  <2>3. ASSUME NEW m \in Names PROVE EntryOK(c, m)'
    BY <1>0, <1>1, <1>2, <2>3 DEF CallerOK, EntryOK, Outcome, Finished, collectVars, gohaiVars
  <2> QED BY <2>2, <2>3 DEF CallerOK
<1>6. stage = "ready"
  BY <1>1, InCallReady
<1> QED BY <1>3, <1>4, <1>5, <1>6, OnlyOfKeepsGohaiInv

LEMMA CollectorReturnsKeepsGohaiInv ==
  ASSUME GohaiInv, NEW c \in Callers, NEW n \in Names, CollectorReturns(c, n)
  PROVE  GohaiInv'
<1>0. ContractTypeOK /\ GohaiTypeOK /\ CallerOK(c)
  BY DEF GohaiInv
<1>1. PICK o \in Finished : status' = [status EXCEPT ![c][n] = o]
  BY DEF CollectorReturns, Finish
<1>2. /\ c \in running /\ n \in wanted[c] /\ status[c][n] = "running"
      /\ UNCHANGED <<collectors, request, running, wanted, answer, gohaiVars, call, facts>>
  BY DEF CollectorReturns, Finish
<1>3. /\ status'[c][n] = o /\ o \in {"ok", "err"}
      /\ \A m \in Names \ {n} : status'[c][m] = status[c][m]
      /\ \A b \in Callers \ {c} : status'[b] = status[b]
  BY <1>0, <1>1 DEF ContractTypeOK, Finished
<1>4. PICK r \in {"value", "nil", "err"} :
          /\ r \in {"value", "nil"} <=> o = "ok"
          /\ returned' = [returned EXCEPT ![c][n] = r]
  BY <1>3 DEF CollectorReturns
<1>5. /\ returned'[c][n] = r
      /\ \A m \in Names \ {n} : returned'[c][m] = returned[c][m]
      /\ \A b \in Callers \ {c} : returned'[b] = returned[b]
      /\ returned' \in [Callers -> [Names -> {"none", "value", "nil", "err"}]]
  BY <1>0, <1>4 DEF GohaiTypeOK
<1>6. /\ samples' \in [Callers -> [Names -> {"none", "ok", "err"}]]
      /\ samples'[c][n] = IF cfg.withTimings THEN o ELSE samples[c][n]
      /\ \A m \in Names \ {n} : samples'[c][m] = samples[c][m]
      /\ \A b \in Callers \ {c} : samples'[b] = samples[b]
  BY <1>0, <1>3 DEF CollectorReturns, GohaiTypeOK
<1>7. OnlyOf(c)
  BY <1>2, <1>3, <1>5, <1>6 DEF OnlyOf
<1>8. ContractTypeOK' /\ GohaiTypeOK'
  <2>1. ContractTypeOK'
    BY <1>0, <1>1, <1>2, <1>3 DEF ContractTypeOK
  <2>2. GohaiTypeOK'
    BY <1>0, <1>2, <1>5, <1>6 DEF GohaiTypeOK, gohaiVars
  <2> QED BY <2>1, <2>2
<1>9. stage = "ready" /\ call[c] = "run"
  BY <1>2, InCallReady
<1>10. CallerOK(c)'
  <2>1. UNCHANGED <<Needed, Deps>>
    BY <1>2 DEF Needed, Deps, gohaiVars
  <2>2. RunOK(c)' /\ AnswerOK(c)'
    BY <1>0, <1>2, <1>9, <2>1 DEF CallerOK, RunOK, AnswerOK, Answered, gohaiVars
  <2>3. ASSUME NEW m \in Names \ {n} PROVE EntryOK(c, m)'
    BY <1>0, <1>2, <1>3, <1>5, <1>6, <2>3 DEF CallerOK, EntryOK, Outcome, gohaiVars
  <2>4. Outcome(c, n)' = o
    BY <1>3, <1>4, <1>5 DEF Outcome
  <2>5. EntryOK(c, n)'
    <3>1. Outcome(c, n) = "none"
      BY <1>0, <1>2 DEF CallerOK, EntryOK, Finished
    <3> QED BY <1>0, <1>2, <1>3, <1>5, <1>6, <2>4, <3>1 DEF CallerOK, EntryOK, Finished, gohaiVars
  <2> QED BY <2>2, <2>3, <2>5 DEF CallerOK
<1> QED BY <1>7, <1>8, <1>9, <1>10, OnlyOfKeepsGohaiInv

LEMMA CollectReturnsKeepsGohaiInv ==
  ASSUME GohaiInv, NEW c \in Callers, CollectReturns(c)
  PROVE  GohaiInv'
<1>0. ContractTypeOK /\ GohaiTypeOK /\ CallerOK(c)
  BY DEF GohaiInv
<1>1. /\ c \in running /\ \A n \in wanted[c] : status[c][n] \in Finished
      /\ running' = running \ {c}
      /\ answer' = [answer EXCEPT ![c] =
                       [err |-> "ok", results |-> {n \in wanted[c] : status[c][n] = "ok"}]]
      /\ wanted' = [wanted EXCEPT ![c] = {}]
      /\ status' = [status EXCEPT ![c] = Waiting]
      /\ UNCHANGED <<collectors, request, gohaiVars, returned, samples>>
      /\ facts' = [facts EXCEPT ![c] = [fields |-> Filled(c), timings |-> samples[c]]]
      /\ call' = [call EXCEPT ![c] = "returned"]
  BY DEF CollectReturns, Answer
<1>2. stage = "ready" /\ wanted[c] = Needed /\ Needed \subseteq Names
  BY <1>0, <1>1, InCallReady DEF CallerOK, RunOK, Needed, Closure
<1>3. answer'[c] = [err |-> "ok", results |-> {n \in wanted[c] : status[c][n] = "ok"}]
  BY <1>0, <1>1 DEF ContractTypeOK
<1>4. ASSUME NEW n \in Names
      PROVE  /\ n \in wanted[c] <=> returned[c][n] # "none"
             /\ returned[c][n] = "value" => n \in answer'[c].results
  <2>1. /\ Outcome(c, n) = IF status[c][n] \in Finished THEN status[c][n] ELSE "none"
        /\ n \notin wanted[c] => status[c][n] = "waiting"
        /\ returned[c][n] \in {"none", "value", "nil", "err"}
    BY <1>0, <1>1 DEF CallerOK, EntryOK, GohaiTypeOK
  <2> QED BY <1>1, <1>3, <2>1 DEF Outcome, Finished
<1>5. /\ RanFor(c) = Needed
      /\ Filled(c) = {n \in Names : returned[c][n] = "value"}
  <2>1. answer'[c].results \subseteq Names
    BY <1>2, <1>3
  <2> QED BY <1>2, <1>4, <2>1 DEF RanFor, Filled
<1>6. OnlyOf(c)
  BY <1>0, <1>1 DEF OnlyOf, ContractTypeOK, GohaiTypeOK
<1>7. ContractTypeOK' /\ GohaiTypeOK'
  <2>1. ContractTypeOK'
    BY <1>0, <1>1, <1>2 DEF ContractTypeOK, Waiting
  <2>2. facts' \in [Callers -> [fields : SUBSET Names, timings : [Names -> {"none", "ok", "err"}]]]
    BY <1>0, <1>1, <1>5 DEF GohaiTypeOK
  <2>3. GohaiTypeOK'
    BY <1>0, <1>1, <2>2 DEF GohaiTypeOK, gohaiVars
  <2> QED BY <2>1, <2>3
<1>8. CallerOK(c)'
  <2>1. /\ call'[c] = "returned" /\ c \notin running' /\ status'[c] = Waiting'
        /\ facts'[c] = [fields |-> Filled(c), timings |-> samples[c]]
        /\ UNCHANGED <<Needed, Deps>>
    BY <1>0, <1>1 DEF ContractTypeOK, GohaiTypeOK, Needed, Deps, gohaiVars, Waiting
  <2>2. RunOK(c)'
    BY <2>1 DEF RunOK
  <2>3. AnswerOK(c)'
    BY <1>1, <1>3, <1>5, <2>1 DEF AnswerOK, Answered, RanFor
  <2>4. ASSUME NEW n \in Names PROVE EntryOK(c, n)'
    BY <1>0, <1>1, <2>1, <2>4 DEF CallerOK, EntryOK, Outcome, gohaiVars
  <2> QED BY <2>2, <2>3, <2>4 DEF CallerOK
<1> QED BY <1>2, <1>6, <1>7, <1>8, OnlyOfKeepsGohaiInv

LEMMA NextGohaiInv == GohaiInv /\ [GohaiNext]_allVars => GohaiInv'
<1> SUFFICES ASSUME GohaiInv, [GohaiNext]_allVars PROVE GohaiInv'
  OBVIOUS
<1>1. CASE UNCHANGED allVars
  <2>1. UNCHANGED <<collectors, request, running, wanted, status, answer, gohaiVars, collectVars>>
    BY <1>1 DEF allVars, vars
  <2>2. ContractTypeOK' /\ GohaiTypeOK' /\ NewOK'
    BY <2>1 DEF GohaiInv, ContractTypeOK, GohaiTypeOK, NewOK, gohaiVars, collectVars, Chosen,
                Enabled, NamesInCategory, UnknownOption
  <2>3. ASSUME NEW c \in Callers PROVE CallerOK(c)'
    BY <2>1, CallerUntouched DEF GohaiInv, gohaiVars, collectVars
  <2> QED BY <2>2, <2>3 DEF GohaiInv
<1>2. CASE GohaiNext
  BY <1>2, NewKeepsGohaiInv, CallCollectKeepsGohaiInv, RunRefusedKeepsGohaiInv,
     RunBeginsKeepsGohaiInv, CollectorStartsKeepsGohaiInv, CollectorReturnsKeepsGohaiInv,
     CollectReturnsKeepsGohaiInv DEF GohaiNext, Collect
<1> QED BY <1>1, <1>2

LEMMA GohaiInvHolds == GohaiSpec => []GohaiInv
BY InitGohaiInv, NextGohaiInv, PTL DEF GohaiSpec

----------------------------------------------------------------------------
\* An instance's state keeps its types: in particular only names that are
\* registered are ever selected.
THEOREM GohaiTypeCorrect == GohaiSpec => []GohaiTypeOK
<1>1. GohaiInv => GohaiTypeOK
  BY DEF GohaiInv
<1> QED BY <1>1, GohaiInvHolds, PTL

\* What runs is what the options say and what that needs, and no more.
THEOREM OptionsAreHonouredHolds == GohaiSpec => []OptionsAreHonoured
<1>1. ASSUME GohaiInv, NEW c \in Callers, Answered(c)
      PROVE  /\ IF cfg.only # {} THEN cfg.only \subseteq RanFor(c)
                ELSE Enabled \ cfg.disabled \subseteq RanFor(c)
             /\ \A n \in RanFor(c) :
                   \/ n \in selected /\ (cfg.only = {} => n \notin cfg.disabled)
                   \/ \E m \in RanFor(c) : n \in Declared(Deps, m)
  <2>1. ContractTypeOK /\ GohaiTypeOK /\ NewOK /\ CallerOK(c)
    BY <1>1 DEF GohaiInv
  <2>2. RanFor(c) = Needed /\ stage = "ready"
    BY <1>1, <2>1 DEF CallerOK, AnswerOK, Answered, NewOK
  <2>3. selected = Chosen /\ ~ UnknownOption /\ selected \in SUBSET Names
    BY <2>1, <2>2 DEF NewOK, GohaiTypeOK, ContractTypeOK
  <2>4. \A n \in Names : Declared(Deps, n) \subseteq Names
    BY <2>1, DeclaredAreNames
  <2>5. selected \subseteq RanFor(c)
    BY <2>2, <2>3, <2>4, ClosureHolds DEF Needed
  <2>6. IF cfg.only # {} THEN cfg.only \subseteq selected ELSE Enabled \ cfg.disabled \subseteq selected
    BY <2>3 DEF Chosen, UnknownOption
  <2>7. ASSUME NEW n \in RanFor(c), n \notin selected
        PROVE  \E m \in RanFor(c) : n \in Declared(Deps, m)
    BY <2>2, <2>3, <2>4, <2>7, ClosureIsEarned DEF Needed
  <2>8. ASSUME NEW n \in selected PROVE cfg.only = {} => n \notin cfg.disabled
    BY <2>3, <2>8 DEF Chosen
  <2> QED BY <2>5, <2>6, <2>7, <2>8
<1>2. GohaiInv => OptionsAreHonoured
  BY <1>1 DEF OptionsAreHonoured
<1> QED BY <1>2, GohaiInvHolds, PTL

\* Facts and timings of one Collect tell the same story of every selected
\* collector, and say nothing of one that did not run.
THEOREM FactsAndTimingsAgreeHolds == GohaiSpec => []FactsAndTimingsAgree
<1>1. ASSUME GohaiInv, NEW c \in Callers, Answered(c)
      PROVE  /\ \A n \in facts[c].fields : returned[c][n] = "value"
             /\ \A n \in selected : returned[c][n] = "value" => n \in facts[c].fields
             /\ cfg.withTimings =>
                   /\ {n \in Names : facts[c].timings[n] # "none"} = Needed
                   /\ \A n \in facts[c].fields : facts[c].timings[n] = "ok"
                   /\ \A n \in selected \ facts[c].fields :
                         facts[c].timings[n] = IF returned[c][n] = "nil" THEN "ok" ELSE "err"
  <2>1. /\ RanFor(c) = Needed
        /\ facts[c] = [fields |-> {n \in Names : returned[c][n] = "value"}, timings |-> samples[c]]
        /\ \A n \in Names : EntryOK(c, n) /\ returned[c][n] \in {"none", "value", "nil", "err"}
    BY <1>1 DEF GohaiInv, CallerOK, AnswerOK, GohaiTypeOK
  <2>2. Needed \subseteq Names /\ selected \subseteq Names /\ selected \subseteq Needed
    <3>1. selected \subseteq DOMAIN collectors /\ DOMAIN collectors \subseteq Names
      BY <1>1 DEF GohaiInv, GohaiTypeOK, ContractTypeOK
    <3>2. \A n \in Names : Declared(Deps, n) \subseteq Names
      BY <1>1, DeclaredAreNames DEF GohaiInv
    <3> QED BY <3>1, <3>2, ClosureHolds DEF Needed
  <2>3. ASSUME NEW n \in Names PROVE n \in Needed <=> returned[c][n] # "none"
    BY <2>1 DEF RanFor
  <2>4. facts[c].fields = {n \in Names : returned[c][n] = "value"}
    BY <2>1
  <2>5. ASSUME cfg.withTimings, NEW n \in Names
        PROVE  /\ facts[c].timings[n] # "none" <=> n \in Needed
               /\ returned[c][n] = "value" => facts[c].timings[n] = "ok"
               /\ n \in Needed /\ returned[c][n] # "value" =>
                     facts[c].timings[n] = IF returned[c][n] = "nil" THEN "ok" ELSE "err"
    BY <2>1, <2>3, <2>5 DEF EntryOK, Outcome
  <2> QED BY <2>2, <2>4, <2>5
<1>2. GohaiInv => FactsAndTimingsAgree
  BY <1>1 DEF FactsAndTimingsAgree, Needed
<1> QED BY <1>2, GohaiInvHolds, PTL

\* Whatever New accepts can be collected, unless the build is wired wrongly.
THEOREM OnlyWiringRefusesHolds == GohaiSpec => []OnlyWiringRefuses
<1>1. ASSUME GohaiInv PROVE selected \cap DOMAIN collectors = selected
  BY <1>1 DEF GohaiInv, GohaiTypeOK
<1>2. GohaiInv => OnlyWiringRefuses
  BY <1>1 DEF OnlyWiringRefuses, GohaiInv, CallerOK, AnswerOK, Needed
<1> QED BY <1>2, GohaiInvHolds, PTL
=============================================================================
