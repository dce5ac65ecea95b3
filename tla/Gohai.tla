-------------------------------- MODULE Gohai --------------------------------
(***************************************************************************)
(* pkg/gohai: an instance is made by New from a list of options, and       *)
(* collects as often as its callers like.  New fills a registry with the   *)
(* builtin collectors and works out which are selected; Collect runs these *)
(* and fills Facts.  The registry is known here by what it promises, see   *)
(* RunContract.                                                            *)
(***************************************************************************)
EXTENDS RunContract, Sequences

CONSTANTS
    Builds,         \* the lists builtinCollectors() may return: it differs between builds
    CategoryOf,     \* a collector's Category()
    DefaultOn,      \* the collectors whose DefaultEnabled() is true
    Categories,     \* the categories an option may name
    MaxOptions      \* bound: the options New is given

ASSUME BuildsAssumption == Builds \subseteq Seq(Collectors)
ASSUME DepsAssumption == \A o \in Collectors : DepsOf[o] \in Seq(Names)
ASSUME OptionsAssumption == MaxOptions \in Nat
ASSUME RequestsAssumption == Requests = SUBSET Names

VARIABLES
    todo,       \* the builtins New has still to register
    options,    \* the number of options applied
    cfg,        \* what the options add up to
    stage,      \* "new" while New works, then "ready" or "failed"
    selected,   \* the names of g.selected
    call,       \* where each caller's Collect is
    returned,   \* what each collector's Collect returned to that call
    samples,    \* the call's samples: name -> status
    facts       \* the Facts it returned: the fields set, and the timings

gohaiVars == <<todo, options, cfg, stage, selected>>
collectVars == <<call, returned, samples, facts>>
allVars == <<vars, gohaiVars, collectVars>>

NoOptions == [useDefaults |-> FALSE, enabled |-> {}, disabled |-> {}, only |-> {},
              categories |-> {}, withTimings |-> FALSE]
NoEntries == [n \in Names |-> "none"]
NoFacts == [fields |-> {}, timings |-> NoEntries]

GohaiInit ==
    /\ Init
    /\ todo \in Builds
    /\ options = 0
    /\ cfg = NoOptions
    /\ stage = "new"
    /\ selected = {}
    /\ call = [c \in Callers |-> "idle"]
    /\ returned = [c \in Callers |-> NoEntries]
    /\ samples = [c \in Callers |-> NoEntries]
    /\ facts = [c \in Callers |-> NoFacts]

----------------------------------------------------------------------------
\* New.

\* registerBuiltins ignores Register's error: of two builtins with one name
\* the first is registered.
RegisterBuiltin ==
    /\ todo # <<>>
    /\ Register(Head(todo))
    /\ todo' = Tail(todo)
    /\ UNCHANGED <<options, cfg, stage, selected, collectVars>>

SkipBuiltin ==
    /\ todo # <<>>
    /\ NameOf[Head(todo)] \notin Names \ DOMAIN collectors
    /\ todo' = Tail(todo)
    /\ UNCHANGED <<vars, options, cfg, stage, selected, collectVars>>

\* opt(&cfg), one option after the other.
Apply(c) ==
    /\ stage = "new" /\ todo = <<>>
    /\ options < MaxOptions
    /\ options' = options + 1
    /\ cfg' = c
    /\ UNCHANGED <<vars, todo, stage, selected, collectVars>>

WithDefaults == Apply([cfg EXCEPT !.useDefaults = TRUE])
WithEnabled(n) == Apply([cfg EXCEPT !.enabled = @ \cup {n}])
WithDisabled(n) == Apply([cfg EXCEPT !.disabled = @ \cup {n}])
WithCollectors(n) == Apply([cfg EXCEPT !.only = @ \cup {n}])
WithCategory(k) == Apply([cfg EXCEPT !.categories = @ \cup {k}])
WithTimings == Apply([cfg EXCEPT !.withTimings = TRUE])

\* selectCollectors.  WithCollectors wins outright: nothing else is looked at.

NamesInCategory(k) == {n \in DOMAIN collectors : CategoryOf[collectors[n]] = k}

Enabled == cfg.enabled \cup UNION {NamesInCategory(k) : k \in cfg.categories}

UnknownOption ==
    IF cfg.only # {} THEN ~ (cfg.only \subseteq DOMAIN collectors)
    ELSE \/ \E k \in cfg.categories : NamesInCategory(k) = {}
         \/ ~ (Enabled \cup cfg.disabled \subseteq DOMAIN collectors)

\* A mutant: disabling comes before enabling.
ChosenEnabledWins ==
    IF cfg.only # {} THEN cfg.only
    ELSE Enabled \cup {n \in DOMAIN collectors \ cfg.disabled :
                          cfg.useDefaults /\ collectors[n] \in DefaultOn}

Chosen ==
    IF cfg.only # {} THEN cfg.only
    ELSE {n \in DOMAIN collectors \ cfg.disabled :
             n \in Enabled \/ (cfg.useDefaults /\ collectors[n] \in DefaultOn)}

NewFails ==
    /\ stage = "new" /\ todo = <<>>
    /\ UnknownOption
    /\ stage' = "failed"
    /\ UNCHANGED <<vars, todo, options, cfg, selected, collectVars>>

\* A mutant: the names of the options are not checked.
NewUnchecked ==
    /\ stage = "new" /\ todo = <<>>
    /\ stage' = "ready"
    /\ selected' = Chosen
    /\ UNCHANGED <<vars, todo, options, cfg, collectVars>>

NewReturns ==
    /\ stage = "new" /\ todo = <<>>
    /\ ~ UnknownOption
    /\ stage' = "ready"
    /\ selected' = Chosen
    /\ UNCHANGED <<vars, todo, options, cfg, collectVars>>

----------------------------------------------------------------------------
\* Collect.

CallCollect(c) ==
    /\ stage = "ready"
    /\ call[c] # "run"
    /\ Ask(c)
    /\ request' = [request EXCEPT ![c] = selected]
    /\ call' = [call EXCEPT ![c] = "run"]
    /\ returned' = [returned EXCEPT ![c] = NoEntries]
    /\ samples' = [samples EXCEPT ![c] = NoEntries]
    /\ facts' = [facts EXCEPT ![c] = NoFacts]
    /\ UNCHANGED gohaiVars

\* A mutant: cycles are not detected.
RunRefusedUnknown(c) ==
    /\ call[c] = "run"
    /\ Refuse(c, "unknown")
    /\ call' = [call EXCEPT ![c] = "returned"]
    /\ UNCHANGED <<gohaiVars, returned, samples, facts>>

\* Run's error is Collect's: a dependency nobody registered, or a cycle.
RunRefused(c) ==
    /\ call[c] = "run"
    /\ \E err \in {"unknown", "cycle"} : Refuse(c, err)
    /\ call' = [call EXCEPT ![c] = "returned"]
    /\ UNCHANGED <<gohaiVars, returned, samples, facts>>

RunBegins(c) ==
    /\ call[c] = "run"
    /\ Begin(c)
    /\ UNCHANGED <<gohaiVars, collectVars>>

CollectorStarts(c, n) ==
    /\ Start(c, n)
    /\ UNCHANGED <<gohaiVars, collectVars>>

\* A mutant: only failures are reported to OnComplete.
CollectorReturnsQuiet(c, n) ==
    /\ Finish(c, n)
    /\ \E r \in IF status'[c][n] = "ok" THEN {"value", "nil"} ELSE {"err"} :
          returned' = [returned EXCEPT ![c][n] = r]
    /\ samples' = IF cfg.withTimings /\ status'[c][n] = "err"
                     THEN [samples EXCEPT ![c][n] = status'[c][n]] ELSE samples
    /\ UNCHANGED <<gohaiVars, call, facts>>

\* A collector that succeeds may have nothing to tell: a nil result.  The
\* OnComplete hook takes the sample.
CollectorReturns(c, n) ==
    /\ Finish(c, n)
    /\ \E r \in IF status'[c][n] = "ok" THEN {"value", "nil"} ELSE {"err"} :
          returned' = [returned EXCEPT ![c][n] = r]
    /\ samples' = IF cfg.withTimings
                     THEN [samples EXCEPT ![c][n] = status'[c][n]] ELSE samples
    /\ UNCHANGED <<gohaiVars, call, facts>>

\* Facts.set drops a result that is not of the field's type: nil among them.
Filled(c) == {n \in answer'[c].results : returned[c][n] = "value"}

CollectReturns(c) ==
    /\ Answer(c)
    /\ facts' = [facts EXCEPT ![c] = [fields |-> Filled(c), timings |-> samples[c]]]
    /\ call' = [call EXCEPT ![c] = "returned"]
    /\ UNCHANGED <<gohaiVars, returned, samples>>

----------------------------------------------------------------------------
New ==
    \/ RegisterBuiltin \/ SkipBuiltin
    \/ WithDefaults \/ WithTimings
    \/ \E n \in Names : WithEnabled(n) \/ WithDisabled(n) \/ WithCollectors(n)
    \/ \E k \in Categories : WithCategory(k)
    \/ NewFails \/ NewReturns

Collect(c) ==
    \/ RunRefused(c) \/ RunBegins(c) \/ CollectReturns(c)
    \/ \E n \in Names : CollectorStarts(c, n) \/ CollectorReturns(c, n)

GohaiNext == New \/ \E c \in Callers : CallCollect(c) \/ Collect(c)

\* A Collect that was called is carried on with, as Run's contract promises.
GohaiSpec ==
    /\ GohaiInit /\ [][GohaiNext]_allVars
    /\ \A c \in Callers : WF_allVars(Collect(c))

----------------------------------------------------------------------------
\* Options, selections, calls and answers stay in the sets of their values.
GohaiTypeOK ==
    /\ todo \in Seq(Collectors)
    /\ options \in 0 .. MaxOptions
    /\ cfg \in [useDefaults : BOOLEAN, enabled : SUBSET Names, disabled : SUBSET Names,
                only : SUBSET Names, categories : SUBSET Categories, withTimings : BOOLEAN]
    /\ stage \in {"new", "ready", "failed"}
    /\ selected \subseteq DOMAIN collectors
    /\ call \in [Callers -> {"idle", "run", "returned"}]
    /\ returned \in [Callers -> [Names -> {"none", "value", "nil", "err"}]]
    /\ samples \in [Callers -> [Names -> {"none", "ok", "err"}]]
    /\ facts \in [Callers -> [fields : SUBSET Names, timings : [Names -> {"none", "ok", "err"}]]]

\* The collectors that ran for the last Collect.
RanFor(c) == {n \in Names : returned[c][n] # "none"}

Answered(c) == call[c] = "returned" /\ answer[c].err = "ok"

\* What runs is what the options say and what that needs, and no more: all
\* that is enabled and not disabled, and everybody else only because another
\* that runs declares it; a disabled collector too.
OptionsAreHonoured ==
    \A c \in Callers : Answered(c) =>
        /\ IF cfg.only # {} THEN cfg.only \subseteq RanFor(c)
           ELSE Enabled \ cfg.disabled \subseteq RanFor(c)
        /\ \A n \in RanFor(c) :
              \/ n \in selected /\ (cfg.only = {} => n \notin cfg.disabled)
              \/ \E m \in RanFor(c) : n \in Declared(Deps, m)

\* Facts and timings of one Collect tell the same story of what was selected: a
\* selected collector has its field exactly if it returned a value, and with
\* timings on one without a field has an entry that says whether it failed or had
\* nothing to tell.  Everything that ran has an entry and nothing else has, and no
\* field is there of what did not run, failed or returned nothing.  Whether a
\* collector that runs only because another declares it gets its field is left
\* open: facts.go:93 and gohai.go:122 say it does not, and Facts.set fills it.
FactsAndTimingsAgree ==
    \A c \in Callers : Answered(c) =>
        /\ \A n \in facts[c].fields : returned[c][n] = "value"
        /\ \A n \in selected : returned[c][n] = "value" => n \in facts[c].fields
        /\ cfg.withTimings =>
              /\ {n \in Names : facts[c].timings[n] # "none"} = Closure(Deps, Names, selected)
              /\ \A n \in facts[c].fields : facts[c].timings[n] = "ok"
              /\ \A n \in selected \ facts[c].fields :
                    facts[c].timings[n] = IF returned[c][n] = "nil" THEN "ok" ELSE "err"

\* Whatever New accepts can be collected, unless the build itself is wired
\* wrongly: only a dependency nobody built in, or a cycle, in what the selected
\* builtins need makes Collect fail.
OnlyWiringRefuses ==
    \A c \in Callers : answer[c].err # "ok" =>
        LET needed == Closure(Deps, Names, selected \cap DOMAIN collectors) IN
        ~ (needed \subseteq DOMAIN collectors) \/ Cyclic(Deps, needed)

\* Every Collect returns, and can be called again.
CollectEnds == \A c \in Callers : call[c] = "run" ~> call[c] = "returned"
=============================================================================
