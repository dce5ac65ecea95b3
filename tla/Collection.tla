------------------------------ MODULE Collection ------------------------------
(***************************************************************************)
(* What the models of single collectors share.  A behaviour is one call of *)
(* Collect: the host is what the files, commands and system calls that the *)
(* collector asks will answer, each on its own, so that sources read at    *)
(* different times may disagree; the facts are what Collect returns.       *)
(***************************************************************************)
EXTENDS Naturals, Sequences, SequencesExt, FiniteSets, FiniteSetsExt, Folds, Functions, TLC

VARIABLES
    host,   \* what the collector's sources answer; host.of names the collector
    facts   \* NotYet, or what Collect returned

NotYet == [of |-> "none"]

None == ""          \* Go's empty string
Empty == <<>>       \* Go's empty map: the function on nothing
Nil == {}           \* a nil pointer; a pointer to v is {v}

\* A source that answers, and one that fails.
Answer(x) == [ok |-> TRUE, out |-> x]
Failure == [ok |-> FALSE, out |-> <<>>]

\* A list; a source that, if it answers, answers one of records.
IsSeq(s) == s \in Seq(Range(s))
ListOf(said, fields) == said.ok => IsSeq(said.out) /\ \A l \in Range(said.out) : DOMAIN l = fields

\* Collect returns, with a result or with an error.
Returns(of, info) ==
    /\ host.of = of
    /\ facts = NotYet
    /\ facts' = [of |-> of, err |-> FALSE, info |-> info]
    /\ UNCHANGED host

Errs(of) ==
    /\ host.of = of
    /\ facts = NotYet
    /\ facts' = [of |-> of, err |-> TRUE]
    /\ UNCHANGED host

Collected(of) == facts.of = of /\ ~ facts.err

\* What a loop that keeps some of a sequence leaves of it: what is at those places,
\* in their order.
Rank(at, i) == Cardinality({j \in at : j <= i})
Kept(s, at) == [r \in 1..Cardinality(at) |-> s[CHOOSE i \in at : Rank(at, i) = r]]

\* m with v at k, which replaces what was there.
Put(m, k, v) == [x \in DOMAIN m \cup {k} |-> IF x = k THEN v ELSE m[x]]

\* What lines say, by their keys: of two lines of a key the later one counts.
PutLine(m, l) == Put(m, l.key, l.val)
ByKey(lines) == FoldLeft(PutLine, Empty, lines)
=============================================================================
