---------------------------- MODULE ProbeContract ----------------------------
(***************************************************************************)
(* What a reader of Facts may take from the fields of collectors that      *)
(* detect where the host is: a field is filled only from something that    *)
(* was found, an error is reported only by a service that is there, what   *)
(* was said is not taken back, and every collector asked says something.   *)
(***************************************************************************)
EXTENDS Naturals

CONSTANT Probes     \* the collectors

VARIABLES
    asked,      \* those that were selected
    reached,    \* those that a service answered
    found,      \* those that found something that says where the host is
    result      \* "none" while Collect works, then "nil", "info" or "err"

vars == <<asked, reached, found, result>>

Init ==
    /\ asked \subseteq Probes
    /\ reached = {}
    /\ found \subseteq Probes
    /\ result = [p \in Probes |-> "none"]

\* p hears from a service, which may tell where the host is.
Hear(p) ==
    /\ p \in asked /\ result[p] = "none"
    /\ reached' = reached \cup {p}
    /\ found' \in {found, found \cup {p}}

\* What p may say.
MaySay(p, r) ==
    \/ r = "nil"
    \/ r = "info" /\ p \in found'
    \/ r = "err" /\ p \in reached'

\* p goes on, by a request that may be answered, and may return.
Look(p) ==
    /\ p \in asked /\ result[p] = "none"
    /\ Hear(p) \/ UNCHANGED <<reached, found>>
    /\ \/ UNCHANGED result
       \/ \E r \in {"nil", "info", "err"} : MaySay(p, r) /\ result' = [result EXCEPT ![p] = r]
    /\ UNCHANGED asked

Next == \E p \in Probes : Look(p)

\* Every collector asked returns.
AllReturn == <>(\A p \in asked : result[p] # "none")

Spec == Init /\ [][Next]_vars /\ AllReturn
==============================================================================
