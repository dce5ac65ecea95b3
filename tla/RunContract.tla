---------------------------- MODULE RunContract ----------------------------
(***************************************************************************)
(* What the callers of a Registry are promised, without locks, levels,     *)
(* snapshots or counters: a run executes what its request needs, each      *)
(* collector once and after all it declares; collectors of a run may       *)
(* overlap in any other way; the answer holds exactly the successes; and   *)
(* the set of collectors stands still while somebody runs.                 *)
(***************************************************************************)
EXTENDS DepGraph

CONSTANTS Callers, Names, Collectors, NoCollector, NameOf, DepsOf, Requests

VARIABLES
    collectors, \* registered name -> collector object
    request,    \* the names each caller asked for last
    running,    \* the callers with a run under way
    wanted,     \* what their runs execute
    status,     \* how far each of these collectors is
    answer      \* what each caller was answered last

vars == <<collectors, request, running, wanted, status, answer>>

Deps == [n \in DOMAIN collectors |-> DepsOf[collectors[n]]]
Needs(c) == Closure(Deps, Names, request[c])

Waiting == [n \in Names |-> "waiting"]
NoAnswer == [err |-> "ok", results |-> {}]
Finished == {"ok", "err"}

Init ==
    /\ collectors = [n \in {} |-> NoCollector]
    /\ request = [c \in Callers |-> {}]
    /\ running = {}
    /\ wanted = [c \in Callers |-> {}]
    /\ status = [c \in Callers |-> Waiting]
    /\ answer = [c \in Callers |-> NoAnswer]

\* A collector gets in under a name nobody has, while nobody runs.
Register(o) ==
    /\ running = {}
    /\ NameOf[o] \in Names \ DOMAIN collectors
    /\ collectors' = [n \in DOMAIN collectors \cup {NameOf[o]} |->
                         IF n = NameOf[o] THEN o ELSE collectors[n]]
    /\ UNCHANGED <<request, running, wanted, status, answer>>

\* A caller asks for something, to run or else.
Ask(c) ==
    /\ c \notin running
    /\ answer' = [answer EXCEPT ![c] = NoAnswer]
    /\ \/ UNCHANGED request
       \/ \E S \in Requests : request' = [request EXCEPT ![c] = S]
    /\ UNCHANGED <<collectors, running, wanted, status>>

\* A caller is refused, a run for a reason that holds.
Refuse(c, err) ==
    /\ c \notin running
    /\ err \in {"unnamed", "duplicate", "unknown", "cycle"}
    /\ err = "unknown" => ~ (Needs(c) \subseteq DOMAIN collectors)
    /\ err = "cycle" => Needs(c) \subseteq DOMAIN collectors /\ Cyclic(Deps, Needs(c))
    /\ answer' = [answer EXCEPT ![c] = [err |-> err, results |-> {}]]
    /\ UNCHANGED <<collectors, request, running, wanted, status>>

Begin(c) ==
    /\ c \notin running
    /\ Needs(c) \subseteq DOMAIN collectors
    /\ ~ Cyclic(Deps, Needs(c))
    /\ running' = running \cup {c}
    /\ wanted' = [wanted EXCEPT ![c] = Needs(c)]
    /\ UNCHANGED <<collectors, request, status, answer>>

Start(c, n) ==
    /\ c \in running /\ n \in wanted[c]
    /\ status[c][n] = "waiting"
    /\ \A m \in Declared(Deps, n) : status[c][m] \in Finished
    /\ status' = [status EXCEPT ![c][n] = "running"]
    /\ UNCHANGED <<collectors, request, running, wanted, answer>>

Finish(c, n) ==
    /\ c \in running /\ n \in wanted[c]
    /\ status[c][n] = "running"
    /\ \E o \in Finished : status' = [status EXCEPT ![c][n] = o]
    /\ UNCHANGED <<collectors, request, running, wanted, answer>>

Answer(c) ==
    /\ c \in running
    /\ \A n \in wanted[c] : status[c][n] \in Finished
    /\ running' = running \ {c}
    /\ answer' = [answer EXCEPT ![c] =
                     [err |-> "ok", results |-> {n \in wanted[c] : status[c][n] = "ok"}]]
    /\ wanted' = [wanted EXCEPT ![c] = {}]
    /\ status' = [status EXCEPT ![c] = Waiting]
    /\ UNCHANGED <<collectors, request>>

Work(c) == Answer(c) \/ \E n \in Names : Start(c, n) \/ Finish(c, n)

Next ==
    \/ \E o \in Collectors : Register(o)
    \/ \E c \in Callers :
          \/ Ask(c) \/ Begin(c) \/ Work(c)
          \/ \E err \in {"unnamed", "duplicate", "unknown", "cycle"} : Refuse(c, err)

\* A run that has begun is carried on with.
Spec == Init /\ [][Next]_vars /\ \A c \in Callers : WF_vars(Work(c))
=============================================================================
