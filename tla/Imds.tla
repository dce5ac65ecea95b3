--------------------------------- MODULE Imds ---------------------------------
(***************************************************************************)
(* The EC2 collector (pkg/gohai/collectors/ec2), request by request: the   *)
(* token that dies after a minute, the version, the paths it knows and the *)
(* directories it lists, each request taking up to ten seconds and failing *)
(* in its own way.  CloudProbe knows it by its first requests only, and is *)
(* what this module implements.                                            *)
(***************************************************************************)
EXTENDS Naturals, Sequences, SequencesExt, FiniteSets, FiniteSetsExt, Functions

CONSTANTS
    Clouds,     \* the hosts, as CloudProbe describes them, and what the service has
    Macs,       \* the interfaces a service may list
    Junk,       \* a line of an answer that names nothing the service has
    Life,       \* the life of a token, in timeouts of one request
    MaxFaults   \* bound: how many requests may fail that need not

Supported == 1..2   \* the versions of the API that gohai knows, oldest first

\* The paths.  The first stands for those that decide nothing but themselves.
Leaves == <<<<"ami-id">>, <<"instance-id">>, <<"region">>, <<"zone">>>>
Lists == <<<<"security-groups">>>>
Volumes == {<<"block-device-mapping", v>> : v \in {"root", Junk}}
Keys == {<<"public-keys", k>> : k \in {"0", Junk}}
EniFields == <<"vpc-id", "local-ipv4s">>
EniPaths == {<<"macs", m, EniFields[i]>> : m \in Macs \cup {Junk}, i \in DOMAIN EniFields}
Documents == <<<<"iam">>, <<"identity">>, <<"user-data">>>>
Directories == <<<<"block-device-mapping">>, <<"public-keys">>, <<"macs">>>>

First == <<"ami-id">>
Below == Volumes \cup Keys \cup EniPaths
Contents == Range(Leaves \o Lists \o Documents \o Directories) \cup Below
Paths == {<<"token">>, <<"versions">>} \cup Contents

\* A cloud: the host, the versions its service lists, the interfaces it has and
\* the paths it does not have.
CloudOK(c) ==
    /\ c.versions \subseteq Nat
    /\ c.macs \subseteq Macs
    /\ c.lacks \subseteq Paths

ASSUME CloudsAssumption == \A c \in Clouds : CloudOK(c)
ASSUME MacsAssumption == IsFiniteSet(Macs)
ASSUME JunkAssumption == Junk \notin Macs \cup {"root", "0"}
ASSUME LifeAssumption == Life \in Nat \ {0}

VARIABLES
    cloud,      \* the host and its service
    pc,         \* "gate", "walk" or "done"
    todo,       \* the requests Collect has still to send, as far as it knows them
    token,      \* "none", "held", or "bad" if what came back is no token
    age,        \* of the token, no further than Life
    version,    \* 0 stands for "latest"
    log,        \* what became of each request
    result      \* "none" while Collect works, then "nil" or "info"

vars == <<cloud, pc, todo, token, age, version, log, result>>

Init ==
    /\ cloud \in Clouds
    /\ pc = "gate"
    /\ todo = <<<<"token">>, <<"versions">>>> \o Leaves \o Lists \o Directories \o Documents
    /\ token = "none" /\ age = 0 /\ version = 0
    /\ log = [p \in Paths |-> "none"]
    /\ result = "none"

\* What may become of a request.  Of CloudProbe's malformed answers there are
\* two here: "garbled", which is no JSON and none of whose lines names anything,
\* and "blank", which is nothing at all.
Fates == {"ok", "garbled", "blank", "cut", "status", "unreachable"}

\* What GetWithHeaders and Put return without an error.
Bodies == {"ok", "garbled", "blank"}

Faulty == {"garbled", "blank", "cut", "unreachable"}
Faults == Cardinality({p \in Paths : log[p] \in Faulty})

----------------------------------------------------------------------------
\* What CloudProbe sees of it.
Others == {"gce", "azure", "digital_ocean", "oci", "alibaba", "linode", "openstack", "scaleway"}

Seen(f) == IF f \in {"garbled", "blank"} THEN "malformed" ELSE f

\* The requests after the first are one step there, answered if the last is.
ProbeLog == [s \in {"token", "versions", "first", "rest", "document", "vnics", "volumes", "tree", "nova"} |->
                CASE s = "token" -> Seen(log[<<"token">>])
                  [] s = "versions" -> Seen(log[<<"versions">>])
                  [] s = "first" -> Seen(log[First])
                  [] s = "rest" /\ result = "info" -> Seen(log[<<"user-data">>])
                  [] OTHER -> "none"]

ProbePc == IF pc # "walk" THEN pc
           ELSE CASE Head(todo) = <<"token">> -> "token"
                  [] Head(todo) = <<"versions">> -> "versions"
                  [] Head(todo) = First -> "first"
                  [] OTHER -> "rest"

Probe == INSTANCE CloudProbe WITH
    Hosts <- {c.host : c \in Clouds},
    Selections <- {{"ec2"}},
    Faults <- {"malformed", "cut", "status", "unreachable"},
    host <- cloud.host,
    selection <- {"ec2"},
    ctx <- "live",
    pc <- [p \in {"ec2"} \cup Others |-> IF p = "ec2" THEN ProbePc ELSE "gate"],
    log <- [p \in {"ec2"} \cup Others |->
               [s \in DOMAIN ProbeLog |-> IF p = "ec2" THEN ProbeLog[s] ELSE "none"]],
    result <- [p \in {"ec2"} \cup Others |-> IF p = "ec2" THEN result ELSE "none"]

----------------------------------------------------------------------------
\* Collect starts at the gate.

Closed ==
    /\ pc = "gate" /\ ~ Probe!OnEC2
    /\ pc' = "done" /\ result' = "nil" /\ todo' = <<>>
    /\ UNCHANGED <<cloud, token, age, version, log>>

Open ==
    /\ pc = "gate" /\ Probe!OnEC2
    /\ pc' = "walk"
    /\ UNCHANGED <<cloud, todo, token, age, version, log, result>>

----------------------------------------------------------------------------
\* The service.

Has(p) ==
    /\ p \notin cloud.lacks
    /\ Len(p) > 1 => p[2] # Junk /\ (p[1] = "macs" => p[2] \in cloud.macs)

\* A token that has expired is refused even where none is needed.
Authorized(p) ==
    \/ p = <<"token">>
    \/ token = "held" /\ age < Life
    \/ token = "none" /\ cloud.host.v1

FatesOf(p) ==
    IF cloud.host.platform # "ec2" THEN {"status", "unreachable"}
    ELSE (IF Has(p) /\ Authorized(p) THEN {"ok"} ELSE {"status"})
         \cup (IF Faults < MaxFaults THEN {"unreachable"} ELSE {})
         \cup (IF Authorized(p) /\ Faults < MaxFaults THEN {"garbled", "blank", "cut"} ELSE {})

----------------------------------------------------------------------------
\* The walk.  Every request takes up to a timeout.

\* A mutant: the token is sent with no request.
SendBare(p, f) ==
    /\ pc = "walk" /\ todo # <<>> /\ p = Head(todo) /\ f \in FatesOf(p)
    /\ log' = [log EXCEPT ![p] = f]
    /\ token' = "none"
    /\ age' \in {age, Min({age + 1, Life})}
    /\ UNCHANGED cloud

Send(p, f) ==
    /\ pc = "walk" /\ todo # <<>> /\ p = Head(todo) /\ f \in FatesOf(p)
    /\ log' = [log EXCEPT ![p] = f]
    /\ IF p = <<"token">>
       THEN token' = (CASE f = "ok" -> "held" [] f = "garbled" -> "bad" [] OTHER -> "none")
       ELSE UNCHANGED token
    /\ age' \in {age, Min({age + 1, Life})}
    /\ UNCHANGED cloud

Goes(rest) ==
    /\ todo' = rest
    /\ IF rest = <<>> THEN pc' = "done" /\ result' = "info" ELSE UNCHANGED <<pc, result>>

Token(f) ==
    /\ Send(<<"token">>, f)
    /\ Goes(Tail(todo))
    /\ UNCHANGED version

\* The latest version that both sides know, or "latest".
Versions(f) ==
    /\ Send(<<"versions">>, f)
    /\ version' = IF f = "ok" /\ cloud.versions \cap Supported # {} THEN Max(cloud.versions \cap Supported) ELSE 0
    /\ Goes(Tail(todo))

\* A mutant: the first path is like any other.
FirstFailsSoftly(f) ==
    /\ Send(First, f) /\ f \notin Bodies
    /\ Goes(Tail(todo))
    /\ UNCHANGED version

\* Without the first path this is no EC2.
FirstFails(f) ==
    /\ Send(First, f) /\ f \notin Bodies
    /\ todo' = <<>> /\ pc' = "done" /\ result' = "nil"
    /\ UNCHANGED version

\* A mutant: any path that fails ends it.
ReadOrStop(p, f) ==
    /\ Send(p, f)
    /\ p[1] \notin {"token", "versions"} /\ p \notin Range(Directories)
    /\ p = First => f \in Bodies
    /\ Goes(IF f \in Bodies THEN Tail(todo) ELSE <<>>)
    /\ UNCHANGED version

\* Any other path that fails is left out.
Read(p, f) ==
    /\ Send(p, f)
    /\ p[1] \notin {"token", "versions"} /\ p \notin Range(Directories)
    /\ p = First => f \in Bodies
    /\ Goes(Tail(todo))
    /\ UNCHANGED version

\* What the answer to a directory's request lists: every field of every
\* interface, whether the service has it or not, and of a garbled answer its lines.
Listed(d, f) ==
    CASE f = "ok" -> {p \in Below : /\ p[1] = d[1] /\ p[2] # Junk
                                    /\ IF p[1] = "macs" THEN p[2] \in cloud.macs ELSE Has(p)}
      [] f = "garbled" -> {p \in Below : p[1] = d[1] /\ p[2] = Junk}
      [] OTHER -> {}

\* A mutant: a listing that does not come is asked for again.
ListAgain(d, f) ==
    /\ Send(d, f)
    /\ d \in Range(Directories)
    /\ Goes(IF f = "status" THEN todo ELSE SetToSeq(Listed(d, f)) \o Tail(todo))
    /\ UNCHANGED version

\* What a directory lists is asked for next.
List(d, f) ==
    /\ Send(d, f)
    /\ d \in Range(Directories)
    /\ Goes(SetToSeq(Listed(d, f)) \o Tail(todo))
    /\ UNCHANGED version

Next ==
    \/ Closed \/ Open
    \/ \E f \in Fates :
        \/ Token(f) \/ Versions(f) \/ FirstFails(f)
        \/ \E p \in Contents : Read(p, f) \/ List(p, f)

\* Every request has a timeout.
Spec == Init /\ [][Next]_vars /\ WF_vars(Next)

----------------------------------------------------------------------------
\* What Collect returns.

Got == {p \in Contents : log[p] = "ok"}

\* What a field holds that is taken from one path: any body is kept.
Value(p) == CASE log[p] = "ok" -> "right" [] log[p] = "garbled" -> "wrong" [] OTHER -> ""

\* What one holds that the identity document may fill: it does if it is JSON and
\* the field is empty.
Filled(p) == IF Value(p) = "" /\ <<"identity">> \in Got THEN "right" ELSE Value(p)

\* transformMetadata and what Collect adds to it.
Info ==
    [leaves |-> [p \in Range(Leaves \o Lists) |-> Value(p)],
     ID |-> Filled(<<"instance-id">>), Region |-> Filled(<<"region">>), Zone |-> Filled(<<"zone">>),
     AccountUID |-> <<"identity">> \in Got,
     BlockDeviceMapping |-> [v \in {v \in Volumes : log[v] \in Bodies} |-> Value(v)],
     PublicKeys |-> {k \in Keys : Value(k) # ""},
     NetworkInterfaces |-> [m \in {p[2] : p \in {q \in EniPaths : log[q] # "none"}} |->
                               [p \in {q \in EniPaths : q[2] = m} |-> Value(p)]],
     IAMInfo |-> <<"iam">> \in Got,
     UserData |-> Value(<<"user-data">>),
     APIVersion |-> version]

----------------------------------------------------------------------------
\* Every variable stays in the set of its values, and what is to be asked for has
\* not been asked for.
TypeOK ==
    /\ cloud \in Clouds /\ pc \in {"gate", "walk", "done"}
    /\ Range(todo) \subseteq Paths /\ IsInjective(todo)
    /\ token \in {"none", "held", "bad"} /\ age \in 0..Life
    /\ version \in Supported \cup {0}
    /\ log \in [Paths -> Fates \cup {"none"}]
    /\ result \in {"none", "nil", "info"}
    /\ \A p \in Range(todo) : log[p] = "none"

\* If no request fails and the token outlives the walk, everything the service
\* has is reported, whatever it lacks besides and whether it needs a token or not.
PromptWalkIsWhole ==
    pc = "done" /\ cloud.host.platform = "ec2" /\ Probe!OnEC2 /\ Faults = 0 /\ age < Life
        /\ Has(First) /\ (Has(<<"token">>) \/ cloud.host.v1) =>
        /\ result = "info"
        /\ Got = {p \in Contents : Has(p) /\ (p \in EniPaths => Has(<<"macs">>))
                                 /\ (p \in Volumes => Has(<<"block-device-mapping">>))
                                 /\ (p \in Keys => Has(<<"public-keys">>))}

\* One bad answer costs no more than what was asked for.  On a walk with a token
\* that lives, a path the service has is without its value only if its own
\* request failed or was answered with something else, or its directory's was;
\* one fault leaves the identity that two sources give right, unless it is an
\* answer that is taken for it; and nothing is reported under a name that is not
\* the service's, nor an interface left out, unless the listing was at fault.
LossesStayLocal ==
    result = "info" /\ age < Life /\ (token = "held" \/ (cloud.host.v1 /\ token = "none")) =>
        /\ \A p \in Contents :
              Has(p) /\ Value(p) # "right" =>
                  \/ log[p] \in Faulty
                  \/ log[p] = "none" /\ \E d \in Range(Directories) : d[1] = p[1] /\ log[d] # "ok"
        /\ \A p \in {<<"instance-id">>, <<"region">>, <<"zone">>} :
              Has(p) /\ Has(<<"identity">>) /\ Faults <= 1 => Filled(p) = "right" \/ log[p] = "garbled"
        /\ log[<<"macs">>] = "ok" => DOMAIN Info.NetworkInterfaces = cloud.macs
        /\ log[<<"macs">>] # "garbled" => DOMAIN Info.NetworkInterfaces \subseteq cloud.macs
        /\ log[<<"block-device-mapping">>] # "garbled" => \A v \in DOMAIN Info.BlockDeviceMapping : Has(v)
        /\ log[<<"public-keys">>] # "garbled" => \A k \in Info.PublicKeys : Has(k)

\* Every step is one of CloudProbe's EC2 collector or one it does not see.
ImplementsProbe == Probe!Init /\ [][Probe!Next]_(Probe!vars)

\* Collect returns, whatever it is answered and however long the lists are.
WalkEnds == <>(pc = "done")
=============================================================================
