------------------------------- MODULE Network -------------------------------
(***************************************************************************)
(* The network collector (pkg/gohai/collectors/network): the interfaces,   *)
(* the routing table that ip prints, what ethtool and ip -d link say of    *)
(* single interfaces, and on OpenVZ the aliases of interfaces.             *)
(***************************************************************************)
EXTENDS Collection

CONSTANT NetworkHosts  \* the hosts, see NetworkHostOK

EthtoolCalls == {"-i", "-g", "-l", "-c", "-k", "-a"}

OpenVZGuest(h) == "vz" \in h.proc /\ "bc0" \notin h.proc

\* The last interface of a name; 0 if there is none.
ByName(h, n) == Max({0} \cup {k \in DOMAIN h.ifaces : h.ifaces[k].name = n})

\* The interfaces of a host, each with the one it is an alias of if its name says so, its
\* addresses and its ARPHRD type.  The kernel has a name once, and what an alias is of has
\* no colon in its name, so that it is none itself.
InterfacesOK(h) ==
    /\ IsSeq(h.ifaces) /\ \A i \in Range(h.ifaces) : DOMAIN i = {"name", "base", "addrs", "arphrd"} /\ IsSeq(i.addrs)
    /\ \A j, k \in DOMAIN h.ifaces : h.ifaces[j].name = h.ifaces[k].name => j = k
    /\ \A i \in Range(h.ifaces) : i.name # None
    /\ \A j, k \in DOMAIN h.ifaces : h.ifaces[j].base = h.ifaces[k].name => h.ifaces[k].base = None

\* The lines of ip, each with its fragments, which are a route and the hops of a multipath
\* route, and whether it ends with a backslash: what starts a route is no hop, and what
\* goes on with it is one.
RouteLinesOK(out) ==
    LET Open(k) == \E j \in 1..(k - 1) : out[j].frags # <<>> /\ \A i \in j..(k - 1) : out[i].cont
    IN \A k \in DOMAIN out : \A m \in DOMAIN out[k].frags : out[k].frags[m].hop <=> m > 1 \/ Open(k)

\* A host: whether it runs macOS, its interfaces, which of /proc/vz and /proc/bc/0
\* exist, and the output of every command in lines.
NetworkHostOK(h) ==
    /\ h.of = "network" /\ h.darwin \in BOOLEAN /\ h.listed \in BOOLEAN
    /\ InterfacesOK(h)
    /\ h.proc \subseteq {"vz", "bc0"}
    /\ DOMAIN h.ethtool = EthtoolCalls /\ \A c \in EthtoolCalls : ListOf(h.ethtool[c], {"t", "key", "val"})
    /\ DOMAIN h.routes = {"inet", "inet6"}
    /\ \A f \in {"inet", "inet6"} :
          /\ ListOf(h.routes[f], {"frags", "cont"})
          /\ h.routes[f].ok => /\ \A l \in Range(h.routes[f].out) : IsSeq(l.frags) /\ l.cont \in BOOLEAN
                               /\ RouteLinesOK(h.routes[f].out)
    /\ ListOf(h.link, {"t", "v", "id"})

ASSUME NetworkHostsAssumption == \A h \in NetworkHosts : NetworkHostOK(h)

----------------------------------------------------------------------------
\* network.go: readInterfaces.  An address that does not parse is skipped.
ParseAddresses(addrs) == Kept(addrs, {k \in DOMAIN addrs : addrs[k] # "bad"})

ReadInterfaces(h) ==
    [k \in DOMAIN h.ifaces |->
        [name |-> h.ifaces[k].name, addrs |-> ParseAddresses(h.ifaces[k].addrs),
         encapsulation |-> None, routes |-> <<>>, ethtool |-> Empty,
         vlan |-> Nil, tunnel |-> Nil, xdp |-> Nil]]

\* The encapsulation of an ARPHRD type; 0 stands for a type file that cannot be
\* read, and other types have none.
Encapsulation(t) ==
    CASE t = 1           -> "Ethernet"
      [] t \in {24, 512} -> "PPP"
      [] t = 256         -> "SLIP"
      [] t = 257         -> "VJSLIP"
      [] t = 768         -> "IPIP"
      [] t = 769         -> "6to4"
      [] t = 772         -> "Loopback"
      [] OTHER           -> None

ApplyEncapsulation(h, ifs) ==
    [k \in DOMAIN ifs |-> [ifs[k] EXCEPT !.encapsulation = Encapsulation(h.ifaces[k].arphrd)]]

\* A mutant: an alias that is folded in loses its addresses.
MergeDropping(h, ifs) ==
    IF OpenVZGuest(h)
    THEN LET gone == {i.name : i \in {i \in Range(h.ifaces) : i.base # None /\ ByName(h, i.base) # 0}}
         IN SelectSeq(ifs, LAMBDA i : i.name \notin gone)
    ELSE ifs

\* The interface an alias is folded into, by its place; 0 if it is none.
Targets(h) ==
    [k \in DOMAIN h.ifaces |->
        [at |-> k, into |-> IF h.ifaces[k].base = None THEN 0 ELSE ByName(h, h.ifaces[k].base)]]

\* The slice is filtered in place: what is kept moves down in the array in which the
\* aliases still look up their base by its old place.
FoldAlias(s, a) ==
    IF a.into # 0
    THEN [s EXCEPT !.array[a.into].addrs = @ \o s.array[a.at].addrs]
    ELSE [array |-> [s.array EXCEPT ![s.len + 1] = s.array[a.at]], len |-> s.len + 1]

\* The aliases venet0:N go and leave their addresses to venet0.
OpenVZAliasMerge(h, ifs) ==
    LET end == FoldLeft(FoldAlias, [array |-> ifs, len |-> 0], Targets(h))
    IN IF OpenVZGuest(h) THEN SubSeq(end.array, 1, end.len) ELSE ifs

----------------------------------------------------------------------------
\* linux.go: applyRoutes.

ParseRoute(f, family) ==
    [dest |-> f.dest, family |-> family, via |-> f.via, dev |-> f.dev, src |-> f.src, proto |-> f.proto]

\* A route of each hop with what the line says of all of them, or the one route.
ExpandRouteLine(frags, family) ==
    LET route == ParseRoute(frags[1], family)
        Hop(f) == [route EXCEPT !.via = f.via, !.dev = f.dev, !.src = f.src]
    IN CASE frags = <<>>    -> <<>>
         [] Len(frags) = 1 -> <<route>>
         [] OTHER          -> [k \in 1..(Len(frags) - 1) |-> Hop(frags[k + 1])]

\* joinContinuationLines and the loop over its lines: a line that goes on is put in
\* front of the next one, and what is still pending at the end is dropped.
ReadRouteLine(s, l) ==
    LET pending == s.pending \o l.frags
    IN IF l.cont THEN [s EXCEPT !.pending = pending]
       ELSE [s EXCEPT !.pending = <<>>, !.routes = @ \o ExpandRouteLine(pending, s.family)]

RoutesOf(h, family) ==
    IF h.routes[family].ok
    THEN FoldLeft(ReadRouteLine, [family |-> family, pending |-> <<>>, routes |-> <<>>], h.routes[family].out).routes
    ELSE <<>>

IsDefaultDestination(r) == r.dest = "default"

\* A mutant: the gateway is looked for on its own.
DefaultApart(routes) ==
    LET defaults == SelectSeq(routes, IsDefaultDestination)
        named == SelectSeq(defaults, LAMBDA r : r.dev # None)
    IN [dev |-> IF named = <<>> THEN None ELSE named[1].dev,
        via |-> IF defaults = <<>> THEN None ELSE defaults[1].via]

\* The default interface and gateway: those of the first default route that names
\* its interface, or of the last of those that do not.
DefaultRoute(d, r) == IF IsDefaultDestination(r) /\ d.dev = None THEN [dev |-> r.dev, via |-> r.via] ELSE d

Default(routes) == FoldLeft(DefaultRoute, [dev |-> None, via |-> None], routes)

\* A route without a dev belongs to the interface that has its source address,
\* the last one if there are several.
ResolveBySource(routes, ifs) ==
    LET Owners(a) == {k \in DOMAIN ifs : a \in Range(ifs[k].addrs)}
        Resolve(r) == IF r.dev = None /\ r.src # None /\ Owners(r.src) # {}
                      THEN [r EXCEPT !.dev = ifs[Max(Owners(r.src))].name] ELSE r
    IN [k \in DOMAIN routes |-> Resolve(routes[k])]

\* Every route goes to the first interface of its name.
AttachToInterface(ifs, routes) ==
    LET First(k) == \A j \in 1..(k - 1) : ifs[j].name # ifs[k].name
        Mine(k) == Kept(routes, {r \in DOMAIN routes : routes[r].dev # None /\ routes[r].dev = ifs[k].name})
    IN [k \in DOMAIN ifs |-> IF First(k) THEN [ifs[k] EXCEPT !.routes = Mine(k)] ELSE ifs[k]]

----------------------------------------------------------------------------
\* network.go: the output of ethtool, as lines [t, key, val]: a "title", a
\* section "max" or "current", a "pair", or "junk" without a colon.

Numbers == {"0", "256", "4096"}
Digits(l) == l.val \in Numbers

\* The last value of each key, of the pairs at some places.
ParsePairs(lines, at) == ByKey(Kept(lines, {k \in at : lines[k].t = "pair"}))

Valued(lines) == {k \in DOMAIN lines : lines[k].val # None}

\* Ring and channel parameters: a number belongs to the section above it.
SectionLine(s, l) ==
    CASE l.t \in {"max", "current"}                         -> [s EXCEPT !.section = l.t]
      [] l.t = "pair" /\ s.section # None /\ Digits(l) -> [s EXCEPT !.map = Put(@, <<s.section, l.key>>, l.val)]
      [] OTHER                                            -> s

ParseSectioned(lines) == FoldLeft(SectionLine, [section |-> None, map |-> Empty], lines).map

DriverInfo(lines) == ParsePairs(lines, {k \in DOMAIN lines : lines[k].key # None})
Coalesce(lines) == ParsePairs(lines, {k \in DOMAIN lines : Digits(lines[k])})
Offload(lines) == ParsePairs(lines, Valued(lines))
Pause(lines) ==
    LET given == ParsePairs(lines, Valued(lines))
    IN [k \in DOMAIN given |-> IF given[k] = "on" THEN "true" ELSE "false"]

Parse(call, lines) ==
    CASE call = "-i"           -> DriverInfo(lines)
      [] call \in {"-g", "-l"} -> ParseSectioned(lines)
      [] call = "-c"           -> Coalesce(lines)
      [] call = "-k"           -> Offload(lines)
      [] call = "-a"           -> Pause(lines)

\* A mutant: the first call that fails is the last.
EthtoolTogether(h) ==
    IF \A c \in EthtoolCalls : h.ethtool[c].ok
    THEN [c \in {c \in EthtoolCalls : Parse(c, h.ethtool[c].out) # Empty} |-> Parse(c, h.ethtool[c].out)]
    ELSE Empty

\* Each call adds its part if it succeeds and something parses.
EthtoolOf(h) ==
    LET told == {c \in EthtoolCalls : h.ethtool[c].ok /\ Parse(c, h.ethtool[c].out) # Empty}
    IN [c \in told |-> Parse(c, h.ethtool[c].out)]

ApplyEthtool(h, ifs) ==
    [k \in DOMAIN ifs |->
        IF ifs[k].encapsulation = "Ethernet" THEN [ifs[k] EXCEPT !.ethtool = EthtoolOf(h)] ELSE ifs[k]]

----------------------------------------------------------------------------
\* network.go: the output of ip -d link, as lines: the "head" of an interface,
\* a "vlan" or a "tunnel" line, the "mode" of XDP, a "prog" that is attached.

NoAnnotation == [vlan |-> Nil, tunnel |-> Nil, xdp |-> Nil]

\* A mutant: the mode stays from one interface to the next.
HeadKeepsMode(s, l) == [s EXCEPT !.name = l.v]

ParseHead(s, l) == [s EXCEPT !.name = l.v, !.mode = None]

\* A mode is announced, "xdp" as "xdpdrv".
Announced(v) == IF v = "xdp" THEN "xdpdrv" ELSE v

\* A program has its own mode, or as "xdp" the one announced.
Program(mode, l) == [mode |-> IF l.v = "xdp" THEN mode ELSE l.v, id |-> l.id]

\* A "vlan" or "tunnel" line that names nothing leaves a nil pointer.
Pointer(v) == IF v = None THEN Nil ELSE {v}

Annotate(ann, mode, l) ==
    CASE l.t = "vlan"   -> [ann EXCEPT !.vlan = Pointer(l.v)]
      [] l.t = "tunnel" -> [ann EXCEPT !.tunnel = Pointer(l.v)]
      [] l.t = "mode"   -> [ann EXCEPT !.xdp = IF @ = Nil THEN {<<>>} ELSE @]
      [] l.t = "prog"   -> [ann EXCEPT !.xdp = IF @ = Nil THEN {<<Program(mode, l)>>}
                                               ELSE {Append(progs, Program(mode, l)) : progs \in @}]
      [] OTHER          -> ann

ReadLinkLine(s, l) ==
    LET ann == IF s.name \in DOMAIN s.ann THEN s.ann[s.name] ELSE NoAnnotation
    IN CASE l.t = "head"  -> ParseHead(s, l)
         [] l.t # "head" /\ s.name = None -> s
         [] OTHER         -> [s EXCEPT !.mode = IF l.t = "mode" THEN Announced(l.v) ELSE @,
                                       !.ann = Put(@, s.name, Annotate(ann, s.mode, l))]

ParseIPLink(lines) ==
    LET ann == FoldLeft(ReadLinkLine, [name |-> None, mode |-> None, ann |-> Empty], lines).ann
    IN [n \in {n \in DOMAIN ann : ann[n] # NoAnnotation} |-> ann[n]]

ApplyIPLink(h, ifs) ==
    LET ann == IF h.link.ok THEN ParseIPLink(h.link.out) ELSE Empty
        Annotated(i) == IF i.name \in DOMAIN ann
                        THEN [i EXCEPT !.vlan = ann[i.name].vlan, !.tunnel = ann[i.name].tunnel, !.xdp = ann[i.name].xdp]
                        ELSE i
    IN [k \in DOMAIN ifs |-> Annotated(ifs[k])]

----------------------------------------------------------------------------
\* Collect of both variants.
NetworkInfo(h) ==
    LET ifs    == OpenVZAliasMerge(h, ApplyEncapsulation(h, ReadInterfaces(h)))
        v4     == RoutesOf(h, "inet")
        v6     == RoutesOf(h, "inet6")
        routes == ResolveBySource(v4 \o v6, ifs)
    IN IF h.darwin
       THEN [ifaces |-> ReadInterfaces(h), routes |-> <<>>, default |-> Default(<<>>), default6 |-> Default(<<>>)]
       ELSE [ifaces |-> ApplyIPLink(h, ApplyEthtool(h, AttachToInterface(ifs, routes))),
             routes |-> routes, default |-> Default(v4), default6 |-> Default(v6)]

CollectNetwork ==
    \/ host.of = "network" /\ host.listed /\ Returns("network", NetworkInfo(host))
    \/ host.of = "network" /\ ~ host.listed /\ Errs("network")

----------------------------------------------------------------------------
Net == facts.info

\* The reported default interface and gateway of a family are of one default route,
\* the first that names an interface in its line; if none is reported, there is none.
DefaultIsOneRoute ==
    Collected("network") /\ ~ host.darwin =>
        \A family \in {"inet", "inet6"} :
            LET default == IF family = "inet" THEN Net.default ELSE Net.default6
                defaults == {k \in DOMAIN Net.routes : Net.routes[k].dest = "default" /\ Net.routes[k].family = family}
                Named(k) == Net.routes[k].dev # None /\ Net.routes[k].src = None
            IN /\ default.dev = None => \A k \in defaults : ~ Named(k)
               /\ default.dev # None => \E k \in defaults :
                    /\ Net.routes[k].dev = default.dev /\ Net.routes[k].via = default.via
                    /\ \A j \in defaults : j < k => ~ Named(j)

\* Of the fragments of ip's complete lines, those that are a hop or are without one.
RouteFragments(frags) == Kept(frags, {k \in DOMAIN frags : frags[k].hop \/ k = Len(frags) \/ ~ frags[k + 1].hop})

\* The fragments in front of the end of the last line that is complete.
Then(s, t) == s \o t
CompleteLines(out) ==
    LET end == Max({0} \cup {k \in DOMAIN out : ~ out[k].cont})
    IN FoldLeft(Then, <<>>, [k \in DOMAIN out |-> IF k <= end THEN out[k].frags ELSE <<>>])

\* Every route that the complete lines of ip hold is reported once, in order and
\* with each hop of a multipath route, wherever its lines are broken, and is listed
\* under its own interface only.
RoutesAreComplete ==
    Collected("network") /\ ~ host.darwin =>
        LET Told(family) == IF host.routes[family].ok THEN RouteFragments(CompleteLines(host.routes[family].out)) ELSE <<>>
            told == Told("inet") \o Told("inet6")
        IN /\ Len(Net.routes) = Len(told) /\ \A k \in DOMAIN told : Net.routes[k].via = told[k].via
           /\ \A i \in Range(Net.ifaces) :
                LET mine == {k \in DOMAIN Net.routes : Net.routes[k].dev = i.name}
                IN Len(i.routes) = Cardinality(mine) /\ \A k \in mine : i.routes[Rank(mine, k)] = Net.routes[k]

\* What one ethtool call says does not depend on whether the others fail; a number is
\* reported under the section it was printed in, and of two for a name the later one.
EthtoolCallsAreIndependent ==
    Collected("network") /\ ~ host.darwin =>
        \A i \in Range(Net.ifaces), c \in EthtoolCalls :
            LET out == host.ethtool[c].out
                Section(k) == Max({0} \cup {j \in 1..k : out[j].t \in {"max", "current"}})
                Name(k) == IF c \in {"-g", "-l"} THEN <<out[Section(k)].t, out[k].key>> ELSE out[k].key
                pairs == {k \in DOMAIN out : out[k].t = "pair" /\ (c \in {"-g", "-l"} => Section(k) # 0)}
                told == {k \in pairs : out[k].val \in Numbers /\ out[k].key # None}
            IN i.encapsulation = "Ethernet" /\ host.ethtool[c].ok =>
                \A k \in told :
                    /\ c \in DOMAIN i.ethtool /\ Name(k) \in DOMAIN i.ethtool[c]
                    /\ (\A j \in pairs : j > k => Name(j) # Name(k)) =>
                            i.ethtool[c][Name(k)] = IF c = "-a" THEN "false" ELSE out[k].val

\* An interface is annotated with what the lines of its blocks say, and with nothing
\* else: the last VLAN and tunnel, and every program, which has its own mode or the
\* last that was announced above it in its block.
AnnotationsStayInTheirBlock ==
    Collected("network") /\ ~ host.darwin /\ host.link.ok =>
        LET out == host.link.out
            HeadOf(k) == Max({0} \cup {j \in 1..k : out[j].t = "head"})
            ModeOf(k) == Max({0} \cup {j \in HeadOf(k)..k : j # 0 /\ out[j].t = "mode"})
            Of(n, t) == {k \in DOMAIN out : out[k].t = t /\ HeadOf(k) # 0 /\ out[HeadOf(k)].v = n}
            Pointed(n, t) == IF Of(n, t) = {} THEN Nil ELSE Pointer(out[Max(Of(n, t))].v)
        IN \A i \in Range(Net.ifaces) :
            /\ i.vlan = Pointed(i.name, "vlan") /\ i.tunnel = Pointed(i.name, "tunnel")
            /\ i.xdp = Nil <=> Of(i.name, "mode") \cup Of(i.name, "prog") = {}
            /\ \A progs \in i.xdp :
                /\ Len(progs) = Cardinality(Of(i.name, "prog"))
                /\ \A k \in Of(i.name, "prog") :
                    progs[Rank(Of(i.name, "prog"), k)] =
                        Program(IF ModeOf(k) = 0 THEN None ELSE Announced(out[ModeOf(k)].v), out[k])

\* The name that the addresses of an interface are reported under.
OwnerOf(h, i) == IF OpenVZGuest(h) /\ i.base # None /\ ByName(h, i.base) # 0 THEN i.base ELSE i.name

AddressesAreOfOwners ==
    \A j \in Range(Net.ifaces) :
        Range(j.addrs) = UNION {Range(i.addrs) \ {"bad"} : i \in {i \in Range(host.ifaces) : OwnerOf(host, i) = j.name}}

\* Aliases come behind all interfaces that have some, as in a container with venet0 alone;
\* an interface behind an alias moves, and what its own alias leaves at the old place is lost.
AliasesComeLast(h) ==
    \A j, k, m \in DOMAIN h.ifaces : h.ifaces[j].base = h.ifaces[k].name /\ ByName(h, h.ifaces[m].base) # 0 => k < m

\* When the aliases of an OpenVZ guest are folded into their interface, they and no
\* others go; where they come last, every address stays with its interface, or goes to
\* that of its alias.
AddressesReachTheirInterface ==
    Collected("network") /\ ~ host.darwin =>
        /\ {i.name : i \in Range(Net.ifaces)} = {OwnerOf(host, i) : i \in Range(host.ifaces)}
        /\ \A j, k \in DOMAIN Net.ifaces : Net.ifaces[j].name = Net.ifaces[k].name => j = k
        /\ AliasesComeLast(host) => AddressesAreOfOwners

\* What the network collector reports is what the commands it asks say together.
NetworkIsWhole ==
    /\ DefaultIsOneRoute
    /\ RoutesAreComplete
    /\ EthtoolCallsAreIndependent
    /\ AnnotationsStayInTheirBlock
    /\ AddressesReachTheirInterface
=============================================================================
