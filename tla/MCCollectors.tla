----------------------------- MODULE MCCollectors -----------------------------
(* Instances of Collectors: small hosts for every collector, each with one  *)
(* part of it varied at a time.                                             *)
EXTENDS Collectors

NoHosts == {}
----------------------------------------------------------------------------
\* network
Iface(name, base, addrs, arphrd) == [name |-> name, base |-> base, addrs |-> addrs, arphrd |-> arphrd]
lo == Iface("lo", None, <<"127.0.0.1">>, 772)
eth0 == Iface("eth0", None, <<"10.0.0.1", "bad">>, 1)
eth1 == Iface("eth1", None, <<"10.0.0.2", "fe80::2">>, 1)
ppp0 == Iface("ppp0", None, <<>>, 512)
venet0 == Iface("venet0", None, <<"10.0.0.3">>, 0)
alias0 == Iface("venet0:0", "venet0", <<"10.0.0.4">>, 0)
alias1 == Iface("venet0:1", "venet0", <<"10.0.0.5">>, 0)
stray == Iface("venet1:0", "venet1", <<"10.0.0.6">>, 0)

NetHost == [of |-> "network", darwin |-> FALSE, listed |-> TRUE, ifaces |-> <<lo, eth0, eth1, ppp0>>,
            proc |-> {}, routes |-> [f \in {"inet", "inet6"} |-> Answer(<<>>)],
            ethtool |-> [c \in EthtoolCalls |-> Failure], link |-> Failure]

Route(dest, via, dev, src) == [dest |-> dest, via |-> via, dev |-> dev, src |-> src, proto |-> "static", hop |-> FALSE]
Hop(via, dev) == [via |-> via, dev |-> dev, src |-> None, hop |-> TRUE]
Line(frags, cont) == [frags |-> frags, cont |-> cont]

RouteLines == {Line(<<Route("default", "gw1", "eth0", None)>>, FALSE),
               Line(<<Route("default", "gw2", None, "10.0.0.2")>>, FALSE),
               Line(<<Route("default", "gw3", None, None)>>, FALSE),
               Line(<<Route("net", "gw3", "eth9", None)>>, FALSE),
               Line(<<>>, FALSE)}
Broken == {<<Line(<<Route("default", None, None, None)>>, TRUE), Line(<<Hop("gw4", "eth0")>>, TRUE),
             Line(<<Hop("gw5", "eth1")>>, last)>> : last \in BOOLEAN}
RouteTables == SeqOf(RouteLines, 3) \cup {SubSeq(b, 1, k) : b \in Broken, k \in 2..3}
               \cup {<<l>> \o b : l \in RouteLines, b \in Broken}
               \cup {b \o <<l>> : l \in RouteLines, b \in {b \in Broken : ~ b[3].cont}}

RouteHosts == {[NetHost EXCEPT !.routes = ("inet" :> Answer(t)) @@ ("inet6" :> six)] : t \in RouteTables,
                   six \in {Failure, Answer(<<Line(<<Route("default", "gw6", "eth1", None)>>, FALSE)>>)}}

Pair(t, key, val) == [t |-> t, key |-> key, val |-> val]
EthtoolLines == {Pair("max", None, None), Pair("current", None, None), Pair("pair", "rx", "256"),
                 Pair("pair", "rx", "4096"), Pair("pair", "tx", "n/a"), Pair("junk", None, None)}
EthtoolHosts ==
    {[NetHost EXCEPT !.ethtool = [c \in EthtoolCalls |-> IF c \in calls THEN Answer(lines) ELSE Failure]] :
        calls \in {{"-g"}, {"-i", "-l"}, {"-a", "-k", "-c"}, EthtoolCalls}, lines \in SeqOf(EthtoolLines, 3)}

LinkLine(t, v, id) == [t |-> t, v |-> v, id |-> id]
LinkLines == {LinkLine("head", "eth0", None), LinkLine("head", "eth1", None), LinkLine("vlan", "7", None),
              LinkLine("tunnel", None, None), LinkLine("mode", "xdp", None), LinkLine("mode", "xdpgeneric", None),
              LinkLine("prog", "xdp", "11"), LinkLine("prog", "xdpoffload", "12"), LinkLine("other", None, None)}
LinkHosts == {[NetHost EXCEPT !.link = Answer(lines)] : lines \in
                 SeqOf(LinkLines, 2)
                 \cup {<<LinkLine("head", "eth0", None), a, b, LinkLine("head", "eth1", None), c>> : a, b, c \in LinkLines}}

VenetHosts(orders) == {[NetHost EXCEPT !.ifaces = o, !.proc = p] : o \in orders, p \in SUBSET {"vz", "bc0"}}

\* As OpenVZ has them: after all else venet0, and after it its aliases.
UsualOrders == {<<lo, venet0, alias0>>, <<lo, eth0, venet0, alias0, alias1>>, <<lo, stray, venet0, alias1>>}

\* Two interfaces that have aliases, and aliases in front of their interface.
venet1 == Iface("venet1", None, <<"10.0.0.7">>, 0)
OtherOrders == {<<lo, venet0, alias0, venet1, stray>>, <<lo, venet0, venet1, alias0, stray>>,
                <<alias1, venet0, alias0>>, <<lo, eth0, alias0, venet0>>}

MCNetworkHosts == RouteHosts \cup EthtoolHosts \cup LinkHosts \cup VenetHosts(UsualOrders \cup OtherOrders)
                  \cup {[NetHost EXCEPT !.darwin = d, !.listed = l] : d, l \in BOOLEAN}
----------------------------------------------------------------------------
\* the clouds
Document(p, scalars, parts, lists) == [of |-> p, scalars |-> scalars, parts |-> parts, lists |-> lists]

\* A document with all of a function's scalars, and with one of them missing.
Sparse(f) == {f} \cup {Restrict(f, DOMAIN f \ {k}) : k \in DOMAIN f}

AzureScalars == [vmId |-> "vm", vmSize |-> "size", location |-> "west", zone |-> "1", subscriptionId |-> "sub"]
NoFamily == [addrs |-> <<>>, subnets |-> <<>>]
Family(addrs) == [addrs |-> addrs, subnets |-> <<"subnet">>]
Address(x, y) == [private |-> x, public |-> y]
AzureNics == {[mac |-> "m1", v4 |-> Family(<<Address("10.0.0.4", "20.1.1.1"), Address("10.0.0.5", None)>>), v6 |-> NoFamily],
              [mac |-> "m2", v4 |-> NoFamily, v6 |-> Family(<<Address("fd00::4", "2001::4")>>)],
              [mac |-> "m1", v4 |-> Family(<<Address(None, "20.1.1.2")>>), v6 |-> NoFamily]}
AzureHosts ==
    {Document("azure", s, parts, [nics |-> n, disks |-> <<"d0">>, keys |-> <<"k0">>]) :
        s \in Sparse(AzureScalars), n \in SeqOf(AzureNics, 2),
        parts \in {{"compute", "network", "StorageProfile"}, {"compute"}, {"network"}}}

GceScalars == [id |-> "7", projectId |-> "proj", machineType |-> <<"zones", "n1">>, image |-> <<"images", "deb">>,
               zone |-> <<"zones", <<"us", "central1", "a">>>>]
GceHosts == {Document("gce", s, p, [nics |-> <<"nic0">>, disks |-> <<"d0", "d1">>, accounts |-> a]) :
                s \in Sparse(GceScalars), p \in SUBSET {"virtualClock"}, a \in SUBSET {"default", "robot", "x@y"}}

Volume(id) == [id |-> id, path |-> "/dev/x"]
OciHosts == {Document("oci", s, p, [vnics |-> <<"v0">>, volumes |-> v]) :
                s \in Sparse([id |-> "i", displayName |-> "n", shape |-> "s", region |-> "phx", availabilityDomain |-> "ad1",
                             tenantId |-> "tenant"]),
                p \in {{}, {"ShapeConfig"}}, v \in SeqOf({Volume("a"), Volume("b"), Volume(None)}, 2)}

DropletHosts == {Document("digital_ocean", s, p, [public |-> x, private |-> y]) :
                    s \in Sparse([droplet_id |-> "9", region |-> "nyc", floating_ip |-> "1.2.3.4"]),
                    p \in SUBSET {"floating_ip"}, x, y \in SeqOf({"if0", "if1"}, 2)}

ScalewayHosts == {Document("scaleway", s, p, [keys |-> k, volumes |-> v]) :
                    s \in Sparse([id |-> "s", organization |-> "org", project |-> "prj", zone_id |-> "par1", public_ip |-> "5.6.7.8"]),
                    p \in SUBSET {"public_ip", "location"}, k \in SeqOf({"key", "blank"}, 2),
                    v \in SUBSET {"vol0", "vol1"}}

Dir(names) == [t |-> "dir", v |-> names]
Text(v) == [t |-> "string", v |-> v]
Number(v) == [t |-> "number", v |-> v]
AlibabaTree(account) ==
    (<<>> :> Dir(<<"meta_data", "user_data">>)) @@ (<<"user_data">> :> Text("secret"))
    @@ (<<"meta_data">> :> Dir(<<"instance_id", "zone_id", "owner_account_id", "instance", "tags", "network">>))
    @@ (<<"meta_data", "instance_id">> :> Text("i-1")) @@ (<<"meta_data", "zone_id">> :> Text("cn-b"))
    @@ (<<"meta_data", "owner_account_id">> :> account)
    @@ (<<"meta_data", "instance">> :> Dir(<<"instance_type", "max_netbw_ingress">>))
    @@ (<<"meta_data", "instance", "instance_type">> :> Text("ecs"))
    @@ (<<"meta_data", "instance", "max_netbw_ingress">> :> Number("1024"))
    @@ (<<"meta_data", "tags">> :> Dir(<<"instance">>))
    @@ (<<"meta_data", "tags", "instance">> :> Dir(<<"app-name", "app_name", "n">>))
    @@ (<<"meta_data", "tags", "instance", "app-name">> :> Text("x"))
    @@ (<<"meta_data", "tags", "instance", "app_name">> :> Text("y"))
    @@ (<<"meta_data", "tags", "instance", "n">> :> Number("3"))
    @@ (<<"meta_data", "network">> :> Dir(<<"interfaces">>))
    @@ (<<"meta_data", "network", "interfaces">> :> Dir(<<"macs">>))
    @@ (<<"meta_data", "network", "interfaces", "macs">> :> Dir(<<"00:16">>))
    @@ (<<"meta_data", "network", "interfaces", "macs", "00:16">> :> Dir(<<"primary_ip_address">>))
    @@ (<<"meta_data", "network", "interfaces", "macs", "00:16", "primary_ip_address">> :> Text("10.1.1.1"))
AlibabaHosts(account) == {[of |-> "alibaba", tree |-> AlibabaTree(account), down |-> d] :
                            d \in {d \in SUBSET DOMAIN AlibabaTree(account) : Cardinality(d) <= 2}}

StackTree == (<<>> :> Dir(<<"instance_id", "instance_type", "placement">>)) @@ (<<"instance_id">> :> Text("i-2"))
    @@ (<<"instance_type">> :> Text("m1")) @@ (<<"placement">> :> Dir(<<"availability_zone">>))
    @@ (<<"placement", "availability_zone">> :> Text("nova"))
StackHosts == {[of |-> "openstack", tree |-> StackTree, down |-> d, dreamhost |-> FALSE, nova |-> n] :
                 d \in SUBSET DOMAIN StackTree,
                 n \in {Failure, Answer([uuid |-> "u", project_id |-> "p", hostname |-> "h", availability_zone |-> "az2"]),
                       Answer([uuid |-> None, project_id |-> "p", hostname |-> "h", availability_zone |-> "az2"])}}

LinodeAddrs == {[family |-> 4, local |-> FALSE, ip |-> "45.0.0.1"], [family |-> 4, local |-> TRUE, ip |-> "169.254.0.1"],
                [family |-> 6, local |-> FALSE, ip |-> "2600::1"]}
LinodeHosts == {[of |-> "linode", signs |-> s, eth0 |-> a, alias |-> <<>>] :
                  s \in SUBSET {"apt", "fqdn"}, a \in SeqOf(LinodeAddrs, 2)}

MCCloudHosts == AzureHosts \cup GceHosts \cup OciHosts \cup DropletHosts \cup ScalewayHosts
                \cup AlibabaHosts(Text("owner")) \cup StackHosts \cup LinodeHosts
----------------------------------------------------------------------------
\* the views of Facts
LeafAt(path, value) == [path |-> path, value |-> value]
Leaves == {LeafAt(<<<<"cpu">>, <<"cores">>>>, "4"),
           LeafAt(<<<<"sysctl">>, <<"net">>, <<"ip">>>>, "1"), LeafAt(<<<<"sysctl">>, <<"net", "ip">>>>, "0"),
           LeafAt(<<<<"mounts">>, <<"a", "b">>, <<"size">>>>, "9"), LeafAt(<<<<"cores">>>>, "2")}
Addr4(a) == [addr |-> a, family |-> "inet"]
Addr6(a) == [addr |-> a, family |-> "inet6"]
Nics == {[name |-> "eth0", addrs |-> <<Addr6("fe80::1"), Addr4("10.0.0.1")>>],
         [name |-> "eth0", addrs |-> <<>>], [name |-> "eth1", addrs |-> <<Addr4("10.0.0.2")>>]}
Facts0 == [of |-> "facts", results |-> {"network", "platform", "kernel"}, leaves |-> {}, ifaces |-> <<>>,
           default |-> None, os |-> "linux"]
MCFactsHosts ==
    {[Facts0 EXCEPT !.leaves = l] : l \in SUBSET Leaves}
    \cup {[Facts0 EXCEPT !.ifaces = i, !.default = d] : i \in SeqOf(Nics, 2), d \in {None, "eth0", "eth9"}}
    \cup {[Facts0 EXCEPT !.results = r, !.os = o] : o \in {"linux", "darwin", "plan9"},
            r \in SUBSET {"platform", "kernel", "os_release", "memory", "hostname", "unknown"}}
----------------------------------------------------------------------------
\* cpu
Stat(id, cores) == [physicalID |-> id, cores |-> cores, speed |-> 2000]
Lscpu(key, val) == [key |-> key, val |-> val]
CpuHost == [of |-> "cpu", darwin |-> FALSE, stats |-> Answer(<<Stat("0", 2), Stat("1", 2)>>), logical |-> Answer(8),
            vulnerabilities |-> {}, readable |-> {}, lscpu |-> Failure, sysctl |-> Empty]

\* Every choice of layout lines: left out, zero, or a number of their own.
Numbers3 == [sockets |-> 3, coresPerSocket |-> 5, threadsPerCore |-> 2, socketsPerBook |-> 3, booksPerDrawer |-> 7, drawers |-> 2]
LayoutLines(given, zero) ==
    SetToSeq({Lscpu(k, Numbers3[k]) : k \in given \ zero} \cup {Lscpu(k, 0) : k \in given \cap zero})
LayoutHosts == {[CpuHost EXCEPT !.lscpu = Answer(LayoutLines(g, z) \o <<Lscpu("architecture", a), Lscpu("cache", "32K")>>)] :
                  g \in SUBSET Layout, z \in {{}, {"socketsPerBook", "sockets"}}, a \in {"s390x", "ppc64le", "x86_64"}}
Part(a, z) == [lo |-> a, hi |-> z]
RangeHosts == {[CpuHost EXCEPT !.lscpu = Answer(<<Lscpu(a, v), Lscpu(b, w)>>)] :
                 a, b \in {"numa0", "numa1", "online"}, v, w \in SeqOf({Part(0, 3), Part(5, 5), Part(3, 2)}, 2) \ {<<>>}}
MCCpuHosts ==
    LayoutHosts \cup RangeHosts
    \cup {[CpuHost EXCEPT !.stats = s, !.darwin = d, !.logical = l] : d \in BOOLEAN, l \in {Answer(8), Failure},
            s \in {Failure, Answer(<<>>), Answer(<<Stat("0", 2), Stat("0", 2)>>)}}
    \cup {[CpuHost EXCEPT !.darwin = TRUE, !.sysctl = s] :
            s \in {"hw.physicalcpu" :> 6, "hw.packages" :> 1, "hw.cpufrequency" :> 2400, "hw.cpufrequency_max" :> 3000, Empty}}
    \cup {[CpuHost EXCEPT !.vulnerabilities = {"meltdown", "spectre"}, !.readable = r] : r \in SUBSET {"meltdown", "spectre"}}
----------------------------------------------------------------------------
\* storage
Mnt(d, p, t) == [device |-> d, mountpoint |-> p, type |-> t]
Node(d, f, id, p) == [device |-> d, fstype |-> f, id |-> id, mountpoint |-> p]
FsHost == [of |-> "filesystem", darwin |-> FALSE, mounts |-> Answer(<<Mnt("sda1", "/", "btrfs"), Mnt("proc", "/proc", "proc")>>),
           stale |-> {}, lsblk |-> Failure, zfs |-> Failure, btrfs |-> Empty]
Nodes == {Node("sda1", "btrfs", "u1", "/"), Node("sda1", "btrfs", "u1", None), Node("sdb1", "btrfs", "u2", None),
          Node("sda", None, None, None), Node("sdc", "crypto", "u3", None), Node("md0", "ext4", "u4", "/md")}
Group(p) == [bytes |-> 64, profiles |-> p]
BtrfsTrees == {Empty, "u1" :> Empty, "u1" :> [data |-> Group({"raid1"})],
               "u1" :> [data |-> Group({"single", "raid0"}), metadata |-> Group({"dup"}), system |-> Group({})],
               ("u1" :> [data |-> Group({"odd"})]) @@ ("u2" :> [system |-> Group({"raid0"})])}
Zfs(n, name, p, v) == [fields |-> n, name |-> name, property |-> p, value |-> v]
ZfsLines == {Zfs(4, <<"tank">>, "type", "filesystem"), Zfs(4, <<"tank">>, "mountpoint", "/path"),
             Zfs(4, <<"tank">>, "mountpoint", "none"), Zfs(4, <<"tank", "home">>, "used", "1"),
             Zfs(3, <<"tank", "home">>, "used", "2"), Zfs(4, <<>>, "used", "3")}
FsHosts ==
    {[FsHost EXCEPT !.lsblk = Answer(n), !.btrfs = b] : n \in SeqOf(Nodes, 2), b \in BtrfsTrees}
    \cup {[FsHost EXCEPT !.zfs = Answer(z)] : z \in SeqOf(ZfsLines, 3)}
    \cup {[FsHost EXCEPT !.mounts = m, !.darwin = d, !.stale = s] : m \in {Failure, FsHost.mounts}, d \in BOOLEAN, s \in SUBSET {"/"}}

Token(n, f) == [name |-> n, flag |-> f]
MdLines == {[device |-> None, tokens |-> <<>>], [device |-> "md0", tokens |-> <<Token(None, None), Token("sda1", None), Token("sdb1", "S")>>],
            [device |-> "md127", tokens |-> <<Token(None, None), Token("sdc1", "F"), Token("sdd1", "J")>>],
            [device |-> "md1", tokens |-> <<Token("sde1", "S")>>],
            [device |-> "md0", tokens |-> <<Token("sdf1", None)>>]}
Detail(ws) == Answer(<<[key |-> "Raid Level", words |-> <<"raid1">>], [key |-> "State", words |-> ws],
                       [key |-> "Spare Devices", words |-> <<"1">>], [key |-> "Version", words |-> <<"1.2">>]>>)
MdHosts == {[of |-> "mdadm", missing |-> m, mdstat |-> t, detail |-> [d \in Range(MdOrder) |-> IF d \in fails THEN Failure ELSE Detail(<<"clean">>)]] :
              m \in BOOLEAN, t \in {Failure} \cup {Answer(x) : x \in SeqOf(MdLines, 3)}, fails \in SUBSET Range(MdOrder)}
MCMdOrder == <<"md0", "md1", "md127">>

ZpoolHosts == {[of |-> "zpools", list |-> l] : l \in {Failure} \cup {Answer(x) : x \in
                 SeqOf({[fields |-> 6, name |-> "tank", health |-> "ONLINE"], [fields |-> 6, name |-> "old", health |-> "-"],
                        [fields |-> 1, name |-> "torn", health |-> None]}, 3)}}

Amount(k, v, kB) == [key |-> k, val |-> v, kB |-> kB]
Amounts == {Amount("Shmem", 3, TRUE), Amount("Hugetlb", 2, TRUE), Amount("DirectMap4k", 5, TRUE), Amount("HugePages_Total", 2, FALSE)}
Pages == {Amount("page size", 16384, FALSE), Amount("page size", 4096, FALSE), Amount("page size", 0, FALSE)}
MemHost == [of |-> "memory", darwin |-> FALSE, vm |-> Answer([total |-> 8, huge |-> 0]), swap |-> Answer(0),
            meminfo |-> Failure, vmStat |-> Failure]
MemHosts ==
    {[MemHost EXCEPT !.vm = v, !.swap = s, !.meminfo = m] : v \in {Failure, Answer([total |-> 8, huge |-> 0]), Answer([total |-> 8, huge |-> 2])},
        s \in {Failure, Answer(0), Answer(4)}, m \in {Failure} \cup {Answer(x) : x \in SetToAllKPermutations(Amounts)}}
    \cup {[MemHost EXCEPT !.meminfo = Answer(x)] : x \in SeqOf({Amount("Shmem", 3, TRUE), Amount("Shmem", 7, FALSE)}, 3)}
    \cup {[MemHost EXCEPT !.darwin = TRUE, !.vmStat = Answer(x)] :
             x \in SeqOf(Pages \cup {Amount("speculative", 7, FALSE), Amount("compressed", 6, FALSE), Amount("compressed", 5, FALSE)}, 4)}
MCStorageHosts == FsHosts \cup MdHosts \cup ZpoolHosts \cup MemHosts
----------------------------------------------------------------------------
\* identity
Try(l, r) == [lookup |-> l, reverse |-> r, name |-> <<"h", l, r>>]
Tries == {Try("ok", "ok"), Try("ok", "transient"), Try("ok", "empty"), Try("transient", "ok"), Try("notfound", "ok"), Try("empty", "ok")}
Unqualified == [lookup |-> "ok", reverse |-> "ok", name |-> <<"localhost">>]
NameHost == [of |-> "hostname", short |-> Answer(<<"h">>), machine |-> Answer(<<"h", "lan">>), hostInfo |-> Answer(<<"g">>),
             osHostname |-> Answer(<<"o">>), tries |-> <<Unqualified, Unqualified, Unqualified>>]
NameHosts ==
    {[NameHost EXCEPT !.tries = <<a, b, c>>] : a, b, c \in Tries \cup {[Try("ok", "ok") EXCEPT !.name = <<>>]}}
    \cup {[NameHost EXCEPT !.short = s, !.machine = m, !.hostInfo = g, !.osHostname = o] :
            s, m \in {Failure, Answer(<<>>), Answer(<<"h">>)}, g, o \in {Failure, Answer(<<"g">>), Answer(<<>>)}}

ShardHost == [of |-> "shard", darwin |-> FALSE, name |-> "h", uuid |-> "uuid", profiler |-> TRUE, root |-> TRUE, prior |-> {"hostname", "dmi"},
              serial |-> [Product |-> "s1", Baseboard |-> None, Chassis |-> "s3"], readable |-> Sections]
ShardHosts == {[ShardHost EXCEPT !.darwin = d, !.profiler = pr, !.prior = p, !.readable = r] : d, pr \in BOOLEAN,
                 p \in SUBSET {"hostname", "dmi"}, r \in SUBSET Sections}

Said(p, v, f) == [platform |-> p, version |-> v, family |-> f, kernel |-> "k"]
File1(n, v) == [name |-> n, version |-> v]
AllFiles == ("redhat-release" :> File1("fedora", <<9, 3>>)) @@ ("SuSE-release" :> File1(None, <<12, 5>>))
            @@ ("system-release" :> File1("ol", <<2>>)) @@ ("debian_version" :> File1(None, <<12>>))
            @@ ("arch-release" :> File1(None, <<>>)) @@ ("gentoo-release" :> File1("gentoo", <<2, 13>>))
PlatformHosts ==
    {[of |-> "platform", detected |-> d, info |-> i, files |-> Restrict(all, f), swVers |-> Failure] :
        all \in {AllFiles, [AllFiles EXCEPT !["redhat-release"].name = None], [AllFiles EXCEPT !["SuSE-release"].version = <<>>]},
        d \in {Failure, Answer([platform |-> "ol", os |-> "linux"])},
        i \in {Answer(Said(None, <<>>, None)), Answer(Said("rhel", <<9>>, "rhel")), Answer(Said("debian", <<>>, None)), Answer(Said("void", <<1, 2>>, None)), Answer(Said(None, <<7>>, None))},
        f \in SUBSET DOMAIN AllFiles}
    \cup {[of |-> "platform", detected |-> Answer([platform |-> p, os |-> "darwin"]), info |-> i, files |-> Empty, swVers |-> v] :
             p \in {None, "darwin"}, i \in {Failure, Answer(Said("darwin", <<14, 4>>, "Standalone"))},
             v \in {Failure, Answer(None), Answer("23E224")}}

Assign(k, v) == [key |-> k, val |-> v]
Assigns == {Assign("ID", "x"), Assign("ID", "y"), Assign("NAME", "n"), Assign("#", "c"), Assign("CUSTOM", "1"), Assign("CUSTOM", "2")}
ReleaseHosts == {[of |-> "os_release", missing |-> m, file |-> f] : m \in BOOLEAN, f \in {Failure} \cup {Answer(x) : x \in SeqOf(Assigns, 2)}}

Account(n, u, num, f) == [name |-> n, uid |-> u, number |-> num, fields |-> f]
Accounts == {Account("root", 0, TRUE, 7), Account("root", 5, TRUE, 7), Account("toor", 0, TRUE, 7), Account("odd", 7, FALSE, 7),
             Account("app", 5, TRUE, 8), Account("torn", 5, TRUE, 3)}
Groups1 == {[name |-> "wheel", members |-> <<"root">>, fields |-> 4], [name |-> "wheel", members |-> <<>>, fields |-> 4],
            [name |-> "torn", members |-> <<>>, fields |-> 2]}
UserHosts == {[of |-> "users", euid |-> u, passwd |-> p, group |-> g] : u \in {0, 5}, g \in {Failure} \cup {Answer(x) : x \in SeqOf(Groups1, 2)},
                p \in {Failure} \cup {Answer(x) : x \in SeqOf(Accounts, 2)}}
MCIdentityHosts == NameHosts \cup ShardHosts \cup PlatformHosts \cup ReleaseHosts \cup UserHosts
----------------------------------------------------------------------------
\* virtualization
NoProbe == [p \in VirtProbes |-> Failure]
VirtHost == [of |-> "virtualization", darwin |-> FALSE, command |-> TRUE, path |-> {}, files |-> {}, systemd |-> [m \in {"--vm", "--container"} |-> Failure],
             modules |-> {}, cpuinfo |-> Failure, prior |-> Nil, vendor |-> None, product |-> None, kvp |-> Failure, context |-> None,
             cgroup |-> Failure, environ |-> {}, probe |-> NoProbe]
Cgroups == {[depth |-> 0, runtime |-> None], [depth |-> 1, runtime |-> "containerd"], [depth |-> 1, runtime |-> "lxc"],
            [depth |-> 2, runtime |-> "docker"], [depth |-> 2, runtime |-> "containerd"], [depth |-> 3, runtime |-> "docker"]}
VirtFiles == {"xen", "xen control_d", "kvm", ".dockerenv", "lxd sock", "devlxd"}
LinuxVirtHosts ==
    {[VirtHost EXCEPT !.path = p, !.command = c, !.files = f, !.cgroup = Answer(g)] : p \in SUBSET {"docker", "lxc-start"}, c \in BOOLEAN,
        f \in {f \in SUBSET VirtFiles : Cardinality(f) <= 2}, g \in SeqOf(Cgroups, 1)}
    \cup {[VirtHost EXCEPT !.cgroup = Answer(g), !.environ = e] : g \in SeqOf(Cgroups, 2), e \in SUBSET {"lxc", "systemd-nspawn", "podman"}}
    \cup {[VirtHost EXCEPT !.vendor = v, !.product = p, !.systemd = s, !.prior = c, !.kvp = k] :
            v \in {None, "xen", "microsoft", "acme"}, p \in {None, "virtual machine", "kvm"},
            s \in {VirtHost.systemd, [m \in {"--vm", "--container"} |-> Answer(IF m = "--vm" THEN "oracle" ELSE "none")]},
            c \in {Nil, {[HypervisorVendor |-> "KVM", VirtualizationType |-> "full"]}, {[HypervisorVendor |-> "KVM", VirtualizationType |-> None]}},
            k \in {Failure, Answer("hv1")}}
    \cup {[VirtHost EXCEPT !.modules = m, !.cpuinfo = i, !.files = f, !.context = x, !.path = p] : m \in SUBSET {"vboxdrv", "vboxguest"},
            i \in {Failure, Answer({}), Answer({"hypervisor"}), Answer({"QEMU Virtual CPU"})}, f \in SUBSET {"kvm", "bc0", "vz"},
            x \in {None, "0", "other"}, p \in {{}, {"podman", "nova"}}}
DarwinVirtHosts ==
    {[VirtHost EXCEPT !.darwin = TRUE, !.path = p, !.probe = [sysctl |-> s, ioreg |-> i, system_profiler |-> r]] :
        p \in {{}, {"docker", "VBoxManage", "prlctl"}}, s \in {Failure, Answer("1" :> TRUE), Answer(Empty)},
        i \in {Failure, Answer("pci" :> TRUE)}, r \in {Failure, Answer("VMW" :> TRUE), Answer(("VirtualBox" :> TRUE) @@ ("VirtualMac" :> TRUE))}}
MCVirtHosts == LinuxVirtHosts \cup DarwinVirtHosts
----------------------------------------------------------------------------
\* hardware
JSON(t, n) == [t |-> t, n |-> n]
Values(k) == {Empty, k :> JSON("number", 50), k :> JSON("string", 40), k :> JSON("word", 7)}
Battery(leaf, charge) == [name |-> "battery", leaf |-> leaf, nested |-> charge]
Charger == [name |-> "charger", leaf |-> Empty, nested |-> Empty]
Powers == {<<Charger>>, <<>>}
          \cup {<<Battery(cur @@ max, Empty)>> : cur \in Values("current"), max \in Values("max")}
          \cup {<<Battery(cur, "charge" :> (cur2 @@ max)), Charger>> : cur, cur2 \in Values("current"), max \in Values("max")}
Disk(n, vs) == [name |-> n, volumes |-> vs]
Mac(p) == [machine |-> "mac", processors |-> p, packages |-> JSON("number", 1)]
MCHardwareHosts ==
    {[of |-> "hardware", darwin |-> d, probe |-> [hardware |-> h, storage |-> s, power |-> p]] : d \in {TRUE},
        h \in {Failure, Answer(<<Mac(JSON("string", 8))>>)}, s \in {Failure, Answer(<<Disk("d", <<"SSD">>), Disk("e", <<>>)>>)},
        p \in {Failure} \cup {Answer(x) : x \in Powers}}
    \cup {[of |-> "hardware", darwin |-> FALSE, probe |-> [r \in Reports |-> Failure]]}
----------------------------------------------------------------------------
\* listings
Ln(t, k, v) == [t |-> t, key |-> k, val |-> v]
Long == Ln("long", None, None)
Torn == Ln("torn", None, None)
Short == {Ln("good", "a", "1"), Ln("good", "a", "2"), Ln("good", "b", "3"), Torn, Long}
Says(lines) == {Failure} \cup {Answer(x) : x \in SeqOf(lines, 2)}
ListingOf(c, answers) == {[of |-> c, says |-> f] : f \in [Range(SourcesOf[c]) -> answers]}

Heads == {Ln("marker", None, None), Ln("head", "m", "1"), Ln("head", "n", "2"), Ln("head", None, None), Ln("cont", None, "3"), Long}
Showrc == {Failure, Answer(<<>>)}
          \cup {Answer(<<Ln("marker", None, None)>> \o x \o <<Ln("marker", None, None), Ln("head", "z", "9")>>) : x \in SeqOf(Heads, 4)}
QDiscs == {Failure} \cup {Answer(x) : x \in SeqOf(Short, 4)}
Few == {Failure, Answer(<<>>), Answer(<<Ln("good", "a", "1")>>), Answer(<<Torn>>), Answer(<<Long, Ln("good", "a", "1")>>)}
VirshHosts ==
    {[of |-> "libvirt", says |-> ("version" :> v) @@ ("uri" :> u) @@ ("list" :> l) @@ ("dominfo" :> d)] :
        v \in Says({Ln("good", "daemon", "9"), Ln("good", "library", "8"), Torn}), u \in {Failure, Answer(<<>>)}, l, d \in Few}
SELinuxHosts ==
    {[of |-> "selinux", says |-> ("config" :> c) @@ ("sestatus" :> s)] :
        c \in Says({Ln("good", "SELINUX", m) : m \in {"enforcing", "disabled", None}} \cup {Torn}),
        s \in Says({Ln("good", "selinux status", m) : m \in {"enabled", "disabled", None}} \cup {Ln("good", "current mode", "permissive")})}
IRQs == {Failure, Missing, Answer(<<>>)}
        \cup {Answer(<<Ln("good", None, <<{}, {}>>)>> \o x) : x \in
                 SeqOf({Ln("good", "9", <<{4}, {5}, {6}>>), Ln("good", "ERR", <<{0}>>), Ln("good", "bad", <<{7}, {}>>), Torn, Long}, 2)}
Parameters == {Ln("good", <<"net", "ip">>, "1"), Ln("colon", <<"cdrom">>, <<"Id", "c">>), Ln("torn", <<>>, None)}
SysctlHosts == ListingOf("sysctl", Says(Parameters))
MCListingHosts ==
    ListingOf("rpm", Showrc) \cup ListingOf("tc", QDiscs) \cup ListingOf("docker", Few) \cup ListingOf("ssh", Few)
    \cup ListingOf("interrupts", IRQs) \cup VirshHosts \cup SELinuxHosts
    \cup SysctlHosts \cup ListingOf("shells", Says(Short) \cup {Missing})
    \cup UNION {ListingOf(c, Says(Short)) : c \in {"sessions", "services", "packages", "command", "kernel_modules", "livepatch", "grub2",
                                                   "hostnamectl", "lsb", "scsi", "systemd_paths", "virtualbox", "kextstat", "pci", "gpu"}}
----------------------------------------------------------------------------
\* sources
Silent == [ok |-> FALSE, out |-> None]
SourceHost(c, answers) == {[of |-> c, platform |-> p, says |-> f] :
                             p \in {"linux", "debian", "rhel", "darwin"}, f \in [Range(Asked[c]) -> answers]}
Some(x) == {Silent, Answer(x)}
Zones == {Failure, Answer(<<"/usr/share/zoneinfo", "UTC">>), Answer(<<"../usr/share/zoneinfo", "UTC">>), Answer(<<"UTC">>),
          Answer(<<"/var/db/timezone/zoneinfo", "UTC">>)}
ZoneHosts == {h \in SourceHost("timezone", Zones \cup {Answer(Empty)}) : h.says["localtime"] # Answer(Empty)}
SysBlock == {<<>>} \cup {<<[name |-> "sda", dir |-> d, size |-> "8"], [name |-> "vdb", dir |-> e, size |-> None]>> : d, e \in BOOLEAN}
BlockHosts == SourceHost("block_device", {Failure} \cup {Answer(b) : b \in SysBlock})
MCSourceHosts ==
    UNION {SourceHost(c, Some("x") \cup {Answer(None)}) : c \in {"machine_id", "init", "uptime", "root_group", "sysconf", "languages", "ipc", "process", "load", "disk", "dmi"}}
    \cup ZoneHosts \cup SourceHost("package_mgr", Some("/bin")) \cup BlockHosts
    \cup SourceHost("fips", Some("1") \cup {Answer("0"), NoFile})
    \cup SourceHost("kernel", Some("x86_64") \cup {Answer("1"), Answer("arm64")})
    \cup SourceHost("vmware", Some("VMware") \cup {Answer(None)})
=============================================================================
