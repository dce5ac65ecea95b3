--------------------------------- MODULE Cpu ---------------------------------
(***************************************************************************)
(* The cpu collector (pkg/gohai/collectors/cpu): what gopsutil says of the *)
(* processors, the vulnerabilities that the kernel lists, and what lscpu   *)
(* adds, which on two architectures is the layout of sockets and cores.    *)
(***************************************************************************)
EXTENDS Collection

CONSTANT CpuHosts  \* the hosts, see CpuHostOK

\* The lines of lscpu with a number that gives the layout, and lists of CPUs; one
\* cache stands for seven and one text for the lines that are only copied.
Layout == {"sockets", "coresPerSocket", "threadsPerCore", "socketsPerBook", "booksPerDrawer", "drawers"}
CpuLists == {"numa0", "numa1", "online", "offline"}
Texts == {"architecture", "cache", "text"}

\* A host: what gopsutil answers for every processor and for their number, the
\* vulnerability files and which of them can be read, the lines of lscpu, and on
\* macOS what sysctl answers.
CpuHostOK(h) ==
    /\ h.of = "cpu" /\ h.darwin \in BOOLEAN
    /\ h.stats.ok => \A s \in Range(h.stats.out) : DOMAIN s = {"physicalID", "cores", "speed"}
    /\ h.readable \subseteq h.vulnerabilities
    /\ h.lscpu.ok => h.lscpu.out \in Seq(Range(h.lscpu.out))
    /\ h.lscpu.ok => \A l \in Range(h.lscpu.out) :
          /\ l.key \in Layout \cup CpuLists \cup Texts /\ (l.key \in Layout => l.val \in Nat)
          /\ l.key \in CpuLists => l.val \in Seq([lo : Nat, hi : Nat])
    /\ DOMAIN h.sysctl \subseteq {"hw.physicalcpu", "hw.packages", "hw.cpufrequency_max", "hw.cpufrequency"}

ASSUME CpuHostsAssumption == \A h \in CpuHosts : CpuHostOK(h)

----------------------------------------------------------------------------
\* readCPU: the first processor speaks for all, every package is counted once.
ReadCPU(h) ==
    LET stats == h.stats.out
    IN [Count |-> IF h.logical.ok THEN h.logical.out ELSE 0,
        Sockets |-> Cardinality({s.physicalID : s \in Range(stats)}),
        Cores |-> FoldLeft(LAMBDA n, s : n + s.cores, 0, stats),
        Speed |-> IF stats = <<>> THEN 0 ELSE stats[1].speed,
        CPUs |-> stats, Vulnerabilities |-> {}, Cache |-> None, Text |-> None,
        NumaNodes |-> Empty, Online |-> 0, Offline |-> 0]

\* readVulnerabilities: a file that cannot be read is left out.
ReadVulnerabilities(h) == h.readable

----------------------------------------------------------------------------
\* parseLscpu: the last line of a key counts.
Value(lines, key, default) ==
    LET at == {k \in DOMAIN lines : lines[k].key = key}
    IN IF at = {} THEN default ELSE lines[Max(at)].val

\* A mutant: the upper end of a range is not in it.
RangeHalfOpen(v) ==
    IF \E k \in DOMAIN v : v[k].lo > v[k].hi THEN <<>>
    ELSE SetToSortSeq(UNION {v[k].lo..Max({v[k].lo, v[k].hi - 1}) : k \in DOMAIN v}, <)

\* parseCPURange: parts lo to hi; nothing at all if one of them is no range.  They
\* are sorted: the CPU at place r is the least one up to which r are named, and a CPU
\* named twice is there twice.
ParseCPURange(v) ==
    IF \E k \in DOMAIN v : v[k].lo > v[k].hi THEN <<>>
    ELSE LET named == UNION {{k} \X (v[k].lo..v[k].hi) : k \in DOMAIN v}
             Upto(c) == Cardinality({p \in named : p[2] <= c})
         IN [r \in 1..Cardinality(named) |-> Min({c \in {p[2] : p \in named} : Upto(c) >= r})]

\* A line of a node that has no CPU to show has no value and is skipped.
NumaNodes(lines) ==
    LET nodes == {n \in {"numa0", "numa1"} : \E k \in DOMAIN lines : lines[k].key = n}
    IN [n \in nodes |-> ParseCPURange(Value(lines, n, <<>>))]

NonZero(n) == IF n > 0 THEN n ELSE 1

\* A mutant: the books are left out of one of the two products.
LayoutWithoutBooks(info, number, arch) ==
    [info EXCEPT !.Count = NonZero(number["socketsPerBook"]) * NonZero(number["coresPerSocket"])
                           * NonZero(number["threadsPerCore"]) * NonZero(number["drawers"]),
                 !.Cores = NonZero(number["socketsPerBook"]) * NonZero(number["coresPerSocket"])
                           * NonZero(number["booksPerDrawer"]) * NonZero(number["drawers"])]

\* The layout of two architectures: the products of what lscpu gives of it, which
\* replace what gopsutil said.
ApplyLayout(info, number, arch) ==
    LET cores == CASE arch = "s390x"   -> NonZero(number["socketsPerBook"]) * NonZero(number["coresPerSocket"])
                                          * NonZero(number["booksPerDrawer"]) * NonZero(number["drawers"])
                   [] arch = "ppc64le" -> NonZero(number["sockets"]) * NonZero(number["coresPerSocket"])
                   [] OTHER            -> info.Cores
        sockets == number[IF arch = "s390x" THEN "socketsPerBook" ELSE "sockets"]
    IN IF arch \notin {"s390x", "ppc64le"} THEN info
       ELSE [info EXCEPT !.Count = cores * NonZero(number["threadsPerCore"]), !.Cores = cores,
                         !.Sockets = IF sockets > 0 THEN sockets ELSE @]

\* applyLscpuToInfo.
ApplyLscpu(info, lines) ==
    LET number == [k \in Layout |-> Value(lines, k, 0)]
        with == [info EXCEPT !.Cache = Value(lines, "cache", None), !.Text = Value(lines, "text", None),
                             !.NumaNodes = NumaNodes(lines),
                             !.Online = Len(ParseCPURange(Value(lines, "online", <<>>))),
                             !.Offline = Len(ParseCPURange(Value(lines, "offline", <<>>)))]
    IN ApplyLayout(with, number, Value(lines, "architecture", None))

----------------------------------------------------------------------------
\* Collect of the Linux variant.
LinuxCPU(h) ==
    LET info == [ReadCPU(h) EXCEPT !.Vulnerabilities = ReadVulnerabilities(h)]
    IN IF h.lscpu.ok THEN ApplyLscpu(info, h.lscpu.out) ELSE info

\* Collect of the macOS variant: what sysctl answers replaces what it stands for,
\* the greatest frequency before the nominal one.
DarwinCPU(h) ==
    LET info == ReadCPU(h)
        Sysctl(k, default) == IF k \in DOMAIN h.sysctl THEN h.sysctl[k] ELSE default
    IN [info EXCEPT !.Cores = Sysctl("hw.physicalcpu", @), !.Sockets = Sysctl("hw.packages", @),
                    !.Speed = Sysctl("hw.cpufrequency_max", Sysctl("hw.cpufrequency", @))]

CollectCPU ==
    /\ host.of = "cpu"
    /\ \/ ~ host.stats.ok /\ Errs("cpu")
       \/ host.stats.ok /\ Returns("cpu", IF host.darwin THEN DarwinCPU(host) ELSE LinuxCPU(host))

----------------------------------------------------------------------------
\* On the architectures whose layout is computed, the processors are a multiple
\* of the cores and the cores of the sockets, whichever lines lscpu leaves out;
\* elsewhere lscpu changes none of the three.
LayoutNests ==
    Collected("cpu") /\ ~ host.darwin /\ host.lscpu.ok =>
        LET info == facts.info
            arch == Value(host.lscpu.out, "architecture", None)
            given == {key \in Layout : Value(host.lscpu.out, key, 0) # 0}
        IN IF arch \in {"s390x", "ppc64le"}
           THEN /\ info.Count % info.Cores = 0
                /\ ({"sockets", "socketsPerBook"} \subseteq given => info.Cores % info.Sockets = 0)
           ELSE /\ info.Count = (IF host.logical.ok THEN host.logical.out ELSE 0)
                /\ info.Cores = FoldLeft(LAMBDA n, s : n + s.cores, 0, host.stats.out)

\* A CPU is in the lists that name it and in no other: what a node and the online
\* list say of the same CPU is the same, and a list with a torn range is dropped
\* as a whole, not in part.
CpuListsAreWhole ==
    Collected("cpu") /\ ~ host.darwin /\ host.lscpu.ok =>
        \A n \in DOMAIN facts.info.NumaNodes :
            LET said == Value(host.lscpu.out, n, <<>>)
                cpus == facts.info.NumaNodes[n]
            IN \/ cpus = <<>> /\ \E k \in DOMAIN said : said[k].lo > said[k].hi
               \/ /\ Range(cpus) = UNION {said[k].lo..said[k].hi : k \in DOMAIN said}
                  /\ \A k \in 1..(Len(cpus) - 1) : cpus[k] <= cpus[k + 1]
=============================================================================
