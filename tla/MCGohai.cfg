\* Five of the builtin collectors as they are in the source, and a build that
\* is wired wrongly; every list of at most three options, misspelt names and
\* categories among them.
CONSTANTS
    cpu = cpu
    virtualization = virtualization
    hostname = hostname
    dmi = dmi
    shard = shard
    typo = typo
    Cpu = Cpu
    Virtualization = Virtualization
    Hostname = Hostname
    Dmi = Dmi
    Shard = Shard
    Hostname2 = Hostname2
    KnottedCpu = KnottedCpu
    hardware = hardware
    system = system
    virtual = virtual
    misspelt = misspelt
    NoCollector = NoCollector
    Callers = {k1}
    Names = {cpu, virtualization, hostname, dmi, shard, typo}
    Collectors = {Cpu, Virtualization, Hostname, Dmi, Shard, Hostname2, KnottedCpu}
    NameOf <- MCNameOf
    DepsOf <- MCDepsOf
    Requests <- AllRequests
    Builds <- MCBuilds
    CategoryOf <- MCCategoryOf
    DefaultOn = {Cpu, Virtualization, Hostname, Hostname2, Shard, KnottedCpu}
    Categories = {hardware, system, misspelt}
    MaxOptions = 3
SPECIFICATION GohaiSpec
INVARIANTS
    OptionsAreHonoured
    FactsAndTimingsAgree
    OnlyWiringRefuses
PROPERTY CollectEnds
CHECK_DEADLOCK FALSE
