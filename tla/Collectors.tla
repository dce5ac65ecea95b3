------------------------------ MODULE Collectors ------------------------------
(***************************************************************************)
(* The collectors that are modelled one by one, in one system: a host, and *)
(* the collector it is made for.                                           *)
(***************************************************************************)
EXTENDS Network, CloudInfo, FactsViews, Cpu, Storage, Identity, Virtualization, Hardware, Listings, Sources

Hosts == NetworkHosts \cup CloudHosts \cup FactsHosts \cup CpuHosts \cup StorageHosts
         \cup IdentityHosts \cup VirtHosts \cup HardwareHosts \cup ListingHosts \cup SourceHosts

Init == host \in Hosts /\ facts = NotYet

\* A command of a probe ends.
ProbeEnds == \E p \in VirtProbes \cup Reports : ProbeReturns(p)

Next ==
    \/ CollectNetwork
    \/ CollectDocument \/ CollectTree \/ CollectLinode
    \/ CollectFacts
    \/ CollectCPU
    \/ CollectFilesystem \/ CollectMdadm \/ CollectZpools \/ CollectMemory
    \/ CollectHostname \/ CollectShard \/ CollectPlatform \/ CollectOSRelease \/ CollectUsers
    \/ CollectVirtualization \/ CollectHardware
    \/ CollectListing \/ CollectSource
    \/ ProbeEnds

vars == <<host, facts>>

\* The commands of probes end, and a collector that has waited for them goes on.
Spec == Init /\ [][Next]_vars /\ WF_vars(ProbeEnds) /\ WF_vars(CollectVirtualization \/ CollectHardware)

----------------------------------------------------------------------------
\* What is reported of a machine's parts fits together and is of the source it is
\* said to be of: CPUs, memory, filesystems and arrays.
ResourcesAddUp ==
    /\ CpuListsAreWhole
    /\ MemoryIsInBytes
    /\ FilesystemsArePlaced
    /\ BtrfsIsOfItsMount
    /\ ArraysKeepTheirDisks

\* A list that is read line by line loses no line but those that are torn, or behind
\* one that is too long, and it says whether it is empty or could not be asked.
ListingsAreWhole ==
    /\ TornLinesStayLocal
    /\ MacrosKeepTheirLines
    /\ QueuesKeepTheirInterface
    /\ NilIsNotUnknown
    /\ EnabledIsAgreed

\* The name, the platform, the accounts and the identity of a host come from the
\* sources the system itself goes by, in their order.
IdentityHolds ==
    /\ TransientErrorsAreRetried
    /\ PlatformIsOneSource
    /\ AccountsAreTheSystems
    /\ FallbacksAreInOrder

\* Goroutines that write into one result leave no trace of the order they end in:
\* a collector that has returned has waited for each of them, and what it returns
\* is what the same commands give when they are asked one after the other.
ProbesCommute ==
    LET Serially == [p \in DOMAIN host.probe |-> IF host.probe[p].ok THEN host.probe[p].out ELSE Empty]
    IN /\ Collected("virtualization") /\ host.darwin =>
             facts.info = Layers(NoLayer, DarwinBinaries(host) \o DarwinProbed(Serially))
       /\ Collected("hardware") /\ host.darwin => facts.info = HardwareInfo(Serially)

\* What several probes, reports or signals found is added up in the order the code
\* gives them, and not in the order they came or failed in: the layers of
\* virtualization, the reports of the hardware, the books, drawers and sockets of CPUs.
SignalsAddUp ==
    /\ OverridesHold
    /\ ProbesCountInOrder
    /\ ProbesCommute
    /\ ReportsAreWhole
    /\ LayoutNests

\* A collector that has started its probes returns, those that fail included.
ProbesAreJoined == Probing ~> facts.of = host.of
=============================================================================
