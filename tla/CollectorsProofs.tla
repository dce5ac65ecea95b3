--------------------------- MODULE CollectorsProofs ---------------------------
(***************************************************************************)
(* Proofs about the collectors that are modelled one by one, for any set   *)
(* of hosts: what a collector's result says of its sources, and that the   *)
(* goroutines of two of them leave no trace of the order they end in.      *)
(***************************************************************************)
EXTENDS Collectors, SequenceTheorems, FiniteSetTheorems, WellFoundedInduction, TLAPS

----------------------------------------------------------------------------
\* Least and greatest elements of sets of numbers.

\* Every set of natural numbers that is not empty has a least element.
LEMMA LeastExists ==
  ASSUME NEW S \in SUBSET Nat, S # {}
  PROVE  \E m \in S : \A k \in S : m =< k
<1> DEFINE R == {ss \in Nat \X Nat : ss[1] < ss[2]}
<1>1. IsWellFoundedOn(R, Nat)
  BY NatLessThanWellFounded DEF OpToRel
<1>2. PICK m \in S : \A y \in S : ~ (<<y, m>> \in R)
  BY <1>1, WFMin
<1>3. ASSUME NEW y \in S PROVE m =< y
  <2>1. m \in Nat /\ y \in Nat
    OBVIOUS
  <2>2. ~ (<<y, m>> \in R)
    BY <1>2
  <2>3. ~ (y < m)
    BY <2>1, <2>2
  <2> QED BY <2>1, <2>3
<1> QED BY <1>3

\* The operator of the library finds it.
LEMMA MinIsLeast ==
  ASSUME NEW S \in SUBSET Nat, S # {}
  PROVE  Min(S) \in S /\ \A k \in S : Min(S) =< k
BY LeastExists DEF Min

\* A set that has a bound has a greatest element.
LEMMA MaxIsGreatest ==
  ASSUME NEW n \in Nat, NEW S \in SUBSET (0 .. n), S # {}
  PROVE  Max(S) \in S /\ \A k \in S : k =< Max(S)
<1> DEFINE U == {u \in Nat : \A k \in S : k =< u}
<1>1. n \in U
  OBVIOUS
<1>2. PICK m \in U : \A u \in U : m =< u
  BY <1>1, LeastExists
<1>3. m \in S
  <2>1. SUFFICES ASSUME m \notin S PROVE FALSE
    OBVIOUS
  <2>2. PICK k \in S : TRUE
    OBVIOUS
  <2>3. m > 0
    BY <2>1, <2>2, <1>2
  <2>4. m - 1 \in U
    BY <2>1, <2>3, <1>2
  <2> QED BY <2>4, <1>2
<1>4. \E x \in S : \A y \in S : x >= y
  BY <1>2, <1>3
<1> HIDE DEF U
<1>5. Max(S) \in S /\ \A y \in S : Max(S) >= y
  BY <1>4 DEF Max
<1> QED BY <1>5

----------------------------------------------------------------------------
\* Induction over numbers, and what it says of a fold from the left, which the
\* library defines over the sets of places by their greatest element.

\* A set that has 0, and with each number below n the next, has all up to n.
LEMMA Induction ==
  ASSUME NEW n \in Nat, NEW A, 0 \in A, \A k \in 0 .. n : k \in A /\ k < n => k + 1 \in A
  PROVE  \A k \in 0 .. n : k \in A
<1> DEFINE B == {k \in 0 .. n : k \notin A}
<1>1. SUFFICES ASSUME B # {} PROVE FALSE
  OBVIOUS
<1>2. PICK m \in B : \A k \in B : m =< k
  <2>1. B \in SUBSET Nat
    OBVIOUS
  <2> HIDE DEF B
  <2> QED BY <1>1, <2>1, LeastExists
<1>3. m # 0 /\ m \in 0 .. n /\ m \notin A
  OBVIOUS
<1>4. m - 1 \in 0 .. n /\ m - 1 \notin B
  BY <1>2, <1>3
<1>5. m - 1 \in A /\ (m - 1) + 1 = m /\ m - 1 < n
  BY <1>3, <1>4
<1>6. \A k \in 0 .. n : k \in A /\ k < n => k + 1 \in A
  OBVIOUS
<1> HIDE DEF B
<1>7. (m - 1) + 1 \in A
  BY <1>4, <1>5, <1>6
<1> QED BY <1>3, <1>5, <1>7

\* The function that such a fold is defined by exists.
LEMMA FoldExists ==
  ASSUME NEW S, NEW base \in S, NEW N \in Nat, NEW step \in [S \X (1 .. N) -> S]
  PROVE  \E iter \in [SUBSET (1 .. N) -> S] : \A s \in SUBSET (1 .. N) :
            /\ iter[s] = IF s = {} THEN base ELSE step[<<iter[s \ {Max(s)}], Max(s)>>]
            /\ s # {} => iter[s \ {Max(s)}] \in S /\ Max(s) \in 1 .. N
<1> DEFINE Is(f, n) == f \in [SUBSET (1 .. n) -> S] /\ \A s \in SUBSET (1 .. n) :
                          f[s] = IF s = {} THEN base ELSE step[<<f[s \ {Max(s)}], Max(s)>>]
           A == {n \in 0 .. N : \E f : Is(f, n)}
<1>1. 0 \in A
  <2> DEFINE f == [s \in SUBSET (1 .. 0) |-> base]
  <2>1. \A s \in SUBSET (1 .. 0) : s = {}
    OBVIOUS
  <2>2. Is(f, 0)
    BY <2>1
  <2> HIDE DEF Is, f
  <2> QED BY <2>2
<1>2. ASSUME NEW n \in 0 .. N, n \in A, n < N PROVE n + 1 \in A
  <2>1. PICK f : Is(f, n)
    BY <1>2
  <2> DEFINE g == [s \in SUBSET (1 .. n + 1) |-> IF n + 1 \in s THEN step[<<f[s \ {n + 1}], n + 1>>] ELSE f[s]]
  <2>2. \A s \in SUBSET (1 .. n + 1) : s \ {n + 1} \in SUBSET (1 .. n) /\ (n + 1 \notin s => s \in SUBSET (1 .. n))
    OBVIOUS
  <2>3. g \in [SUBSET (1 .. n + 1) -> S]
    <3> SUFFICES ASSUME NEW s \in SUBSET (1 .. n + 1)
                 PROVE (IF n + 1 \in s THEN step[<<f[s \ {n + 1}], n + 1>>] ELSE f[s]) \in S
      OBVIOUS
    <3>1. s \ {n + 1} \in SUBSET (1 .. n) /\ (n + 1 \notin s => s \in SUBSET (1 .. n))
      BY <2>2
    <3>2. f[s \ {n + 1}] \in S /\ n + 1 \in 1 .. N
      BY <2>1, <3>1, <1>2
    <3> QED BY <2>1, <3>1, <3>2
  <2>4. ASSUME NEW s \in SUBSET (1 .. n + 1)
        PROVE g[s] = IF s = {} THEN base ELSE step[<<g[s \ {Max(s)}], Max(s)>>]
    <3>1. CASE n + 1 \in s
      <4>1. Max(s) = n + 1
        <5>1. s \in SUBSET (0 .. (n + 1)) /\ s # {} /\ n + 1 \in Nat
          BY <3>1
        <5>2. Max(s) \in s /\ n + 1 =< Max(s)
          BY <5>1, <3>1, MaxIsGreatest
        <5>3. Max(s) \in 1 .. n + 1
          BY <5>2
        <5> QED BY <5>2, <5>3
      <4>2. s \ {n + 1} \in SUBSET (1 .. n) /\ s \ {n + 1} \in SUBSET (1 .. n + 1) /\ n + 1 \notin s \ {n + 1}
        OBVIOUS
      <4>3. g[s \ {n + 1}] = f[s \ {n + 1}]
        BY <4>2
      <4>4. g[s] = step[<<f[s \ {n + 1}], n + 1>>]
        BY <3>1
      <4> QED BY <3>1, <4>1, <4>3, <4>4
    <3>2. CASE n + 1 \notin s /\ s # {}
      <4>1. s \in SUBSET (1 .. n) /\ g[s] = f[s]
        BY <3>2, <2>2
      <4>2. s \ {Max(s)} \in SUBSET (1 .. n) /\ s \ {Max(s)} \in SUBSET (1 .. n + 1) /\ n + 1 \notin s \ {Max(s)}
        BY <3>2, <4>1
      <4>3. g[s \ {Max(s)}] = f[s \ {Max(s)}]
        BY <4>2
      <4> QED BY <2>1, <3>2, <4>1, <4>3
    <3>3. CASE s = {}
      <4>1. s \in SUBSET (1 .. n) /\ n + 1 \notin s /\ g[s] = f[s]
        BY <3>3
      <4> QED BY <2>1, <3>3, <4>1
    <3> QED BY <3>1, <3>2, <3>3
  <2> HIDE DEF g
  <2>5. Is(g, n + 1)
    BY <2>3, <2>4
  <2>6. n + 1 \in 0 .. N
    BY <1>2
  <2> HIDE DEF Is
  <2> QED BY <2>5, <2>6
<1>3. N \in A
  <2> HIDE DEF A
  <2>1. N \in 0 .. N
    OBVIOUS
  <2> QED BY <1>1, <1>2, <2>1, Induction
<1>4. PICK f : Is(f, N)
  BY <1>3
<1>5. ASSUME NEW s \in SUBSET (1 .. N), s # {} PROVE f[s \ {Max(s)}] \in S /\ Max(s) \in 1 .. N
  <2>1. s \in SUBSET (0 .. N)
    OBVIOUS
  <2>2. Max(s) \in 1 .. N
    BY <1>5, <2>1, MaxIsGreatest
  <2>3. s \ {Max(s)} \in SUBSET (1 .. N)
    OBVIOUS
  <2> QED BY <1>4, <2>2, <2>3
<1> QED BY <1>4, <1>5

\* It is a fold of 1..N by step within S, and h is what it goes through.
IsFold(S, base, N, step, iter) ==
    /\ base \in S /\ N \in Nat /\ step \in [S \X (1 .. N) -> S]
    /\ iter[{}] = base
    /\ \A s \in SUBSET (1 .. N) : s # {} /\ iter[s \ {Max(s)}] \in S /\ Max(s) \in 1 .. N =>
                                      iter[s] = step[<<iter[s \ {Max(s)}], Max(s)>>]
IsTrace(S, base, N, step, iter, h) ==
    /\ h \in [0 .. N -> S] /\ h[0] = base /\ h[N] = iter[1 .. N]
    /\ \A k \in 1 .. N : h[k] = step[<<h[k - 1], k>>]

\* A fold goes through its places one after the other.
LEMMA FoldSteps ==
  ASSUME NEW S, NEW base, NEW N, NEW step, NEW iter, IsFold(S, base, N, step, iter)
  PROVE  \E h : IsTrace(S, base, N, step, iter, h)
<1> USE DEF IsFold
<1> DEFINE A == {k \in 0 .. N : iter[1 .. k] \in S}
<1>1. ASSUME NEW k \in 1 .. N
      PROVE /\ 1 .. k \in SUBSET (1 .. N) /\ 1 .. k # {} /\ Max(1 .. k) = k /\ (1 .. k) \ {k} = 1 .. (k - 1)
  <2>1. 1 .. k \in SUBSET (1 .. N) /\ 1 .. k # {} /\ (1 .. k) \ {k} = 1 .. (k - 1) /\ k \in 1 .. k /\ k \in Nat
    OBVIOUS
  <2>2. 1 .. k \in SUBSET (0 .. k)
    OBVIOUS
  <2>3. Max(1 .. k) \in 1 .. k /\ k =< Max(1 .. k)
    BY <2>1, <2>2, MaxIsGreatest
  <2> QED BY <2>1, <2>3
<1>2. ASSUME NEW k \in 1 .. N, iter[1 .. (k - 1)] \in S
      PROVE iter[1 .. k] = step[<<iter[1 .. (k - 1)], k>>] /\ iter[1 .. k] \in S
  <2>1. iter[1 .. k] = step[<<iter[1 .. (k - 1)], k>>]
    BY Zenon, <1>1, <1>2
  <2> QED BY <2>1, <1>2
<1>3. 0 \in A
  <2>1. 1 .. 0 = {} /\ 1 .. 0 \in SUBSET (1 .. N) /\ 0 \in 0 .. N
    OBVIOUS
  <2> QED BY <2>1
<1>4. ASSUME NEW k \in 0 .. N, k \in A, k < N PROVE k + 1 \in A
  <2>1. k + 1 \in 1 .. N /\ (k + 1) - 1 = k /\ k + 1 \in 0 .. N
    BY <1>4
  <2>2. iter[1 .. ((k + 1) - 1)] \in S
    BY <1>4, <2>1
  <2>3. iter[1 .. (k + 1)] \in S
    BY <1>2, <2>1, <2>2
  <2> QED BY <2>1, <2>3
<1>5. \A k \in 0 .. N : k \in A
  <2> HIDE DEF A
  <2> QED BY <1>3, <1>4, Induction
<1> DEFINE h == [k \in 0 .. N |-> iter[1 .. k]]
<1>6. h \in [0 .. N -> S]
  BY <1>5
<1>7. h[0] = base
  <2>1. 1 .. 0 = {} /\ 1 .. 0 \in SUBSET (1 .. N) /\ 0 \in 0 .. N
    OBVIOUS
  <2> QED BY <2>1
<1>8. h[N] = iter[1 .. N]
  OBVIOUS
<1>9. ASSUME NEW k \in 1 .. N PROVE h[k] = step[<<h[k - 1], k>>]
  <2>1. k \in 0 .. N /\ k - 1 \in 0 .. N
    OBVIOUS
  <2>2. iter[1 .. (k - 1)] \in S
    BY <1>5, <2>1
  <2> QED BY <1>2, <2>1, <2>2
<1> HIDE DEF h
<1>10. IsTrace(S, base, N, step, iter, h)
  BY <1>6, <1>7, <1>8, <1>9 DEF IsTrace
<1> QED BY <1>10

\* Maps of some of the keys.
Maps(keys, vals) == UNION {[D -> vals] : D \in SUBSET keys}

\* A map with one more key is one.
LEMMA PutIsMap ==
  ASSUME NEW keys, NEW vals, NEW m \in Maps(keys, vals), NEW k \in keys, NEW v \in vals
  PROVE  Put(m, k, v) \in Maps(keys, vals)
<1>1. PICK D \in SUBSET keys : m \in [D -> vals]
  BY DEF Maps
<1>2. Put(m, k, v) \in [D \cup {k} -> vals]
  BY <1>1 DEF Put
<1>3. D \cup {k} \in SUBSET keys
  OBVIOUS
<1> QED BY <1>2, <1>3 DEF Maps

\* The empty map is one.
LEMMA EmptyIsMap == ASSUME NEW keys, NEW vals PROVE Empty \in Maps(keys, vals) /\ DOMAIN Empty = {}
<1>1. Empty = [x \in {} |-> x]
  BY DEF Empty
<1>2. Empty \in [{} -> vals]
  BY <1>1
<1>3. {} \in SUBSET keys
  OBVIOUS
<1> QED BY <1>1, <1>2, <1>3 DEF Maps

----------------------------------------------------------------------------
\* How a call of Collect ends.

\* It ends at once, with a result of its own collector or an error.
Ends(of) == host.of = of /\ host' = host /\ facts = NotYet /\ facts'.of = of

LEMMA ReturnsEnds == ASSUME NEW of, NEW info, Returns(of, info) PROVE Ends(of)
BY DEF Returns, Ends

LEMMA ErrsEnds == ASSUME NEW of, Errs(of) PROVE Ends(of)
BY DEF Errs, Ends

\* It ends at once, whatever it says.
Ended == \E of : Errs(of) \/ \E info : Returns(of, info)

\* The collectors about which nothing is shown here.
OtherSource ==
    CollectInit \/ CollectFips \/ CollectKernel \/ CollectUptime \/ CollectAll \/ CollectEach \/ CollectBlockDevices

Others ==
    \/ CollectNetwork \/ CollectDocument \/ CollectTree \/ CollectLinode
    \/ CollectFilesystem \/ CollectMdadm \/ CollectZpools \/ CollectMemory
    \/ CollectShard \/ CollectOSRelease
    \/ CollectListing \/ OtherSource

\* The collectors about which something is.
Fallbacks == {"machine_id", "timezone", "package_mgr", "vmware"}
Subjects == Fallbacks \cup {"hostname", "platform", "users", "facts", "cpu", "virtualization", "hardware"}

\* Every host is made for one collector, and is as its module has it.
LEMMA HostsAreTheirOwn ==
  ASSUME NEW h \in Hosts
  PROVE  /\ h.of \in {"hostname", "platform", "users"} => IdentityHostOK(h)
         /\ h.of \in Fallbacks => SourceHostOK(h)
         /\ h.of = "facts" => FactsHostOK(h)
         /\ h.of = "cpu" => CpuHostOK(h)
         /\ h.of = "virtualization" => VirtHostOK(h)
         /\ h.of = "hardware" => HardwareHostOK(h)
<1>1. \A x \in NetworkHosts : x.of = "network"
  BY NetworkHostsAssumption DEF NetworkHostOK
<1>2. \A x \in CloudHosts : x.of \notin Subjects
  BY CloudHostsAssumption DEF CloudHostOK, AzureDocument, GceDocument, OciDocument, DropletDocument,
     ScalewayDocument, Doc, Trees, Subjects, Fallbacks
<1>3. \A x \in FactsHosts : FactsHostOK(x) /\ x.of = "facts"
  BY FactsHostsAssumption DEF FactsHostOK
<1>4. \A x \in CpuHosts : CpuHostOK(x) /\ x.of = "cpu"
  BY CpuHostsAssumption DEF CpuHostOK
<1>5. \A x \in StorageHosts : x.of \notin Subjects
  BY StorageHostsAssumption DEF StorageHostOK, Subjects, Fallbacks
<1>6. \A x \in IdentityHosts : IdentityHostOK(x) /\ x.of \notin Subjects \ {"hostname", "platform", "users"}
  BY IdentityHostsAssumption DEF IdentityHostOK, Subjects, Fallbacks
<1>7. \A x \in VirtHosts : VirtHostOK(x) /\ x.of = "virtualization"
  BY VirtHostsAssumption DEF VirtHostOK
<1>8. \A x \in HardwareHosts : HardwareHostOK(x) /\ x.of = "hardware"
  BY HardwareHostsAssumption DEF HardwareHostOK
<1>9. \A x \in ListingHosts : x.of \notin Subjects
  BY ListingHostsAssumption DEF ListingHostOK, SourcesOf, Subjects, Fallbacks
<1>10. \A x \in SourceHosts : SourceHostOK(x) /\ x.of \notin Subjects \ Fallbacks
  BY SourceHostsAssumption DEF SourceHostOK, Asked, Subjects, Fallbacks
<1> QED BY <1>1, <1>2, <1>3, <1>4, <1>5, <1>6, <1>7, <1>8, <1>9, <1>10 DEF Hosts, Subjects, Fallbacks

\* One of those collectors ends at once, and as nothing that is shown here.
EndsElsewhere == \E of : of \notin Subjects \cup {"probing"} /\ Ends(of)

LEMMA ListingEndsElsewhere == CollectListing => EndsElsewhere
<1> DEFINE Says(of) == Errs(of) \/ \E info : Returns(of, info)
<1>1. ASSUME NEW of, of \notin Subjects \cup {"probing"}, Says(of) PROVE EndsElsewhere
  BY <1>1, ReturnsEnds, ErrsEnds DEF EndsElsewhere
<1>2. CollectSessions => Says("sessions")
  BY Zenon DEF CollectSessions
<1>3. CollectUnits => Says("services") \/ Says("packages") \/ Says("command")
  BY Zenon DEF CollectUnits
<1>4. CollectDocker => Says("docker")
  BY Zenon DEF CollectDocker
<1>5. CollectLibvirt => Says("libvirt")
  BY Zenon DEF CollectLibvirt
<1>6. CollectTC => Says("tc")
  BY Zenon DEF CollectTC
<1>7. CollectRPM => Says("rpm")
  BY Zenon DEF CollectRPM
<1>8. CollectModules => Says("kernel_modules")
  BY Zenon DEF CollectModules
<1>9. CollectLivepatch => Says("livepatch")
  BY Zenon DEF CollectLivepatch
<1>10. CollectGrub2 => Says("grub2")
  BY Zenon DEF CollectGrub2
<1>11. CollectSSH => Says("ssh")
  BY Zenon DEF CollectSSH
<1>12. CollectSELinux => Says("selinux")
  BY Zenon DEF CollectSELinux
<1>13. CollectInterrupts => Says("interrupts")
  BY Zenon DEF CollectInterrupts
<1>14. CollectShells => Says("shells")
  BY Zenon DEF CollectShells
<1>15. CollectPairs => Says("hostnamectl") \/ Says("lsb") \/ Says("scsi") \/ Says("systemd_paths")
  BY Zenon DEF CollectPairs
<1>16. CollectVirtualBox => Says("virtualbox")
  BY Zenon DEF CollectVirtualBox
<1>17. CollectDevices => Says("kextstat") \/ Says("pci") \/ Says("gpu")
  BY Zenon DEF CollectDevices
<1>18. CollectSysctl => Says("sysctl")
  BY Zenon DEF CollectSysctl
<1> DEFINE Listings1 == {"sessions", "services", "packages", "command", "docker", "libvirt", "tc", "rpm", "kernel_modules",
              "livepatch", "grub2", "ssh", "selinux", "interrupts", "shells", "hostnamectl", "lsb", "scsi", "systemd_paths",
              "virtualbox", "kextstat", "pci", "gpu", "sysctl"}
<1> HIDE DEF Says
<1>19. CollectListing => \E of \in Listings1 : Says(of)
  BY <1>2, <1>3, <1>4, <1>5, <1>6, <1>7, <1>8, <1>9, <1>10, <1>11, <1>12, <1>13, <1>14, <1>15, <1>16, <1>17, <1>18
     DEF CollectListing
<1>20. \A of \in Listings1 : of \notin Subjects \cup {"probing"}
  BY DEF Subjects, Fallbacks
<1> QED BY <1>1, <1>19, <1>20

LEMMA SourceEndsElsewhere == OtherSource => EndsElsewhere
<1> DEFINE Says(of) == Errs(of) \/ \E info : Returns(of, info)
<1>1. ASSUME NEW of, of \notin Subjects \cup {"probing"}, Says(of) PROVE EndsElsewhere
  BY <1>1, ReturnsEnds, ErrsEnds DEF EndsElsewhere
<1>5. CollectInit => Says("init")
  BY Zenon DEF CollectInit
<1>6. CollectFips => Says("fips")
  BY Zenon DEF CollectFips
<1>7. CollectKernel => Says("kernel")
  BY Zenon DEF CollectKernel
<1>8. CollectUptime => Says("uptime")
  BY Zenon DEF CollectUptime
<1>9. CollectAll => Says("root_group") \/ Says("sysconf") \/ Says("load") \/ Says("disk")
  BY Zenon DEF CollectAll
<1>11. CollectEach => Says("languages") \/ Says("dmi") \/ Says("ipc") \/ Says("process")
  BY Zenon DEF CollectEach
<1>12. CollectBlockDevices => Says("block_device")
  BY Zenon DEF CollectBlockDevices
<1> DEFINE Sources1 == {"init", "fips", "kernel", "uptime", "root_group", "sysconf",
              "load", "disk", "languages", "dmi", "ipc", "process", "block_device"}
<1> HIDE DEF Says
<1>13. OtherSource => \E of \in Sources1 : Says(of)
  BY <1>5, <1>6, <1>7, <1>8, <1>9, <1>11, <1>12 DEF OtherSource
<1>14. \A of \in Sources1 : of \notin Subjects \cup {"probing"}
  BY DEF Subjects, Fallbacks
<1> QED BY <1>1, <1>13, <1>14

LEMMA OthersEndElsewhere == Others => EndsElsewhere
<1> DEFINE Says(of) == Errs(of) \/ \E info : Returns(of, info)
<1>1. ASSUME NEW of, of \notin Subjects \cup {"probing"}, Says(of) PROVE EndsElsewhere
  BY <1>1, ReturnsEnds, ErrsEnds DEF EndsElsewhere
<1>2. CollectNetwork => Says("network")
  BY Zenon DEF CollectNetwork
<1>3. CollectDocument => Says("azure") \/ Says("oci") \/ Says("digital_ocean") \/ Says("gce") \/ Says("scaleway")
  BY Zenon DEF CollectDocument
<1>4. CollectTree => Says("alibaba") \/ Says("openstack")
  BY Zenon DEF CollectTree
<1>5. CollectLinode => Says("linode")
  BY Zenon DEF CollectLinode
<1>6. CollectFilesystem => Says("filesystem")
  BY Zenon DEF CollectFilesystem
<1>7. CollectMdadm => Says("mdadm")
  BY Zenon DEF CollectMdadm
<1>8. CollectZpools => Says("zpools")
  BY Zenon DEF CollectZpools
<1>9. CollectMemory => Says("memory")
  BY Zenon DEF CollectMemory
<1>10. CollectShard => Says("shard")
  BY Zenon DEF CollectShard
<1>11. CollectOSRelease => Says("os_release")
  BY Zenon DEF CollectOSRelease
<1> DEFINE Others1 == {"network", "azure", "oci", "digital_ocean", "gce", "scaleway", "alibaba", "openstack", "linode",
              "filesystem", "mdadm", "zpools", "memory", "shard", "os_release"}
<1> HIDE DEF Says
<1>13. Others => CollectListing \/ OtherSource \/ \E of \in Others1 : Says(of)
  BY <1>2, <1>3, <1>4, <1>5, <1>6, <1>7, <1>8, <1>9, <1>10, <1>11 DEF Others
<1>14. \A of \in Others1 : of \notin Subjects \cup {"probing"}
  BY DEF Subjects, Fallbacks
<1> QED BY <1>1, <1>13, <1>14, ListingEndsElsewhere, SourceEndsElsewhere

----------------------------------------------------------------------------
\* The invariant.

\* What the probes of a host write if all of them have ended.
Answers == [p \in DOMAIN host.probe |-> IF host.probe[p].ok THEN host.probe[p].out ELSE Empty]

\* While probes run, those that have ended have written what they were answered, and
\* no other has written.
ProbingOK ==
    Probing =>
        /\ host.of \in {"virtualization", "hardware"} /\ host.darwin
        /\ facts.running \subseteq DOMAIN host.probe
        /\ DOMAIN facts.outs = {p \in DOMAIN host.probe \ facts.running : host.probe[p].ok}
        /\ \A p \in DOMAIN facts.outs : facts.outs[p] = host.probe[p].out

HostnameOK ==
    Collected("hostname") =>
        /\ host.of = "hostname"
        /\ facts.info = [name |-> ShortName(host), machine |-> MachineName(host),
                         fqdn |-> CanonicalFQDN(ShortName(host), host.tries).fqdn,
                         domain |-> CanonicalFQDN(ShortName(host), host.tries).domain]

PlatformOK == Collected("platform") => host.of = "platform" /\ facts.info = PlatformInfo(host)

FactsOK ==
    Collected("facts") =>
        host.of = "facts" /\ facts.info.flat \in Flats(host.leaves) /\ facts.info.device = OcsfDevice(host)

UsersOK ==
    Collected("users") =>
        /\ host.of = "users"
        /\ facts.info.Passwd = PasswdOf(host) /\ facts.info.CurrentUser \in CurrentUsers(host)

\* What a collector with several sources finds.
FoundBy(of) ==
    CASE of = "machine_id" -> MachineID [] of = "timezone" -> Timezone [] of = "package_mgr" -> PackageMgr
      [] of = "vmware" -> VMware

FallbacksOK == \A of \in Fallbacks : Collected(of) => host.of = of /\ facts.info = FoundBy(of)

CpuOK ==
    Collected("cpu") =>
        host.of = "cpu" /\ facts.info = IF host.darwin THEN DarwinCPU(host) ELSE LinuxCPU(host)

VirtualizationOK ==
    Collected("virtualization") =>
        /\ host.of = "virtualization"
        /\ facts.info = IF host.darwin THEN Layers(NoLayer, DarwinBinaries(host) \o DarwinProbed(Answers))
                        ELSE CascadeLinux(host)

HardwareOK ==
    Collected("hardware") =>
        host.of = "hardware" /\ facts.info \in {NoHardware, HardwareInfo(Answers)}
        /\ (host.darwin => facts.info = HardwareInfo(Answers))

CollectorsInv ==
    /\ host \in Hosts
    /\ ProbingOK
    /\ HostnameOK /\ PlatformOK /\ UsersOK /\ FallbacksOK /\ FactsOK /\ CpuOK /\ VirtualizationOK /\ HardwareOK

\* What a step leaves untold.
LEMMA Untold ==
  ASSUME host' \in Hosts, facts'.of \notin Subjects \cup {"probing"}
  PROVE  CollectorsInv'
BY DEF CollectorsInv, ProbingOK, HostnameOK, PlatformOK, UsersOK, FallbacksOK, FactsOK, CpuOK, VirtualizationOK, HardwareOK, Probing, Collected, Subjects, Fallbacks

\* When no probe runs any more, what they have written is what they were answered.
LEMMA AllWritten ==
  ASSUME ProbingOK, Probing, facts.running = {}
  PROVE  Written = Answers
<1>1. DOMAIN facts.outs = {p \in DOMAIN host.probe : host.probe[p].ok}
  BY DEF ProbingOK
<1>2. \A p \in DOMAIN host.probe :
         (IF p \in DOMAIN facts.outs THEN facts.outs[p] ELSE Empty)
         = (IF host.probe[p].ok THEN host.probe[p].out ELSE Empty)
  BY <1>1 DEF ProbingOK
<1> QED BY <1>2 DEF Written, Answers

LEMMA InvInit == Init => CollectorsInv
<1> SUFFICES ASSUME Init PROVE CollectorsInv
  OBVIOUS
<1>1. facts.of = "none"
  BY DEF Init, NotYet
<1> QED BY <1>1 DEF Init, CollectorsInv, ProbingOK, HostnameOK, PlatformOK, UsersOK, FallbacksOK, Fallbacks, FactsOK, CpuOK,
           VirtualizationOK, HardwareOK, Probing, Collected

\* What is found depends on the host alone.
LEMMA SourcesStay ==
  ASSUME host' = host
  PROVE  \A of \in Fallbacks : FoundBy(of)' = FoundBy(of)
<1>1. MachineID' = MachineID
  BY DEF MachineID, OnMac
<1>2. Timezone' = Timezone
  BY DEF Timezone, TrimZone, OnMac
<1>3. PackageMgr' = PackageMgr
  BY DEF PackageMgr
<1>4. VMware' = VMware
  BY DEF VMware, Guest, OnMac
<1> QED BY <1>1, <1>2, <1>3, <1>4 DEF FoundBy, Fallbacks

\* A collector's own step: a result of one of the subjects, and why it is right.
LEMMA Told ==
  ASSUME CollectorsInv, NEW of \in Subjects, NEW info, Returns(of, info),
         of = "hostname" =>
             info = [name |-> ShortName(host), machine |-> MachineName(host),
                     fqdn |-> CanonicalFQDN(ShortName(host), host.tries).fqdn,
                     domain |-> CanonicalFQDN(ShortName(host), host.tries).domain],
         of = "platform" => info = PlatformInfo(host),
         of = "users" => info.Passwd = PasswdOf(host) /\ info.CurrentUser \in CurrentUsers(host),
         of \in Fallbacks => info = FoundBy(of),
         of = "facts" => info.flat \in Flats(host.leaves) /\ info.device = OcsfDevice(host),
         of = "cpu" => info = IF host.darwin THEN DarwinCPU(host) ELSE LinuxCPU(host),
         of \in {"virtualization", "hardware"} => ~ host.darwin,
         of = "virtualization" => info = CascadeLinux(host),
         of = "hardware" => info = NoHardware
  PROVE  CollectorsInv'
<1>1. host' = host /\ host \in Hosts /\ host.of = of
  BY DEF Returns, CollectorsInv
<1>2. facts'.of = of /\ facts'.info = info
  BY DEF Returns
<1>3. facts'.of \in Subjects
  BY <1>2
<1>4. ProbingOK'
  BY <1>3 DEF ProbingOK, Probing, Subjects, Fallbacks
<1>5. HostnameOK'
  BY <1>1, <1>2 DEF HostnameOK, Collected
<1>6. FactsOK' /\ PlatformOK' /\ UsersOK'
  BY <1>1, <1>2 DEF FactsOK, PlatformOK, UsersOK, Collected
<1>10. FallbacksOK'
  <2>1. \A x \in Fallbacks : FoundBy(x)' = FoundBy(x)
    BY <1>1, SourcesStay
  <2> QED BY <1>1, <1>2, <2>1 DEF FallbacksOK, Collected
<1>7. CpuOK'
  BY <1>1, <1>2 DEF CpuOK, Collected
<1>8. VirtualizationOK'
  BY <1>1, <1>2 DEF VirtualizationOK, Collected
<1>9. HardwareOK'
  BY <1>1, <1>2 DEF HardwareOK, Collected
<1> QED BY <1>1, <1>4, <1>5, <1>6, <1>7, <1>8, <1>9, <1>10 DEF CollectorsInv

\* An error tells nothing.
LEMMA Failed ==
  ASSUME CollectorsInv, NEW of \in Subjects, Errs(of)
  PROVE  CollectorsInv'
<1>1. host' = host /\ host \in Hosts /\ facts'.of = of /\ facts'.err
  BY DEF Errs, CollectorsInv
<1> QED BY <1>1 DEF CollectorsInv, ProbingOK, HostnameOK, PlatformOK, UsersOK, FallbacksOK, FactsOK, CpuOK, VirtualizationOK, HardwareOK, Probing, Collected,
           Subjects, Fallbacks

\* Goroutines start with nothing written.
LEMMA Started ==
  ASSUME CollectorsInv, host.darwin, NEW of \in {"virtualization", "hardware"}, StartProbes(of, DOMAIN host.probe)
  PROVE  CollectorsInv'
<1>1. host' = host /\ host \in Hosts /\ host.of = of
  BY DEF StartProbes, CollectorsInv
<1>2. facts' = Running(DOMAIN host.probe, Empty)
  BY DEF StartProbes
<1>3. facts'.of = "probing" /\ facts'.running = DOMAIN host.probe /\ facts'.outs = Empty
  BY <1>2 DEF Running
<1>4. DOMAIN Empty = {}
  BY DEF Empty
<1>5. ProbingOK'
  BY <1>1, <1>2, <1>3, <1>4 DEF ProbingOK
<1> QED BY <1>1, <1>3, <1>5 DEF CollectorsInv, HostnameOK, PlatformOK, UsersOK, FallbacksOK, Fallbacks, FactsOK, CpuOK,
           VirtualizationOK, HardwareOK, Collected

\* A goroutine that ends writes what its command answered, and nothing else.
LEMMA ProbeEnded ==
  ASSUME CollectorsInv, NEW p, ProbeReturns(p)
  PROVE  CollectorsInv'
<1>1. host' = host /\ host \in Hosts
  BY DEF ProbeReturns, CollectorsInv
<1> DEFINE written == IF host.probe[p].ok THEN Put(facts.outs, p, host.probe[p].out) ELSE facts.outs
<1>3. facts' = Running(facts.running \ {p}, written)
  BY DEF ProbeReturns
<1> HIDE DEF written
<1>4. facts'.of = "probing" /\ facts'.running = facts.running \ {p} /\ facts'.outs = written
  BY <1>3 DEF Running
<1>5. p \in facts.running /\ facts.running \subseteq DOMAIN host.probe
  BY DEF ProbeReturns, CollectorsInv, ProbingOK
<1>6. DOMAIN facts.outs = {q \in DOMAIN host.probe \ facts.running : host.probe[q].ok}
  BY DEF ProbeReturns, CollectorsInv, ProbingOK
<1>7. \A q \in DOMAIN facts.outs : facts.outs[q] = host.probe[q].out
  BY DEF ProbeReturns, CollectorsInv, ProbingOK
<1>8. DOMAIN written = {q \in DOMAIN host.probe \ (facts.running \ {p}) : host.probe[q].ok}
  <2>1. CASE host.probe[p].ok
    <3>1. DOMAIN written = DOMAIN facts.outs \cup {p}
      BY <2>1 DEF written, Put
    <3> QED BY <2>1, <3>1, <1>5, <1>6
  <2>2. CASE ~ host.probe[p].ok
    BY <2>2, <1>5, <1>6 DEF written
  <2> QED BY <2>1, <2>2
<1>9. \A q \in DOMAIN written : written[q] = host.probe[q].out
  <2>1. CASE host.probe[p].ok
    BY <2>1, <1>7 DEF written, Put
  <2>2. CASE ~ host.probe[p].ok
    BY <2>2, <1>7 DEF written
  <2> QED BY <2>1, <2>2
<1>10. host.of \in {"virtualization", "hardware"} /\ host.darwin
  BY DEF ProbeReturns, CollectorsInv, ProbingOK
<1>11. ProbingOK'
  <2>1. facts'.running \subseteq DOMAIN host'.probe
    BY <1>1, <1>4, <1>5
  <2> QED BY <2>1, <1>1, <1>4, <1>8, <1>9, <1>10 DEF ProbingOK
<1> QED BY <1>1, <1>4, <1>11 DEF CollectorsInv, HostnameOK, PlatformOK, UsersOK, FallbacksOK, Fallbacks, FactsOK, CpuOK,
           VirtualizationOK, HardwareOK, Collected

\* A collector that has waited for all its goroutines returns what they were answered.
LEMMA Waited ==
  ASSUME CollectorsInv, NEW of \in {"virtualization", "hardware"}, NEW info, WaitReturns(of, info),
         of = "virtualization" => info = Layers(NoLayer, DarwinBinaries(host) \o DarwinProbed(Written)),
         of = "hardware" => info = HardwareInfo(Written)
  PROVE  CollectorsInv'
<1>1. host' = host /\ host \in Hosts /\ host.of = of
  BY DEF WaitReturns, CollectorsInv
<1>2. facts'.of = of /\ facts'.info = info
  BY DEF WaitReturns
<1>3. Written = Answers
  BY AllWritten DEF WaitReturns, CollectorsInv
<1>4. Answers' = Answers
  BY <1>1 DEF Answers
<1>7. host.darwin
  BY DEF WaitReturns, CollectorsInv, ProbingOK
<1>5. VirtualizationOK'
  BY <1>1, <1>2, <1>3, <1>4, <1>7 DEF VirtualizationOK, Collected
<1>6. HardwareOK'
  BY <1>1, <1>2, <1>3, <1>4 DEF HardwareOK, Collected
<1> QED BY <1>1, <1>2, <1>5, <1>6 DEF CollectorsInv, ProbingOK, HostnameOK, PlatformOK, UsersOK, FallbacksOK, Fallbacks, FactsOK, CpuOK,
           Probing, Collected

LEMMA InvStep == CollectorsInv /\ [Next]_vars => CollectorsInv'
<1> SUFFICES ASSUME CollectorsInv, [Next]_vars PROVE CollectorsInv'
  OBVIOUS
<1>1. ASSUME Others PROVE CollectorsInv'
  <2>1. EndsElsewhere
    BY <1>1, OthersEndElsewhere
  <2>2. host' \in Hosts /\ facts'.of \notin Subjects \cup {"probing"}
    BY <2>1 DEF EndsElsewhere, Ends, CollectorsInv
  <2> QED BY <2>2, Untold
<1>2. CASE CollectHostname
  <2> DEFINE info == [name |-> ShortName(host), machine |-> MachineName(host),
                      fqdn |-> CanonicalFQDN(ShortName(host), host.tries).fqdn,
                      domain |-> CanonicalFQDN(ShortName(host), host.tries).domain]
  <2>1. Errs("hostname") \/ Returns("hostname", info)
    BY Zenon, <1>2 DEF CollectHostname
  <2> HIDE DEF info
  <2>2. info = [name |-> ShortName(host), machine |-> MachineName(host),
                fqdn |-> CanonicalFQDN(ShortName(host), host.tries).fqdn,
                domain |-> CanonicalFQDN(ShortName(host), host.tries).domain]
    BY DEF info
  <2>3. ASSUME Returns("hostname", info) PROVE CollectorsInv'
    BY <2>2, <2>3, Told DEF Subjects, Fallbacks
  <2>4. ASSUME Errs("hostname") PROVE CollectorsInv'
    BY <2>4, Failed DEF Subjects, Fallbacks
  <2> QED BY <2>1, <2>3, <2>4
<1>3. CASE CollectFacts
  <2>1. PICK flat \in Flats(host.leaves) :
           Returns("facts", [filled |-> Filled(host), count |-> CountPopulated(Filled(host)),
                             flat |-> flat, device |-> OcsfDevice(host)])
    BY <1>3 DEF CollectFacts
  <2> DEFINE info == [filled |-> Filled(host), count |-> CountPopulated(Filled(host)),
                      flat |-> flat, device |-> OcsfDevice(host)]
  <2>2. Returns("facts", info) /\ info.flat \in Flats(host.leaves) /\ info.device = OcsfDevice(host)
    BY <2>1
  <2> HIDE DEF info
  <2> QED BY <2>2, Told DEF Subjects, Fallbacks
<1>4. CASE CollectCPU
  <2> DEFINE info == IF host.darwin THEN DarwinCPU(host) ELSE LinuxCPU(host)
  <2>1. Errs("cpu") \/ Returns("cpu", info)
    BY Zenon, <1>4 DEF CollectCPU
  <2>2. info = IF host.darwin THEN DarwinCPU(host) ELSE LinuxCPU(host)
    OBVIOUS
  <2> HIDE DEF info
  <2>3. ASSUME Returns("cpu", info) PROVE CollectorsInv'
    BY <2>2, <2>3, Told DEF Subjects, Fallbacks
  <2>4. ASSUME Errs("cpu") PROVE CollectorsInv'
    BY <2>4, Failed DEF Subjects, Fallbacks
  <2> QED BY <2>1, <2>3, <2>4
<1>5. CASE CollectVirtualization
  <2>1. ASSUME ~ host.darwin, Returns("virtualization", CascadeLinux(host)) PROVE CollectorsInv'
    BY <2>1, Told DEF Subjects, Fallbacks
  <2>2. ASSUME host.darwin, StartProbes("virtualization", VirtProbes) PROVE CollectorsInv'
    <3>1. host \in Hosts /\ host.of = "virtualization"
      BY <2>2 DEF StartProbes, CollectorsInv
    <3>2. VirtProbes = DOMAIN host.probe
      BY <3>1, HostsAreTheirOwn DEF VirtHostOK
    <3>3. StartProbes("virtualization", DOMAIN host.probe)
      BY <2>2, <3>2
    <3> QED BY <2>2, <3>3, Started
  <2> DEFINE info == Layers(NoLayer, DarwinBinaries(host) \o DarwinProbed(Written))
  <2>3. ASSUME WaitReturns("virtualization", info) PROVE CollectorsInv'
    BY <2>3, Waited
  <2> QED BY <1>5, <2>1, <2>2, <2>3 DEF CollectVirtualization
<1>6. CASE CollectHardware
  <2>1. ASSUME ~ host.darwin, Returns("hardware", NoHardware) PROVE CollectorsInv'
    BY <2>1, Told DEF Subjects, Fallbacks
  <2>2. ASSUME host.darwin, StartProbes("hardware", Reports) PROVE CollectorsInv'
    <3>1. host \in Hosts /\ host.of = "hardware"
      BY <2>2 DEF StartProbes, CollectorsInv
    <3>2. Reports = DOMAIN host.probe
      BY <3>1, HostsAreTheirOwn DEF HardwareHostOK
    <3>3. StartProbes("hardware", DOMAIN host.probe)
      BY <2>2, <3>2
    <3> QED BY <2>2, <3>3, Started
  <2>3. ASSUME WaitReturns("hardware", HardwareInfo(Written)) PROVE CollectorsInv'
    BY <2>3, Waited
  <2> QED BY <1>6, <2>1, <2>2, <2>3 DEF CollectHardware
<1>7. CASE ProbeEnds
  BY <1>7, ProbeEnded DEF ProbeEnds
<1>8. CASE CollectPlatform
  <2>1. Errs("platform") \/ Returns("platform", PlatformInfo(host))
    BY <1>8 DEF CollectPlatform
  <2>2. ASSUME Returns("platform", PlatformInfo(host)) PROVE CollectorsInv'
    BY <2>2, Told DEF Subjects, Fallbacks
  <2>3. ASSUME Errs("platform") PROVE CollectorsInv'
    BY <2>3, Failed DEF Subjects, Fallbacks
  <2> QED BY <2>1, <2>2, <2>3
<1>9. CASE UNCHANGED vars
  <2>1. host' = host /\ facts' = facts
    BY <1>9 DEF vars
  <2>2. Answers' = Answers
    BY <2>1 DEF Answers
  <2>3. FallbacksOK'
    <3>1. \A of \in Fallbacks : FoundBy(of)' = FoundBy(of)
      BY <2>1, SourcesStay
    <3> QED BY <2>1, <3>1 DEF FallbacksOK, CollectorsInv, Collected
  <2> QED BY <2>1, <2>2, <2>3 DEF CollectorsInv, ProbingOK, HostnameOK, PlatformOK, UsersOK, FactsOK, CpuOK, VirtualizationOK,
             HardwareOK, Probing, Collected
<1>10. CASE CollectUsers
  <2>1. PICK u \in CurrentUsers(host) :
           Returns("users", [Passwd |-> PasswdOf(host), Group |-> GroupOf(host), CurrentUser |-> u])
    BY <1>10 DEF CollectUsers
  <2> DEFINE info == [Passwd |-> PasswdOf(host), Group |-> GroupOf(host), CurrentUser |-> u]
  <2>2. Returns("users", info) /\ info.Passwd = PasswdOf(host) /\ info.CurrentUser \in CurrentUsers(host)
    BY <2>1
  <2> HIDE DEF info
  <2> QED BY <2>2, Told DEF Subjects, Fallbacks
<1>11. CASE CollectSource
  <2>1. ASSUME NEW of \in Fallbacks, Returns(of, FoundBy(of)) PROVE CollectorsInv'
    BY <2>1, Told DEF Subjects, Fallbacks
  <2>2. ASSUME OtherSource PROVE CollectorsInv'
    BY <2>2, <1>1 DEF Others
  <2>3. ASSUME CollectMachineID PROVE CollectorsInv'
    <3>1. Errs("machine_id") \/ Returns("machine_id", FoundBy("machine_id"))
      BY <2>3 DEF CollectMachineID, FoundBy
    <3>2. ASSUME Errs("machine_id") PROVE CollectorsInv'
      BY <3>2, Failed DEF Subjects, Fallbacks
    <3> QED BY <2>1, <3>1, <3>2 DEF Fallbacks
  <2>4. ASSUME CollectTimezone PROVE CollectorsInv'
    <3>1. Returns("timezone", FoundBy("timezone"))
      BY <2>4 DEF CollectTimezone, FoundBy
    <3> QED BY <2>1, <3>1 DEF Fallbacks
  <2>5. ASSUME CollectPackageMgr PROVE CollectorsInv'
    <3>1. Returns("package_mgr", FoundBy("package_mgr"))
      BY <2>5 DEF CollectPackageMgr, FoundBy
    <3> QED BY <2>1, <3>1 DEF Fallbacks
  <2>6. ASSUME CollectVMware PROVE CollectorsInv'
    <3>1. Returns("vmware", FoundBy("vmware"))
      BY <2>6 DEF CollectVMware, FoundBy
    <3> QED BY <2>1, <3>1 DEF Fallbacks
  <2> QED BY <1>11, <2>2, <2>3, <2>4, <2>5, <2>6 DEF CollectSource, OtherSource
<1> QED BY <1>1, <1>2, <1>3, <1>4, <1>5, <1>6, <1>7, <1>8, <1>9, <1>10, <1>11 DEF Next, Others

\* Every result of these collectors is of their own sources: the invariant holds.
THEOREM CollectorsInvHolds == Spec => []CollectorsInv
<1>1. Init => CollectorsInv
  BY InvInit
<1>2. CollectorsInv /\ [Next]_vars => CollectorsInv'
  BY InvStep
<1> QED BY <1>1, <1>2, PTL DEF Spec

----------------------------------------------------------------------------
\* The two macOS collectors that run their commands at the same time return what
\* they would return if they ran them one after the other, for any answers and in
\* any order the goroutines end in.
THEOREM ProbesCommuteHolds == Spec => []ProbesCommute
<1>1. CollectorsInv => ProbesCommute
  BY DEF CollectorsInv, VirtualizationOK, HardwareOK, ProbesCommute, Answers
<1> QED BY <1>1, CollectorsInvHolds, PTL

\* A leaf of the facts is lost from the flat map only to another whose keys join to
\* the same string, for any document.
THEOREM FlatKeepsLeavesHolds == Spec => []FlatKeepsLeaves
<1>1. ASSUME CollectorsInv, Collected("facts") PROVE FlatKeepsLeaves
  <2> DEFINE flat == facts.info.flat
             keys == {FlattenSeq(l.path) : l \in host.leaves}
  <2>1. flat \in [keys -> host.leaves] /\ \A k \in keys : FlattenSeq(flat[k].path) = k
    BY <1>1 DEF CollectorsInv, FactsOK, Flats, Join
  <2>2. Range(flat) \subseteq host.leaves
    BY <2>1 DEF Range
  <2>3. ASSUME NEW l \in host.leaves
        PROVE  \/ GetKey(flat, FlattenSeq(l.path)) = {l.value}
               \/ \E o \in host.leaves \ {l} : FlattenSeq(o.path) = FlattenSeq(l.path) /\ o \in Range(flat)
    <3> DEFINE key == FlattenSeq(l.path)
    <3>1. key \in keys
      OBVIOUS
    <3> HIDE DEF key, keys, flat
    <3>2. flat[key] \in host.leaves /\ FlattenSeq(flat[key].path) = key /\ flat[key] \in Range(flat)
      BY <2>1, <3>1 DEF Range
    <3>3. GetKey(flat, key) = {flat[key].value}
      BY <2>1, <3>1 DEF GetKey
    <3>4. CASE flat[key] = l
      BY <3>3, <3>4 DEF key
    <3>5. CASE flat[key] # l
      BY <3>2, <3>5 DEF key
    <3> QED BY <3>4, <3>5
  <2> QED BY <2>2, <2>3 DEF FlatKeepsLeaves
<1>2. CollectorsInv => FlatKeepsLeaves
  BY <1>1 DEF FlatKeepsLeaves
<1> QED BY <1>2, CollectorsInvHolds, PTL

\* The first of the places of a kind is one of them, and so is its address.
LEMMA PrimaryIsThere ==
  ASSUME NEW h, FactsHostOK(h)
  PROVE  LET mine == {a \in UNION {Range(i.addrs) : i \in {i \in Range(h.ifaces) : i.name = h.default}} : a.family = "inet"}
         IN IF mine = {} THEN PrimaryIP(h) = None ELSE PrimaryIP(h) \in {a.addr : a \in mine}
<1> DEFINE mine == {a \in UNION {Range(i.addrs) : i \in {i \in Range(h.ifaces) : i.name = h.default}} : a.family = "inet"}
           at == {k \in DOMAIN h.ifaces : h.ifaces[k].name = h.default /\ Inet(h.ifaces[k]) # {}}
           first == h.ifaces[Min(at)]
<1>1. /\ at \in SUBSET Nat
      /\ \A k \in DOMAIN h.ifaces : h.ifaces[k] \in Range(h.ifaces) /\ Inet(h.ifaces[k]) \in SUBSET Nat
  <2>1. h.ifaces \in Seq(Range(h.ifaces)) /\ DOMAIN h.ifaces \subseteq Nat
    BY DEF FactsHostOK
  <2>2. ASSUME NEW k \in DOMAIN h.ifaces PROVE h.ifaces[k] \in Range(h.ifaces) /\ Inet(h.ifaces[k]) \in SUBSET Nat
    <3>1. h.ifaces[k] \in Range(h.ifaces)
      BY DEF Range
    <3>2. h.ifaces[k].addrs \in Seq(Range(h.ifaces[k].addrs))
      BY <3>1 DEF FactsHostOK
    <3>3. DOMAIN h.ifaces[k].addrs \subseteq Nat
      BY <3>2
    <3> QED BY <3>1, <3>3 DEF Inet
  <2> QED BY <2>1, <2>2
<1>2. PrimaryIP(h) = IF at = {} THEN None ELSE first.addrs[Min(Inet(first))].addr
  BY DEF PrimaryIP
<1>3. CASE at = {}
  <2>1. ASSUME NEW i \in Range(h.ifaces), i.name = h.default, NEW a \in Range(i.addrs), a.family = "inet" PROVE FALSE
    <3>1. PICK k \in DOMAIN h.ifaces : i = h.ifaces[k]
      BY DEF Range
    <3>2. PICK j \in DOMAIN i.addrs : a = i.addrs[j]
      BY DEF Range
    <3>3. j \in Inet(i)
      BY <2>1, <3>2 DEF Inet
    <3> QED BY <1>3, <2>1, <3>1, <3>3
  <2>2. mine = {}
    BY <2>1
  <2> QED BY <1>2, <1>3, <2>2
<1>4. CASE at # {}
  <2>1. Min(at) \in at
    BY <1>1, <1>4, MinIsLeast
  <2>2. Min(at) \in DOMAIN h.ifaces /\ first.name = h.default /\ Inet(first) # {}
    BY <2>1
  <2>3. Inet(first) \in SUBSET Nat /\ first \in Range(h.ifaces)
    BY <1>1, <2>2
  <2> HIDE DEF first, at
  <2>4. Min(Inet(first)) \in Inet(first)
    BY <2>2, <2>3, MinIsLeast
  <2> DEFINE found == first.addrs[Min(Inet(first))]
  <2>5. found \in Range(first.addrs) /\ found.family = "inet"
    BY <2>4 DEF Inet, Range
  <2>6. found \in mine
    BY <2>2, <2>3, <2>5
  <2>7. PrimaryIP(h) = found.addr
    BY <1>2, <1>4
  <2> HIDE DEF found, mine
  <2>8. mine # {} /\ PrimaryIP(h) \in {a.addr : a \in mine}
    BY <2>6, <2>7
  <2> QED BY <2>8 DEF mine
<1> QED BY <1>3, <1>4

\* The address that the event gives the device is an IPv4 address of the interface
\* with the default route, for any interfaces.
THEOREM PrimaryIPIsOfTheDefaultHolds == Spec => []PrimaryIPIsOfTheDefault
<1>1. ASSUME CollectorsInv, Collected("facts"), "network" \in host.results PROVE PrimaryIPIsOfTheDefault
  <2> DEFINE mine == {a \in UNION {Range(i.addrs) : i \in {i \in Range(host.ifaces) : i.name = host.default}} :
                        a.family = "inet"}
  <2>1. FactsHostOK(host) /\ facts.info.device = OcsfDevice(host)
    BY <1>1, HostsAreTheirOwn DEF CollectorsInv, FactsOK
  <2>2. "network" \in Filled(host)
    BY <1>1 DEF Filled, Fields, HostFields
  <2>3. facts.info.device.ip = IF host.default # None THEN PrimaryIP(host) ELSE None
    BY <2>1, <2>2 DEF OcsfDevice
  <2>4. host.default = None => mine = {}
    BY <2>1 DEF FactsHostOK
  <2>5. IF mine = {} THEN PrimaryIP(host) = None ELSE PrimaryIP(host) \in {a.addr : a \in mine}
    BY <2>1, PrimaryIsThere
  <2> QED BY <2>3, <2>4, <2>5 DEF PrimaryIPIsOfTheDefault
<1>2. CollectorsInv => PrimaryIPIsOfTheDefault
  BY <1>1 DEF PrimaryIPIsOfTheDefault
<1> QED BY <1>2, CollectorsInvHolds, PTL

\* A reader of the flat map and of the event is shown what the facts hold.
THEOREM ViewsKeepFactsHolds == Spec => []ViewsKeepFacts
BY FlatKeepsLeavesHolds, PrimaryIPIsOfTheDefaultHolds, PTL DEF ViewsKeepFacts

----------------------------------------------------------------------------
\* What is in the hardware collector's result, by the report it is of.

LEMMA HardwarePart ==
  ASSUME NEW items
  PROVE  /\ DOMAIN ApplyHardware(NoHardware, items) = DOMAIN NoHardware
         /\ ApplyHardware(NoHardware, items).Machine = IF items = <<>> THEN None ELSE items[1].machine
<1>1. CASE items = <<>>
  BY <1>1 DEF ApplyHardware, NoHardware
<1>2. CASE items # <<>>
  BY <1>2 DEF ApplyHardware, NoHardware
<1> QED BY <1>1, <1>2

LEMMA StoragePart ==
  ASSUME NEW info, NEW items, DOMAIN info = DOMAIN NoHardware
  PROVE  /\ DOMAIN ApplyStorage(info, items) = DOMAIN NoHardware
         /\ DOMAIN ApplyStorage(info, items).Storage = DOMAIN items
         /\ ApplyStorage(info, items).Machine = info.Machine
BY DEF ApplyStorage, NoHardware

LEMMA PowerPart ==
  ASSUME NEW info, NEW items, DOMAIN info = DOMAIN NoHardware
  PROVE  /\ ApplyPower(info, items).Battery = {ParseBattery(i) : i \in LastNamed(items, "battery")}
         /\ ApplyPower(info, items).Machine = info.Machine
         /\ ApplyPower(info, items).Storage = info.Storage
BY DEF ApplyPower, NoHardware

\* A sequence is empty if and only if it has no place.
LEMMA EmptyHasNoPlace ==
  ASSUME NEW s, s \in Seq(Range(s))
  PROVE  s = <<>> <=> DOMAIN s = {}
<1>1. DOMAIN s = 1 .. Len(s) /\ Len(s) \in Nat
  OBVIOUS
<1>2. s = <<>> <=> Len(s) = 0
  BY EmptySeq
<1>3. \A n \in Nat : 1 .. n = {} <=> n = 0
  <2>1. ASSUME NEW n \in Nat, n # 0 PROVE 1 \in 1 .. n
    BY <2>1
  <2>2. 1 .. 0 = {}
    OBVIOUS
  <2> QED BY <2>1, <2>2
<1>4. DOMAIN s = {} <=> Len(s) = 0
  BY Zenon, <1>1, <1>3
<1> QED BY <1>2, <1>4

\* The item of a name is one of the items, and has it.
LEMMA LastNamedIsThere ==
  ASSUME NEW items, items \in Seq(Range(items)), NEW n
  PROVE  LET at == {k \in DOMAIN items : items[k].name = n}
         IN /\ LastNamed(items, n) = Nil <=> at = {}
            /\ at # {} => LastNamed(items, n) = {items[Max(at)]} /\ Max(at) \in at
<1> DEFINE at == {k \in DOMAIN items : items[k].name = n}
<1>1. at \in SUBSET (0 .. Len(items)) /\ Len(items) \in Nat
  OBVIOUS
<1>2. LastNamed(items, n) = IF at = {} THEN {} ELSE {items[Max(at)]}
  BY DEF LastNamed, Nil
<1> HIDE DEF at
<1>3. at # {} => Max(at) \in at
  BY <1>1, MaxIsGreatest
<1>4. /\ LastNamed(items, n) = Nil <=> at = {}
      /\ at # {} => LastNamed(items, n) = {items[Max(at)]} /\ Max(at) \in at
  BY <1>2, <1>3 DEF Nil
<1> QED BY <1>4 DEF at

\* What a number of an item is read as: a value that is said of it at one of its two
\* places and can be read, or 0 if there is none.
SaidOf(item, nested, key) ==
    {m[key].n : m \in {m \in {nested, item} : key \in DOMAIN m /\ m[key].t # "word"}}

LEMMA FirstIntIsSaid ==
  ASSUME NEW item, NEW nested, NEW key
  PROVE  LET said == SaidOf(item, nested, key)
         IN FirstInt(item, nested, key) \in said \/ (said = {} /\ FirstInt(item, nested, key) = 0)
<1> DEFINE In(m) == key \in DOMAIN m /\ m[key].t # "word"
           found == First(Readable(item), Readable(nested), key)
           said == SaidOf(item, nested, key)
<1>1. ASSUME NEW m
      PROVE  (key \in DOMAIN Readable(m) <=> In(m)) /\ (In(m) => Readable(m)[key] = m[key])
  BY DEF Readable, Restrict
<1>2. FirstInt(item, nested, key) = IF found = {} THEN 0 ELSE (CHOOSE v \in found : TRUE).n
  BY DEF FirstInt
<1>3. CASE In(item)
  <2>1. found = {item[key]}
    BY <1>1, <1>3 DEF First
  <2>2. FirstInt(item, nested, key) = item[key].n
    BY <1>2, <2>1
  <2> QED BY <1>3, <2>2 DEF SaidOf
<1>4. CASE ~ In(item) /\ In(nested)
  <2>1. found = {nested[key]}
    BY <1>1, <1>4 DEF First
  <2>2. FirstInt(item, nested, key) = nested[key].n
    BY <1>2, <2>1
  <2> QED BY <1>4, <2>2 DEF SaidOf
<1>5. CASE ~ In(item) /\ ~ In(nested)
  <2>1. found = {}
    BY <1>1, <1>5 DEF First
  <2>2. FirstInt(item, nested, key) = 0
    BY <1>2, <2>1
  <2>3. said = {}
    BY <1>5 DEF SaidOf
  <2> QED BY <2>2, <2>3
<1> QED BY <1>3, <1>4, <1>5

\* What is left of a battery is a share of its maximum.
LEMMA ShareIsBounded ==
  ASSUME NEW a \in Nat, NEW b \in Nat, a =< b, b > 0
  PROVE  (a * 100) \div b =< 100
OBVIOUS

\* The disks of a report that has none are none.
LEMMA StorageIsOfItsReport ==
  ASSUME NEW items, items \in Seq(Range(items)), NEW info, DOMAIN info = DOMAIN NoHardware
  PROVE  ApplyStorage(info, items).Storage = <<>> <=> items = <<>>
<1> DEFINE storage == ApplyStorage(info, items).Storage
<1>1. items = <<>> <=> DOMAIN items = {}
  BY EmptyHasNoPlace
<1>2. DOMAIN <<>> = {}
  OBVIOUS
<1>3. DOMAIN storage = DOMAIN items
  BY StoragePart
<1>4. ASSUME DOMAIN storage = {} PROVE storage = <<>>
  <2>1. storage = [k \in DOMAIN storage |-> storage[k]]
    BY Zenon DEF ApplyStorage, NoHardware
  <2>2. [k \in {} |-> storage[k]] = <<>>
    OBVIOUS
  <2> QED BY <1>4, <2>1, <2>2
<1> QED BY <1>1, <1>2, <1>3, <1>4

LEMMA HardwareParts ==
  ASSUME NEW out, out["storage"] \in Seq(Range(out["storage"]))
  PROVE  /\ HardwareInfo(out).Machine = IF out["hardware"] = <<>> THEN None ELSE out["hardware"][1].machine
         /\ HardwareInfo(out).Storage = <<>> <=> out["storage"] = <<>>
         /\ HardwareInfo(out).Battery = {ParseBattery(i) : i \in LastNamed(out["power"], "battery")}
<1> DEFINE hw == ApplyHardware(NoHardware, out["hardware"])
           st == ApplyStorage(hw, out["storage"])
<1>1. DOMAIN hw = DOMAIN NoHardware /\ hw.Machine = IF out["hardware"] = <<>> THEN None ELSE out["hardware"][1].machine
  BY HardwarePart
<1>2. HardwareInfo(out) = ApplyPower(st, out["power"])
  BY DEF HardwareInfo
<1> HIDE DEF hw
<1>3. DOMAIN st = DOMAIN NoHardware /\ st.Machine = hw.Machine
  BY <1>1, StoragePart
<1>4. st.Storage = <<>> <=> out["storage"] = <<>>
  BY <1>1, StorageIsOfItsReport
<1> HIDE DEF st
<1>5. /\ ApplyPower(st, out["power"]).Battery = {ParseBattery(i) : i \in LastNamed(out["power"], "battery")}
      /\ ApplyPower(st, out["power"]).Machine = st.Machine
      /\ ApplyPower(st, out["power"]).Storage = st.Storage
  BY <1>3, PowerPart
<1> QED BY <1>1, <1>2, <1>3, <1>4, <1>5

\* The host of a hardware collector, and what its reports are.
LEMMA ReportsHaveTypes ==
  ASSUME HardwareHostOK(host)
  PROVE  /\ DOMAIN Answers = Reports
         /\ \A r \in Reports : Answers[r] \in Seq(Range(Answers[r]))
         /\ \A r \in Reports : Answers[r] # <<>> <=> host.probe[r].ok /\ host.probe[r].out # <<>>
         /\ \A r \in Reports : Answers[r] # <<>> => Answers[r] = host.probe[r].out
<1>1. DOMAIN host.probe = Reports /\ \A r \in Reports : host.probe[r].ok => host.probe[r].out \in Seq(Range(host.probe[r].out))
  BY DEF HardwareHostOK
<1>2. <<>> \in Seq(Range(<<>>))
  BY EmptySeq
<1>3. ASSUME NEW r \in Reports PROVE Answers[r] = IF host.probe[r].ok THEN host.probe[r].out ELSE <<>>
  BY <1>1 DEF Answers, Empty
<1>4. ASSUME NEW r \in Reports
      PROVE  /\ Answers[r] \in Seq(Range(Answers[r]))
             /\ Answers[r] # <<>> <=> host.probe[r].ok /\ host.probe[r].out # <<>>
             /\ Answers[r] # <<>> => Answers[r] = host.probe[r].out
  <2>1. CASE host.probe[r].ok
    BY <2>1, <1>1, <1>3
  <2>2. CASE ~ host.probe[r].ok
    BY <2>2, <1>2, <1>3
  <2> QED BY <2>1, <2>2
<1>5. DOMAIN Answers = Reports
  BY <1>1 DEF Answers
<1> QED BY <1>4, <1>5

\* The battery is there if and only if the report of it has an item of that name.
LEMMA BatteryIsThere ==
  ASSUME NEW items, items \in Seq(Range(items))
  PROVE  {ParseBattery(i) : i \in LastNamed(items, "battery")} # Nil <=> \E i \in Range(items) : i.name = "battery"
<1> DEFINE at == {k \in DOMAIN items : items[k].name = "battery"}
<1>1. LastNamed(items, "battery") = Nil <=> at = {}
  BY LastNamedIsThere
<1>2. at # {} <=> \E i \in Range(items) : i.name = "battery"
  BY DEF Range
<1> QED BY <1>1, <1>2 DEF Nil

LEMMA ReportsApart ==
  ASSUME HardwareHostOK(host), facts.info = HardwareInfo(Answers)
  PROVE  ReportsAreIndependent
<1> DEFINE Has(r) == host.probe[r].ok /\ host.probe[r].out # <<>>
<1>1. \A r \in Reports : Answers[r] \in Seq(Range(Answers[r]))
  BY ReportsHaveTypes
<1>2. \A r \in Reports : (Answers[r] # <<>> <=> Has(r)) /\ (Answers[r] # <<>> => Answers[r] = host.probe[r].out)
  BY ReportsHaveTypes
<1>3. {"hardware", "storage", "power"} \subseteq Reports
  BY DEF Reports
<1>4. /\ facts.info.Machine = IF Answers["hardware"] = <<>> THEN None ELSE Answers["hardware"][1].machine
      /\ facts.info.Storage = <<>> <=> Answers["storage"] = <<>>
      /\ facts.info.Battery = {ParseBattery(i) : i \in LastNamed(Answers["power"], "battery")}
  BY <1>1, <1>3, HardwareParts
<1>5. Has("hardware") <=> facts.info.Machine # None
  <2>1. ASSUME Has("hardware") PROVE Answers["hardware"][1].machine # None
    <3>1. Answers["hardware"] = host.probe["hardware"].out
      BY <2>1, <1>2, <1>3
    <3>2. 1 \in DOMAIN Answers["hardware"]
      BY <1>1, <1>2, <1>3, <2>1, EmptySeq
    <3>3. Answers["hardware"][1] \in Range(Answers["hardware"])
      BY <3>2 DEF Range
    <3> QED BY <2>1, <3>1, <3>3 DEF HardwareHostOK
  <2> QED BY <2>1, <1>2, <1>3, <1>4
<1>6. Has("storage") <=> facts.info.Storage # <<>>
  BY <1>2, <1>3, <1>4
<1>7. (Has("power") /\ \E i \in Range(host.probe["power"].out) : i.name = "battery") <=> facts.info.Battery # Nil
  <2>1. facts.info.Battery # Nil <=> \E i \in Range(Answers["power"]) : i.name = "battery"
    BY <1>1, <1>3, <1>4, BatteryIsThere
  <2>2. Range(<<>>) = {}
    BY DEF Range
  <2>3. CASE Has("power")
    BY <2>1, <2>3, <1>2, <1>3
  <2>4. CASE ~ Has("power")
    <3>1. Answers["power"] = <<>>
      BY <2>4, <1>2, <1>3
    <3> QED BY <3>1, <2>1, <2>2, <2>4
  <2> QED BY <2>3, <2>4
<1> QED BY <1>5, <1>6, <1>7 DEF ReportsAreIndependent

\* A battery's numbers are said of its item, and what is left is a share.
LEMMA BatteryIsRead ==
  ASSUME NEW item,
         \A m \in {item.leaf, Nested(item, "charge")} : \A k \in DOMAIN m : m[k].n \in Nat
  PROVE  LET b == ParseBattery(item)
             Said(k) == SaidOf(item.leaf, Nested(item, "charge"), k)
         IN /\ b.CurrentCapacity \in Said("current") \/ (Said("current") = {} /\ b.CurrentCapacity = 0)
            /\ b.MaxCapacity \in Said("max") \/ (Said("max") = {} /\ b.MaxCapacity = 0)
            /\ b.CurrentCapacity =< b.MaxCapacity => b.Remaining =< 100
<1> DEFINE charge == Nested(item, "charge")
           cur == FirstInt(item.leaf, charge, "current")
           maxc == FirstInt(item.leaf, charge, "max")
           b == ParseBattery(item)
<1>1. b.CurrentCapacity = cur /\ b.MaxCapacity = maxc /\ b.Remaining = IF maxc > 0 THEN (cur * 100) \div maxc ELSE 0
  BY DEF ParseBattery
<1>2. cur \in SaidOf(item.leaf, charge, "current") \/ (SaidOf(item.leaf, charge, "current") = {} /\ cur = 0)
  BY FirstIntIsSaid
<1>3. maxc \in SaidOf(item.leaf, charge, "max") \/ (SaidOf(item.leaf, charge, "max") = {} /\ maxc = 0)
  BY FirstIntIsSaid
<1>4. ASSUME NEW k PROVE SaidOf(item.leaf, charge, k) \subseteq Nat
  BY DEF SaidOf
<1>5. cur \in Nat /\ maxc \in Nat
  BY <1>2, <1>3, <1>4
<1> HIDE DEF cur, maxc, b
<1>6. b.CurrentCapacity =< b.MaxCapacity => b.Remaining =< 100
  <2>1. CASE maxc > 0
    BY <2>1, <1>1, <1>5, ShareIsBounded
  <2>2. CASE ~ (maxc > 0)
    BY <2>2, <1>1
  <2> QED BY <2>1, <2>2
<1> QED BY <1>1, <1>2, <1>3, <1>6 DEF b

LEMMA BatteryBothPlaces ==
  ASSUME HardwareHostOK(host), facts.info = HardwareInfo(Answers)
  PROVE  BatteryReadsBothPlaces
<1> DEFINE items == Answers["power"]
           at == {k \in DOMAIN items : items[k].name = "battery"}
           item == items[Max(at)]
<1>1. "power" \in Reports /\ "storage" \in Reports
  BY DEF Reports
<1>2. /\ items \in Seq(Range(items))
      /\ items # <<>> => items = host.probe["power"].out /\ host.probe["power"].ok
      /\ Answers["storage"] \in Seq(Range(Answers["storage"]))
  BY <1>1, ReportsHaveTypes
<1>3. facts.info.Battery = {ParseBattery(i) : i \in LastNamed(items, "battery")}
  BY <1>2, HardwareParts
<1>4. at # {} => LastNamed(items, "battery") = {item} /\ Max(at) \in at
  BY <1>2, LastNamedIsThere
<1>5. at = {} => LastNamed(items, "battery") = {}
  BY <1>2, LastNamedIsThere DEF Nil
<1>6. SUFFICES ASSUME Collected("hardware"), NEW b \in facts.info.Battery
      PROVE LET its == host.probe["power"].out
                it == its[Max({k \in DOMAIN its : its[k].name = "battery"})]
                Said(k) == {m[k].n : m \in {m \in {Nested(it, "charge"), it.leaf} : k \in DOMAIN m /\ m[k].t # "word"}}
            IN /\ b.CurrentCapacity \in Said("current") \/ (Said("current") = {} /\ b.CurrentCapacity = 0)
               /\ b.MaxCapacity \in Said("max") \/ (Said("max") = {} /\ b.MaxCapacity = 0)
               /\ b.CurrentCapacity <= b.MaxCapacity => b.Remaining <= 100
  BY DEF BatteryReadsBothPlaces
<1>7. at # {} /\ b = ParseBattery(item) /\ Max(at) \in DOMAIN items
  BY <1>3, <1>4, <1>5, <1>6
<1>8. items # <<>>
  BY <1>2, <1>7, EmptyHasNoPlace
<1>9. items = host.probe["power"].out /\ host.probe["power"].ok
  BY <1>2, <1>8
<1>10. item \in Range(items)
  BY <1>7 DEF Range
<1>11. \A m \in {item.leaf, Nested(item, "charge")} : \A k \in DOMAIN m : m[k].n \in Nat
  BY <1>9, <1>10 DEF HardwareHostOK, Nested
<1> DEFINE it == item
<1> HIDE DEF it, items
<1>12. LET Said(k) == SaidOf(it.leaf, Nested(it, "charge"), k)
       IN /\ b.CurrentCapacity \in Said("current") \/ (Said("current") = {} /\ b.CurrentCapacity = 0)
          /\ b.MaxCapacity \in Said("max") \/ (Said("max") = {} /\ b.MaxCapacity = 0)
          /\ b.CurrentCapacity =< b.MaxCapacity => b.Remaining =< 100
  BY <1>7, <1>11, BatteryIsRead DEF it
<1>13. it = host.probe["power"].out[Max({k \in DOMAIN host.probe["power"].out : host.probe["power"].out[k].name = "battery"})]
  BY <1>9 DEF it
<1> QED BY <1>12, <1>13 DEF SaidOf

\* What the macOS hardware collector reports of a report that failed, or came late, is
\* nothing, of the others all; and a number of the battery that can be read arrives.
THEOREM ReportsAreWholeHolds == Spec => []ReportsAreWhole
<1>1. ASSUME CollectorsInv, ~ Collected("hardware") PROVE ReportsAreWhole
  BY <1>1 DEF ReportsAreWhole, ReportsAreIndependent, BatteryReadsBothPlaces
<1>2. ASSUME CollectorsInv, Collected("hardware") PROVE ReportsAreWhole
  <2>1. HardwareHostOK(host)
    BY <1>2, HostsAreTheirOwn DEF CollectorsInv, HardwareOK
  <2>2. CASE facts.info = HardwareInfo(Answers)
    BY <2>1, <2>2, ReportsApart, BatteryBothPlaces DEF ReportsAreWhole
  <2>3. CASE facts.info = NoHardware /\ ~ host.darwin
    <3>1. facts.info.Battery = {}
      BY <2>3 DEF NoHardware, Nil
    <3> QED BY <2>3, <3>1 DEF ReportsAreWhole, ReportsAreIndependent, BatteryReadsBothPlaces
  <2> QED BY <1>2, <2>2, <2>3 DEF CollectorsInv, HardwareOK
<1>3. CollectorsInv => ReportsAreWhole
  BY <1>1, <1>2
<1> QED BY <1>3, CollectorsInvHolds, PTL

----------------------------------------------------------------------------
\* The layout of processors.

\* A number of the layout is one: that of its last line, or 0.
LEMMA LayoutNumbers ==
  ASSUME NEW lines, lines \in Seq(Range(lines)),
         \A l \in Range(lines) : l.key \in Layout => l.val \in Nat,
         NEW key \in Layout
  PROVE  Value(lines, key, 0) \in Nat
<1> DEFINE at == {k \in DOMAIN lines : lines[k].key = key}
<1>1. at \in SUBSET (0 .. Len(lines)) /\ Len(lines) \in Nat
  OBVIOUS
<1>2. Value(lines, key, 0) = IF at = {} THEN 0 ELSE lines[Max(at)].val
  BY DEF Value
<1> HIDE DEF at
<1>3. CASE at = {}
  BY <1>2, <1>3
<1>4. CASE at # {}
  <2>1. Max(at) \in at
    BY <1>1, <1>4, MaxIsGreatest
  <2>2. lines[Max(at)] \in Range(lines) /\ lines[Max(at)].key = key
    BY <2>1 DEF at, Range
  <2> QED BY <1>2, <1>4, <2>2
<1> QED BY <1>3, <1>4

LEMMA NonZeroIsPositive == ASSUME NEW n \in Nat PROVE NonZero(n) \in Nat \ {0} /\ (n # 0 => NonZero(n) = n)
BY DEF NonZero

LEMMA ProductIsMultiple == ASSUME NEW a \in Nat \ {0}, NEW b \in Nat PROVE (a * b) % a = 0
OBVIOUS

LEMMA ProductIsPositive == ASSUME NEW a \in Nat \ {0}, NEW b \in Nat \ {0} PROVE a * b \in Nat \ {0}
OBVIOUS

Counted3 == {"Count", "Cores", "Sockets"}

\* What the architectures' layouts make of the three numbers.
LEMMA LayoutParts ==
  ASSUME NEW info, Counted3 \subseteq DOMAIN info, NEW number, NEW arch
  PROVE  LET out == ApplyLayout(info, number, arch) IN
         /\ arch \notin {"s390x", "ppc64le"} => out = info
         /\ arch = "s390x" =>
              /\ out.Cores = NonZero(number["socketsPerBook"]) * NonZero(number["coresPerSocket"])
                             * NonZero(number["booksPerDrawer"]) * NonZero(number["drawers"])
              /\ out.Count = out.Cores * NonZero(number["threadsPerCore"])
              /\ number["socketsPerBook"] > 0 => out.Sockets = number["socketsPerBook"]
         /\ arch = "ppc64le" =>
              /\ out.Cores = NonZero(number["sockets"]) * NonZero(number["coresPerSocket"])
              /\ out.Count = out.Cores * NonZero(number["threadsPerCore"])
              /\ number["sockets"] > 0 => out.Sockets = number["sockets"]
<1> DEFINE With(cores, count, sockets) ==
             [info EXCEPT !.Count = count, !.Cores = cores, !.Sockets = IF sockets > 0 THEN sockets ELSE @]
<1>1. ASSUME NEW cores, NEW count, NEW sockets
      PROVE  /\ With(cores, count, sockets).Cores = cores
             /\ With(cores, count, sockets).Count = count
             /\ sockets > 0 => With(cores, count, sockets).Sockets = sockets
  BY DEF Counted3
<1>2. CASE arch \notin {"s390x", "ppc64le"}
  BY <1>2 DEF ApplyLayout
<1>3. CASE arch = "s390x"
  <2> DEFINE cores == NonZero(number["socketsPerBook"]) * NonZero(number["coresPerSocket"])
                      * NonZero(number["booksPerDrawer"]) * NonZero(number["drawers"])
  <2>1. ApplyLayout(info, number, arch) = With(cores, cores * NonZero(number["threadsPerCore"]), number["socketsPerBook"])
    BY Zenon, <1>3 DEF ApplyLayout
  <2> HIDE DEF cores, With
  <2>2. /\ ApplyLayout(info, number, arch).Cores = cores
        /\ ApplyLayout(info, number, arch).Count = cores * NonZero(number["threadsPerCore"])
        /\ number["socketsPerBook"] > 0 => ApplyLayout(info, number, arch).Sockets = number["socketsPerBook"]
    BY <1>1, <2>1
  <2> QED BY Zenon, <1>3, <2>2 DEF cores
<1>4. CASE arch = "ppc64le"
  <2> DEFINE cores == NonZero(number["sockets"]) * NonZero(number["coresPerSocket"])
  <2>1. ApplyLayout(info, number, arch) = With(cores, cores * NonZero(number["threadsPerCore"]), number["sockets"])
    BY Zenon, <1>4 DEF ApplyLayout
  <2> HIDE DEF cores, With
  <2>2. /\ ApplyLayout(info, number, arch).Cores = cores
        /\ ApplyLayout(info, number, arch).Count = cores * NonZero(number["threadsPerCore"])
        /\ number["sockets"] > 0 => ApplyLayout(info, number, arch).Sockets = number["sockets"]
    BY <1>1, <2>1
  <2> QED BY Zenon, <1>4, <2>2 DEF cores
<1> QED BY <1>2, <1>3, <1>4

\* The two numbers as gopsutil has them.
Logical(h) == IF h.logical.ok THEN h.logical.out ELSE 0
Physical(h) == FoldLeft(LAMBDA n, s : n + s.cores, 0, h.stats.out)

\* Apart from the layout lscpu leaves the numbers as gopsutil has them.
LEMMA LscpuLaysOut ==
  ASSUME NEW h, h.lscpu.ok
  PROVE  \E with : /\ Counted3 \subseteq DOMAIN with
                   /\ with.Count = Logical(h) /\ with.Cores = Physical(h)
                   /\ LinuxCPU(h) = ApplyLayout(with, [k \in Layout |-> Value(h.lscpu.out, k, 0)],
                                                Value(h.lscpu.out, "architecture", None))
<1> DEFINE lines == h.lscpu.out
           base == [ReadCPU(h) EXCEPT !.Vulnerabilities = ReadVulnerabilities(h)]
           with == [base EXCEPT !.Cache = Value(lines, "cache", None), !.Text = Value(lines, "text", None),
                                !.NumaNodes = NumaNodes(lines),
                                !.Online = Len(ParseCPURange(Value(lines, "online", <<>>))),
                                !.Offline = Len(ParseCPURange(Value(lines, "offline", <<>>)))]
<1>1. ReadCPU(h).Count = Logical(h) /\ ReadCPU(h).Cores = Physical(h)
  BY Zenon DEF ReadCPU, Logical, Physical
<1>2. Counted3 \subseteq DOMAIN ReadCPU(h)
  BY Zenon DEF ReadCPU, Counted3
<1>3. LinuxCPU(h) = ApplyLayout(with, [k \in Layout |-> Value(lines, k, 0)], Value(lines, "architecture", None))
  BY Zenon DEF LinuxCPU, ApplyLscpu
<1>4. ASSUME NEW r, NEW v, Counted3 \subseteq DOMAIN r
      PROVE  /\ Counted3 \subseteq DOMAIN [r EXCEPT !.Vulnerabilities = v]
             /\ [r EXCEPT !.Vulnerabilities = v].Count = r.Count /\ [r EXCEPT !.Vulnerabilities = v].Cores = r.Cores
  BY <1>4 DEF Counted3
<1>5. Counted3 \subseteq DOMAIN base /\ base.Count = Logical(h) /\ base.Cores = Physical(h)
  BY <1>1, <1>2, <1>4
<1> HIDE DEF base
<1>6. Counted3 \subseteq DOMAIN with /\ with.Count = base.Count /\ with.Cores = base.Cores
  BY <1>5 DEF Counted3
<1> HIDE DEF with
<1> QED BY <1>3, <1>5, <1>6

\* On the two architectures whose layout is computed the processors are a multiple of
\* the cores and the cores of the sockets, whatever lscpu prints of it; on others the
\* two numbers are gopsutil's.
THEOREM LayoutNestsHolds == Spec => []LayoutNests
<1>1. ASSUME CollectorsInv, Collected("cpu"), ~ host.darwin, host.lscpu.ok PROVE LayoutNests
  <2> DEFINE lines == host.lscpu.out
             arch == Value(lines, "architecture", None)
             number == [k \in Layout |-> Value(lines, k, 0)]
             info == facts.info
             given == {key \in Layout : Value(lines, key, 0) # 0}
  <2>1. CpuHostOK(host) /\ info = LinuxCPU(host)
    BY <1>1, HostsAreTheirOwn DEF CollectorsInv, CpuOK
  <2>2. lines \in Seq(Range(lines)) /\ \A l \in Range(lines) : l.key \in Layout => l.val \in Nat
    BY <2>1, <1>1 DEF CpuHostOK
  <2>3. ASSUME NEW k \in Layout PROVE number[k] \in Nat /\ number[k] = Value(lines, k, 0)
    BY <2>2, <2>3, LayoutNumbers
  <2>4. PICK with : /\ Counted3 \subseteq DOMAIN with
                    /\ with.Count = Logical(host) /\ with.Cores = Physical(host)
                    /\ LinuxCPU(host) = ApplyLayout(with, number, arch)
    BY <1>1, LscpuLaysOut
  <2> HIDE DEF number, arch
  <2>5. /\ arch \notin {"s390x", "ppc64le"} => info = with
        /\ arch = "s390x" =>
             /\ info.Cores = NonZero(number["socketsPerBook"]) * NonZero(number["coresPerSocket"])
                             * NonZero(number["booksPerDrawer"]) * NonZero(number["drawers"])
             /\ info.Count = info.Cores * NonZero(number["threadsPerCore"])
             /\ number["socketsPerBook"] > 0 => info.Sockets = number["socketsPerBook"]
        /\ arch = "ppc64le" =>
             /\ info.Cores = NonZero(number["sockets"]) * NonZero(number["coresPerSocket"])
             /\ info.Count = info.Cores * NonZero(number["threadsPerCore"])
             /\ number["sockets"] > 0 => info.Sockets = number["sockets"]
    BY <2>1, <2>4, LayoutParts
  <2>6. ASSUME NEW k \in Layout PROVE NonZero(number[k]) \in Nat \ {0} /\ (number[k] # 0 => NonZero(number[k]) = number[k])
    BY <2>3, NonZeroIsPositive
  <2> DEFINE n(k) == NonZero(number[k])
  <2>7. /\ n("socketsPerBook") \in Nat \ {0} /\ n("coresPerSocket") \in Nat \ {0} /\ n("booksPerDrawer") \in Nat \ {0}
        /\ n("drawers") \in Nat \ {0} /\ n("threadsPerCore") \in Nat \ {0} /\ n("sockets") \in Nat \ {0}
    BY <2>6 DEF Layout
  <2> HIDE DEF info, given
  <2>8. CASE arch \notin {"s390x", "ppc64le"}
    <3>1. info.Count = (IF host.logical.ok THEN host.logical.out ELSE 0)
      BY <2>4, <2>5, <2>8 DEF Logical
    <3>2. info.Cores = Physical(host)
      BY <2>4, <2>5, <2>8
    <3> QED BY Zenon, <2>8, <3>1, <3>2 DEF LayoutNests, Physical, info, arch
  <2>9. CASE arch = "s390x"
    <3> DEFINE rest == n("coresPerSocket") * n("booksPerDrawer") * n("drawers")
    <3>1. n("coresPerSocket") * n("booksPerDrawer") \in Nat \ {0}
      BY <2>7, ProductIsPositive
    <3>2. rest \in Nat \ {0}
      BY <2>7, <3>1, ProductIsPositive
    <3>3. info.Cores = n("socketsPerBook") * rest
      BY <2>5, <2>7, <2>9
    <3> HIDE DEF rest, n
    <3>4. info.Cores \in Nat \ {0}
      BY <2>7, <3>2, <3>3, ProductIsPositive
    <3>5. info.Count % info.Cores = 0
      BY <2>5, <2>7, <2>9, <3>4, ProductIsMultiple DEF n
    <3>6. ASSUME "socketsPerBook" \in given PROVE info.Cores % info.Sockets = 0
      <4>1. number["socketsPerBook"] # 0 /\ number["socketsPerBook"] \in Nat
        BY <3>6, <2>3 DEF given
      <4>2. info.Sockets = number["socketsPerBook"] /\ n("socketsPerBook") = number["socketsPerBook"]
        BY <4>1, <2>5, <2>6, <2>9 DEF n, Layout
      <4> QED BY <4>1, <4>2, <3>2, <3>3, ProductIsMultiple
    <3> QED BY <2>9, <3>5, <3>6 DEF LayoutNests, info, arch, given
  <2>10. CASE arch = "ppc64le"
    <3>1. info.Cores = n("sockets") * n("coresPerSocket")
      BY <2>5, <2>10
    <3> HIDE DEF n
    <3>2. info.Cores \in Nat \ {0}
      BY <2>7, <3>1, ProductIsPositive
    <3>3. info.Count % info.Cores = 0
      BY <2>5, <2>7, <2>10, <3>2, ProductIsMultiple DEF n
    <3>4. ASSUME "sockets" \in given PROVE info.Cores % info.Sockets = 0
      <4>1. number["sockets"] # 0 /\ number["sockets"] \in Nat
        BY <3>4, <2>3 DEF given
      <4>2. info.Sockets = number["sockets"] /\ n("sockets") = number["sockets"]
        BY <4>1, <2>5, <2>6, <2>10 DEF n, Layout
      <4> QED BY <4>1, <4>2, <2>7, <3>1, ProductIsMultiple
    <3> QED BY <2>10, <3>3, <3>4 DEF LayoutNests, info, arch, given
  <2> QED BY <2>8, <2>9, <2>10
<1>2. CollectorsInv => LayoutNests
  BY <1>1 DEF LayoutNests
<1> QED BY <1>2, CollectorsInvHolds, PTL

----------------------------------------------------------------------------
\* The name of the host.

Definite(t) == t.lookup \in {"empty", "notfound"} \/ (t.lookup = "ok" /\ t.reverse \in {"empty", "notfound"})

\* An attempt resolves the host, or says for good that it cannot, or may be repeated.
LEMMA AttemptsEndThreeWays ==
  ASSUME NEW t, t.lookup \in Outcomes, t.reverse \in Outcomes
  PROVE  /\ Transient(t) <=> ~ Definite(t) /\ ~ Resolved(t)
         /\ ~ (Definite(t) /\ Resolved(t))
BY DEF Transient, Definite, Resolved, Outcomes

\* A sequence is its head before its rest.
LEMMA HeadAndRest ==
  ASSUME NEW S, NEW s \in Seq(S), s # <<>>
  PROVE  s = <<s[1]>> \o Tail(s)
<1>1. Len(s) \in Nat \ {0}
  BY EmptySeq
<1>2. SubSeq(s, 1, Len(s)) = s
  BY <1>1
<1>3. SubSeq(s, 1, Len(s)) = <<s[1]>> \o SubSeq(s, 2, Len(s))
  <2>1. 1 \in 1 .. Len(s) /\ Len(s) \in 1 .. Len(s)
    BY <1>1
  <2>2. SubSeq(s, 1, Len(s)) = <<s[1]>> \o SubSeq(s, 1 + 1, Len(s))
    BY <2>1, SubSeqRecursiveFirst
  <2> QED BY <2>2
<1>4. Tail(s) = SubSeq(s, 2, Len(s))
  BY TailIsSubSeq
<1> QED BY <1>2, <1>3, <1>4

\* The attempt that decides is the first that can.
LEMMA FirstDecides ==
  ASSUME NEW tries, DOMAIN tries = 1 .. 3,
         \A k \in 1 .. 3 : tries[k].lookup \in Outcomes /\ tries[k].reverse \in Outcomes
  PROVE  LET decided == {k \in DOMAIN tries : ~ Transient(tries[k])}
             Winner(k) == Resolved(tries[k]) /\ \A j \in 1..(k - 1) : ~ Definite(tries[j]) /\ ~ Resolved(tries[j])
         IN /\ \A k \in DOMAIN tries : Winner(k) => decided # {} /\ Min(decided) = k
            /\ decided # {} => Min(decided) \in DOMAIN tries
            /\ decided # {} /\ Resolved(tries[Min(decided)]) => Winner(Min(decided))
<1> DEFINE decided == {k \in DOMAIN tries : ~ Transient(tries[k])}
           Winner(k) == Resolved(tries[k]) /\ \A j \in 1..(k - 1) : ~ Definite(tries[j]) /\ ~ Resolved(tries[j])
<1>1. \A k \in 1 .. 3 : (k \in decided <=> Definite(tries[k]) \/ Resolved(tries[k]))
                        /\ ~ (Definite(tries[k]) /\ Resolved(tries[k]))
  BY AttemptsEndThreeWays
<1>2. decided \in SUBSET Nat /\ decided \subseteq 1 .. 3
  OBVIOUS
<1> HIDE DEF decided
<1>3. decided # {} => Min(decided) \in decided /\ \A k \in decided : Min(decided) =< k
  BY <1>2, MinIsLeast
<1>4. ASSUME NEW k \in 1 .. 3, Winner(k) PROVE decided # {} /\ Min(decided) = k
  <2>1. k \in decided
    BY <1>1, <1>4
  <2>2. Min(decided) \in 1 .. 3 /\ Min(decided) \in decided /\ Min(decided) =< k
    BY <1>2, <1>3, <2>1
  <2>3. ~ (Min(decided) < k)
    <3>1. ASSUME Min(decided) < k PROVE FALSE
      <4>1. Min(decided) \in 1 .. (k - 1)
        BY <2>2, <3>1
      <4>2. ~ Definite(tries[Min(decided)]) /\ ~ Resolved(tries[Min(decided)])
        BY <1>4, <4>1
      <4> QED BY <1>1, <2>2, <4>2
    <3> QED BY <3>1
  <2> QED BY <2>1, <2>2, <2>3
<1>5. ASSUME decided # {}, Resolved(tries[Min(decided)]) PROVE Winner(Min(decided))
  <2>1. Min(decided) \in 1 .. 3 /\ \A k \in decided : Min(decided) =< k
    BY <1>2, <1>3, <1>5
  <2>2. ASSUME NEW j \in 1 .. (Min(decided) - 1) PROVE ~ Definite(tries[j]) /\ ~ Resolved(tries[j])
    <3>1. j \in 1 .. 3 /\ ~ (Min(decided) =< j)
      BY <2>1
    <3>2. j \notin decided
      BY <2>1, <3>1
    <3> QED BY <1>1, <3>1, <3>2
  <2> QED BY <1>5, <2>2
<1>6. decided # {} => Min(decided) \in DOMAIN tries
  BY <1>2, <1>3
<1> QED BY <1>4, <1>5, <1>6 DEF decided

\* An attempt to resolve the host that failed for now costs no name: the answer of the
\* first attempt that is definite counts, whichever of the two lookups failed before.
THEOREM TransientErrorsAreRetriedHolds == Spec => []TransientErrorsAreRetried
<1>1. ASSUME CollectorsInv, Collected("hostname"), facts.info.name # <<>> PROVE TransientErrorsAreRetried
  <2> DEFINE tries == host.tries
             decided == {k \in DOMAIN tries : ~ Transient(tries[k])}
             Winner(k) == Resolved(tries[k]) /\ \A j \in 1..(k - 1) : ~ Definite(tries[j]) /\ ~ Resolved(tries[j])
             short == ShortName(host)
             found == decided # {} /\ Resolved(tries[Min(decided)])
  <2>1. IdentityHostOK(host) /\ host.of = "hostname"
    BY <1>1, HostsAreTheirOwn DEF CollectorsInv, HostnameOK
  <2>2. DOMAIN tries = 1 .. 3 /\ \A t \in Range(tries) :
           t.lookup \in Outcomes /\ t.reverse \in Outcomes /\ t.name \in Seq(Range(t.name))
    BY <2>1 DEF IdentityHostOK
  <2>3. \A k \in 1 .. 3 : tries[k].lookup \in Outcomes /\ tries[k].reverse \in Outcomes
                          /\ tries[k].name \in Seq(Range(tries[k].name))
    BY <2>2 DEF Range
  <2>4. facts.info.name = short /\ facts.info.fqdn = CanonicalFQDN(short, tries).fqdn
        /\ facts.info.domain = CanonicalFQDN(short, tries).domain
    BY <1>1 DEF CollectorsInv, HostnameOK
  <2>5. short # <<>>
    BY <1>1, <2>4
  <2> HIDE DEF short
  <2>6. CanonicalFQDN(short, tries) = IF found THEN [fqdn |-> tries[Min(decided)].name,
                                                     domain |-> DomainOf(tries[Min(decided)].name)]
                                      ELSE [fqdn |-> short, domain |-> <<>>]
    BY <2>5 DEF CanonicalFQDN
  <2>7. /\ \A k \in DOMAIN tries : Winner(k) => decided # {} /\ Min(decided) = k
        /\ decided # {} => Min(decided) \in DOMAIN tries
        /\ decided # {} /\ Resolved(tries[Min(decided)]) => Winner(Min(decided))
    BY <2>2, <2>3, FirstDecides
  <2> HIDE DEF decided
  <2>8. ASSUME NEW k \in DOMAIN tries, Winner(k) PROVE facts.info.fqdn = tries[k].name
    BY <2>4, <2>6, <2>7, <2>8
  <2>9. ASSUME \A k \in DOMAIN tries : ~ Winner(k) PROVE facts.info.fqdn = facts.info.name /\ facts.info.domain = <<>>
    <3>1. ~ found
      BY <2>7, <2>9
    <3> QED BY <2>4, <2>6, <3>1
  <2>10. ASSUME facts.info.domain # <<>> PROVE facts.info.fqdn = <<facts.info.fqdn[1]>> \o facts.info.domain
    <3> DEFINE name == tries[Min(decided)].name
    <3>1. found
      BY <2>4, <2>6, <2>10
    <3>2. facts.info.fqdn = name /\ facts.info.domain = DomainOf(name)
      BY <2>4, <2>6, <3>1
    <3>3. name \in Seq(Range(name))
      BY <2>2, <2>3, <2>7, <3>1
    <3> HIDE DEF name
    <3>4. name # <<>> /\ facts.info.domain = Tail(name)
      BY <2>10, <3>2 DEF DomainOf
    <3>5. name = <<name[1]>> \o Tail(name)
      BY <3>3, <3>4, HeadAndRest
    <3> QED BY <3>2, <3>4, <3>5
  <2> QED BY <2>8, <2>9, <2>10 DEF TransientErrorsAreRetried, Definite
<1>2. CollectorsInv => TransientErrorsAreRetried
  BY <1>1 DEF TransientErrorsAreRetried
<1> QED BY <1>2, CollectorsInvHolds, PTL

----------------------------------------------------------------------------
\* The platform.

Told4 == {"name", "version", "family", "build"}

\* A name that is there stays there under its canonical form.
LEMMA CanonicalNames ==
  ASSUME NEW p
  PROVE  CanonicalizePlatform(p) = None <=> p = None
<1>1. CASE p \in DOMAIN PlatformIDRemap
  <2>1. p \in {"amzn", "ol", "rhel", "sles"}
    BY <1>1 DEF PlatformIDRemap
  <2>2. CanonicalizePlatform(p) = PlatformIDRemap[p]
    BY <1>1 DEF CanonicalizePlatform, Lookup
  <2>3. PlatformIDRemap[p] \in {"amazon", "oracle", "redhat", "suse"}
    BY <2>1 DEF PlatformIDRemap
  <2> QED BY <2>1, <2>2, <2>3 DEF None
<1>2. CASE p \notin DOMAIN PlatformIDRemap
  BY <1>2 DEF CanonicalizePlatform, Lookup
<1> QED BY <1>1, <1>2

\* The supplement of the release files completes a version, and changes nothing else.
LEMMA SupplementIsOfVersion ==
  ASSUME NEW files, NEW info, DOMAIN info = Told4
  PROVE  LET out == ApplyRedhatReleaseSupplement(files, info)
             found == Completions(files, info.name, info.version)
         IN /\ DOMAIN out = Told4 /\ out.name = info.name /\ out.family = info.family
            /\ out.version \in IF found = {} THEN {info.version} ELSE found
<1> DEFINE out == ApplyRedhatReleaseSupplement(files, info)
           found == Completions(files, info.name, info.version)
           Redhat == info.name \in MinorVersionDistros /\ Len(info.version) = 1
           Debian == info.name = "debian" /\ info.version = <<>>
           Has(p) == p \in DOMAIN files
           Of(p) == files[p].version
<1>1. ASSUME NEW v
      PROVE  /\ DOMAIN [info EXCEPT !.version = v] = Told4 /\ [info EXCEPT !.version = v].version = v
             /\ [info EXCEPT !.version = v].name = info.name /\ [info EXCEPT !.version = v].family = info.family
  BY DEF Told4
<1>2. \/ /\ Redhat /\ Has("redhat-release") /\ Of("redhat-release") # <<>>
         /\ out = [info EXCEPT !.version = Of("redhat-release")]
      \/ Debian /\ Has("debian_version") /\ out = [info EXCEPT !.version = Of("debian_version")]
      \/ /\ ~ (Redhat /\ Has("redhat-release") /\ Of("redhat-release") # <<>>)
         /\ ~ (Debian /\ Has("debian_version"))
         /\ out = info
  BY DEF ApplyRedhatReleaseSupplement
<1>3. \A w : w \in found <=> \/ Redhat /\ Has("redhat-release") /\ Of("redhat-release") # <<>> /\ w = Of("redhat-release")
                             \/ Debian /\ Has("debian_version") /\ Of("debian_version") # <<>> /\ w = Of("debian_version")
  BY DEF Completions
<1>4. ~ (Redhat /\ Debian)
  BY DEF MinorVersionDistros
<1> HIDE DEF out, found, Redhat, Of, Has
<1>5. DOMAIN out = Told4 /\ out.name = info.name /\ out.family = info.family
  BY <1>1, <1>2
<1>6. out.version \in IF found = {} THEN {info.version} ELSE found
  <2>1. CASE Redhat /\ Has("redhat-release") /\ Of("redhat-release") # <<>> /\ out = [info EXCEPT !.version = Of("redhat-release")]
    BY <1>1, <1>3, <2>1
  <2>2. CASE Debian /\ Has("debian_version") /\ out = [info EXCEPT !.version = Of("debian_version")]
    <3>1. out.version = Of("debian_version") /\ info.version = <<>>
      BY <1>1, <2>2
    <3>2. CASE Of("debian_version") = <<>>
      <4>1. found = {}
        BY <1>3, <1>4, <2>2, <3>2
      <4> QED BY <3>1, <3>2, <4>1
    <3>3. CASE Of("debian_version") # <<>>
      <4>1. out.version \in found
        BY <1>3, <2>2, <3>1, <3>3
      <4> QED BY <4>1
    <3> QED BY <3>2, <3>3
  <2>3. CASE /\ ~ (Redhat /\ Has("redhat-release") /\ Of("redhat-release") # <<>>)
             /\ ~ (Debian /\ Has("debian_version"))
             /\ out = info
    <3>1. found = {}
      BY <1>3, <2>3
    <3> QED BY <2>3, <3>1
  <2> QED BY <1>2, <2>1, <2>2, <2>3
<1> QED BY <1>5, <1>6 DEF out, found

\* The cascade of files leaves a name alone, and else takes the first that has one.
LEMMA FallbackIsOneFile ==
  ASSUME NEW files, NEW info, DOMAIN info = Told4
  PROVE  LET out == ApplyLegacyReleaseFallback(files, info)
             first == LegacyReleaseFiles[Min(Naming(files))]
         IN /\ DOMAIN out = Told4
            /\ info.name # None \/ Naming(files) = {} => out = info
            /\ info.name = None /\ Naming(files) # {} =>
                  /\ out.name = CanonicalizePlatform(LegacyName(files, first)) /\ out.family = first.family
                  /\ out.version = IF first.name = "arch" THEN <<>> ELSE files[first.path].version
<1> DEFINE out == ApplyLegacyReleaseFallback(files, info)
           first == LegacyReleaseFiles[Min(Naming(files))]
           With(n, f, v) == [info EXCEPT !.name = n, !.family = f, !.version = v]
<1>1. ASSUME NEW n, NEW f, NEW v
      PROVE  /\ DOMAIN With(n, f, v) = Told4 /\ With(n, f, v).name = n
             /\ With(n, f, v).family = f /\ With(n, f, v).version = v
  BY DEF Told4
<1>2. CASE info.name # None \/ Naming(files) = {}
  <2>1. out = info
    BY <1>2 DEF ApplyLegacyReleaseFallback
  <2> QED BY <1>2, <2>1
<1>3. CASE info.name = None /\ Naming(files) # {}
  <2> DEFINE name == CanonicalizePlatform(LegacyName(files, first))
             version == IF first.name = "arch" THEN <<>> ELSE files[first.path].version
  <2>1. out = With(name, first.family, version)
    BY Zenon, <1>3 DEF ApplyLegacyReleaseFallback
  <2> HIDE DEF With, name, version, out, first
  <2>2. DOMAIN out = Told4 /\ out.name = name /\ out.family = first.family /\ out.version = version
    BY <1>1, <2>1
  <2> QED BY <1>3, <2>2 DEF name, version, out, first
<1> QED BY <1>2, <1>3

\* The table gives a family only where there is none.
LEMMA FamilyIsOfTheSource ==
  ASSUME NEW info, DOMAIN info = Told4
  PROVE  /\ ApplyFamilyFallback(info).name = info.name /\ ApplyFamilyFallback(info).version = info.version
         /\ ApplyFamilyFallback(info).family =
               IF info.family # None THEN info.family ELSE Lookup(PlatformFamilyTable, info.name, None)
BY DEF ApplyFamilyFallback, Told4

\* Every file of the cascade stands for a family, and only Arch's has no version.
LEMMA FilesHaveFamilies ==
  /\ DOMAIN LegacyReleaseFiles = 1 .. 6
  /\ \A k \in DOMAIN LegacyReleaseFiles :
        /\ LegacyReleaseFiles[k].family # None
        /\ LegacyReleaseFiles[k].name = "arch" <=> LegacyReleaseFiles[k].path = "arch-release"
<1>1. DOMAIN LegacyReleaseFiles = 1 .. 6
  BY DEF LegacyReleaseFiles
<1>2. ASSUME NEW k \in 1 .. 6 PROVE LegacyReleaseFiles[k].family \in {"rhel", "suse", "debian", "arch", "gentoo"}
  BY DEF LegacyReleaseFiles, Legacy
<1>3. LegacyReleaseFiles[5].name = "arch" /\ LegacyReleaseFiles[5].path = "arch-release"
  BY DEF LegacyReleaseFiles, Legacy
<1>4. ASSUME NEW k \in {1, 2, 3, 4, 6} PROVE LegacyReleaseFiles[k].name \in {None, "suse", "debian"}
  BY DEF LegacyReleaseFiles, Legacy
<1>5. ASSUME NEW k \in {1, 2, 3, 4, 6}
      PROVE  LegacyReleaseFiles[k].path \in {"redhat-release", "SuSE-release", "system-release", "debian_version", "gentoo-release"}
  BY DEF LegacyReleaseFiles, Legacy
<1>6. \A k \in 1 .. 6 : LegacyReleaseFiles[k].name = "arch" <=> LegacyReleaseFiles[k].path = "arch-release"
  <2>1. \A k \in 1 .. 6 : k = 5 \/ k \in {1, 2, 3, 4, 6}
    OBVIOUS
  <2>2. "arch" \notin {None, "suse", "debian"}
    BY DEF None
  <2>3. "arch-release" \notin {"redhat-release", "SuSE-release", "system-release", "debian_version", "gentoo-release"}
    OBVIOUS
  <2> QED BY <1>3, <1>4, <1>5, <2>1, <2>2, <2>3, Zenon
<1> QED BY <1>1, <1>2, <1>6 DEF None

\* Name, family and version of a platform are gopsutil's, completed by the table of families
\* and by the release file of a version too short; or all of the first release file that
\* names a platform.
THEOREM PlatformIsOneSourceHolds == Spec => []PlatformIsOneSource
<1>1. ASSUME CollectorsInv, Collected("platform"), Detect(host) # "darwin" PROVE PlatformIsOneSource
  <2> DEFINE said == host.info.out
             info == facts.info
             Release(k) == LegacyReleaseFiles[k]
             Names(k) == LegacyName(host.files, Release(k)) # None
             found == Completions(host.files, info.name, said.version)
             read == ReadPlatform(host)
             full == ApplyRedhatReleaseSupplement(host.files, read)
             named == ApplyLegacyReleaseFallback(host.files, full)
             naming == Naming(host.files)
             OwnFamily(f, n) == IF f # None THEN f ELSE Lookup(PlatformFamilyTable, n, None)
             FileVersion(k) == IF Release(k).path = "arch-release" THEN <<>> ELSE host.files[Release(k).path].version
             Completed(n, v) == IF Completions(host.files, n, v) = {} THEN {v} ELSE Completions(host.files, n, v)
  <2>1. info = ApplyFamilyFallback(named)
    BY <1>1 DEF CollectorsInv, PlatformOK, PlatformInfo
  <2>2. /\ DOMAIN read = Told4
        /\ read.name = CanonicalizePlatform(said.platform) /\ read.version = said.version /\ read.family = said.family
    BY DEF ReadPlatform, Told4
  <2> HIDE DEF read
  <2>3. /\ DOMAIN full = Told4 /\ full.name = read.name /\ full.family = read.family
        /\ full.version \in Completed(read.name, read.version)
    BY <2>2, SupplementIsOfVersion
  <2> HIDE DEF full
  <2>4. /\ DOMAIN named = Told4
        /\ full.name # None \/ naming = {} => named = full
        /\ full.name = None /\ naming # {} =>
              /\ named.name = CanonicalizePlatform(LegacyName(host.files, LegacyReleaseFiles[Min(naming)]))
              /\ named.family = LegacyReleaseFiles[Min(naming)].family
              /\ named.version = IF LegacyReleaseFiles[Min(naming)].name = "arch" THEN <<>>
                                 ELSE host.files[LegacyReleaseFiles[Min(naming)].path].version
    BY <2>3, FallbackIsOneFile
  <2> HIDE DEF named
  <2>5. info.name = named.name /\ info.version = named.version /\ info.family = OwnFamily(named.family, named.name)
    BY <2>1, <2>4, FamilyIsOfTheSource
  <2>6. full.name = None <=> said.platform = None
    BY <2>2, <2>3, CanonicalNames
  <2>7. naming = {} <=> \A k \in DOMAIN LegacyReleaseFiles : ~ Names(k)
    BY DEF Naming
  <2>8. \A k \in DOMAIN LegacyReleaseFiles : Names(k) => k \in naming
    BY DEF Naming
  <2> HIDE DEF OwnFamily, Completed, naming, info
  <2>9. ASSUME said.platform # None \/ naming = {}
        PROVE /\ info.name = CanonicalizePlatform(said.platform)
              /\ info.family = OwnFamily(said.family, info.name)
              /\ info.version \in Completed(info.name, said.version)
    BY <2>2, <2>3, <2>4, <2>5, <2>6, <2>9
  <2>10. ASSUME said.platform = None, NEW k \in DOMAIN LegacyReleaseFiles, Names(k), \A j \in 1..(k - 1) : ~ Names(j)
         PROVE /\ info.name = CanonicalizePlatform(LegacyName(host.files, Release(k)))
               /\ info.family = Release(k).family
               /\ info.version = FileVersion(k)
    <3>1. k \in naming /\ naming \in SUBSET Nat /\ naming \subseteq 1 .. 6
      BY <2>8, <2>10, FilesHaveFamilies DEF naming, Naming
    <3>2. Min(naming) \in naming /\ Min(naming) =< k
      BY <3>1, MinIsLeast
    <3>3. \A j \in naming : Names(j)
      BY DEF Naming, naming
    <3> HIDE DEF Names
    <3>4. Min(naming) = k
      <4>1. Min(naming) \in 1 .. 6 /\ k \in 1 .. 6
        BY <3>1, <3>2
      <4>2. ~ (Min(naming) \in 1 .. (k - 1))
        BY <2>10, <3>2, <3>3
      <4> QED BY <3>2, <4>1, <4>2
    <3>5. /\ named.family = LegacyReleaseFiles[k].family
          /\ named.name = CanonicalizePlatform(LegacyName(host.files, LegacyReleaseFiles[k]))
          /\ named.version = IF LegacyReleaseFiles[k].name = "arch" THEN <<>> ELSE host.files[LegacyReleaseFiles[k].path].version
      BY <2>4, <2>6, <2>10, <3>1, <3>4
    <3>6. /\ LegacyReleaseFiles[k].family # None
          /\ LegacyReleaseFiles[k].name = "arch" <=> LegacyReleaseFiles[k].path = "arch-release"
      BY FilesHaveFamilies
    <3>7. info.family = LegacyReleaseFiles[k].family
      BY <2>5, <3>5, <3>6 DEF OwnFamily
    <3>8. info.version = FileVersion(k)
      BY <2>5, <3>5, <3>6
    <3> QED BY <2>5, <3>5, <3>7, <3>8
  <2> QED BY <2>7, <2>9, <2>10, Zenon DEF PlatformIsOneSource, OwnFamily, Completed, info
<1>2. CollectorsInv => PlatformIsOneSource
  BY <1>1 DEF PlatformIsOneSource
<1> QED BY <1>2, CollectorsInvHolds, PTL

----------------------------------------------------------------------------
\* Sources in their order.

\* The first source that has something: none has if it is none, and none before it.
LEMMA FirstFoundIsFirst ==
  ASSUME NEW h, NEW ss, NEW n \in Nat, DOMAIN ss = 1 .. n, \A k \in 1 .. n : ss[k] # None
  PROVE  /\ FirstFound(h, ss) = None <=> \A k \in 1 .. n : TextOf(h, ss[k]) = None
         /\ FirstFound(h, ss) # None =>
               \E k \in 1 .. n : /\ FirstFound(h, ss) = ss[k] /\ TextOf(h, ss[k]) # None
                                /\ \A j \in 1 .. (k - 1) : TextOf(h, ss[j]) = None
<1> DEFINE at == Having(h, ss)
<1>1. at \in SUBSET Nat /\ at \subseteq 1 .. n /\ \A k \in 1 .. n : k \in at <=> TextOf(h, ss[k]) # None
  BY DEF Having
<1>2. FirstFound(h, ss) = IF at = {} THEN None ELSE ss[Min(at)]
  BY DEF FirstFound
<1> HIDE DEF at
<1>3. CASE at = {}
  <2>1. \A k \in 1 .. n : TextOf(h, ss[k]) = None
    BY <1>1, <1>3
  <2> QED BY <1>2, <1>3, <2>1
<1>4. CASE at # {}
  <2>1. Min(at) \in at /\ \A k \in at : Min(at) =< k
    BY <1>1, <1>4, MinIsLeast
  <2>2. Min(at) \in 1 .. n /\ TextOf(h, ss[Min(at)]) # None
    BY <1>1, <2>1
  <2>3. FirstFound(h, ss) = ss[Min(at)] /\ ss[Min(at)] # None
    BY <1>2, <1>4, <2>2
  <2>4. ASSUME NEW j \in 1 .. (Min(at) - 1) PROVE TextOf(h, ss[j]) = None
    <3>1. j \in 1 .. n /\ ~ (Min(at) =< j)
      BY <2>2
    <3> QED BY <3>1, <1>1, <2>1
  <2> QED BY <2>2, <2>3, <2>4
<1> QED BY <1>3, <1>4

\* The package managers of a platform are named, each once.
LEMMA ManagersAreNamed ==
  ASSUME NEW platform
  PROVE  \E n \in Nat :
            /\ DOMAIN Managers(platform) = 1 .. n
            /\ \A k \in 1 .. n : Managers(platform)[k] # None
            /\ \A j, k \in 1 .. n : Managers(platform)[j] = Managers(platform)[k] => j = k
<1> DEFINE ms == Managers(platform)
           Distinct(n) ==
               /\ DOMAIN ms = 1 .. n
               /\ \A k \in 1 .. n : ms[k] # None
               /\ \A j, k \in 1 .. n : ms[j] = ms[k] => j = k
<1>1. \/ ms = <<"apt">> \/ ms = <<"dnf", "yum">> \/ ms = <<"brew">>
      \/ ms = <<"zypper", "pacman", "apk", "xbps-install", "emerge">>
  BY DEF Managers
<1> HIDE DEF ms
<1>2. ASSUME ms = <<"apt">> \/ ms = <<"brew">> PROVE Distinct(1)
  <2>1. DOMAIN ms = 1 .. 1 /\ ms[1] # None
    <3>1. CASE ms = <<"apt">>
      BY <3>1 DEF None
    <3>2. CASE ms = <<"brew">>
      BY <3>2 DEF None
    <3> QED BY <1>2, <3>1, <3>2
  <2>2. \A k \in 1 .. 1 : k = 1
    OBVIOUS
  <2> QED BY Zenon, <2>1, <2>2
<1>3. ASSUME ms = <<"dnf", "yum">> PROVE Distinct(2)
  BY <1>3 DEF None
<1>4. ASSUME ms = <<"zypper", "pacman", "apk", "xbps-install", "emerge">> PROVE Distinct(5)
  BY <1>4 DEF None
<1> HIDE DEF Distinct
<1>5. \E n \in Nat : Distinct(n)
  BY <1>1, <1>2, <1>3, <1>4
<1> QED BY <1>5 DEF Distinct, ms

\* A path of several parts stays one without the first.
LEMMA RestOfPath ==
  ASSUME NEW path, path \in Seq(Range(path)), path # <<>>, NEW first, path # <<first>>, path[1] = first
  PROVE  Tail(path) # <<>>
<1>1. SUFFICES ASSUME Tail(path) = <<>> PROVE FALSE
  OBVIOUS
<1>2. path = <<path[1]>> \o Tail(path)
  BY HeadAndRest
<1>3. <<first>> \o <<>> = <<first>>
  OBVIOUS
<1> QED BY Zenon, <1>1, <1>2, <1>3

\* A later source counts only where all in front of it have nothing, and what is
\* found is told with where it was found, for any answers of the sources.
THEOREM FallbacksAreInOrderHolds == Spec => []FallbacksAreInOrder
<1>1. ASSUME CollectorsInv PROVE FallbacksAreInOrder
  <2>1. ASSUME NEW of \in Fallbacks, Collected(of) PROVE SourceHostOK(host) /\ facts.info = FoundBy(of) /\ host.of = of
    BY <1>1, <2>1, HostsAreTheirOwn DEF CollectorsInv, FallbacksOK
  <2>2. ASSUME Collected("machine_id")
        PROVE  /\ TextOf(host, "host") # None => facts.info = TextOf(host, "host")
               /\ facts.info = None => TextOf(host, "host") = None /\ (OnMac \/ TextOf(host, "dbus") = None)
    <3>1. facts.info = MachineID
      BY <2>1, <2>2 DEF FoundBy, Fallbacks
    <3>2. CASE OnMac
      <4> DEFINE ss == <<"host">>
      <4>1. DOMAIN ss = 1 .. 1 /\ ss[1] = "host" /\ \A k \in 1 .. 1 : ss[k] # None /\ k = 1
        BY DEF None
      <4>2. facts.info = IF FirstFound(host, ss) = None THEN None ELSE TextOf(host, FirstFound(host, ss))
        BY <3>1, <3>2 DEF MachineID
      <4> HIDE DEF ss
      <4>3. /\ FirstFound(host, ss) = None <=> \A k \in 1 .. 1 : TextOf(host, ss[k]) = None
            /\ FirstFound(host, ss) # None =>
                  \E k \in 1 .. 1 : /\ FirstFound(host, ss) = ss[k] /\ TextOf(host, ss[k]) # None
                                   /\ \A j \in 1 .. (k - 1) : TextOf(host, ss[j]) = None
        BY <4>1, FirstFoundIsFirst
      <4> QED BY <4>1, <4>2, <4>3, <3>2
    <3>3. CASE ~ OnMac
      <4> DEFINE ss == <<"host", "dbus">>
      <4>1. DOMAIN ss = 1 .. 2 /\ ss[1] = "host" /\ ss[2] = "dbus" /\ \A k \in 1 .. 2 : ss[k] # None
        BY DEF None
      <4>2. facts.info = IF FirstFound(host, ss) = None THEN None ELSE TextOf(host, FirstFound(host, ss))
        BY <3>1, <3>3 DEF MachineID, Asked
      <4> HIDE DEF ss
      <4>3. /\ FirstFound(host, ss) = None <=> \A k \in 1 .. 2 : TextOf(host, ss[k]) = None
            /\ FirstFound(host, ss) # None =>
                  \E k \in 1 .. 2 : /\ FirstFound(host, ss) = ss[k] /\ TextOf(host, ss[k]) # None
                                   /\ \A j \in 1 .. (k - 1) : TextOf(host, ss[j]) = None
        BY <4>1, FirstFoundIsFirst
      <4>4. 1 \in 1 .. 2 /\ 2 \in 1 .. 2 /\ 1 \in 1 .. (2 - 1) /\ \A k \in 1 .. 2 : k = 1 \/ k = 2
        OBVIOUS
      <4> QED BY <4>1, <4>2, <4>3, <4>4
    <3> QED BY <3>2, <3>3
  <2>3. ASSUME Collected("timezone")
        PROVE  facts.info = Empty <=>
                  ~ host.says["localtime"].ok /\ (OnMac \/ ~ host.says["timezone"].ok \/ host.says["timezone"].out = Empty)
    <3> DEFINE path == host.says["localtime"].out
    <3>1. facts.info = Timezone /\ SourceHostOK(host) /\ host.of = "timezone"
      BY <2>1, <2>3 DEF FoundBy, Fallbacks
    <3>2. ASSUME host.says["localtime"].ok PROVE TrimZone(path) # <<>>
      <4>1. path \in Seq(Range(path)) /\ path # <<>> /\ path # <<Zoneinfo(host.platform)>>
        BY <3>1, <3>2 DEF SourceHostOK
      <4>2. path[1] = Zoneinfo(host.platform) => Tail(path) # <<>>
        BY <4>1, RestOfPath
      <4> QED BY <4>1, <4>2 DEF TrimZone
    <3> QED BY <3>1, <3>2 DEF Timezone, Empty
  <2>4. ASSUME Collected("package_mgr")
        PROVE  LET known == Managers(host.platform)
                   at == {k \in DOMAIN known : known[k] = facts.info.name}
               IN /\ facts.info.name = None <=> \A m \in Range(known) : TextOf(host, m) = None
                  /\ \A k \in at : facts.info.path = TextOf(host, known[k]) /\ \A j \in 1..(k - 1) : TextOf(host, known[j]) = None
    <3> DEFINE known == Managers(host.platform)
               name == FirstFound(host, known)
    <3>1. facts.info.name = name /\ facts.info.path = IF name = None THEN None ELSE TextOf(host, name)
      BY <2>1, <2>4 DEF FoundBy, Fallbacks, PackageMgr
    <3>2. PICK n \in Nat : /\ DOMAIN known = 1 .. n /\ \A k \in 1 .. n : known[k] # None
                           /\ \A j, k \in 1 .. n : known[j] = known[k] => j = k
      BY ManagersAreNamed
    <3> HIDE DEF known
    <3>3. /\ name = None <=> \A k \in 1 .. n : TextOf(host, known[k]) = None
          /\ name # None =>
                \E k \in 1 .. n : /\ name = known[k] /\ TextOf(host, known[k]) # None
                                 /\ \A j \in 1 .. (k - 1) : TextOf(host, known[j]) = None
      BY <3>2, FirstFoundIsFirst
    <3> HIDE DEF name
    <3>4. name = None <=> \A m \in Range(known) : TextOf(host, m) = None
      BY <3>2, <3>3 DEF Range
    <3>5. ASSUME NEW k \in 1 .. n, known[k] = name
          PROVE facts.info.path = TextOf(host, known[k]) /\ \A j \in 1..(k - 1) : TextOf(host, known[j]) = None
      <4>1. name # None
        BY <3>2, <3>5
      <4>2. PICK i \in 1 .. n : name = known[i] /\ \A j \in 1 .. (i - 1) : TextOf(host, known[j]) = None
        BY <3>3, <4>1
      <4>3. i = k
        BY <3>2, <3>5, <4>2
      <4> QED BY <3>1, <3>5, <4>1, <4>2, <4>3
    <3> QED BY <3>1, <3>2, <3>4, <3>5 DEF known
  <2> QED BY <2>2, <2>3, <2>4 DEF FallbacksAreInOrder
<1> QED BY <1>1, CollectorsInvHolds, PTL

----------------------------------------------------------------------------
\* The accounts.

\* What a line of passwd makes of the accounts before it.
PasswdStep(lines, m, k) ==
    IF lines[k].fields < 7 \/ lines[k].name \in DOMAIN m THEN m ELSE Put(m, lines[k].name, Uid(lines[k]))

PasswdTrace(lines, N, S, h) ==
    /\ h \in [0 .. N -> S] /\ h[0] = Empty /\ h[N] = ParsePasswd(lines)
    /\ \A k \in 1 .. N : h[k] = PasswdStep(lines, h[k - 1], k)

\* The lines of passwd are read one after the other.
LEMMA PasswdFold ==
  ASSUME NEW lines, NEW N, N \in Nat, DOMAIN lines = 1 .. N, NEW S, Empty \in S,
         \A m \in S, k \in 1 .. N : PasswdStep(lines, m, k) \in S
  PROVE  \E h : PasswdTrace(lines, N, S, h)
<1> DEFINE Step(m, k) == PasswdStep(lines, m, k)
           step == [x \in S \X (1 .. N) |-> Step(x[1], x[2])]
           Iter(it) == it = [s \in SUBSET (1 .. N) |-> IF s = {} THEN Empty ELSE Step(it[s \ {Max(s)}], Max(s))]
           iter == CHOOSE it : Iter(it)
<1>1. ParsePasswd(lines) = iter[1 .. N]
  BY Zenon DEF ParsePasswd, PasswdStep, FoldLeft, MapThenFoldSet
<1>2. \A m \in S, k \in 1 .. N : Step(m, k) \in S
  OBVIOUS
<1>0. Empty \in S
  OBVIOUS
<1> HIDE DEF Step
<1>3. step \in [S \X (1 .. N) -> S] /\ \A m \in S, k \in 1 .. N : step[<<m, k>>] = Step(m, k)
  BY <1>2
<1> HIDE DEF step
<1>4. \E it : Iter(it)
  <2>1. PICK it \in [SUBSET (1 .. N) -> S] : \A s \in SUBSET (1 .. N) :
            /\ it[s] = IF s = {} THEN Empty ELSE step[<<it[s \ {Max(s)}], Max(s)>>]
            /\ s # {} => it[s \ {Max(s)}] \in S /\ Max(s) \in 1 .. N
    BY <1>0, <1>3, FoldExists
  <2> HIDE DEF iter
  <2>2. ASSUME NEW s \in SUBSET (1 .. N) PROVE it[s] = IF s = {} THEN Empty ELSE Step(it[s \ {Max(s)}], Max(s))
    BY <2>1, <1>3
  <2>3. Iter(it)
    BY <2>2
  <2> HIDE DEF Iter
  <2> QED BY <2>3
<1>5. Iter(iter)
  BY Zenon, <1>4
<1> HIDE DEF iter
<1>6. iter[{}] = Empty
  BY <1>5
<1>7. ASSUME NEW s \in SUBSET (1 .. N), s # {}, iter[s \ {Max(s)}] \in S, Max(s) \in 1 .. N
      PROVE iter[s] = step[<<iter[s \ {Max(s)}], Max(s)>>]
  BY <1>3, <1>5, <1>7
<1>8. IsFold(S, Empty, N, step, iter)
  BY <1>0, <1>3, <1>6, <1>7 DEF IsFold
<1>9. PICK h : IsTrace(S, Empty, N, step, iter, h)
  BY <1>8, FoldSteps
<1>10. h \in [0 .. N -> S] /\ h[0] = Empty /\ h[N] = iter[1 .. N]
  BY <1>9 DEF IsTrace
<1>11. ASSUME NEW k \in 1 .. N PROVE h[k] = Step(h[k - 1], k)
  <2>1. h[k - 1] \in S
    BY <1>10
  <2> QED BY <2>1, <1>9, <1>3 DEF IsTrace
<1> QED BY <1>1, <1>10, <1>11 DEF Step, PasswdTrace

\* A whole line adds its account if there is none of the name, and changes no other.
PasswdMoves(lines, old, new, k) ==
    /\ lines[k].fields >= 7 => lines[k].name \in DOMAIN new /\ DOMAIN new = DOMAIN old \cup {lines[k].name}
    /\ ~ (lines[k].fields >= 7) => new = old
    /\ \A x \in DOMAIN old : new[x] = old[x]
    /\ \A x \in DOMAIN new \ DOMAIN old : lines[k].fields >= 7 /\ x = lines[k].name /\ new[x] = Uid(lines[k])

LEMMA PasswdStepMoves ==
  ASSUME NEW lines, NEW k, lines[k].fields \in Nat,
         NEW names, NEW uids, NEW m \in Maps(names, uids), lines[k].name \in names, Uid(lines[k]) \in uids
  PROVE  /\ PasswdStep(lines, m, k) \in Maps(names, uids)
         /\ PasswdMoves(lines, m, PasswdStep(lines, m, k), k)
<1> DEFINE name == lines[k].name
           uid == Uid(lines[k])
           new == Put(m, name, uid)
<1>1. /\ new \in Maps(names, uids) /\ DOMAIN new = DOMAIN m \cup {name}
      /\ \A x \in DOMAIN m \cup {name} : new[x] = IF x = name THEN uid ELSE m[x]
  <2>1. name \in names /\ uid \in uids
    OBVIOUS
  <2> HIDE DEF name, uid
  <2>2. new \in Maps(names, uids)
    BY <2>1, PutIsMap
  <2> QED BY <2>2 DEF Put
<1>2. CASE lines[k].fields < 7 \/ lines[k].name \in DOMAIN m
  <2>1. PasswdStep(lines, m, k) = m
    BY <1>2 DEF PasswdStep
  <2>2. lines[k].fields >= 7 => lines[k].name \in DOMAIN m
    BY <1>2
  <2> QED BY <2>1, <2>2 DEF PasswdMoves
<1>3. CASE ~ (lines[k].fields < 7 \/ lines[k].name \in DOMAIN m)
  <2>1. PasswdStep(lines, m, k) = new
    BY <1>3 DEF PasswdStep
  <2>2. lines[k].fields >= 7 /\ name \notin DOMAIN m
    BY <1>3
  <2> HIDE DEF new
  <2> QED BY <1>1, <2>1, <2>2 DEF PasswdMoves
<1> QED BY <1>2, <1>3

\* The map of the accounts has the names of the whole lines, and of each name the
\* uid of its first.
LEMMA FirstLinesCount ==
  ASSUME NEW lines, lines \in Seq(Range(lines)), \A l \in Range(lines) : l.fields \in Nat
  PROVE  LET whole == {k \in DOMAIN lines : lines[k].fields >= 7}
         IN /\ DOMAIN ParsePasswd(lines) = {lines[k].name : k \in whole}
            /\ \A n \in DOMAIN ParsePasswd(lines) :
                  \E j \in whole : /\ lines[j].name = n /\ ParsePasswd(lines)[n] = Uid(lines[j])
                                  /\ \A k \in whole : lines[k].name = n => j =< k
<1> DEFINE N == Len(lines)
           names == {lines[k].name : k \in 1 .. N}
           uids == {Uid(lines[k]) : k \in 1 .. N}
           S == Maps(names, uids)
           Complete(k) == lines[k].fields >= 7
           Step(m, k) == PasswdStep(lines, m, k)
<1>1. N \in Nat /\ DOMAIN lines = 1 .. N
  OBVIOUS
<1>2. \A k \in 1 .. N : Complete(k) <=> ~ (lines[k].fields < 7)
  BY <1>1 DEF Range
<1>3. Empty \in S /\ DOMAIN Empty = {}
  BY EmptyIsMap
<1>4. ASSUME NEW m \in S, NEW k \in 1 .. N PROVE Step(m, k) \in S /\ PasswdMoves(lines, m, Step(m, k), k)
  <2>1. lines[k].name \in names /\ Uid(lines[k]) \in uids /\ lines[k].fields \in Nat
    BY <1>1 DEF Range
  <2> HIDE DEF names, uids
  <2> QED BY <2>1, PasswdStepMoves
<1>5. PICK h : PasswdTrace(lines, N, S, h)
  <2>1. \A m \in S, k \in 1 .. N : PasswdStep(lines, m, k) \in S
    BY <1>4
  <2> HIDE DEF S, N
  <2> QED BY <1>1, <1>3, <2>1, PasswdFold
<1>11. /\ h \in [0 .. N -> S] /\ h[0] = Empty /\ h[N] = ParsePasswd(lines)
       /\ \A k \in 1 .. N : h[k] = Step(h[k - 1], k)
  BY <1>5 DEF PasswdTrace
<1> HIDE DEF S, Step, names, uids
<1> DEFINE Upto(i) == {k \in 1 .. i : Complete(k)}
           Of(n, i) == \E j \in Upto(i) : /\ lines[j].name = n /\ h[i][n] = Uid(lines[j])
                                         /\ \A k \in Upto(N) : lines[k].name = n => j =< k
           A == {i \in 0 .. N : /\ DOMAIN h[i] = {lines[k].name : k \in Upto(i)}
                                /\ \A n \in DOMAIN h[i] : Of(n, i)}
<1>6. 0 \in A
  <2>1. Upto(0) = {}
    OBVIOUS
  <2> QED BY <1>1, <1>3, <1>11, <2>1
<1>7. ASSUME NEW i \in 0 .. N, i \in A, i < N PROVE i + 1 \in A
  <2>1. i + 1 \in 1 .. N /\ (i + 1) - 1 = i /\ i + 1 \in 0 .. N /\ i \in 0 .. N
    BY <1>1, <1>7
  <2> DEFINE old == h[i]
             new == h[i + 1]
             line == i + 1
  <2>2. new = Step(old, line) /\ old \in S
    BY <1>11, <2>1
  <2>8. /\ Complete(line) => lines[line].name \in DOMAIN new /\ DOMAIN new = DOMAIN old \cup {lines[line].name}
        /\ ~ Complete(line) => new = old
        /\ \A x \in DOMAIN old : new[x] = old[x]
        /\ \A x \in DOMAIN new \ DOMAIN old : Complete(line) /\ x = lines[line].name /\ new[x] = Uid(lines[line])
    <3>1. PasswdMoves(lines, old, new, line)
      <4>1. line \in 1 .. N
        BY <2>1
      <4> HIDE DEF old, new, line
      <4>2. PasswdMoves(lines, old, Step(old, line), line)
        BY <1>4, <2>2, <4>1
      <4> QED BY <2>2, <4>2
    <3> HIDE DEF old, new, line
    <3> QED BY <3>1 DEF PasswdMoves
  <2>3. Upto(i + 1) = IF Complete(i + 1) THEN Upto(i) \cup {i + 1} ELSE Upto(i)
    <3> HIDE DEF Complete
    <3>1. 1 .. (i + 1) = (1 .. i) \cup {i + 1}
      BY <2>1
    <3> QED BY <3>1
  <2>4. DOMAIN h[i] = {lines[k].name : k \in Upto(i)}
    BY <1>7
  <2>5. \A n \in DOMAIN h[i] : Of(n, i)
    BY <1>7
  <2>6. DOMAIN h[i + 1] = {lines[k].name : k \in Upto(i + 1)}
    <3> HIDE DEF Upto, Complete, Of
    <3>1. CASE Complete(i + 1)
      <4>1. DOMAIN h[i + 1] = DOMAIN h[i] \cup {lines[i + 1].name}
        BY <2>8, <3>1
      <4> QED BY <2>3, <2>4, <3>1, <4>1
    <3>2. CASE ~ Complete(i + 1)
      <4>1. h[i + 1] = h[i]
        BY <2>8, <3>2
      <4> QED BY <2>3, <2>4, <3>2, <4>1
    <3> QED BY <3>1, <3>2
  <2>7. ASSUME NEW n \in DOMAIN h[i + 1] PROVE Of(n, i + 1)
    <3>1. CASE n \in DOMAIN h[i]
      <4>1. h[i + 1][n] = h[i][n]
        BY <2>8, <3>1
      <4>2. Upto(i) \subseteq Upto(i + 1)
        BY <2>1
      <4>3. PICK j \in Upto(i) : /\ lines[j].name = n /\ h[i][n] = Uid(lines[j])
                                 /\ \A k \in Upto(N) : lines[k].name = n => j =< k
        BY <2>5, <3>1
      <4> HIDE DEF Upto, Complete
      <4> QED BY <4>1, <4>2, <4>3
    <3>2. CASE n \notin DOMAIN h[i]
      <4>1. Complete(i + 1) /\ n = lines[i + 1].name /\ h[i + 1][n] = Uid(lines[i + 1])
        BY <2>8, <3>2
      <4>2. ASSUME NEW k \in Upto(N), lines[k].name = n PROVE i + 1 =< k
        <5>1. k \notin Upto(i)
          <6> HIDE DEF Upto, Complete, Of
          <6> QED BY <2>4, <3>2, <4>2
        <5>2. k \in 1 .. N /\ Complete(k) /\ i \in Nat
          BY <2>1
        <5>3. ~ (k \in 1 .. i)
          BY <5>1, <5>2
        <5> HIDE DEF Complete
        <5> QED BY <5>2, <5>3, <1>1
      <4>3. i + 1 \in Upto(i + 1)
        <5>1. i + 1 \in 1 .. (i + 1)
          BY <2>1
        <5> QED BY <4>1, <5>1
      <4> HIDE DEF Upto, Complete
      <4> QED BY <4>1, <4>2, <4>3
    <3> QED BY <3>1, <3>2
  <2> HIDE DEF Of, Upto
  <2> QED BY <2>1, <2>6, <2>7
<1>8. N \in A
  <2>1. N \in 0 .. N
    BY <1>1
  <2> HIDE DEF A, N
  <2> QED BY <1>1, <1>6, <1>7, <2>1, Induction
<1>9. Upto(N) = {k \in DOMAIN lines : lines[k].fields >= 7}
  BY <1>1
<1>10. DOMAIN h[N] = {lines[k].name : k \in Upto(N)} /\ \A n \in DOMAIN h[N] : Of(n, N)
  BY <1>8
<1> HIDE DEF Upto, N
<1> QED BY <1>11, <1>9, <1>10

\* The accounts are those login would use, the first line of each name, and the
\* current user is one of the uid of the process, for any lines of passwd.
THEOREM AccountsAreTheSystemsHolds == Spec => []AccountsAreTheSystems
<1>1. ASSUME CollectorsInv, Collected("users"), host.passwd.ok PROVE AccountsAreTheSystems
  <2> DEFINE lines == host.passwd.out
             whole == {k \in DOMAIN lines : lines[k].fields >= 7}
             First1(n) == lines[Min({k \in whole : lines[k].name = n})]
             passwd == ParsePasswd(lines)
  <2>1. IdentityHostOK(host) /\ host.of = "users" /\ facts.info.Passwd = PasswdOf(host)
        /\ facts.info.CurrentUser \in CurrentUsers(host)
    BY <1>1, HostsAreTheirOwn DEF CollectorsInv, UsersOK
  <2>2. lines \in Seq(Range(lines)) /\ \A l \in Range(lines) : l.fields \in Nat
    BY <1>1, <2>1 DEF IdentityHostOK
  <2>3. PasswdOf(host) = passwd
    BY <1>1 DEF PasswdOf
  <2>4. /\ DOMAIN passwd = {lines[k].name : k \in whole}
        /\ \A n \in DOMAIN passwd :
              \E j \in whole : /\ lines[j].name = n /\ passwd[n] = Uid(lines[j])
                              /\ \A k \in whole : lines[k].name = n => j =< k
    <3> HIDE DEF lines
    <3> QED BY <2>2, FirstLinesCount
  <2>5. whole \in SUBSET Nat
    BY <2>2
  <2> HIDE DEF whole, passwd, lines
  <2>6. ASSUME NEW n \in DOMAIN passwd PROVE passwd[n] = Uid(First1(n))
    <3>1. PICK j \in whole : /\ lines[j].name = n /\ passwd[n] = Uid(lines[j])
                            /\ \A k \in whole : lines[k].name = n => j =< k
      BY <2>4
    <3> DEFINE same == {k \in whole : lines[k].name = n}
    <3>2. j \in same /\ same \in SUBSET Nat /\ \A k \in same : j =< k
      BY <2>5, <3>1
    <3> HIDE DEF same
    <3>3. Min(same) \in same /\ Min(same) =< j
      BY <3>2, MinIsLeast
    <3>4. Min(same) = j
      <4>1. Min(same) \in Nat /\ j \in Nat /\ j =< Min(same)
        BY <3>2, <3>3
      <4> QED BY <3>3, <4>1
    <3> QED BY <3>1, <3>4 DEF same
  <2>7. CurrentUsers(host) = LET own == {n \in DOMAIN passwd : passwd[n] = host.euid} IN IF own = {} THEN {None} ELSE own
    BY <2>3 DEF CurrentUsers
  <2>8. {n \in DOMAIN passwd : passwd[n] = host.euid} = {n \in {lines[k].name : k \in whole} : Uid(First1(n)) = host.euid}
    BY <2>4, <2>6
  <2> DEFINE own == {n \in {lines[k].name : k \in whole} : Uid(First1(n)) = host.euid}
  <2>10. facts.info.CurrentUser \in IF own = {} THEN {None} ELSE own
    BY <2>1, <2>7, <2>8
  <2>11. facts.info.Passwd = passwd
    BY <2>1, <2>3
  <2>12. DOMAIN facts.info.Passwd = {lines[k].name : k \in whole}
         /\ \A n \in DOMAIN facts.info.Passwd : facts.info.Passwd[n] = Uid(First1(n))
    <3> HIDE DEF First1
    <3> QED BY <2>4, <2>6, <2>11
  <2> QED BY Zenon, <2>10, <2>12 DEF AccountsAreTheSystems, lines, whole
<1>2. CollectorsInv => AccountsAreTheSystems
  BY <1>1 DEF AccountsAreTheSystems
<1> QED BY <1>2, CollectorsInvHolds, PTL

\* The name, the platform, the accounts and the identity of a host come from the
\* sources the system itself goes by, in their order.
THEOREM IdentityHoldsAlways == Spec => []IdentityHolds
BY TransientErrorsAreRetriedHolds, PlatformIsOneSourceHolds, AccountsAreTheSystemsHolds, FallbacksAreInOrderHolds, PTL
   DEF IdentityHolds

----------------------------------------------------------------------------
\* The layers of virtualization.

\* What there is to say of a result of the first i hits: it has their names and no
\* other, each with the role of a hit that nothing overrides, and the last is primary.
Overridden(hits, i, k) == ~ hits[k].force /\ \E j \in 1 .. i : hits[j].name = hits[k].name /\ hits[j].force

Book(hits, i, info) ==
    /\ DOMAIN info.Systems = {hits[k].name : k \in 1 .. i}
    /\ \A n \in DOMAIN info.Systems :
          \E k \in 1 .. i : hits[k].name = n /\ info.Systems[n] = hits[k].role /\ ~ Overridden(hits, i, k)
    /\ i > 0 => info.System = hits[i].name /\ info.Role = hits[i].role

\* The results that hits can lead to.
Infos(names, roles, hosts) ==
    [System : names, Role : roles, Systems : Maps(names, roles), HypervisorHost : hosts]

\* addSystem, field by field.
LEMMA AddSystemParts ==
  ASSUME NEW names, NEW roles, NEW hosts, NEW info \in Infos(names, roles, hosts),
         NEW hit, hit.name \in names, hit.role \in roles
  PROVE  LET new == AddSystem(info, hit) IN
         /\ new \in Infos(names, roles, hosts)
         /\ new.System = hit.name /\ new.Role = hit.role
         /\ new.Systems = IF hit.name \in DOMAIN info.Systems /\ ~ hit.force THEN info.Systems
                          ELSE Put(info.Systems, hit.name, hit.role)
<1> DEFINE systems == IF hit.name \in DOMAIN info.Systems /\ ~ hit.force THEN info.Systems
                      ELSE Put(info.Systems, hit.name, hit.role)
           new == [System |-> hit.name, Role |-> hit.role, Systems |-> systems, HypervisorHost |-> info.HypervisorHost]
<1>1. systems \in Maps(names, roles)
  <2>1. info.Systems \in Maps(names, roles)
    BY DEF Infos
  <2>2. Put(info.Systems, hit.name, hit.role) \in Maps(names, roles)
    BY <2>1, PutIsMap
  <2> QED BY <2>1, <2>2
<1>2. AddSystem(info, hit) = new
  <2>1. AddSystem(info, hit) = [info EXCEPT !.Systems = systems, !.System = hit.name, !.Role = hit.role]
    BY Zenon DEF AddSystem
  <2> HIDE DEF systems
  <2> QED BY <2>1 DEF Infos
<1>3. new \in Infos(names, roles, hosts)
  <2> HIDE DEF systems
  <2> QED BY <1>1 DEF Infos
<1> QED BY <1>2, <1>3

\* One more hit.
LEMMA BookStep ==
  ASSUME NEW hits, NEW i \in Nat, NEW old, NEW new, Book(hits, i, old),
         new.System = hits[i + 1].name, new.Role = hits[i + 1].role,
         new.Systems = IF hits[i + 1].name \in DOMAIN old.Systems /\ ~ hits[i + 1].force THEN old.Systems
                       ELSE Put(old.Systems, hits[i + 1].name, hits[i + 1].role)
  PROVE  Book(hits, i + 1, new)
<1> DEFINE x == hits[i + 1]
<1>1. 1 .. (i + 1) = (1 .. i) \cup {i + 1} /\ i + 1 \in 1 .. (i + 1) /\ (i + 1) > 0
  OBVIOUS
<1>2. DOMAIN old.Systems = {hits[k].name : k \in 1 .. i}
  BY DEF Book
<1>3. ASSUME NEW n \in DOMAIN old.Systems
      PROVE  \E k \in 1 .. i : hits[k].name = n /\ old.Systems[n] = hits[k].role /\ ~ Overridden(hits, i, k)
  BY DEF Book
<1> DEFINE Told1(n) ==
             \E k \in 1 .. (i + 1) : hits[k].name = n /\ new.Systems[n] = hits[k].role /\ ~ Overridden(hits, i + 1, k)
<1>4. CASE x.name \in DOMAIN old.Systems /\ ~ x.force
  <2>1. new.Systems = old.Systems
    BY <1>4
  <2>2. DOMAIN new.Systems = {hits[k].name : k \in 1 .. (i + 1)}
    BY <1>1, <1>2, <1>4, <2>1
  <2>3. ASSUME NEW n \in DOMAIN new.Systems PROVE Told1(n)
    <3>1. PICK k \in 1 .. i : hits[k].name = n /\ old.Systems[n] = hits[k].role /\ ~ Overridden(hits, i, k)
      BY <1>3, <2>1, <2>3
    <3>2. k \in 1 .. (i + 1)
      BY <1>1
    <3>3. ~ Overridden(hits, i + 1, k)
      BY <1>1, <1>4, <3>1 DEF Overridden
    <3> QED BY <2>1, <3>1, <3>2, <3>3
  <2> QED BY <1>1, <2>2, <2>3 DEF Book
<1>5. CASE ~ (x.name \in DOMAIN old.Systems /\ ~ x.force)
  <2>1. new.Systems = Put(old.Systems, x.name, x.role)
    BY <1>5
  <2>2. DOMAIN new.Systems = DOMAIN old.Systems \cup {x.name}
    BY <2>1 DEF Put
  <2>3. \A n \in DOMAIN new.Systems : new.Systems[n] = IF n = x.name THEN x.role ELSE old.Systems[n]
    BY <2>1 DEF Put
  <2>4. DOMAIN new.Systems = {hits[k].name : k \in 1 .. (i + 1)}
    BY <1>1, <1>2, <2>2
  <2>5. ASSUME NEW n \in DOMAIN new.Systems PROVE Told1(n)
    <3>1. CASE n = x.name
      <4>1. new.Systems[n] = x.role
        BY <2>3, <2>5, <3>1
      <4>2. ~ Overridden(hits, i + 1, i + 1)
        <5>1. CASE x.force
          BY <5>1 DEF Overridden
        <5>2. CASE ~ x.force
          <6>1. n \notin DOMAIN old.Systems
            BY <1>5, <3>1, <5>2
          <6>2. \A j \in 1 .. i : hits[j].name # n
            BY <1>2, <6>1
          <6> QED BY <1>1, <3>1, <5>2, <6>2 DEF Overridden
        <5> QED BY <5>1, <5>2
      <4> QED BY <1>1, <3>1, <4>1, <4>2
    <3>2. CASE n # x.name
      <4>1. n \in DOMAIN old.Systems /\ new.Systems[n] = old.Systems[n]
        BY <2>2, <2>3, <2>5, <3>2
      <4>2. PICK k \in 1 .. i : hits[k].name = n /\ old.Systems[n] = hits[k].role /\ ~ Overridden(hits, i, k)
        BY <1>3, <4>1
      <4>3. ~ Overridden(hits, i + 1, k)
        BY <1>1, <3>2, <4>2 DEF Overridden
      <4>4. k \in 1 .. (i + 1)
        BY <1>1
      <4> QED BY <4>1, <4>2, <4>3, <4>4
    <3> QED BY <3>1, <3>2
  <2> QED BY <1>1, <2>4, <2>5 DEF Book
<1> QED BY <1>4, <1>5

\* The hits are added one after the other.
LayersTrace(base, hits, N, S, h) ==
    /\ h \in [0 .. N -> S] /\ h[0] = base /\ h[N] = Layers(base, hits)
    /\ \A k \in 1 .. N : h[k] = AddSystem(h[k - 1], hits[k])

LEMMA LayersFold ==
  ASSUME NEW hits, NEW N, N \in Nat, DOMAIN hits = 1 .. N, NEW S, NEW base, base \in S,
         \A m \in S, k \in 1 .. N : AddSystem(m, hits[k]) \in S
  PROVE  \E h : LayersTrace(base, hits, N, S, h)
<1> DEFINE Step(m, k) == AddSystem(m, hits[k])
           step == [x \in S \X (1 .. N) |-> Step(x[1], x[2])]
           Iter(it) == it = [s \in SUBSET (1 .. N) |-> IF s = {} THEN base ELSE Step(it[s \ {Max(s)}], Max(s))]
           iter == CHOOSE it : Iter(it)
<1>1. Layers(base, hits) = iter[1 .. N]
  BY Zenon DEF Layers, FoldLeft, MapThenFoldSet
<1>2. \A m \in S, k \in 1 .. N : Step(m, k) \in S
  OBVIOUS
<1>3. base \in S /\ N \in Nat
  OBVIOUS
<1> HIDE DEF Step
<1>4. step \in [S \X (1 .. N) -> S] /\ \A m \in S, k \in 1 .. N : step[<<m, k>>] = Step(m, k)
  BY <1>2
<1> HIDE DEF step
<1>5. \E it : Iter(it)
  <2>1. PICK it \in [SUBSET (1 .. N) -> S] : \A s \in SUBSET (1 .. N) :
            /\ it[s] = IF s = {} THEN base ELSE step[<<it[s \ {Max(s)}], Max(s)>>]
            /\ s # {} => it[s \ {Max(s)}] \in S /\ Max(s) \in 1 .. N
    BY <1>3, <1>4, FoldExists
  <2> HIDE DEF iter
  <2>2. ASSUME NEW s \in SUBSET (1 .. N) PROVE it[s] = IF s = {} THEN base ELSE Step(it[s \ {Max(s)}], Max(s))
    BY <2>1, <1>4
  <2>3. Iter(it)
    BY <2>2
  <2> HIDE DEF Iter
  <2> QED BY <2>3
<1>6. Iter(iter)
  BY Zenon, <1>5
<1> HIDE DEF iter
<1>7. iter[{}] = base
  BY <1>6
<1>8. ASSUME NEW s \in SUBSET (1 .. N), s # {}, iter[s \ {Max(s)}] \in S, Max(s) \in 1 .. N
      PROVE iter[s] = step[<<iter[s \ {Max(s)}], Max(s)>>]
  BY <1>4, <1>6, <1>8
<1>9. IsFold(S, base, N, step, iter)
  BY <1>3, <1>4, <1>7, <1>8 DEF IsFold
<1>10. PICK h : IsTrace(S, base, N, step, iter, h)
  BY <1>9, FoldSteps
<1>11. h \in [0 .. N -> S] /\ h[0] = base /\ h[N] = iter[1 .. N]
  BY <1>10 DEF IsTrace
<1>12. ASSUME NEW k \in 1 .. N PROVE h[k] = Step(h[k - 1], k)
  <2>1. h[k - 1] \in S
    BY <1>11
  <2> QED BY <2>1, <1>10, <1>4 DEF IsTrace
<1> QED BY <1>1, <1>11, <1>12 DEF Step, LayersTrace

\* A result without a layer.
Bare(host1) == [System |-> None, Role |-> None, Systems |-> Empty, HypervisorHost |-> host1]

\* What the hits add up to.
LEMMA LayersAddUp ==
  ASSUME NEW hits, hits \in Seq(Range(hits)), NEW host1
  PROVE  /\ Book(hits, Len(hits), Layers(Bare(host1), hits))
         /\ hits = <<>> => Layers(Bare(host1), hits).Role = None
<1> DEFINE N == Len(hits)
           names == {hits[k].name : k \in 1 .. N} \cup {None}
           roles == {hits[k].role : k \in 1 .. N} \cup {None}
           S == Infos(names, roles, {host1})
           base == Bare(host1)
<1>1. N \in Nat /\ DOMAIN hits = 1 .. N /\ (hits = <<>> => N = 0)
  BY EmptySeq
<1>2. base \in S
  <2> HIDE DEF names, roles
  <2>1. Empty \in Maps(names, roles)
    BY EmptyIsMap
  <2>2. None \in names /\ None \in roles
    BY DEF names, roles
  <2> QED BY <2>1, <2>2 DEF Infos, Bare
<1>3. ASSUME NEW m \in S, NEW k \in 1 .. N
      PROVE  LET new == AddSystem(m, hits[k]) IN
             /\ new \in S /\ new.System = hits[k].name /\ new.Role = hits[k].role
             /\ new.Systems = IF hits[k].name \in DOMAIN m.Systems /\ ~ hits[k].force THEN m.Systems
                              ELSE Put(m.Systems, hits[k].name, hits[k].role)
  <2> DEFINE hit == hits[k]
  <2>1. hit.name \in names /\ hit.role \in roles
    OBVIOUS
  <2> HIDE DEF names, roles, hit
  <2>2. LET new == AddSystem(m, hit) IN
             /\ new \in S /\ new.System = hit.name /\ new.Role = hit.role
             /\ new.Systems = IF hit.name \in DOMAIN m.Systems /\ ~ hit.force THEN m.Systems
                              ELSE Put(m.Systems, hit.name, hit.role)
    BY <2>1, AddSystemParts
  <2> QED BY <2>2 DEF hit
<1> HIDE DEF S, base
<1>4. PICK h : LayersTrace(base, hits, N, S, h)
  <2>1. \A m \in S, k \in 1 .. N : AddSystem(m, hits[k]) \in S
    BY <1>3
  <2> HIDE DEF N
  <2> QED BY <1>1, <1>2, <2>1, LayersFold
<1>5. /\ h \in [0 .. N -> S] /\ h[0] = base /\ h[N] = Layers(base, hits)
      /\ \A k \in 1 .. N : h[k] = AddSystem(h[k - 1], hits[k])
  BY <1>4 DEF LayersTrace
<1> DEFINE A == {i \in 0 .. N : Book(hits, i, h[i])}
<1>6. 0 \in A
  <2>1. DOMAIN base.Systems = {}
    BY EmptyIsMap DEF base, Bare
  <2>2. 1 .. 0 = {} /\ ~ (0 > 0) /\ 0 \in 0 .. N
    BY <1>1
  <2>3. Book(hits, 0, base)
    BY <2>1, <2>2 DEF Book
  <2> QED BY <1>5, <2>2, <2>3
<1>7. ASSUME NEW i \in 0 .. N, i \in A, i < N PROVE i + 1 \in A
  <2>1. i + 1 \in 1 .. N /\ (i + 1) - 1 = i /\ i + 1 \in 0 .. N /\ i \in 0 .. N /\ i \in Nat
    BY <1>1, <1>7
  <2> DEFINE old == h[i]
             new == h[i + 1]
  <2>2. Book(hits, i, old) /\ old \in S /\ new = AddSystem(old, hits[i + 1])
    BY <1>5, <1>7, <2>1
  <2> HIDE DEF old, new
  <2>3. /\ new.System = hits[i + 1].name /\ new.Role = hits[i + 1].role
        /\ new.Systems = IF hits[i + 1].name \in DOMAIN old.Systems /\ ~ hits[i + 1].force THEN old.Systems
                         ELSE Put(old.Systems, hits[i + 1].name, hits[i + 1].role)
    BY <1>3, <2>1, <2>2
  <2>4. Book(hits, i + 1, new)
    BY <2>1, <2>2, <2>3, BookStep
  <2> QED BY <2>1, <2>4 DEF new
<1>8. N \in A
  <2>1. N \in 0 .. N
    BY <1>1
  <2> HIDE DEF A, N
  <2> QED BY <1>1, <1>6, <1>7, <2>1, Induction
<1>9. Book(hits, N, Layers(base, hits))
  BY <1>5, <1>8
<1>10. ASSUME hits = <<>> PROVE Layers(base, hits).Role = None
  <2>1. Layers(base, hits) = base
    BY <1>1, <1>5, <1>10
  <2> QED BY <2>1 DEF base, Bare
<1> QED BY <1>9, <1>10 DEF base

\* The hits of two signals one after the other are those of both, and the last is one
\* of the second if that has any.
LEMMA HitsOfBoth ==
  ASSUME NEW s, NEW t, s \in Seq(Range(s)), t \in Seq(Range(t))
  PROVE  /\ s \o t \in Seq(Range(s \o t))
         /\ Range(s \o t) = Range(s) \cup Range(t)
         /\ t # <<>> => (s \o t)[Len(s \o t)] = t[Len(t)] /\ s \o t # <<>>
         /\ t = <<>> => s \o t = s
<1> DEFINE S == Range(s) \cup Range(t)
<1>1. s \in Seq(S) /\ t \in Seq(S)
  OBVIOUS
<1> HIDE DEF S
<1>2. s \o t \in Seq(S)
  BY <1>1, ConcatProperties
<1>3. Len(s \o t) = Len(s) + Len(t)
  BY <1>1, ConcatProperties
<1>4. \A i \in 1 .. Len(s) + Len(t) : (s \o t)[i] = IF i =< Len(s) THEN s[i] ELSE t[i - Len(s)]
  BY <1>1, ConcatProperties
<1>5. Len(s) \in Nat /\ Len(t) \in Nat /\ DOMAIN s = 1 .. Len(s) /\ DOMAIN t = 1 .. Len(t)
      /\ DOMAIN (s \o t) = 1 .. Len(s) + Len(t)
  BY <1>1, <1>2, <1>3
<1> DEFINE both == s \o t
           m == Len(s)
           n == Len(t)
<1> HIDE DEF both, m, n
<1>6. \A i \in 1 .. m + n : both[i] = IF i =< m THEN s[i] ELSE t[i - m]
  BY <1>4 DEF both, m, n
<1>7. m \in Nat /\ n \in Nat /\ DOMAIN s = 1 .. m /\ DOMAIN t = 1 .. n /\ DOMAIN both = 1 .. m + n
  BY <1>5 DEF both, m, n
<1>8. Range(both) = Range(s) \cup Range(t)
  <2>1. ASSUME NEW i \in 1 .. m + n PROVE both[i] \in Range(s) \cup Range(t)
    <3>1. CASE i =< m
      BY <1>6, <1>7, <3>1 DEF Range
    <3>2. CASE ~ (i =< m)
      <4>1. i - m \in 1 .. n
        BY <1>7, <3>2
      <4> QED BY <1>6, <1>7, <3>2, <4>1 DEF Range
    <3> QED BY <3>1, <3>2
  <2>2. ASSUME NEW i \in 1 .. m PROVE s[i] \in Range(both)
    <3>1. i \in 1 .. m + n /\ i =< m
      BY <1>7
    <3> QED BY <1>6, <1>7, <3>1 DEF Range
  <2>3. ASSUME NEW i \in 1 .. n PROVE t[i] \in Range(both)
    <3>1. m + i \in 1 .. m + n /\ ~ (m + i =< m) /\ (m + i) - m = i
      BY <1>7
    <3>2. both[m + i] = t[i]
      BY <1>6, <3>1
    <3> QED BY <1>7, <3>1, <3>2 DEF Range
  <2> QED BY <1>7, <2>1, <2>2, <2>3 DEF Range
<1>9. ASSUME t # <<>> PROVE both[m + n] = t[n] /\ m + n > 0
  <2>1. n # 0
    BY <1>1, <1>9, EmptySeq DEF n
  <2>2. m + n \in 1 .. m + n /\ ~ (m + n =< m) /\ (m + n) - m = n /\ m + n > 0
    BY <1>7, <2>1
  <2> QED BY <1>6, <2>2
<1>10. Len(both) = m + n /\ both \in Seq(S)
  BY <1>2, <1>3 DEF both, m, n
<1>11. m + n > 0 => both # <<>>
  BY <1>10, EmptySeq
<1>12. both \in Seq(Range(both))
  <2>1. \A i \in 1 .. m + n : both[i] \in Range(both)
    BY <1>7 DEF Range
  <2>2. Len(both) = m + n
    BY <1>10
  <2>3. \A i \in 1 .. Len(both) : both[i] \in Range(both)
    BY <2>1, <2>2
  <2> QED BY <1>10, <2>3, SeqDef
<1>13. t = <<>> => s \o t = s
  <2>1. s \o <<>> = s
    BY <1>1, ConcatEmptySeq
  <2> QED BY Zenon, <2>1
<1> QED BY <1>8, <1>9, <1>10, <1>11, <1>12, <1>13 DEF both, m, n

\* A hit that overrides others is one of docker's or of Xen's, and none but that of an
\* LXC host makes a host of lxc.
Usual(x) ==
    /\ x.force => (x.name = "docker" /\ x.role = "guest") \/ (x.name = "xen" /\ x.role = "host")
    /\ x.name = "lxc" => x.role = "guest"
Signals(s) == s \in Seq(Range(s)) /\ \A x \in Range(s) : Usual(x)

LEMMA SignalsOfBoth == ASSUME NEW s, NEW t, Signals(s), Signals(t) PROVE Signals(s \o t) /\ Range(s \o t) = Range(s) \cup Range(t)
BY HitsOfBoth DEF Signals

LEMMA HitIsOne ==
  ASSUME NEW c, NEW n, NEW r
  PROVE  /\ Hit(c, n, r) \in Seq(Range(Hit(c, n, r)))
         /\ Range(Hit(c, n, r)) = IF c THEN {[name |-> n, role |-> r, force |-> FALSE]} ELSE {}
         /\ Forced(c, n, r) \in Seq(Range(Forced(c, n, r)))
         /\ Range(Forced(c, n, r)) = IF c THEN {[name |-> n, role |-> r, force |-> TRUE]} ELSE {}
<1>1. ASSUME NEW x PROVE <<x>> \in Seq(Range(<<x>>)) /\ Range(<<x>>) = {x}
  BY DEF Range
<1>2. <<>> \in Seq(Range(<<>>)) /\ Range(<<>>) = {}
  BY EmptySeq DEF Range
<1> QED BY <1>1, <1>2 DEF Hit, Forced

\* What a signal says.
LEMMA HitSays == ASSUME NEW c, NEW n, NEW r PROVE \A x \in Range(Hit(c, n, r)) : x.name = n /\ x.role = r
<1>1. Range(Hit(c, n, r)) \subseteq {[name |-> n, role |-> r, force |-> FALSE]}
  BY HitIsOne
<1> QED BY <1>1

LEMMA ForcedSays == ASSUME NEW c, NEW n, NEW r PROVE \A x \in Range(Forced(c, n, r)) : x.name = n /\ x.role = r
<1>1. Range(Forced(c, n, r)) \subseteq {[name |-> n, role |-> r, force |-> TRUE]}
  BY HitIsOne
<1> QED BY <1>1

LEMMA HitIsThere ==
  ASSUME NEW c, NEW n, NEW r, c
  PROVE  /\ [name |-> n, role |-> r, force |-> FALSE] \in Range(Hit(c, n, r))
         /\ [name |-> n, role |-> r, force |-> TRUE] \in Range(Forced(c, n, r))
<1>1. Range(Hit(c, n, r)) = {[name |-> n, role |-> r, force |-> FALSE]}
  BY Zenon, HitIsOne
<1>2. Range(Forced(c, n, r)) = {[name |-> n, role |-> r, force |-> TRUE]}
  BY Zenon, HitIsOne
<1> QED BY <1>1, <1>2

LEMMA HitIsUsual ==
  ASSUME NEW c, NEW n, NEW r, n = "lxc" => r = "guest"
  PROVE  Signals(Hit(c, n, r))
BY HitIsOne DEF Signals, Usual

LEMMA ForcedIsUsual ==
  ASSUME NEW c, NEW n, NEW r, (n = "docker" /\ r = "guest") \/ (n = "xen" /\ r = "host")
  PROVE  Signals(Forced(c, n, r))
BY HitIsOne DEF Signals, Usual

LEMMA NothingIsUsual == Signals(<<>>)
BY EmptySeq DEF Signals, Range

\* The signals of Linux that are functions of their own.
LEMMA SignalsAreUsual ==
  ASSUME NEW h
  PROVE  /\ Signals(DetectViaSystemd(h)) /\ Signals(VBoxModules(h)) /\ Signals(KVM(h)) /\ Signals(KVMViaCPU(h))
         /\ Signals(DetectViaDMI(h)) /\ Signals(OpenVZ(h)) /\ Signals(VServer(h)) /\ Signals(DetectViaCgroup(h))
<1>1. \A c, n : Signals(Hit(c, n, "guest"))
  BY HitIsUsual
<1>2. \A c, n, r : n # "lxc" => Signals(Hit(c, n, r))
  BY HitIsUsual
<1>3. \A s, t : Signals(s) /\ Signals(t) => Signals(s \o t)
  BY SignalsOfBoth
<1>4. Signals(DetectViaSystemd(h))
  BY Zenon, <1>1, <1>3 DEF DetectViaSystemd
<1>9. Signals(VServer(h))
  BY HitIsUsual DEF VServer
<1>10. Signals(VBoxModules(h))
  BY <1>2 DEF VBoxModules
<1>11. Signals(OpenVZ(h))
  BY <1>2 DEF OpenVZ
<1>5. Signals(VBoxModules(h)) /\ Signals(OpenVZ(h)) /\ Signals(VServer(h))
  BY <1>9, <1>10, <1>11
<1>6. Signals(KVM(h)) /\ Signals(KVMViaCPU(h))
  BY <1>2, <1>3, NothingIsUsual DEF KVM, KVMViaCPU
<1>7. Signals(DetectViaDMI(h))
  BY <1>1, NothingIsUsual DEF DetectViaDMI
<1>8. Signals(DetectViaCgroup(h))
  BY <1>1, <1>3, NothingIsUsual DEF DetectViaCgroup
<1> QED BY <1>4, <1>5, <1>6, <1>7, <1>8

\* The signals before that of an LXC host, and those after it.
Early(h) ==
    DetectViaSystemd(h)
    \o Hit(OnPath(h, "docker"), "docker", "host") \o Hit(OnPath(h, "podman"), "podman", "host")
    \o Hit(OnPath(h, "nova"), "openstack", "host")
    \o Hit(File(h, "xen"), "xen", "guest") \o Forced(File(h, "xen") /\ File(h, "xen control_d"), "xen", "host")
    \o VBoxModules(h) \o KVM(h) \o KVMViaCPU(h) \o DetectViaDMI(h) \o OpenVZ(h)
    \o Hit(h.kvp.ok, "hyperv", "guest") \o VServer(h) \o DetectViaCgroup(h)
Late(h) ==
    Forced(File(h, ".dockerenv"), "docker", "guest")
    \o Hit(File(h, "lxd sock"), "lxd", "guest") \o Hit(File(h, "devlxd"), "lxd", "host")

LEMMA EarlySignals ==
  ASSUME NEW h
  PROVE  /\ Signals(Early(h))
         /\ Range(Hit(OnPath(h, "docker"), "docker", "host")) \subseteq Range(Early(h))
         /\ Range(Forced(File(h, "xen") /\ File(h, "xen control_d"), "xen", "host")) \subseteq Range(Early(h))
<1> DEFINE p1 == DetectViaSystemd(h)
           p2 == Hit(OnPath(h, "docker"), "docker", "host")
           p3 == Hit(OnPath(h, "podman"), "podman", "host")
           p4 == Hit(OnPath(h, "nova"), "openstack", "host")
           p5 == Hit(File(h, "xen"), "xen", "guest")
           p6 == Forced(File(h, "xen") /\ File(h, "xen control_d"), "xen", "host")
           p7 == VBoxModules(h)
           p8 == KVM(h)
           p9 == KVMViaCPU(h)
           p10 == DetectViaDMI(h)
           p11 == OpenVZ(h)
           p12 == Hit(h.kvp.ok, "hyperv", "guest")
           p13 == VServer(h)
           p14 == DetectViaCgroup(h)
<1>1. Signals(p1) /\ Signals(p7) /\ Signals(p8) /\ Signals(p9) /\ Signals(p10) /\ Signals(p11) /\ Signals(p13) /\ Signals(p14)
  BY SignalsAreUsual
<1>2. Signals(p2) /\ Signals(p3) /\ Signals(p4) /\ Signals(p5) /\ Signals(p12)
  BY HitIsUsual
<1>3. Signals(p6)
  BY ForcedIsUsual
<1>4. Early(h) = p1 \o p2 \o p3 \o p4 \o p5 \o p6 \o p7 \o p8 \o p9 \o p10 \o p11 \o p12 \o p13 \o p14
  BY DEF Early
<1> HIDE DEF p1, p2, p3, p4, p5, p6, p7, p8, p9, p10, p11, p12, p13, p14
<1> DEFINE a == p1 \o p2 \o p3 \o p4 \o p5 \o p6
           b == a \o p7 \o p8 \o p9 \o p10
<1>5. Signals(a) /\ Range(p2) \subseteq Range(a) /\ Range(p6) \subseteq Range(a)
  BY <1>1, <1>2, <1>3, SignalsOfBoth
<1>6. Early(h) = b \o p11 \o p12 \o p13 \o p14
  BY <1>4
<1> HIDE DEF a
<1>7. Signals(b) /\ Range(a) \subseteq Range(b)
  BY <1>1, <1>5, SignalsOfBoth
<1> HIDE DEF b
<1>8. Signals(b \o p11 \o p12 \o p13 \o p14) /\ Range(b) \subseteq Range(b \o p11 \o p12 \o p13 \o p14)
  BY <1>1, <1>2, <1>7, SignalsOfBoth
<1>9. Range(p2) \subseteq Range(Early(h)) /\ Range(p6) \subseteq Range(Early(h))
  BY <1>5, <1>6, <1>7, <1>8
<1> QED BY <1>6, <1>8, <1>9 DEF p2, p6

LEMMA LateSignals ==
  ASSUME NEW h
  PROVE  /\ Signals(Late(h))
         /\ Range(Forced(File(h, ".dockerenv"), "docker", "guest")) \subseteq Range(Late(h))
         /\ \A x \in Range(Late(h)) : x.name \in {"docker", "lxd"}
<1> DEFINE p1 == Forced(File(h, ".dockerenv"), "docker", "guest")
           p2 == Hit(File(h, "lxd sock"), "lxd", "guest")
           p3 == Hit(File(h, "devlxd"), "lxd", "host")
<1>1. Signals(p1)
  BY ForcedIsUsual
<1>2. Signals(p2) /\ Signals(p3)
  BY HitIsUsual
<1>3. (\A x \in Range(p1) : x.name = "docker") /\ \A x \in Range(p2) \cup Range(p3) : x.name = "lxd"
  <2>1. \A x \in Range(p1) : x.name = "docker" /\ x.role = "guest"
    BY Zenon, ForcedSays
  <2>2. \A x \in Range(p2) : x.name = "lxd" /\ x.role = "guest"
    BY Zenon, HitSays
  <2>3. \A x \in Range(p3) : x.name = "lxd" /\ x.role = "host"
    BY Zenon, HitSays
  <2> QED BY Zenon, <2>1, <2>2, <2>3
<1>4. Late(h) = p1 \o p2 \o p3
  BY DEF Late
<1> HIDE DEF p1, p2, p3
<1>5. Signals(p1 \o p2 \o p3) /\ Range(p1 \o p2 \o p3) = Range(p1) \cup Range(p2) \cup Range(p3)
  BY <1>1, <1>2, SignalsOfBoth
<1>6. Range(p1) \subseteq Range(Late(h))
  BY <1>4, <1>5
<1> QED BY <1>3, <1>4, <1>5, <1>6 DEF p1

\* All authoritative hits of a name agree in their role, and there is one.
SaysOnly(hits, n, role) ==
    /\ \E x \in Range(hits) : x.force /\ x.name = n
    /\ \A x \in Range(hits) : x.force /\ x.name = n => x.role = role

\* A hit that is authoritative is what the result says of its name.
LEMMA OverrideWins ==
  ASSUME NEW hits, hits \in Seq(Range(hits)), NEW info, Book(hits, Len(hits), info),
         NEW n, NEW role, SaysOnly(hits, n, role)
  PROVE  n \in DOMAIN info.Systems /\ info.Systems[n] = role
<1> DEFINE N == Len(hits)
<1>1. DOMAIN hits = 1 .. N
  OBVIOUS
<1>2. PICK j \in 1 .. N : hits[j].force /\ hits[j].name = n
  BY <1>1 DEF Range, SaysOnly
<1>3. n \in DOMAIN info.Systems
  BY <1>2 DEF Book
<1>4. PICK k \in 1 .. N : hits[k].name = n /\ info.Systems[n] = hits[k].role /\ ~ Overridden(hits, N, k)
  BY <1>3 DEF Book
<1>5. hits[k].force
  BY <1>2, <1>4 DEF Overridden
<1>6. hits[k] \in Range(hits)
  BY <1>1 DEF Range
<1> QED BY <1>3, <1>4, <1>5, <1>6 DEF SaysOnly

\* A signal that is authoritative wins over those before it, in whatever state the host
\* is, and a host of LXC is one that has shown no other layer before.
THEOREM OverridesHoldAlways == Spec => []OverridesHold
<1>1. ASSUME CollectorsInv, Collected("virtualization"), ~ host.darwin PROVE OverridesHold
  <2> DEFINE early == Early(host)
             lxc == LXCHost(host, early)
             late == Late(host)
             all == early \o lxc \o late
             kvp == IF host.kvp.ok THEN host.kvp.out ELSE None
             s == facts.info.Systems
  <2>1. facts.info = Layers([NoLayer EXCEPT !.HypervisorHost = kvp], all)
    BY Zenon, <1>1 DEF CollectorsInv, VirtualizationOK, CascadeLinux, Early, Late
  <2>2. [NoLayer EXCEPT !.HypervisorHost = kvp] = Bare(kvp)
    BY DEF NoLayer, Bare
  <2>3. Signals(early) /\ Signals(late)
    BY EarlySignals, LateSignals
  <2>4. lxc \in Seq(Range(lxc))
    BY HitIsOne DEF LXCHost
  <2>5. Range(lxc) = IF early = <<>> /\ CgroupRootsAllSlash(host) /\ OnPath(host, "lxc-start")
                     THEN {[name |-> "lxc", role |-> "host", force |-> FALSE]} ELSE {}
    BY HitIsOne DEF LXCHost
  <2>6. /\ Range(Hit(OnPath(host, "docker"), "docker", "host")) \subseteq Range(early)
        /\ Range(Forced(File(host, "xen") /\ File(host, "xen control_d"), "xen", "host")) \subseteq Range(early)
        /\ Range(Forced(File(host, ".dockerenv"), "docker", "guest")) \subseteq Range(late)
        /\ \A x \in Range(late) : x.name \in {"docker", "lxd"}
    BY EarlySignals, LateSignals
  <2> HIDE DEF early, lxc, late, kvp
  <2>7. all \in Seq(Range(all)) /\ Range(all) = Range(early) \cup Range(lxc) \cup Range(late)
    <3>1. early \in Seq(Range(early)) /\ late \in Seq(Range(late))
      BY <2>3 DEF Signals
    <3>2. early \o lxc \in Seq(Range(early \o lxc)) /\ Range(early \o lxc) = Range(early) \cup Range(lxc)
      BY <2>4, <3>1, HitsOfBoth
    <3> DEFINE both == early \o lxc
    <3> HIDE DEF both
    <3>3. both \o late \in Seq(Range(both \o late)) /\ Range(both \o late) = Range(both) \cup Range(late)
      BY <3>1, <3>2, HitsOfBoth DEF both
    <3> QED BY <3>2, <3>3 DEF both
  <2> HIDE DEF all
  <2>8. Book(all, Len(all), facts.info)
    BY <2>1, <2>2, <2>7, LayersAddUp
  <2>9. \A y \in Range(all) : y.force => (y.name = "docker" /\ y.role = "guest") \/ (y.name = "xen" /\ y.role = "host")
    BY <2>3, <2>5, <2>7 DEF Signals, Usual
  <2>10. ASSUME File(host, ".dockerenv") PROVE "docker" \in DOMAIN s /\ s["docker"] = "guest"
    <3> DEFINE x == [name |-> "docker", role |-> "guest", force |-> TRUE]
    <3>1. x \in Range(all)
      <4>1. x \in Range(Forced(File(host, ".dockerenv"), "docker", "guest"))
        BY Zenon, <2>10, HitIsThere
      <4> HIDE DEF x
      <4> QED BY Zenon, <2>6, <2>7, <4>1
    <3>2. x.name = "docker" /\ x.force
      OBVIOUS
    <3>3. SaysOnly(all, "docker", "guest")
      BY <2>9, <3>1, <3>2 DEF SaysOnly
    <3> QED BY <2>7, <2>8, <3>3, OverrideWins
  <2>11. ASSUME File(host, "xen control_d"), File(host, "xen") PROVE s["xen"] = "host"
    <3> DEFINE x == [name |-> "xen", role |-> "host", force |-> TRUE]
    <3>1. x \in Range(all)
      <4>1. x \in Range(Forced(File(host, "xen") /\ File(host, "xen control_d"), "xen", "host"))
        BY Zenon, <2>11, HitIsThere
      <4> HIDE DEF x
      <4> QED BY Zenon, <2>6, <2>7, <4>1
    <3>2. x.name = "xen" /\ x.force
      OBVIOUS
    <3>3. SaysOnly(all, "xen", "host")
      BY <2>9, <3>1, <3>2 DEF SaysOnly
    <3> QED BY <2>7, <2>8, <3>3, OverrideWins
  <2>12. ASSUME "lxc" \in DOMAIN s, s["lxc"] = "host"
         PROVE  DOMAIN s \subseteq {"lxc", "docker", "lxd"} /\ ~ OnPath(host, "docker")
    <3>1. DOMAIN all = 1 .. Len(all)
      BY <2>7
    <3>2. PICK k \in 1 .. Len(all) : all[k].name = "lxc" /\ all[k].role = "host"
      BY <2>8, <2>12 DEF Book
    <3>3. all[k] \in Range(all)
      BY <3>1 DEF Range
    <3>4. all[k] \in Range(lxc)
      BY <2>3, <2>7, <3>2, <3>3 DEF Signals, Usual
    <3>5. early = <<>>
      BY <2>5, <3>4
    <3>6. Range(early) = {}
      BY <3>5 DEF Range
    <3>7. ~ OnPath(host, "docker")
      BY Zenon, <2>6, <3>6, HitIsThere
    <3>8. \A y \in Range(all) : y.name \in {"lxc", "docker", "lxd"}
      <4>1. \A y \in Range(lxc) : y.name = "lxc"
        BY <2>5
      <4> QED BY <2>6, <2>7, <3>6, <4>1
    <3>9. \A i \in 1 .. Len(all) : all[i] \in Range(all)
      BY <3>1 DEF Range
    <3>10. DOMAIN s = {all[i].name : i \in 1 .. Len(all)}
      BY <2>8 DEF Book
    <3> HIDE DEF s
    <3> QED BY <3>7, <3>8, <3>9, <3>10
  <2> QED BY <2>10, <2>11, <2>12 DEF OverridesHold
<1>2. CollectorsInv => OverridesHold
  BY <1>1 DEF OverridesHold
<1> QED BY <1>2, CollectorsInvHolds, PTL

\* What each of the macOS probes has found counts, and the last that has found
\* something is primary, for any answers and any order they end in.
THEOREM ProbesCountInOrderHolds == Spec => []ProbesCountInOrder
<1>1. ASSUME CollectorsInv, Collected("virtualization"), host.darwin PROVE ProbesCountInOrder
  <2> DEFINE out == [p \in VirtProbes |-> IF host.probe[p].ok THEN host.probe[p].out ELSE Empty]
             first == DarwinBinaries(host)
             last == DarwinProbed(out)
             all == first \o last
  <2>1. VirtHostOK(host) /\ facts.info = Layers(NoLayer, first \o DarwinProbed(Answers))
    BY <1>1, HostsAreTheirOwn DEF CollectorsInv, VirtualizationOK
  <2>2. Answers = out
    BY <2>1 DEF Answers, VirtHostOK
  <2>3. NoLayer = Bare(None)
    BY DEF NoLayer, Bare
  <2>4. facts.info = Layers(Bare(None), all)
    BY <2>1, <2>2, <2>3
  <2>5. Signals(first) /\ \A x \in Range(first) : x.role = "host"
    <3> DEFINE p1 == Hit(OnPath(host, "docker"), "docker", "host")
               p2 == Hit(OnPath(host, "VBoxManage"), "vbox", "host")
               p3 == Hit(OnPath(host, "prlctl"), "parallels", "host")
               p4 == Hit(File(host, "VMware Fusion.app"), "vmware", "host")
    <3>1. Signals(p1) /\ Signals(p2) /\ Signals(p3) /\ Signals(p4)
      BY HitIsUsual
    <3>2. \A x \in Range(p1) \cup Range(p2) \cup Range(p3) \cup Range(p4) : x.role = "host"
      <4>1. \A x \in Range(p1) : x.role = "host"
        BY Zenon, HitSays
      <4>2. \A x \in Range(p2) : x.role = "host"
        BY Zenon, HitSays
      <4>3. \A x \in Range(p3) : x.role = "host"
        BY Zenon, HitSays
      <4>4. \A x \in Range(p4) : x.role = "host"
        BY Zenon, HitSays
      <4> QED BY Zenon, <4>1, <4>2, <4>3, <4>4
    <3>3. first = p1 \o p2 \o p3 \o p4
      BY DEF DarwinBinaries
    <3> HIDE DEF p1, p2, p3, p4, first
    <3>4. Signals(p1 \o p2 \o p3 \o p4) /\ Range(p1 \o p2 \o p3 \o p4) = Range(p1) \cup Range(p2) \cup Range(p3) \cup Range(p4)
      BY <3>1, SignalsOfBoth
    <3> QED BY <3>2, <3>3, <3>4
  <2>6. Signals(last)
    <3> DEFINE q1 == Hit("1" \in DOMAIN out["sysctl"], "qemu", "guest")
               q2 == Hit("pci" \in DOMAIN out["ioreg"], "parallels", "guest")
               q3 == IF "VirtualBox" \in DOMAIN out["system_profiler"] THEN Hit(TRUE, "vbox", "guest")
                     ELSE Hit("VMW" \in DOMAIN out["system_profiler"], "vmware", "guest")
               q4 == Hit("VirtualMac" \in DOMAIN out["system_profiler"], "apple", "guest")
    <3> HIDE DEF out
    <3>1. Signals(q1) /\ Signals(q2) /\ Signals(q4)
      BY HitIsUsual
    <3>2. Signals(q3)
      BY HitIsUsual
    <3>3. last = q1 \o q2 \o q3 \o q4
      BY DEF DarwinProbed
    <3> HIDE DEF q1, q2, q3, q4
    <3>4. Signals(q1 \o q2 \o q3 \o q4)
      BY <3>1, <3>2, SignalsOfBoth
    <3> QED BY <3>3, <3>4
  <2> HIDE DEF first, last
  <2>7. /\ all \in Seq(Range(all)) /\ Range(all) = Range(first) \cup Range(last)
        /\ last # <<>> => all[Len(all)] = last[Len(last)] /\ all # <<>>
        /\ last = <<>> => all = first
    BY <2>5, <2>6, HitsOfBoth DEF Signals
  <2> HIDE DEF all
  <2>8. Book(all, Len(all), facts.info) /\ (all = <<>> => facts.info.Role = None)
    BY <2>4, <2>7, LayersAddUp
  <2>9. /\ DOMAIN all = 1 .. Len(all) /\ Len(all) \in Nat
        /\ all # <<>> => Len(all) > 0 /\ Len(all) \in 1 .. Len(all)
    BY <2>7, EmptySeq
  <2>10. ASSUME NEW k \in DOMAIN last PROVE last[k].name \in DOMAIN facts.info.Systems
    <3>1. last[k] \in Range(all)
      BY <2>7 DEF Range
    <3>2. PICK j \in 1 .. Len(all) : all[j] = last[k]
      BY <2>9, <3>1 DEF Range
    <3> QED BY <2>8, <3>2 DEF Book
  <2>11. ASSUME last # <<>> PROVE facts.info.System = Last(last).name
    <3>1. facts.info.System = all[Len(all)].name
      BY <2>7, <2>8, <2>9, <2>11 DEF Book
    <3> QED BY <2>7, <2>11, <3>1 DEF Last
  <2>12. ASSUME last = <<>> PROVE facts.info.Role \in {None, "host"}
    <3>1. CASE all = <<>>
      BY <2>8, <3>1
    <3>2. CASE all # <<>>
      <4>1. facts.info.Role = all[Len(all)].role
        BY <2>8, <2>9, <3>2 DEF Book
      <4>2. all[Len(all)] \in Range(first)
        BY <2>7, <2>9, <2>12, <3>2 DEF Range
      <4> QED BY <2>5, <4>1, <4>2
    <3> QED BY <3>1, <3>2
  <2> QED BY <2>10, <2>11, <2>12 DEF ProbesCountInOrder, last
<1>2. CollectorsInv => ProbesCountInOrder
  BY <1>1 DEF ProbesCountInOrder
<1> QED BY <1>2, CollectorsInvHolds, PTL

\* What several probes, reports or signals found is added up in the order the code
\* gives them, and not in the order they came or failed in.
THEOREM SignalsAddUpHolds == Spec => []SignalsAddUp
BY OverridesHoldAlways, ProbesCountInOrderHolds, ProbesCommuteHolds, ReportsAreWholeHolds, LayoutNestsHolds, PTL DEF SignalsAddUp
=============================================================================
