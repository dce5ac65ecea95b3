------------------------------ MODULE FactsViews ------------------------------
(***************************************************************************)
(* What a reader gets from Facts (pkg/gohai): the fields that results are  *)
(* put into, the count in its summary, the flat map, and the OCSF event    *)
(* (pkg/gohai/ocsf).  The host of a behaviour are the results of a run.    *)
(***************************************************************************)
EXTENDS Collection

CONSTANT FactsHosts  \* the results, see FactsHostOK

\* The cases of Facts.set.
HostFields == {"platform", "hostname", "kernel", "kernel_modules", "uptime", "virtualization", "machine_id",
    "cpu", "load", "memory", "filesystem", "disk", "network", "process", "users", "sessions", "timezone",
    "root_group", "shells", "fips", "os_release", "lsb", "init", "shard", "package_mgr"}
CloudFields == {"gce", "ec2", "azure", "digital_ocean", "oci", "alibaba", "linode", "openstack", "scaleway"}
HardwareFields == {"dmi", "gpu", "pci", "scsi", "hardware"}
SoftwareFields == {"block_device", "command", "docker", "grub2", "hostnamectl", "interrupts", "ipc", "languages",
    "libvirt", "livepatch", "mdadm", "packages", "rpm", "selinux", "services", "ssh", "sysconf", "sysctl",
    "systemd_paths", "tc", "virtualbox", "vmware", "zpools"}
Fields == HostFields \cup CloudFields \cup HardwareFields \cup SoftwareFields

\* Results of names, and what the facts hold: leaves at paths of keys, where a
\* key is the sequence of its parts between dots; the interfaces, and which of
\* them routes call the default.
FactsHostOK(h) ==
    /\ h.of = "facts" /\ h.results \subseteq Fields \cup {"unknown"}
    /\ \A l \in h.leaves : l.path # <<>>
    /\ h.ifaces \in Seq(Range(h.ifaces))
    /\ \A i \in Range(h.ifaces) : i.name # None /\ i.addrs \in Seq(Range(i.addrs))

ASSUME FactsHostsAssumption == \A h \in FactsHosts : FactsHostOK(h)

\* Facts.set on every result; names it does not know are dropped.
Filled(h) == h.results \cap Fields

\* countPopulated.
Counted == Fields \ {"sessions", "pci", "scsi", "hardware"}
CountPopulated(filled) == Cardinality(filled \cap Counted)

----------------------------------------------------------------------------
\* flattenMap: the keys of a path joined with dots.  Where two paths join to the
\* same key the map that is read last wins.

\* A mutant: below the first level the prefix is forgotten.
JoinLast(path) == Last(path)

Join(path) == FlattenSeq(path)

Flats(leaves) ==
    LET keys == {Join(l.path) : l \in leaves}
    IN {f \in [keys -> leaves] : \A k \in keys : Join(f[k].path) = k}

\* Facts.Get: nil for a key that is not in the flat map.
GetKey(flat, key) == IF key \in DOMAIN flat THEN {flat[key].value} ELSE Nil

----------------------------------------------------------------------------
\* ocsf.FromFacts: the device.
OSTypeID(os) ==
    CASE os = "linux"   -> 200
      [] os = "darwin"  -> 300
      [] os = "windows" -> 100
      [] OTHER          -> 0

\* A mutant: any address of the default interface will do.
PrimaryAny(h) ==
    LET mine == {k \in DOMAIN h.ifaces : h.ifaces[k].name = h.default /\ h.ifaces[k].addrs # <<>>}
    IN IF mine = {} THEN None ELSE h.ifaces[Min(mine)].addrs[1].addr

\* The first IPv4 address of an interface of the name.
Inet(i) == {j \in DOMAIN i.addrs : i.addrs[j].family = "inet"}
PrimaryIP(h) ==
    LET mine == {k \in DOMAIN h.ifaces : h.ifaces[k].name = h.default /\ Inet(h.ifaces[k]) # {}}
        first == h.ifaces[Min(mine)]
    IN IF mine = {} THEN None ELSE first.addrs[Min(Inet(first))].addr

OcsfInterfaces(h) ==
    [k \in DOMAIN h.ifaces |->
        [name |-> h.ifaces[k].name, ip |-> IF h.ifaces[k].addrs = <<>> THEN None ELSE h.ifaces[k].addrs[1].addr]]

\* The OS object needs the platform, what the kernel and os-release say goes with
\* it; the hardware object needs one of three.
OcsfDevice(h) ==
    LET filled == Filled(h)
        Sec(c, S) == IF c THEN S \cap filled ELSE {}
    IN [os |-> Sec("platform" \in filled, {"platform", "kernel", "os_release", "hostnamectl"}),
        osType |-> IF "platform" \in filled THEN OSTypeID(h.os) ELSE 0,
        hw |-> filled \cap {"cpu", "memory", "dmi"},
        own |-> filled \cap {"hostname", "machine_id", "virtualization", "init", "uptime", "timezone"},
        ifaces |-> IF "network" \in filled THEN OcsfInterfaces(h) ELSE <<>>,
        ip |-> IF "network" \in filled /\ h.default # None THEN PrimaryIP(h) ELSE None]

----------------------------------------------------------------------------
\* The views of the facts of one run.
CollectFacts ==
    /\ host.of = "facts"
    /\ \E flat \in Flats(host.leaves) :
          Returns("facts", [filled |-> Filled(host), count |-> CountPopulated(Filled(host)),
                            flat |-> flat, device |-> OcsfDevice(host)])

----------------------------------------------------------------------------
\* Flat has every leaf of the JSON document under its path joined with dots, and
\* Get finds it there: a leaf is lost only to another whose path reads the same.
FlatKeepsLeaves ==
    Collected("facts") =>
        LET flat == facts.info.flat IN
        /\ Range(flat) \subseteq host.leaves
        /\ \A l \in host.leaves :
              \/ GetKey(flat, FlattenSeq(l.path)) = {l.value}
              \/ \E o \in host.leaves \ {l} : FlattenSeq(o.path) = FlattenSeq(l.path) /\ o \in Range(flat)

\* The address the event names as the device's is an IPv4 address of the
\* interface with the default route; it names one if that has one.
PrimaryIPIsOfTheDefault ==
    Collected("facts") /\ "network" \in host.results =>
        LET mine == {a \in UNION {Range(i.addrs) : i \in {i \in Range(host.ifaces) : i.name = host.default}} :
                        a.family = "inet"}
        IN IF mine = {} THEN facts.info.device.ip = None ELSE facts.info.device.ip \in {a.addr : a \in mine}

\* What a reader is shown of the facts is in them, and what is in them is shown: a
\* leaf under its path, the address of the device if it has one.
ViewsKeepFacts == FlatKeepsLeaves /\ PrimaryIPIsOfTheDefault
=============================================================================
