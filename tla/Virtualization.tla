---------------------------- MODULE Virtualization ----------------------------
(***************************************************************************)
(* The virtualization collector (pkg/gohai/collectors/virtualization): a   *)
(* cascade of independent signals, each of which names a layer that the    *)
(* host is a guest or a host of.                                           *)
(***************************************************************************)
EXTENDS Probes

CONSTANT VirtHosts  \* the hosts, see VirtHostOK

VirtProbes == {"sysctl", "ioreg", "system_profiler"}

\* A host: the binaries on its path and whether there is a program `command`, its
\* files, and of the files and commands that are read what a signal looks for.
VirtHostOK(h) ==
    /\ h.of = "virtualization" /\ h.darwin \in BOOLEAN /\ h.command \in BOOLEAN
    /\ h.path \subseteq {"docker", "podman", "nova", "lxc-start", "VBoxManage", "prlctl"}
    /\ DOMAIN h.systemd = {"--vm", "--container"}
    /\ h.context \in {None, "0", "other"} /\ h.environ \subseteq {"lxc", "systemd-nspawn", "podman"}
    /\ DOMAIN h.probe = VirtProbes

ASSUME VirtHostsAssumption == \A h \in VirtHosts : VirtHostOK(h)

----------------------------------------------------------------------------
\* A mutant: what has been found stays.
AddKeeping(info, hit) ==
    [info EXCEPT !.Systems = @ @@ (hit.name :> hit.role), !.System = hit.name, !.Role = hit.role]

\* addSystem: the role of a layer stays unless it is forced; the last one found is
\* the primary one.
AddSystem(info, hit) ==
    [info EXCEPT !.Systems = IF hit.name \in DOMAIN @ /\ ~ hit.force THEN @ ELSE Put(@, hit.name, hit.role),
                 !.System = hit.name, !.Role = hit.role]

NoLayer == [System |-> None, Role |-> None, Systems |-> Empty, HypervisorHost |-> None]
Layers(info, hits) == FoldLeft(AddSystem, info, hits)

\* What a signal adds if it is there.
Hit(there, name, role) == IF there THEN <<[name |-> name, role |-> role, force |-> FALSE]>> ELSE <<>>
Forced(there, name, role) == IF there THEN <<[name |-> name, role |-> role, force |-> TRUE]>> ELSE <<>>

\* execBinaryOnPath runs the program `command`, which not every system has.
OnPath(h, binary) == h.command /\ binary \in h.path
File(h, f) == f \in h.files

\* detectViaSystemd.
DetectViaSystemd(h) ==
    LET Said(mode) == h.systemd[mode]
        Named(mode) == Said(mode).ok /\ Said(mode).out \notin {None, "none"}
    IN Hit(Named("--vm"), Said("--vm").out, "guest") \o Hit(Named("--container"), Said("--container").out, "guest")

\* /proc/modules, /proc/cpuinfo and the cpu collector's result.
VBoxModules(h) ==
    IF "vboxdrv" \in h.modules THEN Hit(TRUE, "vbox", "host") ELSE Hit("vboxguest" \in h.modules, "vbox", "guest")

KVM(h) ==
    IF ~ h.cpuinfo.ok THEN <<>>
    ELSE Hit("QEMU Virtual CPU" \in h.cpuinfo.out, "kvm", "guest")
         \o Hit(File(h, "kvm"), "kvm", IF "hypervisor" \in h.cpuinfo.out THEN "guest" ELSE "host")

KVMViaCPU(h) ==
    Hit(\E cpu \in h.prior : cpu.HypervisorVendor = "KVM" /\ cpu.VirtualizationType \in {"full", "para"}, "kvm", "guest")

\* detectViaDMI: the vendor if it tells, else the product.
VendorLayer == [openstack |-> "openstack", xen |-> "xen", vmware |-> "vmware", amazon |-> "amazonec2", qemu |-> "kvm"]
ProductLayer == [virtualbox |-> "vbox", openstack |-> "openstack", kvm |-> "kvm", bhyve |-> "bhyve"]
DetectViaDMI(h) ==
    CASE h.vendor \in DOMAIN VendorLayer -> Hit(TRUE, VendorLayer[h.vendor], "guest")
      [] h.vendor = "microsoft" /\ h.product = "virtual machine" -> Hit(TRUE, "hyperv", "guest")
      [] h.product \in DOMAIN ProductLayer -> Hit(TRUE, ProductLayer[h.product], "guest")
      [] OTHER -> <<>>

OpenVZ(h) == IF File(h, "bc0") THEN Hit(TRUE, "openvz", "host") ELSE Hit(File(h, "vz"), "openvz", "guest")

VServer(h) == Hit(h.context # None, "linux-vserver", IF h.context = "0" THEN "host" ELSE "guest")

\* detectViaCgroup: the runtime of the first line that has it directly under the
\* root, or else of the first that has it one level down; deeper is not seen.
Runtimes(h, depth) == SelectSeq(h.cgroup.out, LAMBDA l : l.depth = depth)
DetectViaCgroup(h) ==
    LET flat == Runtimes(h, 1)
        nested == SelectSeq(Runtimes(h, 2), LAMBDA l : l.runtime # "containerd")
        Named(r) == IF r = "containerd" THEN "docker" ELSE r
        CgroupHit == CASE ~ h.cgroup.ok -> <<>>
                       [] flat # <<>>   -> Hit(TRUE, Named(flat[1].runtime), "guest")
                       [] nested # <<>> -> Hit(TRUE, nested[1].runtime, "guest")
                       [] OTHER         -> <<>>
    IN CgroupHit \o (IF "lxc" \in h.environ THEN Hit(TRUE, "lxc", "guest")
                     ELSE IF "systemd-nspawn" \in h.environ THEN Hit(TRUE, "nspawn", "guest")
                     ELSE Hit("podman" \in h.environ, "podman", "guest"))

CgroupRootsAllSlash(h) == h.cgroup.ok /\ \A l \in Range(h.cgroup.out) : l.depth = 0

\* An LXC host is one that has shown no other layer so far.
LXCHost(h, hits) == Hit(hits = <<>> /\ CgroupRootsAllSlash(h) /\ OnPath(h, "lxc-start"), "lxc", "host")

\* cascadeLinux.
CascadeLinux(h) ==
    LET hits == DetectViaSystemd(h)
                \o Hit(OnPath(h, "docker"), "docker", "host") \o Hit(OnPath(h, "podman"), "podman", "host")
                \o Hit(OnPath(h, "nova"), "openstack", "host")
                \o Hit(File(h, "xen"), "xen", "guest") \o Forced(File(h, "xen") /\ File(h, "xen control_d"), "xen", "host")
                \o VBoxModules(h) \o KVM(h) \o KVMViaCPU(h) \o DetectViaDMI(h) \o OpenVZ(h)
                \o Hit(h.kvp.ok, "hyperv", "guest") \o VServer(h) \o DetectViaCgroup(h)
        late == Forced(File(h, ".dockerenv"), "docker", "guest")
                \o Hit(File(h, "lxd sock"), "lxd", "guest") \o Hit(File(h, "devlxd"), "lxd", "host")
    IN Layers([NoLayer EXCEPT !.HypervisorHost = IF h.kvp.ok THEN h.kvp.out ELSE None], hits \o LXCHost(h, hits) \o late)

\* cascadeDarwin, before and after the probes.
DarwinBinaries(h) ==
    Hit(OnPath(h, "docker"), "docker", "host") \o Hit(OnPath(h, "VBoxManage"), "vbox", "host")
    \o Hit(OnPath(h, "prlctl"), "parallels", "host") \o Hit(File(h, "VMware Fusion.app"), "vmware", "host")

DarwinProbed(out) ==
    Hit("1" \in DOMAIN out["sysctl"], "qemu", "guest") \o Hit("pci" \in DOMAIN out["ioreg"], "parallels", "guest")
    \o (IF "VirtualBox" \in DOMAIN out["system_profiler"] THEN Hit(TRUE, "vbox", "guest")
        ELSE Hit("VMW" \in DOMAIN out["system_profiler"], "vmware", "guest"))
    \o Hit("VirtualMac" \in DOMAIN out["system_profiler"], "apple", "guest")

CollectVirtualization ==
    \/ host.of = "virtualization" /\ ~ host.darwin /\ Returns("virtualization", CascadeLinux(host))
    \/ host.of = "virtualization" /\ host.darwin /\ StartProbes("virtualization", VirtProbes)
    \/ host.of = "virtualization" /\ Probing
       /\ WaitReturns("virtualization", Layers(NoLayer, DarwinBinaries(host) \o DarwinProbed(Written)))

----------------------------------------------------------------------------
\* A signal that is authoritative wins over those before it: in a Docker container
\* docker is a guest though its binary is there, the control domain of Xen is a
\* host; and an LXC host is reported only where no signal before it was there.
OverridesHold ==
    Collected("virtualization") /\ ~ host.darwin =>
        LET s == facts.info.Systems
        IN /\ File(host, ".dockerenv") => "docker" \in DOMAIN s /\ s["docker"] = "guest"
           /\ File(host, "xen control_d") /\ File(host, "xen") => s["xen"] = "host"
           /\ "lxc" \in DOMAIN s /\ s["lxc"] = "host" => DOMAIN s \subseteq {"lxc", "docker", "lxd"} /\ ~ OnPath(host, "docker")

\* Whichever of the macOS probes ends last, what each of them has found counts, and
\* the primary layer is the one that the serial order of the cascade ends with.
ProbesCountInOrder ==
    Collected("virtualization") /\ host.darwin =>
        LET out == [p \in VirtProbes |-> IF host.probe[p].ok THEN host.probe[p].out ELSE Empty]
            last == DarwinProbed(out)
        IN /\ \A k \in DOMAIN last : last[k].name \in DOMAIN facts.info.Systems
           /\ last # <<>> => facts.info.System = Last(last).name
           /\ last = <<>> => facts.info.Role \in {None, "host"}
=============================================================================
