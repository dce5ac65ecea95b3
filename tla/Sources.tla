-------------------------------- MODULE Sources --------------------------------
(***************************************************************************)
(* The collectors that fill a few fields, each from the first source that  *)
(* has it or from one of its own: machine_id, timezone, package_mgr, init, *)
(* fips, kernel, uptime, root_group, sysconf, load, disk, dmi, vmware,     *)
(* languages, ipc, process and block_device.                               *)
(***************************************************************************)
EXTENDS Collection

CONSTANT SourceHosts  \* the hosts, see SourceHostOK

\* What each collector asks, in its order.
Asked ==
    [machine_id |-> <<"host", "dbus">>, timezone |-> <<"localtime", "timezone">>,
     package_mgr |-> <<"apt", "dnf", "yum", "zypper", "pacman", "apk", "xbps-install", "emerge", "brew">>,
     init |-> <<"comm">>, fips |-> <<"fips_enabled", "policy">>, kernel |-> <<"uname", "sysctl">>, uptime |-> <<"host", "/proc/uptime">>,
     root_group |-> <<"user", "group">>, sysconf |-> <<"clk_tck", "pagesize", "nprocessors">>,
     vmware |-> <<"scsi", "probe", "version", "stat", "session">>,
     languages |-> <<"go", "python3", "java">>, ipc |-> <<"sem", "msgmnb", "shmall">>,
     block_device |-> <<"/sys/block">>, process |-> <<"list", "ppid", "status">>,
     load |-> <<"averages">>, disk |-> <<"counters">>, dmi |-> <<"bios", "baseboard", "chassis", "product">>]

\* Where a system keeps its zones.
Zoneinfo(platform) == IF platform = "darwin" THEN "/var/db/timezone/zoneinfo" ELSE "/usr/share/zoneinfo"

\* A host: the platform its variants are chosen by, and for each source its text,
\* None if there is nothing in it, or a failure; a zone is the parts of a path, of
\* which a link has one that is not the directory of all; and /sys/block is a sequence
\* of entries [name, dir, size].
SourceHostOK(h) ==
    /\ h.of \in DOMAIN Asked
    /\ h.platform \in {"linux", "debian", "rhel", "darwin"}
    /\ DOMAIN h.says = Range(Asked[h.of])
    /\ h.of = "timezone" /\ h.says["localtime"].ok =>
          LET path == h.says["localtime"].out
          IN path \in Seq(Range(path)) /\ path \notin {<<>>, <<Zoneinfo(h.platform)>>}

ASSUME SourceHostsAssumption == \A h \in SourceHosts : SourceHostOK(h)

\* The text of a source, or nothing.
TextOf(h, s) == IF h.says[s].ok THEN h.says[s].out ELSE None

OnMac == host.platform = "darwin"

----------------------------------------------------------------------------
\* Sources in the order of their worth.

\* The places of the sources that have something.
Having(h, ss) == {k \in DOMAIN ss : TextOf(h, ss[k]) # None}

\* A mutant: the last one that has something.
FoundLast(h, ss) == IF Having(h, ss) = {} THEN None ELSE ss[Max(Having(h, ss))]

\* The first source that has something.
FirstFound(h, ss) == IF Having(h, ss) = {} THEN None ELSE ss[Min(Having(h, ss))]

\* machine_id: what gopsutil knows and, on Linux, dbus's file; gopsutil's error
\* counts, even where the file is there.
MachineID ==
    LET source == FirstFound(host, IF OnMac THEN <<"host">> ELSE Asked["machine_id"])
    IN IF source = None THEN None ELSE TextOf(host, source)

CollectMachineID ==
    \/ host.of = "machine_id" /\ ~ host.says["host"].ok /\ Errs("machine_id")
    \/ host.of = "machine_id" /\ host.says["host"].ok /\ Returns("machine_id", MachineID)

\* timezone: where /etc/localtime points to, without a prefix if it has that; and
\* only if it is no link /etc/timezone, which macOS has not.
TrimZone(path) == IF path[1] = Zoneinfo(host.platform) THEN Tail(path) ELSE path

Timezone ==
    IF host.says["localtime"].ok THEN TrimZone(host.says["localtime"].out)
    ELSE IF OnMac \/ ~ host.says["timezone"].ok THEN Empty ELSE host.says["timezone"].out

CollectTimezone == host.of = "timezone" /\ Returns("timezone", Timezone)

\* package_mgr: the first on the path of those the platform knows.
Managers(platform) ==
    CASE platform = "debian" -> <<"apt">> [] platform = "rhel" -> <<"dnf", "yum">>
      [] platform = "darwin" -> <<"brew">> [] OTHER -> <<"zypper", "pacman", "apk", "xbps-install", "emerge">>

PackageMgr ==
    LET name == FirstFound(host, Managers(host.platform))
    IN [name |-> name, path |-> IF name = None THEN None ELSE TextOf(host, name)]

CollectPackageMgr == host.of = "package_mgr" /\ Returns("package_mgr", PackageMgr)

CollectInit == host.of = "init" /\ Returns("init", IF OnMac THEN "launchd" ELSE TextOf(host, "comm"))

----------------------------------------------------------------------------
\* Sources that have to be there, and those that need not.

\* fips: the kernel's flag may be missing but not unreadable, the policy both.
NoFile == [ok |-> FALSE, out |-> "no such file"]

CollectFips ==
    LET flag == host.says["fips_enabled"]
    IN \/ host.of = "fips" /\ OnMac /\ Returns("fips", Nil)
       \/ host.of = "fips" /\ ~ OnMac /\ (flag.ok \/ flag = NoFile)
             /\ Returns("fips", {[kernel |-> flag.ok /\ flag.out = "1", policy |-> TextOf(host, "policy")]})
       \/ host.of = "fips" /\ ~ OnMac /\ ~ flag.ok /\ flag # NoFile /\ Errs("fips")

\* kernel: a Mac whose processor is said to be an Intel one, and whose sysctl knows
\* such processors, is taken for an ARM one that translates.
CollectKernel ==
    LET machine == TextOf(host, "uname")
        translated == OnMac /\ machine = "x86_64" /\ TextOf(host, "sysctl") = "1"
    IN \/ host.of = "kernel" /\ host.says["uname"].ok
          /\ Returns("kernel", [machine |-> IF translated THEN "arm64" ELSE machine, translated |-> translated])
       \/ host.of = "kernel" /\ ~ host.says["uname"].ok /\ Errs("kernel")

\* uptime: without the idle time, which is Linux's, if it cannot be read.
CollectUptime ==
    \/ host.of = "uptime" /\ host.says["host"].ok
       /\ Returns("uptime", [seconds |-> TextOf(host, "host"), idle |-> IF OnMac THEN None ELSE TextOf(host, "/proc/uptime")])
    \/ host.of = "uptime" /\ ~ host.says["host"].ok /\ Errs("uptime")

\* root_group, sysconf, load, disk: all or nothing.
CollectAll ==
    \E c \in {"root_group", "sysconf", "load", "disk"} :
        \/ host.of = c /\ (\A s \in DOMAIN host.says : host.says[s].ok) /\ Returns(c, [s \in DOMAIN host.says |-> host.says[s].out])
        \/ host.of = c /\ (\E s \in DOMAIN host.says : ~ host.says[s].ok) /\ Errs(c)

----------------------------------------------------------------------------
\* Sources of one field each.

\* vmware: a guest by its controller, on Linux, or by the tool that answers; a
\* tool that says nothing of its session is taken for one on a desktop.
Guest == (~ OnMac /\ TextOf(host, "scsi") = "VMware") \/ TextOf(host, "probe") # None

VMware ==
    IF Guest
    THEN {[version |-> TextOf(host, "version"), stat |-> TextOf(host, "stat"),
           type |-> IF TextOf(host, "session") = None THEN "vmware_desktop" ELSE "vmware_vsphere"]}
    ELSE Nil

CollectVMware == host.of = "vmware" /\ Returns("vmware", VMware)

\* languages, dmi, ipc, process: a field is empty if its source fails.
FieldsOf(h, ss) == [s \in ss |-> TextOf(h, s)]

CollectEach ==
    \/ \E c \in {"languages", "dmi"} : host.of = c /\ Returns(c, FieldsOf(host, DOMAIN host.says))
    \/ host.of = "ipc" /\ Returns("ipc", IF OnMac THEN Nil ELSE {FieldsOf(host, DOMAIN host.says)})
    \/ host.of = "process" /\ host.says["list"].ok /\ Returns("process", FieldsOf(host, {"ppid", "status"}))
    \/ host.of = "process" /\ ~ host.says["list"].ok /\ Errs("process")

\* block_device: the entries that are directories themselves.
CollectBlockDevices ==
    LET listed == host.says["/sys/block"]
        dirs == IF listed.ok THEN SelectSeq(listed.out, LAMBDA e : e.dir) ELSE <<>>
    IN /\ host.of = "block_device"
       /\ Returns("block_device",
                  IF OnMac THEN Nil ELSE {[k \in DOMAIN dirs |-> [name |-> dirs[k].name, size |-> dirs[k].size]]})

CollectSource ==
    \/ CollectMachineID \/ CollectTimezone \/ CollectPackageMgr \/ CollectInit
    \/ CollectFips \/ CollectKernel \/ CollectUptime \/ CollectAll \/ CollectVMware \/ CollectEach
    \/ CollectBlockDevices

----------------------------------------------------------------------------
\* A later source counts only where all in front of it have nothing, nothing is
\* missing that one of them has, and what is found is told with where it was found.
FallbacksAreInOrder ==
    /\ Collected("machine_id") =>
        /\ TextOf(host, "host") # None => facts.info = TextOf(host, "host")
        /\ facts.info = None => TextOf(host, "host") = None /\ (OnMac \/ TextOf(host, "dbus") = None)
    /\ Collected("timezone") =>
        facts.info = Empty <=>
            ~ host.says["localtime"].ok /\ (OnMac \/ ~ host.says["timezone"].ok \/ host.says["timezone"].out = Empty)
    /\ Collected("package_mgr") =>
        LET known == Managers(host.platform)
            at == {k \in DOMAIN known : known[k] = facts.info.name}
        IN /\ facts.info.name = None <=> \A m \in Range(known) : TextOf(host, m) = None
           /\ \A k \in at : facts.info.path = TextOf(host, known[k]) /\ \A j \in 1..(k - 1) : TextOf(host, known[j]) = None

\* Every entry of /sys/block is reported (docs/collectors/block_device.md:8: "One
\* entry is emitted per device name").  The kernel makes them symbolic links.
DevicesAreListed ==
    Collected("block_device") /\ host.says["/sys/block"].ok =>
        \A i \in facts.info : \A e \in Range(host.says["/sys/block"].out) : \E d \in Range(i) : d.name = e.name

=============================================================================
