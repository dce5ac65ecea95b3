------------------------------- MODULE Listings -------------------------------
(***************************************************************************)
(* The collectors that list what a command prints or a file has, line by   *)
(* line: sessions, services, packages, command, docker, libvirt, tc, rpm,  *)
(* kernel_modules, livepatch, grub2, ssh, selinux, interrupts, shells,     *)
(* hostnamectl, lsb, scsi, systemd_paths, virtualbox, sysctl, pci and gpu. *)
(***************************************************************************)
EXTENDS Collection

CONSTANT ListingHosts  \* the hosts, see ListingHostOK

\* The sources of each collector, in the order it asks them.
SourcesOf ==
    [sessions |-> <<"loginctl", "utmp">>, services |-> <<"systemctl">>, packages |-> <<"dpkg-query">>,
     docker |-> <<"version", "ps", "images">>, libvirt |-> <<"version", "uri", "list", "dominfo">>, tc |-> <<"qdisc">>,
     rpm |-> <<"showrc">>, kernel_modules |-> <<"modules", "version">>, livepatch |-> <<"dir">>,
     grub2 |-> <<"/boot/grub2", "/boot/grub">>, ssh |-> <<"rsa", "ecdsa", "ed25519">>,
     selinux |-> <<"config", "sestatus">>, interrupts |-> <<"interrupts">>,
     hostnamectl |-> <<"hostnamectl">>, virtualbox |-> <<"VBoxControl">>, lsb |-> <<"lsb_release">>,
     scsi |-> <<"lsscsi">>, systemd_paths |-> <<"systemd-path">>, sysctl |-> <<"sysctl">>,
     shells |-> <<"shells">>, command |-> <<"ps">>, kextstat |-> <<"kextstat">>, pci |-> <<"ghw">>, gpu |-> <<"ghw">>]

\* A host: what each source says, as lines [t, key, val], where t is "good", "torn"
\* (too few fields, a comment, no separator), "long" (of 64 KiB or more) or one of
\* rpm's and sysctl's own.
ListingHostOK(h) ==
    /\ h.of \in DOMAIN SourcesOf /\ DOMAIN h.says = Range(SourcesOf[h.of])
    /\ \A s \in DOMAIN h.says : ListOf(h.says[s], {"t", "key", "val"})

ASSUME ListingHostsAssumption == \A h \in ListingHosts : ListingHostOK(h)

----------------------------------------------------------------------------
\* What the parsers have in common.

\* bufio.Scanner ends at a line that is too long, and nobody asks it why.
Scan(lines) ==
    LET long == {k \in DOMAIN lines : lines[k].t = "long"}
    IN IF long = {} THEN lines ELSE SubSeq(lines, 1, Min(long) - 1)

\* The lines that are good, of a source that is read whole and of one that is scanned.
Whole(lines) == Kept(lines, {k \in DOMAIN lines : lines[k].t = "good"})
Good(lines) == Whole(Scan(lines))

Entries(good) == [k \in DOMAIN good |-> [name |-> good[k].key, state |-> good[k].val]]

\* A slice that starts as nil and is only appended to.
Slice(s) == IF s = <<>> THEN Nil ELSE {s}

----------------------------------------------------------------------------
\* The lists.

\* sessions: loginctl, or what utmp has if that fails.
CollectSessions ==
    \/ host.of = "sessions" /\ host.says["loginctl"].ok /\ Returns("sessions", Slice(Entries(Good(host.says["loginctl"].out))))
    \/ /\ host.of = "sessions" /\ ~ host.says["loginctl"].ok
       /\ \/ host.says["utmp"].ok /\ Returns("sessions", {Entries(Whole(host.says["utmp"].out))})
          \/ ~ host.says["utmp"].ok /\ Errs("sessions")

\* services, packages, command: nothing if the command fails.
CollectUnits ==
    \E c \in {"services", "packages", "command"} :
        LET said == host.says[SourcesOf[c][1]]
        IN host.of = c /\ Returns(c, {IF said.ok THEN Entries(Good(said.out)) ELSE <<>>})

\* docker: the containers and the images, each on its own.
DockerInfo(h) ==
    LET Listed(s) == IF h.says[s].ok THEN Slice(Entries(Good(h.says[s].out))) ELSE {<<>>}
    IN IF h.says["version"].ok THEN {[containers |-> Listed("ps"), images |-> Listed("images")]} ELSE Nil

CollectDocker == host.of = "docker" /\ Returns("docker", DockerInfo(host))

\* libvirt: the version of the daemon, or else the library's; the domains with
\* what dominfo says of them.
VirshVersion(lines) ==
    LET daemon == SelectSeq(Good(lines), LAMBDA l : l.key = "daemon")
        m == ByKey(Good(lines))
    IN IF daemon # <<>> THEN daemon[1].val ELSE IF "library" \in DOMAIN m THEN m["library"] ELSE None

Domains(h) ==
    LET uuids == IF h.says["dominfo"].ok THEN ByKey(Whole(h.says["dominfo"].out)) ELSE Empty
        found == IF h.says["list"].ok THEN Entries(Good(h.says["list"].out)) ELSE <<>>
    IN [k \in DOMAIN found |-> found[k] @@ [uuid |-> IF found[k].name \in DOMAIN uuids THEN uuids[found[k].name] ELSE None]]

CollectLibvirt ==
    /\ host.of = "libvirt"
    /\ Returns("libvirt", IF host.says["version"].ok
                          THEN {[version |-> VirshVersion(host.says["version"].out), uri |-> host.says["uri"].ok,
                                 domains |-> Slice(Domains(host))]}
                          ELSE Nil)

\* tc: the queues of each interface, which are in the order of their first lines.
AddQueue(s, l) ==
    [order |-> IF l.key \in DOMAIN s.map THEN s.order ELSE Append(s.order, l.key),
     map |-> Put(s.map, l.key, Append(IF l.key \in DOMAIN s.map THEN s.map[l.key] ELSE <<>>, l.val))]

ReadQueues(good) == FoldLeft(AddQueue, [order |-> <<>>, map |-> Empty], good)

ParseTCOutput(lines) ==
    LET end == ReadQueues(Good(lines))
    IN [k \in DOMAIN end.order |-> [name |-> end.order[k], qdiscs |-> end.map[end.order[k]]]]

TCInfo(h) == IF h.says["qdisc"].ok THEN ParseTCOutput(h.says["qdisc"].out) ELSE <<>>

CollectTC == host.of = "tc" /\ Returns("tc", TCInfo(host))

----------------------------------------------------------------------------
\* The maps.

\* rpm: between the first two markers a macro starts with its "head", which may be
\* without a name, and goes on with the lines that are none.
Markers(lines) == {k \in DOMAIN lines : lines[k].t = "marker"}

StoreMacro(s) == IF s.name = None THEN s.macros ELSE Put(s.macros, s.name, s.value)

ReadMacro(s, l) ==
    IF l.t = "head" THEN [macros |-> StoreMacro(s), name |-> l.key, value |-> <<l.val>>]
    ELSE IF s.name = None THEN s ELSE [s EXCEPT !.value = Append(@, l.val)]

MacroLines(lines) ==
    LET first == Min(Markers(lines))
        second == Min(Markers(lines) \ {first})
    IN IF Cardinality(Markers(lines)) < 2 THEN <<>> ELSE SubSeq(lines, first + 1, second - 1)

ReadMacros(out) ==
    FoldLeft(ReadMacro, [macros |-> Empty, name |-> None, value |-> <<>>], MacroLines(Scan(out)))

\* A mutant: the last macro is not stored.
ShowrcUnflushed(out) == ReadMacros(out).macros

ParseShowrc(out) == StoreMacro(ReadMacros(out))

RPMInfo(h) == IF h.says["showrc"].ok THEN ParseShowrc(h.says["showrc"].out) ELSE Empty

CollectRPM == host.of = "rpm" /\ Returns("rpm", RPMInfo(host))

\* kernel_modules: a module has a version if there is one that is not blank.
ModulesInfo(h) ==
    LET modules == ByKey(Good(h.says["modules"].out))
        versions == IF h.says["version"].ok THEN ByKey(Whole(h.says["version"].out)) ELSE Empty
    IN IF h.says["modules"].ok
       THEN {[m \in DOMAIN modules |->
                 [size |-> modules[m], version |-> IF m \in DOMAIN versions THEN versions[m] ELSE None]]}
       ELSE Nil

CollectModules == host.of = "kernel_modules" /\ Returns("kernel_modules", ModulesInfo(host))

\* livepatch, grub2: a nil map is one that has no source.
LivepatchInfo(h) == IF h.says["dir"].ok THEN {ByKey(Whole(h.says["dir"].out))} ELSE Nil

CollectLivepatch == host.of = "livepatch" /\ Returns("livepatch", LivepatchInfo(host))

\* The first file that can be read.
ReadGrubenv(h) ==
    LET files == SourcesOf["grub2"]
        found == {k \in DOMAIN files : h.says[files[k]].ok}
    IN IF found = {} THEN Nil ELSE {ByKey(Good(h.says[files[Min(found)]].out))}

CollectGrub2 == host.of = "grub2" /\ Returns("grub2", ReadGrubenv(host))

----------------------------------------------------------------------------
\* The others.

\* ssh: the keys that can be read, unless one of them does not parse.
CollectSSH ==
    /\ host.of = "ssh"
    /\ LET files == SelectSeq(SourcesOf["ssh"], LAMBDA s : host.says[s].ok)
           Parses(s) == host.says[s].out # <<>> /\ host.says[s].out[1].t # "torn"
       IN \/ (\A s \in Range(files) : Parses(s))
             /\ Returns("ssh", [k \in DOMAIN files |-> host.says[files[k]].out[1].key])
          \/ (\E s \in Range(files) : ~ Parses(s)) /\ Errs("ssh")

\* selinux: without a configuration, or with one that says so, it is disabled and
\* sestatus is not asked; sestatus has the last word, if it has one.
WordOf(said, k) ==
    LET words == IF said.ok THEN ByKey(Good(said.out)) ELSE Empty
    IN IF k \in DOMAIN words THEN words[k] ELSE None

SELinuxInfo(h) ==
    LET mode == WordOf(h.says["config"], "SELINUX")
        status == WordOf(h.says["sestatus"], "selinux status")
    IN IF mode \in {None, "disabled"}
       THEN [status |-> "disabled", config |-> mode, current |-> None]
       ELSE [status |-> IF status \in {None, "enabled"} THEN "enabled" ELSE "disabled",
             config |-> mode, current |-> WordOf(h.says["sestatus"], "current mode")]

CollectSELinux == host.of = "selinux" /\ Returns("selinux", SELinuxInfo(host))

\* interrupts: the first line has a field for each CPU; a line [key, val] has its
\* fields in val, {n} for a number and {} for a word, and no word may be under a CPU.
ParseIRQ(cpus, l) ==
    [number |-> l.key, counts |-> [i \in 1..cpus |-> IF i <= Len(l.val) THEN l.val[i] ELSE {0}],
     extra |-> Len(l.val) > cpus]

\* A file that is not there, which is not a failure.
Missing == [ok |-> FALSE, out |-> <<[t |-> "missing", key |-> None, val |-> None]>>]

CollectInterrupts ==
    LET said == host.says["interrupts"]
        lines == Scan(said.out)
        irqs == Whole(Tail(lines))
        cpus == Len(lines[1].val)
        Readable(l) == \A i \in 1..cpus : i <= Len(l.val) => l.val[i] # {}
    IN /\ host.of = "interrupts"
       /\ \/ said = Missing /\ Returns("interrupts", <<>>)
          \/ ~ said.ok /\ said # Missing /\ Errs("interrupts")
          \/ said.ok /\ lines = <<>> /\ Returns("interrupts", <<>>)
          \/ /\ said.ok /\ lines # <<>>
             /\ \/ (\A l \in Range(irqs) : Readable(l))
                   /\ Returns("interrupts", [k \in DOMAIN irqs |-> ParseIRQ(cpus, irqs[k])])
                \/ (\E l \in Range(irqs) : ~ Readable(l)) /\ Errs("interrupts")

\* shells: the file may be missing, but not unreadable.
CollectShells ==
    LET said == host.says["shells"]
    IN \/ host.of = "shells" /\ said.ok /\ Returns("shells", Entries(Good(said.out)))
       \/ host.of = "shells" /\ said = Missing /\ Returns("shells", <<>>)
       \/ host.of = "shells" /\ ~ said.ok /\ said # Missing /\ Errs("shells")

\* hostnamectl, lsb, scsi, systemd_paths: what the last line of a key says.
Pairs(said) == IF said.ok THEN ByKey(Good(said.out)) ELSE Empty

CollectPairs ==
    \E c \in {"hostnamectl", "lsb", "scsi", "systemd_paths"} :
        host.of = c /\ Returns(c, Pairs(host.says[SourcesOf[c][1]]))

\* virtualbox: none of it where its tool is not.
CollectVirtualBox ==
    LET said == host.says["VBoxControl"]
    IN host.of = "virtualbox" /\ Returns("virtualbox", IF said.ok THEN {Pairs(said)} ELSE Nil)

\* kernel_modules on macOS; pci, gpu: what ghw found, which is nothing if it failed.
CollectDevices ==
    LET said == host.says[SourcesOf[host.of][1]]
    IN \/ host.of = "kextstat" /\ Returns("kextstat", IF said.ok THEN {ByKey(Good(said.out))} ELSE Nil)
       \/ host.of = "pci" /\ Returns("pci", IF said.ok THEN ByKey(Whole(said.out)) ELSE Empty)
       \/ host.of = "gpu" /\ Returns("gpu", IF said.ok THEN Slice(Entries(Whole(said.out))) ELSE Nil)

\* sysctl: ": " is looked for before " = ", and a line "colon" has it in its value.
NameParameter(l) ==
    IF l.t = "colon" THEN [t |-> "good", key |-> l.key \o <<"=", l.val[1]>>, val |-> l.val[2]] ELSE l

CollectSysctl ==
    LET said == host.says["sysctl"]
        lines == [k \in DOMAIN said.out |-> NameParameter(said.out[k])]
    IN host.of = "sysctl" /\ Returns("sysctl", IF said.ok THEN ByKey(Good(lines)) ELSE Empty)

CollectListing ==
    \/ CollectSessions \/ CollectUnits \/ CollectDocker \/ CollectLibvirt \/ CollectTC
    \/ CollectRPM \/ CollectModules \/ CollectLivepatch \/ CollectGrub2
    \/ CollectSSH \/ CollectSELinux \/ CollectInterrupts
    \/ CollectShells \/ CollectPairs \/ CollectVirtualBox \/ CollectDevices \/ CollectSysctl

----------------------------------------------------------------------------
\* The lines in front of the first that is too long.
Reached(s) == LET out == host.says[s].out IN {k \in DOMAIN out : \A j \in 1..k : out[j].t # "long"}

\* A macro of rpm has its own lines and all of them, from its head to the next one,
\* whatever is torn or too long around it; of two heads the later one counts.
MacrosKeepTheirLines ==
    Collected("rpm") /\ host.says["showrc"].ok =>
        LET out == host.says["showrc"].out
            marks == {k \in Reached("showrc") : out[k].t = "marker"}
            inside == {k \in DOMAIN out : \E a, b \in marks : a < k /\ k < b /\ {m \in marks : m < b} = {a}}
            heads == {k \in inside : out[k].t = "head"}
            End(k) == Max({j \in inside : j >= k /\ heads \cap (k + 1)..j = {}})
            last == {k \in heads : out[k].key # None /\ \A j \in heads : j > k => out[j].key # out[k].key}
        IN /\ DOMAIN facts.info = {out[k].key : k \in last}
           /\ \A k \in last : facts.info[out[k].key] = [i \in 1..(End(k) - k + 1) |-> out[k + i - 1].val]

\* Every interface of tc is listed once with all its queues, in their order.
QueuesKeepTheirInterface ==
    Collected("tc") /\ host.says["qdisc"].ok =>
        LET out == host.says["qdisc"].out
            good == {k \in Reached("qdisc") : out[k].t = "good"}
        IN /\ {facts.info[i].name : i \in DOMAIN facts.info} = {out[k].key : k \in good}
           /\ \A i, j \in DOMAIN facts.info : facts.info[i].name = facts.info[j].name => i = j
           /\ \A i \in DOMAIN facts.info :
                LET mine == {k \in good : out[k].key = facts.info[i].name}
                IN /\ Len(facts.info[i].qdiscs) = Cardinality(mine)
                   /\ \A k \in mine : facts.info[i].qdiscs[Cardinality({j \in mine : j <= k})] = out[k].val

\* A document tells what is not there from what could not be asked: a nil map means
\* that no source of it is there; a container list is nil only if docker has none.
NilIsNotUnknown ==
    /\ facts.of \in {"livepatch", "grub2", "kernel_modules"} =>
        (facts.info = Nil <=> \A s \in DOMAIN host.says \ {"version"} : ~ host.says[s].ok)
    /\ Collected("docker") => \A i \in facts.info :
        /\ i.containers = Nil => host.says["ps"].ok /\ \A k \in Reached("ps") : host.says["ps"].out[k].t # "good"
        /\ i.images = Nil => host.says["images"].ok /\ \A k \in Reached("images") : host.says["images"].out[k].t # "good"

\* SELinux is reported as enabled if and only if the last word of its configuration
\* is there and not "disabled", and that of sestatus, if it has one, is "enabled".
EnabledIsAgreed ==
    Collected("selinux") =>
        LET About(s, k) == IF host.says[s].ok THEN {n \in Reached(s) : host.says[s].out[n].t = "good" /\ host.says[s].out[n].key = k} ELSE {}
            LastWord(s, k) == host.says[s].out[Max(About(s, k))].val
        IN facts.info.status = "enabled" <=>
               /\ About("config", "SELINUX") # {} /\ LastWord("config", "SELINUX") \notin {None, "disabled"}
               /\ About("sestatus", "selinux status") # {} => LastWord("sestatus", "selinux status") \in {None, "enabled"}

=============================================================================
