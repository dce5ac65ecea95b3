------------------------------- MODULE Identity -------------------------------
(***************************************************************************)
(* The collectors that say which host this is (pkg/gohai/collectors/       *)
(* hostname, dmi, shard, platform, os_release and users).                  *)
(***************************************************************************)
EXTENDS Collection

CONSTANT IdentityHosts  \* the hosts, see IdentityHostOK

Sections == {"Product", "Baseboard", "Chassis"}
ReleaseKeys == {"ID", "NAME", "VERSION_ID"}  \* three for thirteen
Outcomes == {"ok", "empty", "notfound", "transient"}

\* A host of each collector.  A host name is the sequence of its labels, a version
\* that of its numbers; tries are the resolver's answers, one for every attempt.
IdentityHostOK(h) ==
    CASE h.of = "hostname" ->
            /\ DOMAIN h.tries = 1..3
            /\ \A t \in Range(h.tries) :
                  t.lookup \in Outcomes /\ t.reverse \in Outcomes /\ t.name \in Seq(Range(t.name))
      [] h.of = "shard" ->
            /\ h.darwin \in BOOLEAN /\ h.prior \subseteq {"hostname", "dmi"}
            /\ DOMAIN h.serial = Sections /\ h.readable \subseteq Sections
      [] h.of = "platform" ->
            /\ h.detected.ok => DOMAIN h.detected.out = {"platform", "os"}
            /\ h.info.ok => DOMAIN h.info.out = {"platform", "version", "family", "kernel"}
      [] h.of = "os_release" -> h.missing \in BOOLEAN
      [] h.of = "users" ->
            /\ h.euid \in Nat
            /\ h.passwd.ok => h.passwd.out \in Seq(Range(h.passwd.out)) /\ \A l \in Range(h.passwd.out) : l.fields \in Nat
      [] OTHER -> FALSE

ASSUME IdentityHostsAssumption == \A h \in IdentityHosts : IdentityHostOK(h)

----------------------------------------------------------------------------
\* hostname.go: canonicalFQDN.  A name that is not there, and one without an
\* address or a name of it, ends the attempts; any other error is tried again.
Transient(t) == t.lookup = "transient" \/ (t.lookup = "ok" /\ t.reverse = "transient")
Resolved(t) == t.lookup = "ok" /\ t.reverse = "ok"

\* What is behind the first dot of a name; "." is a name without labels.
DomainOf(name) == IF name = <<>> THEN <<>> ELSE Tail(name)

\* A mutant: only the first of the two lookups is tried again.
RetryLookupOnly(short, tries) ==
    LET decided == {k \in DOMAIN tries : tries[k].lookup # "transient"}
    IN IF short # <<>> /\ decided # {} /\ Resolved(tries[Min(decided)])
       THEN [fqdn |-> tries[Min(decided)].name, domain |-> DomainOf(tries[Min(decided)].name)]
       ELSE [fqdn |-> short, domain |-> <<>>]

CanonicalFQDN(short, tries) ==
    LET decided == {k \in DOMAIN tries : ~ Transient(tries[k])}
    IN IF short # <<>> /\ decided # {} /\ Resolved(tries[Min(decided)])
       THEN [fqdn |-> tries[Min(decided)].name, domain |-> DomainOf(tries[Min(decided)].name)]
       ELSE [fqdn |-> short, domain |-> <<>>]

\* collectWithExec: what hostname -s and hostname print, if it is not blank, or
\* what the system calls say.
Printed(a) == a.ok /\ a.out # <<>>
ShortName(h) == IF Printed(h.short) THEN h.short.out ELSE h.hostInfo.out
MachineName(h) ==
    IF Printed(h.machine) THEN h.machine.out ELSE IF h.osHostname.ok THEN h.osHostname.out ELSE ShortName(h)

CollectHostname ==
    /\ host.of = "hostname"
    /\ \/ ~ Printed(host.short) /\ ~ host.hostInfo.ok /\ Errs("hostname")
       \/ /\ Printed(host.short) \/ host.hostInfo.ok
          /\ LET canonical == CanonicalFQDN(ShortName(host), host.tries)
             IN Returns("hostname", [name |-> ShortName(host), machine |-> MachineName(host),
                                     fqdn |-> canonical.fqdn, domain |-> canonical.domain])

----------------------------------------------------------------------------
\* dmi/linux.go: a section that cannot be read is nil; a file of it that only root
\* may read leaves an empty string.
DMI(h) == [s \in Sections |-> IF s \in h.readable THEN {[serial |-> IF h.root THEN h.serial[s] ELSE None]} ELSE Nil]

\* shard.go: the first serial number that is not blank.
DMISerial(h) ==
    LET given == SelectSeq(<<"Product", "Baseboard", "Chassis">>, LAMBDA s : \E x \in DMI(h)[s] : x.serial # None)
    IN IF "dmi" \notin h.prior \/ given = <<>> THEN None ELSE h.serial[given[1]]

DMIUUID(h) == IF "dmi" \in h.prior /\ "Product" \in h.readable /\ h.root THEN h.uuid ELSE None

\* The seed hashes its sources as one string; a source that is missing is no
\* character of it.  Here it is the sequence of what is in the string.
ComputeSeed(name, serial, uuid) == SelectSeq(<<name, serial, uuid>>, LAMBDA s : s # None)

Seed(h) ==
    LET name == IF "hostname" \in h.prior THEN h.name ELSE None
    IN IF h.darwin THEN ComputeSeed(name, IF h.profiler THEN h.serial["Product"] ELSE None, IF h.root THEN h.uuid ELSE None)
       ELSE ComputeSeed(name, DMISerial(h), DMIUUID(h))

CollectShard == host.of = "shard" /\ Returns("shard", Seed(host))

----------------------------------------------------------------------------
\* internal/platform: detect, asked when the collector is made, before Collect
\* asks again.
DebianFamily == {"ubuntu", "debian", "raspbian"}
RhelFamily == {"rhel", "redhat", "centos", "fedora", "rocky", "alma", "amzn", "amazon", "oracle", "ol"}
Detect(h) ==
    LET p == h.detected.out.platform
    IN CASE ~ h.detected.ok -> None
         [] p = None /\ h.detected.out.os = "darwin" -> "darwin"
         [] p \in DebianFamily -> "debian"
         [] p \in RhelFamily -> "rhel"
         [] OTHER -> p

\* platform.go: some entries of the tables.
PlatformIDRemap == [amzn |-> "amazon", ol |-> "oracle", rhel |-> "redhat", sles |-> "suse"]
PlatformFamilyTable == [debian |-> "debian", ubuntu |-> "debian", redhat |-> "rhel", centos |-> "rhel", oracle |-> "rhel",
                        amazon |-> "rhel", fedora |-> "fedora", suse |-> "suse", arch |-> "arch", gentoo |-> "gentoo"]
MinorVersionDistros == {"centos", "redhat", "oracle", "amazon"}

Lookup(table, k, default) == IF k \in DOMAIN table THEN table[k] ELSE default
CanonicalizePlatform(p) == Lookup(PlatformIDRemap, p, p)

ReadPlatform(h) ==
    [name |-> CanonicalizePlatform(h.info.out.platform), version |-> h.info.out.version,
     family |-> h.info.out.family, build |-> None]

\* Some distributions have only the major version in os-release.
ApplyRedhatReleaseSupplement(files, info) ==
    CASE info.name \in MinorVersionDistros /\ Len(info.version) = 1 /\ "redhat-release" \in DOMAIN files
            /\ files["redhat-release"].version # <<>> -> [info EXCEPT !.version = files["redhat-release"].version]
      [] info.name = "debian" /\ info.version = <<>> /\ "debian_version" \in DOMAIN files ->
            [info EXCEPT !.version = files["debian_version"].version]
      [] OTHER -> info

\* The files in the order of the cascade, the family each stands for, and the name
\* it has whatever is in it.
Legacy(path, family, name) == [path |-> path, family |-> family, name |-> name]
LegacyReleaseFiles ==
    <<Legacy("redhat-release", "rhel", None), Legacy("SuSE-release", "suse", "suse"), Legacy("system-release", "rhel", None),
      Legacy("debian_version", "debian", "debian"), Legacy("arch-release", "arch", "arch"), Legacy("gentoo-release", "gentoo", None)>>

\* The name in a file: of a line "<name> release <version>" the first word, of the
\* version of SuSE all there is, of others their own; None if it does not parse.
LegacyName(files, f) ==
    CASE f.path \notin DOMAIN files -> None
      [] f.name = None -> files[f.path].name
      [] f.path = "SuSE-release" -> IF files[f.path].version # <<>> THEN "suse" ELSE None
      [] OTHER -> f.name

\* The files that name a platform, by their places in the cascade.
Naming(files) == {k \in DOMAIN LegacyReleaseFiles : LegacyName(files, LegacyReleaseFiles[k]) # None}

\* A mutant: the family comes from the table of names.
LegacyByTable(files, info) ==
    LET first == LegacyReleaseFiles[Min(Naming(files))]
    IN IF info.name # None \/ Naming(files) = {} THEN info
       ELSE [info EXCEPT !.name = CanonicalizePlatform(LegacyName(files, first)), !.version = files[first.path].version]

ApplyLegacyReleaseFallback(files, info) ==
    LET first == LegacyReleaseFiles[Min(Naming(files))]
    IN IF info.name # None \/ Naming(files) = {} THEN info
       ELSE [info EXCEPT !.name = CanonicalizePlatform(LegacyName(files, first)), !.family = first.family,
                         !.version = IF first.name = "arch" THEN <<>> ELSE files[first.path].version]

ApplyFamilyFallback(info) ==
    IF info.family = None THEN [info EXCEPT !.family = Lookup(PlatformFamilyTable, info.name, None)] ELSE info

\* Collect of both variants; sw_vers gives macOS's build, if it has one.
PlatformInfo(h) ==
    LET info == ReadPlatform(h)
    IN IF Detect(h) = "darwin"
       THEN [info EXCEPT !.build = IF h.swVers.ok /\ h.swVers.out # None THEN h.swVers.out ELSE h.info.out.kernel]
       ELSE ApplyFamilyFallback(ApplyLegacyReleaseFallback(h.files, ApplyRedhatReleaseSupplement(h.files, info)))

CollectPlatform ==
    /\ host.of = "platform"
    /\ \/ ~ host.info.ok /\ Errs("platform")
       \/ host.info.ok /\ Returns("platform", PlatformInfo(host))

----------------------------------------------------------------------------
\* os_release.go: an assignment of a key that is not known goes to Extra; the last
\* of a key counts.
ParseOSRelease(lines) ==
    LET given == FoldLeft(LAMBDA m, l : Put(m, l.key, l.val), Empty, SelectSeq(lines, LAMBDA l : l.key # "#"))
        extra == Restrict(given, DOMAIN given \ ReleaseKeys)
    IN [k \in ReleaseKeys |-> Lookup(given, k, None)] @@ [Extra |-> IF extra = Empty THEN Nil ELSE {extra}]

CollectOSRelease ==
    /\ host.of = "os_release"
    /\ \/ host.missing /\ Returns("os_release", [k \in ReleaseKeys |-> None] @@ [Extra |-> Nil])
       \/ ~ host.missing /\ ~ host.file.ok /\ Errs("os_release")
       \/ ~ host.missing /\ host.file.ok /\ Returns("os_release", ParseOSRelease(host.file.out))

----------------------------------------------------------------------------
\* users.go: a line with fewer than seven fields is skipped, a uid that is no
\* number is 0.
Uid(l) == IF l.number THEN l.uid ELSE 0

\* A mutant: the last line of a name counts.
PasswdLast(lines) == FoldLeft(LAMBDA m, l : IF l.fields < 7 THEN m ELSE Put(m, l.name, Uid(l)), Empty, lines)

\* The first line of a name counts.
ParsePasswd(lines) ==
    FoldLeft(LAMBDA m, l : IF l.fields < 7 \/ l.name \in DOMAIN m THEN m ELSE Put(m, l.name, Uid(l)), Empty, lines)

\* The last line of a name counts.
ParseGroup(lines) == FoldLeft(LAMBDA m, l : IF l.fields < 4 THEN m ELSE Put(m, l.name, l.members), Empty, lines)

\* The current user is the account of its uid that is met first in a map.
PasswdOf(h) == IF h.passwd.ok THEN ParsePasswd(h.passwd.out) ELSE Empty
GroupOf(h) == IF h.group.ok THEN ParseGroup(h.group.out) ELSE Empty
CurrentUsers(h) ==
    LET own == {n \in DOMAIN PasswdOf(h) : PasswdOf(h)[n] = h.euid} IN IF own = {} THEN {None} ELSE own

CollectUsers ==
    /\ host.of = "users"
    /\ \E u \in CurrentUsers(host) :
          Returns("users", [Passwd |-> PasswdOf(host), Group |-> GroupOf(host), CurrentUser |-> u])

----------------------------------------------------------------------------
\* An error that may pass costs no name: if an attempt resolves the host and no
\* earlier one was told that there is nothing, its answer is the canonical name;
\* the domain is the rest of it behind its first label.
TransientErrorsAreRetried ==
    Collected("hostname") /\ facts.info.name # <<>> =>
        LET tries == host.tries
            Definite(t) == t.lookup \in {"empty", "notfound"} \/ (t.lookup = "ok" /\ t.reverse \in {"empty", "notfound"})
            Winner(k) == Resolved(tries[k]) /\ \A j \in 1..(k - 1) : ~ Definite(tries[j]) /\ ~ Resolved(tries[j])
        IN /\ \A k \in DOMAIN tries : Winner(k) => facts.info.fqdn = tries[k].name
           /\ (\A k \in DOMAIN tries : ~ Winner(k)) => facts.info.fqdn = facts.info.name /\ facts.info.domain = <<>>
           /\ facts.info.domain # <<>> => facts.info.fqdn = <<facts.info.fqdn[1]>> \o facts.info.domain

\* What completes the version v of a distribution n: that of redhat-release if v has
\* only one number, Debian's if there is none.
Completions(files, n, v) ==
    LET Completes(p) == \/ p = "redhat-release" /\ n \in MinorVersionDistros /\ Len(v) = 1
                        \/ p = "debian_version" /\ n = "debian" /\ v = <<>>
    IN {files[p].version : p \in {p \in DOMAIN files : Completes(p) /\ files[p].version # <<>>}}

\* If gopsutil has a name, all is gopsutil's, but for a family it leaves open, which is
\* the table's for that name, and a version that is too short, which a release file
\* completes, whatever distribution the file names.  Else name, family and version are
\* of one file, the first in the cascade that names a platform, whatever is in those
\* around it and whatever gopsutil says of version and family; without such a file
\* these stay gopsutil's.
PlatformIsOneSource ==
    Collected("platform") /\ Detect(host) # "darwin" =>
        LET said == host.info.out
            info == facts.info
            Release(k) == LegacyReleaseFiles[k]
            Names(k) == LegacyName(host.files, Release(k)) # None
            found == Completions(host.files, info.name, said.version)
        IN IF said.platform # None \/ \A k \in DOMAIN LegacyReleaseFiles : ~ Names(k)
           THEN /\ info.name = CanonicalizePlatform(said.platform)
                /\ info.family = IF said.family # None THEN said.family ELSE Lookup(PlatformFamilyTable, info.name, None)
                /\ info.version \in IF found = {} THEN {said.version} ELSE found
           ELSE \A k \in DOMAIN LegacyReleaseFiles :
                    Names(k) /\ (\A j \in 1..(k - 1) : ~ Names(j)) =>
                        /\ info.name = CanonicalizePlatform(LegacyName(host.files, Release(k)))
                        /\ info.family = Release(k).family
                        /\ info.version = IF Release(k).path = "arch-release" THEN <<>> ELSE host.files[Release(k).path].version

\* An account belongs to the line that login would use, the first of its name, and
\* the current user is an account of the process's uid if there is one.
AccountsAreTheSystems ==
    Collected("users") /\ host.passwd.ok =>
        LET lines == host.passwd.out
            whole == {k \in DOMAIN lines : lines[k].fields >= 7}
            First(n) == lines[Min({k \in whole : lines[k].name = n})]
        IN /\ DOMAIN facts.info.Passwd = {lines[k].name : k \in whole}
           /\ \A n \in DOMAIN facts.info.Passwd : facts.info.Passwd[n] = Uid(First(n))
           /\ LET own == {n \in {lines[k].name : k \in whole} : Uid(First(n)) = host.euid}
              IN facts.info.CurrentUser \in IF own = {} THEN {None} ELSE own
=============================================================================
