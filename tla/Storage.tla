------------------------------- MODULE Storage -------------------------------
(***************************************************************************)
(* Four collectors of storage (pkg/gohai/collectors/filesystem, mdadm,     *)
(* zpools and memory): mounts with what lsblk, zfs and sysfs add to them,  *)
(* software RAID arrays, ZFS pools, and memory.                            *)
(***************************************************************************)
EXTENDS Collection

CONSTANTS
    StorageHosts,  \* the hosts, see StorageHostOK
    MdOrder        \* the names of arrays in the order they sort

ASSUME MdOrderAssumption == MdOrder \in Seq(Range(MdOrder)) /\ IsInjective(MdOrder) /\ None \notin Range(MdOrder)

BlockGroups == <<"data", "metadata", "system">>
Profiles == <<"single", "dup", "raid0", "raid1">>  \* four for nine

\* A host of each collector.  A path is the sequence of its parts; the nodes of
\* lsblk's tree are in preorder, and one identity stands for its UUID and labels;
\* every line of a listing has the number of fields it has.
StorageHostOK(h) ==
    CASE h.of = "filesystem" ->
            /\ h.darwin \in BOOLEAN
            /\ ListOf(h.mounts, {"device", "mountpoint", "type"})
            /\ ListOf(h.lsblk, {"device", "fstype", "id", "mountpoint"})
            /\ ListOf(h.zfs, {"fields", "name", "property", "value"})
            /\ None \notin DOMAIN h.btrfs /\ \A id \in DOMAIN h.btrfs : DOMAIN h.btrfs[id] \subseteq Range(BlockGroups)
      [] h.of = "mdadm" ->
            /\ h.missing \in BOOLEAN
            /\ ListOf(h.mdstat, {"device", "tokens"})
            /\ h.mdstat.ok => \A l \in Range(h.mdstat.out) : l.device \in Range(MdOrder) \cup {None} /\ IsSeq(l.tokens)
            /\ DOMAIN h.detail = Range(MdOrder) /\ \A d \in DOMAIN h.detail : ListOf(h.detail[d], {"key", "words"})
      [] h.of = "zpools" -> ListOf(h.list, {"fields", "name", "health"})
      [] h.of = "memory" ->
            /\ h.darwin \in BOOLEAN /\ (h.vm.ok => DOMAIN h.vm.out = {"total", "huge"})
            /\ ListOf(h.meminfo, {"key", "val", "kB"}) /\ ListOf(h.vmStat, {"key", "val", "kB"})
            /\ h.vmStat.ok => \A l \in Range(h.vmStat.out) : l.val \in Nat
      [] OTHER -> FALSE

ASSUME StorageHostsAssumption == \A h \in StorageHosts : StorageHostOK(h)

----------------------------------------------------------------------------
\* filesystem.go: listMounts.  A mount whose usage cannot be asked stays, without.
ListMounts(h) ==
    [k \in DOMAIN h.mounts.out |->
        [device |-> h.mounts.out[k].device, mountpoint |-> h.mounts.out[k].mountpoint, type |-> h.mounts.out[k].type,
         usage |-> h.mounts.out[k].mountpoint \notin h.stale, id |-> None, btrfs |-> Nil]]

\* parseLsblk: the nodes of the tree that have a filesystem; a device with several
\* parents is there under each.
ParseLsblk(nodes) == Kept(nodes, {k \in DOMAIN nodes : nodes[k].fstype # None})

\* A mutant: what lsblk shows without a mountpoint counts as unmounted.
UnmountedByMountpoint(mounts, entries) == Kept(entries, {k \in DOMAIN entries : entries[k].mountpoint = None})

\* What is left of lsblk's entries: neither the device of a mount nor, as lsblk
\* sees it, mounted.
UnmountedOf(mounts, entries) ==
    LET IsMounted(e) == e.mountpoint # None \/ \E m \in Range(mounts) : m.device = e.device
    IN Kept(entries, {k \in DOMAIN entries : ~ IsMounted(entries[k])})

\* mergeLsblkIntoMounts: the first mount of a device takes the identity, that of
\* the device's last entry; the entry is then used up.
MergeLsblk(mounts, entries) ==
    LET Entry(m) == Max({0} \cup {k \in DOMAIN entries : entries[k].device = m.device})
        First(k) == \A j \in 1..(k - 1) : mounts[j].device # mounts[k].device
        Enriched(k) == IF First(k) /\ Entry(mounts[k]) # 0
                       THEN [mounts[k] EXCEPT !.id = entries[Entry(mounts[k])].id] ELSE mounts[k]
    IN [k \in DOMAIN mounts |-> Enriched(k)]

ZfsParentsOf(name) == [k \in 1..(Len(name) - 1) |-> SubSeq(name, 1, k)]

\* The lines that are not torn.
GoodZfs(lines) ==
    Kept(lines, {k \in DOMAIN lines : lines[k].fields = 4 /\ lines[k].name # <<>> /\ lines[k].property # None})

\* The names, each at the place of its first line.
AddName(s, l) == IF l.name \in Range(s) THEN s ELSE Append(s, l.name)
DatasetNames(good) == FoldLeft(AddName, <<>>, good)

\* The last value of each property.
AddProperty(m, l) == Put(m, l.property, l.value)
PropertiesOf(lines) == FoldLeft(AddProperty, Empty, lines)

\* A mutant: a dataset starts over when its lines are interrupted by another's.
ParseZFSAnew(lines) ==
    LET good == GoodZfs(lines)
        Last1(n) == good[Max({k \in DOMAIN good : good[k].name = n})]
        names == DatasetNames(good)
    IN [k \in DOMAIN names |->
            [name |-> names[k], pool |-> Len(names[k]) = 1, parents |-> ZfsParentsOf(names[k]),
             mountpoint |-> None, properties |-> Last1(names[k]).property :> Last1(names[k]).value]]

\* parseZFSGetAll: a dataset with every property its lines give, at the place of
\* its first line; the mountpoint is the last one that is a path.
ParseZFSGetAll(lines) ==
    LET good  == GoodZfs(lines)
        names == DatasetNames(good)
        Own(n) == {k \in DOMAIN good : good[k].name = n}
        Paths(n) == {k \in Own(n) : good[k].property = "mountpoint" /\ good[k].value = "/path"}
        Dataset(n) == [name |-> n, pool |-> Len(n) = 1, parents |-> ZfsParentsOf(n),
                       mountpoint |-> IF Paths(n) = {} THEN None ELSE good[Max(Paths(n))].value,
                       properties |-> PropertiesOf(Kept(good, Own(n)))]
    IN [k \in DOMAIN names |-> Dataset(names[k])]

\* detectBtrfsRAID: the first profile in the kernel's order.
DetectBtrfsRAID(group) ==
    LET found == {k \in DOMAIN Profiles : Profiles[k] \in group.profiles}
    IN IF found = {} THEN None ELSE Profiles[Min(found)]

\* A mutant: a group without a profile takes the one that was found away.
ReadBtrfsForgetting(groups) ==
    IF groups = Empty THEN Nil
    ELSE {[allocation |-> [g \in DOMAIN groups |-> groups[g].bytes],
           raid |-> FoldLeft(LAMBDA r, g : IF g \in DOMAIN groups THEN DetectBtrfsRAID(groups[g]) ELSE r, None, BlockGroups)]}

\* readBtrfsInfo: what sysfs has of each block group; the profile is that of the
\* last group that has one.
ReadBtrfsInfo(groups) ==
    LET Found(r, g) == IF g \in DOMAIN groups /\ DetectBtrfsRAID(groups[g]) # None
                       THEN DetectBtrfsRAID(groups[g]) ELSE r
    IN IF groups = Empty THEN Nil
       ELSE {[allocation |-> [g \in DOMAIN groups |-> groups[g].bytes], raid |-> FoldLeft(Found, None, BlockGroups)]}

WithBtrfs(h, mounts) ==
    LET Eligible(m) == m.type = "btrfs" /\ m.id \in DOMAIN h.btrfs
    IN [k \in DOMAIN mounts |-> IF Eligible(mounts[k])
                                THEN [mounts[k] EXCEPT !.btrfs = ReadBtrfsInfo(h.btrfs[mounts[k].id])] ELSE mounts[k]]

\* Collect of both variants: lsblk, zfs and sysfs each add theirs if they can.
FilesystemInfo(h) ==
    LET mounts  == ListMounts(h)
        entries == IF h.lsblk.ok THEN ParseLsblk(h.lsblk.out) ELSE <<>>
    IN IF h.darwin THEN [mounts |-> mounts, unmounted |-> <<>>, zfs |-> <<>>]
       ELSE [mounts |-> WithBtrfs(h, MergeLsblk(mounts, entries)), unmounted |-> UnmountedOf(mounts, entries),
             zfs |-> IF h.zfs.ok THEN ParseZFSGetAll(h.zfs.out) ELSE <<>>]

CollectFilesystem ==
    /\ host.of = "filesystem"
    /\ \/ ~ host.mounts.ok /\ Errs("filesystem")
       \/ host.mounts.ok /\ Returns("filesystem", FilesystemInfo(host))

----------------------------------------------------------------------------
\* mdadm.go: parseMdstat.  A line names a device and its tokens, a member with
\* its flag; a spare has the flag S, and every other token that is a member, one
\* that has failed too, is a member.
ParseMdstat(lines) ==
    LET devices == {l.device : l \in {l \in Range(lines) : l.device # None}}
        Of(d) == lines[Max({k \in DOMAIN lines : lines[k].device = d})].tokens
        Names(tokens, spare) ==
            LET those == Kept(tokens, {k \in DOMAIN tokens : tokens[k].name # None /\ (tokens[k].flag = "S") = spare})
            IN [k \in DOMAIN those |-> those[k].name]
    IN [d \in devices |-> [device |-> d, level |-> None, state |-> None, active |-> 0, total |-> 0, spare |-> 0,
                           members |-> Names(Of(d), FALSE), spares |-> Names(Of(d), TRUE)]]

\* applyDetail: of each line the first word behind its colon.
DetailLine(x, l) ==
    CASE l.key = "Raid Level"     -> [x EXCEPT !.level = l.words[1]]
      [] l.key = "State"          -> [x EXCEPT !.state = l.words[1]]
      [] l.key = "Active Devices" -> [x EXCEPT !.active = l.words[1]]
      [] l.key = "Total Devices"  -> [x EXCEPT !.total = l.words[1]]
      [] l.key = "Spare Devices"  -> [x EXCEPT !.spare = l.words[1]]
      [] OTHER                    -> x

ApplyDetail(arr, lines) == FoldLeft(DetailLine, arr, lines)

\* A mutant: the first array that mdadm does not know ends the list.
ArraysUntilFailure(h, devices, names) ==
    LET known == Kept(names, {k \in DOMAIN names : h.detail[names[k]].ok})
    IN [k \in DOMAIN known |-> ApplyDetail(devices[known[k]], h.detail[known[k]].out)]

\* The arrays in the order of their names, each with its detail if there is one.
ArraysOf(h, devices, names) ==
    [k \in DOMAIN names |-> IF h.detail[names[k]].ok THEN ApplyDetail(devices[names[k]], h.detail[names[k]].out)
                            ELSE devices[names[k]]]

\* collectArrays; the names sort as MdOrder has them.
CollectArrays(h) ==
    IF h.missing THEN <<>>
    ELSE LET devices == ParseMdstat(h.mdstat.out)
         IN ArraysOf(h, devices, Kept(MdOrder, {k \in DOMAIN MdOrder : MdOrder[k] \in DOMAIN devices}))

CollectMdadm ==
    /\ host.of = "mdadm"
    /\ \/ ~ host.missing /\ ~ host.mdstat.ok /\ Errs("mdadm")
       \/ (host.missing \/ host.mdstat.ok) /\ Returns("mdadm", CollectArrays(host))

----------------------------------------------------------------------------
\* zpools.go: sanitize, parseZpoolList and collectPools.
Sanitize(v) == IF v = "-" THEN None ELSE v

ParseZpoolList(lines) ==
    LET good == Kept(lines, {k \in DOMAIN lines : lines[k].fields = 6})
    IN [k \in DOMAIN good |-> [name |-> good[k].name, health |-> Sanitize(good[k].health)]]

CollectPools(h) == IF h.list.ok THEN ParseZpoolList(h.list.out) ELSE <<>>

CollectZpools == host.of = "zpools" /\ Returns("zpools", CollectPools(host))

----------------------------------------------------------------------------
\* memory: gopsutil's amounts in bytes, one for thirty; the lines of /proc/meminfo
\* that it leaves out, of which one has a pointer of its own; and vm_stat.
ReadMemory(h) ==
    [total |-> h.vm.out.total, huge |-> IF h.vm.out.huge > 0 THEN {[size |-> h.vm.out.huge, tlb |-> 0]} ELSE Nil,
     swap |-> IF h.swap.ok /\ h.swap.out > 0 THEN {h.swap.out} ELSE Nil,
     shmem |-> 0, directMap |-> Nil, speculative |-> 0, compressed |-> 0]

\* parseMeminfoLine: a value in kB is given in bytes.
MeminfoBytes(l) == IF l.kB THEN l.val * 1024 ELSE l.val

MeminfoLine(m, l) ==
    CASE l.key = "Shmem"       -> [m EXCEPT !.shmem = MeminfoBytes(l)]
      [] l.key = "Hugetlb"     -> [m EXCEPT !.huge =
             {[size |-> IF m.huge = Nil THEN 0 ELSE (CHOOSE x \in m.huge : TRUE).size, tlb |-> MeminfoBytes(l)]}]
      [] l.key = "DirectMap4k" -> [m EXCEPT !.directMap = {MeminfoBytes(l)}]
      [] OTHER                 -> m

ApplyMeminfo(info, lines) == FoldLeft(MeminfoLine, info, lines)

\* A mutant: pages are of 4 KiB everywhere.
VMStatIntel(info, lines) ==
    LET Bytes(k) == LET at == {i \in DOMAIN lines : lines[i].key = k} IN IF at = {} THEN 0 ELSE lines[Max(at)].val * 4096
    IN [info EXCEPT !.speculative = Bytes("speculative"), !.compressed = Bytes("compressed")]

\* applyVMStat: pages of the size that the output has declared so far.
VMStatLine(s, l) ==
    CASE l.key = "page size"   -> IF l.val > 0 THEN [s EXCEPT !.size = l.val] ELSE s
      [] l.key = "speculative" -> [s EXCEPT !.info.speculative = l.val * s.size]
      [] l.key = "compressed"  -> [s EXCEPT !.info.compressed = l.val * s.size]
      [] OTHER                 -> s

ApplyVMStat(info, lines) == FoldLeft(VMStatLine, [size |-> 4096, info |-> info], lines).info

MemoryInfo(h) ==
    IF h.darwin THEN IF h.vmStat.ok THEN ApplyVMStat(ReadMemory(h), h.vmStat.out) ELSE ReadMemory(h)
    ELSE IF h.meminfo.ok THEN ApplyMeminfo(ReadMemory(h), h.meminfo.out) ELSE ReadMemory(h)

CollectMemory ==
    /\ host.of = "memory"
    /\ \/ ~ host.vm.ok /\ Errs("memory")
       \/ host.vm.ok /\ Returns("memory", MemoryInfo(host))

----------------------------------------------------------------------------
\* No filesystem that lsblk names is lost or is two things at once: its device is
\* mounted, or unmounted, or mounted where the mount table does not show it; what
\* is reported as unmounted is no mount's device.
FilesystemsArePlaced ==
    Collected("filesystem") /\ ~ host.darwin /\ host.lsblk.ok =>
        LET mounted == {m.device : m \in Range(facts.info.mounts)}
            unmounted == {e.device : e \in Range(facts.info.unmounted)}
        IN /\ mounted \cap unmounted = {}
           /\ \A n \in Range(host.lsblk.out) : n.fstype # None =>
                n.device \in mounted \cup unmounted \/ n.mountpoint # None

\* Every dataset is reported once, with the properties its lines give and no others,
\* however the lines of different datasets are mixed; of two lines of a property the
\* later one counts, and lines that are torn cost nothing but themselves; the same of
\* pools.
TornLinesStayLocal ==
    /\ Collected("filesystem") /\ ~ host.darwin /\ host.zfs.ok =>
        LET out == host.zfs.out
            sets == facts.info.zfs
            good == {k \in DOMAIN out : out[k].fields = 4 /\ out[k].name # <<>> /\ out[k].property # None}
            Own(n) == {k \in good : out[k].name = n}
            Latest(n) == {k \in Own(n) : \A j \in Own(n) : j > k => out[j].property # out[k].property}
        IN /\ \A j, k \in DOMAIN sets : sets[j].name = sets[k].name => j = k
           /\ {sets[i].name : i \in DOMAIN sets} = {out[k].name : k \in good}
           /\ \A i \in DOMAIN sets :
                /\ DOMAIN sets[i].properties = {out[k].property : k \in Own(sets[i].name)}
                /\ \A k \in Latest(sets[i].name) : sets[i].properties[out[k].property] = out[k].value
    /\ Collected("zpools") /\ host.list.ok =>
        {p.name : p \in Range(facts.info)} = {l.name : l \in {l \in Range(host.list.out) : l.fields = 6}}

\* What sysfs says of a btrfs filesystem is on a mount of that filesystem, and it
\* has a profile if one of its block groups has.
BtrfsIsOfItsMount ==
    Collected("filesystem") =>
        \A m \in Range(facts.info.mounts) : \A b \in m.btrfs :
            /\ m.type = "btrfs" /\ \E n \in Range(host.lsblk.out) : n.device = m.device /\ n.id = m.id
            /\ LET profiles == (UNION {g.profiles : g \in Range(host.btrfs[m.id])}) \cap Range(Profiles)
               IN IF profiles = {} THEN b.raid = None ELSE b.raid \in profiles

\* Every array of /proc/mdstat, and nothing else, is reported once and with its own
\* disks, whatever mdadm answers for it or for other arrays; of two lines of an array
\* the later one counts.  The spares are those with the flag S, apart from the members;
\* every disk without a flag is a member.  Those with another flag, journals and disks
\* that have failed, are left open: the code counts them, its documentation does not.
ArraysKeepTheirDisks ==
    Collected("mdadm") /\ ~ host.missing =>
        LET lines == host.mdstat.out
            last == {k \in DOMAIN lines : lines[k].device # None /\ \A j \in DOMAIN lines : j > k => lines[j].device # lines[k].device}
            Disks(k) == {t \in Range(lines[k].tokens) : t.name # None}
            Spares(k) == {t.name : t \in {t \in Disks(k) : t.flag = "S"}}
            Active(k) == {t.name : t \in {t \in Disks(k) : t.flag = None}}
            NotSpare(k) == {t.name : t \in {t \in Disks(k) : t.flag # "S"}}
        IN /\ \A i, j \in DOMAIN facts.info : facts.info[i].device = facts.info[j].device => i = j
           /\ {a.device : a \in Range(facts.info)} = {lines[k].device : k \in last}
           /\ \A a \in Range(facts.info), k \in last : a.device = lines[k].device =>
                /\ Range(a.spares) = Spares(k)
                /\ Active(k) \subseteq Range(a.members) /\ Range(a.members) \subseteq NotSpare(k)

\* Amounts are in bytes whatever unit the line, or page size the lines above it, declare;
\* of two lines of an amount the later one counts.
MemoryIsInBytes ==
    Collected("memory") =>
        LET IsLast(lines, i, k) == lines[i].key = k /\ \A j \in DOMAIN lines : j > i => lines[j].key # k
            Sizes(lines, i) == {j \in 1..(i - 1) : lines[j].key = "page size" /\ lines[j].val > 0}
            PageSize(lines, i) == IF Sizes(lines, i) = {} THEN 4096 ELSE lines[Max(Sizes(lines, i))].val
        IN IF host.darwin
           THEN host.vmStat.ok => LET lines == host.vmStat.out IN
                \A i \in DOMAIN lines : IsLast(lines, i, "compressed") =>
                    facts.info.compressed = lines[i].val * PageSize(lines, i)
           ELSE host.meminfo.ok => \A i \in DOMAIN host.meminfo.out : IsLast(host.meminfo.out, i, "Shmem") =>
                    facts.info.shmem = MeminfoBytes(host.meminfo.out[i])
=============================================================================
