------------------------------ MODULE CloudInfo ------------------------------
(***************************************************************************)
(* What the cloud collectors make of the documents and trees the metadata  *)
(* services answer with, and what the OCSF event then says of the cloud.   *)
(* Which requests are sent, and what a request that fails costs, is in     *)
(* CloudProbe and Imds.                                                    *)
(***************************************************************************)
EXTENDS Collection

CONSTANT CloudHosts  \* the answers, see CloudHostOK

Documented == {"azure", "gce", "oci", "digital_ocean", "scaleway"}
Trees == {"alibaba", "openstack"}

\* A document is the scalars it has, by their names, the parts of it that are
\* not null, and its lists.
Doc(h, p, parts, lists) == h.of = p /\ h.parts \subseteq parts /\ DOMAIN h.lists = lists

AzureDocument(h) == Doc(h, "azure", {"compute", "network", "StorageProfile"}, {"nics", "disks", "keys"})
GceDocument(h) == Doc(h, "gce", {"virtualClock"}, {"nics", "disks", "accounts"})
OciDocument(h) == Doc(h, "oci", {"ShapeConfig"}, {"vnics", "volumes"})
DropletDocument(h) == Doc(h, "digital_ocean", {"floating_ip", "reserved_ip"}, {"public", "private"})
ScalewayDocument(h) == Doc(h, "scaleway", {"public_ip", "location"}, {"keys", "volumes"})

\* A tree has its directories with what they list and its leaves; what is down
\* does not answer.  Linode has interfaces instead.
CloudHostOK(h) ==
    \/ AzureDocument(h) \/ GceDocument(h) \/ OciDocument(h) \/ DropletDocument(h) \/ ScalewayDocument(h)
    \/ h.of \in Trees /\ <<>> \in DOMAIN h.tree /\ h.down \subseteq DOMAIN h.tree
    \/ h.of = "linode" /\ h.signs \subseteq {"apt", "fqdn", "domain"}

ASSUME CloudHostsAssumption == \A h \in CloudHosts : CloudHostOK(h)

Scalar(h, k) == IF k \in DOMAIN h.scalars THEN h.scalars[k] ELSE None

----------------------------------------------------------------------------
\* The scalars of Info that have another name in the document.
Renamed(p) ==
    CASE p = "azure"         -> [ID |-> "vmId", Type |-> "vmSize", Region |-> "location", Zone |-> "zone",
                                 AccountUID |-> "subscriptionId", CloudPartition |-> "azEnvironment"]
      [] p = "gce"           -> [ID |-> "id", ProjectUID |-> "projectId"]
      [] p = "oci"           -> [ID |-> "id", Name |-> "displayName", Type |-> "shape", Region |-> "region",
                                 Zone |-> "availabilityDomain", AccountUID |-> "tenantId"]
      [] p = "digital_ocean" -> [ID |-> "droplet_id", Region |-> "region"]
      [] p = "scaleway"      -> [ID |-> "id", AccountUID |-> "organization", ProjectUID |-> "project",
                                 Type |-> "commercial_type"]

Copied(h) == [f \in DOMAIN Renamed(h.of) |-> Scalar(h, Renamed(h.of)[f])]

\* Azure: an address is [private, public], one of which may be empty; an
\* interface has the addresses and subnets of each family.
Given(addrs, side) == SelectSeq([k \in DOMAIN addrs |-> addrs[k][side]], LAMBDA a : a # None)

\* A mutant: the addresses that are not public are public.
FlatSwapped(h, fam, side) ==
    IF "network" \in h.parts
    THEN FlattenSeq([k \in DOMAIN h.lists.nics |->
             Given(h.lists.nics[k][fam].addrs, IF fam = "v6" THEN "private" ELSE side)])
    ELSE <<>>

Flat(h, fam, side) ==
    IF "network" \in h.parts
    THEN FlattenSeq([k \in DOMAIN h.lists.nics |-> Given(h.lists.nics[k][fam].addrs, side)])
    ELSE <<>>

\* An interface of the MAC: the last one in the document.
AzureInterfaces(h) ==
    LET Family(x) == IF x.addrs = <<>> /\ x.subnets = <<>> THEN Nil ELSE {x}
        Nic(n) == [MACAddress |-> n.mac, IPv4 |-> Family(n.v4), IPv6 |-> Family(n.v6)]
    IN IF "network" \in h.parts
       THEN FoldLeft(LAMBDA m, n : Put(m, n.mac, Nic(n)), Empty, h.lists.nics) ELSE Empty

\* Without the compute section none of its fields is set.
AzureInfo(h) ==
    LET compute == "compute" \in h.parts
    IN (IF compute THEN Copied(h) ELSE [f \in DOMAIN Renamed("azure") |-> None])
       @@ [parts |-> IF compute THEN h.parts \ {"compute", "network"} ELSE {},
           PublicKeys |-> IF compute THEN h.lists.keys ELSE <<>>,
           DataDisks |-> IF compute /\ "StorageProfile" \in h.parts THEN h.lists.disks ELSE <<>>,
           Interfaces |-> AzureInterfaces(h),
           PublicIPv4 |-> Flat(h, "v4", "public"), LocalIPv4 |-> Flat(h, "v4", "private"),
           PublicIPv6 |-> Flat(h, "v6", "public"), LocalIPv6 |-> Flat(h, "v6", "private")]

\* GCE: names of resources are paths, a zone is the parts of its name.
LastSegment(path) == IF path = None THEN None ELSE Last(path)
ZoneToRegion(zone) == IF zone = None THEN None ELSE IF Len(zone) > 1 THEN Front(zone) ELSE zone

GceInfo(h, accounts) ==
    Copied(h) @@
    [Type |-> LastSegment(Scalar(h, "machineType")), ImageID |-> LastSegment(Scalar(h, "image")),
     Zone |-> LastSegment(Scalar(h, "zone")), Region |-> ZoneToRegion(LastSegment(Scalar(h, "zone"))),
     VirtualClockDriftToken |-> IF "virtualClock" \in h.parts THEN "token" ELSE None,
     Disks |-> h.lists.disks, NetworkInterfaces |-> h.lists.nics, ServiceAccounts |-> accounts]

\* A mutant: one volume of a device path.
VolumesByPath(vols) == FoldLeft(LAMBDA m, v : IF v.id = None THEN m ELSE Put(m, v.path, v), Empty, vols)

\* OCI: the volumes by their id, those without one are left out.
OciVolumeMap(vols) == FoldLeft(LAMBDA m, v : IF v.id = None THEN m ELSE Put(m, v.id, v), Empty, vols)

OciInfo(h) ==
    Copied(h) @@ [parts |-> h.parts, VNICs |-> h.lists.vnics,
                  VolumeAttachments |-> OciVolumeMap(h.lists.volumes)]

\* DigitalOcean: the interfaces of both scopes, each with its addresses.
DigitalOceanInfo(h) ==
    LET Scoped(s) == [k \in DOMAIN h.lists[s] |-> [scope |-> s, iface |-> h.lists[s][k]]]
    IN Copied(h) @@
       [FloatingIP |-> IF "floating_ip" \in h.parts THEN Scalar(h, "floating_ip") ELSE None,
        ReservedIP |-> IF "reserved_ip" \in h.parts THEN Scalar(h, "reserved_ip") ELSE None,
        Interfaces |-> Scoped("public") \o Scoped("private")]

\* Scaleway: the volumes come in the order of a map.
ScalewayInfo(h, volumes) ==
    Copied(h) @@
    [PublicIP |-> IF "public_ip" \in h.parts THEN Scalar(h, "public_ip") ELSE None,
     Zone |-> IF "location" \in h.parts THEN Scalar(h, "zone_id") ELSE None,
     SSHPublicKeys |-> SelectSeq(h.lists.keys, LAMBDA k : k # "blank"),
     Volumes |-> volumes]

\* The orders in which a map may be read.
Orders(S) == {s \in [1..Cardinality(S) -> S] : Range(s) = S}

----------------------------------------------------------------------------
\* The trees.  Names are written as the keys they become, but for one.
SanitizeKey(n) == IF n = "app-name" THEN "app_name" ELSE n

\* A leaf is what its text is as JSON; OpenStack's are text.
Leaf(h, leaf) == IF h.of = "openstack" THEN [t |-> "string", v |-> leaf.v] ELSE leaf

\* A mutant: what fails below ends the walk of the directory.
WalkStrict(h) ==
    LET walk[path \in DOMAIN h.tree] ==
            LET Fold(m, n) ==
                    LET p == Append(path, n)
                    IN IF p = <<"user_data">> THEN m
                       ELSE Put(m, SanitizeKey(n),
                                IF h.tree[p].t = "dir" THEN [t |-> "map", v |-> walk[p]] ELSE Leaf(h, h.tree[p]))
            IN IF \E k \in DOMAIN h.tree[path].v : Append(path, h.tree[path].v[k]) \in h.down THEN Empty
               ELSE FoldLeft(Fold, Empty, h.tree[path].v)
    IN walk

\* Of every directory that was listed its entries by their keys, except those that
\* fail and what Alibaba calls user data.
Walk(h) ==
    LET walk[path \in DOMAIN h.tree] ==
            LET Fold(m, n) ==
                    LET p == Append(path, n)
                    IN IF p \in h.down \/ (h.of = "alibaba" /\ p = <<"user_data">>) THEN m
                       ELSE Put(m, SanitizeKey(n),
                                IF h.tree[p].t = "dir" THEN [t |-> "map", v |-> walk[p]] ELSE Leaf(h, h.tree[p]))
            IN FoldLeft(Fold, Empty, h.tree[path].v)
    IN walk

StrVal(m, k) == IF k \in DOMAIN m /\ m[k].t = "string" THEN m[k].v ELSE None
IntVal(m, k) == IF k \in DOMAIN m /\ m[k].t = "number" THEN m[k].v ELSE "0"
MapVal(m, k) == IF k \in DOMAIN m /\ m[k].t = "map" THEN m[k].v ELSE Empty

AlibabaInfo(h) ==
    LET md   == MapVal(Walk(h)[<<>>], "meta_data")
        inst == MapVal(md, "instance")
        tags == MapVal(MapVal(md, "tags"), "instance")
        macs == MapVal(MapVal(MapVal(md, "network"), "interfaces"), "macs")
    IN [ID |-> StrVal(md, "instance_id"), Region |-> StrVal(md, "region_id"), Zone |-> StrVal(md, "zone_id"),
        AccountUID |-> StrVal(md, "owner_account_id"), Type |-> StrVal(inst, "instance_type"),
        MaxBandwidthIngress |-> IntVal(inst, "max_netbw_ingress"),
        Tags |-> [k \in {k \in DOMAIN tags : tags[k].t = "string"} |-> tags[k].v],
        NetworkInterfaces |-> [mac \in {k \in DOMAIN macs : macs[k].t = "map"} |->
                                  [PrimaryIPAddress |-> StrVal(macs[mac].v, "primary_ip_address")]]]

\* OpenStack: the tree, if its root answers, and Nova's document, if it comes and
\* parses, which fills what the tree left open.
OpenStackInfo(h) ==
    LET tree == IF <<>> \in h.down THEN Empty ELSE Walk(h)[<<>>]
        Nova(k) == IF h.nova.ok /\ k \in DOMAIN h.nova.out THEN h.nova.out[k] ELSE None
        First(a, b) == IF a # None THEN a ELSE b
    IN [ID |-> StrVal(tree, "instance_id"), Type |-> StrVal(tree, "instance_type"),
        UUID |-> Nova("uuid"), ProjectUID |-> Nova("project_id"),
        Hostname |-> First(StrVal(tree, "hostname"), Nova("hostname")),
        Zone |-> First(StrVal(MapVal(tree, "placement"), "availability_zone"), Nova("availability_zone")),
        Provider |-> IF h.dreamhost THEN "dreamhost" ELSE "openstack"]

----------------------------------------------------------------------------
\* Linode: the first IPv4 address of each of two interfaces that is not
\* link-local.
FirstIPv4(addrs) ==
    LET usable == SelectSeq(addrs, LAMBDA a : a.family = 4 /\ ~ a.local)
    IN IF usable = <<>> THEN None ELSE usable[1].ip

LinodeInfo(h) == [PublicIP |-> FirstIPv4(h.eth0), PrivateIP |-> FirstIPv4(h.alias)]

----------------------------------------------------------------------------
CollectDocument ==
    \/ host.of = "azure" /\ Returns("azure", AzureInfo(host))
    \/ host.of = "oci" /\ Returns("oci", OciInfo(host))
    \/ host.of = "digital_ocean" /\ Returns("digital_ocean", DigitalOceanInfo(host))
    \/ host.of = "gce" /\ \E o \in Orders(host.lists.accounts) : Returns("gce", GceInfo(host, o))
    \/ host.of = "scaleway" /\ \E o \in Orders(host.lists.volumes) : Returns("scaleway", ScalewayInfo(host, o))

Nothing == [ID |-> None]

CollectTree ==
    \/ /\ host.of = "alibaba"
       /\ Returns("alibaba", IF <<>> \in host.down THEN Nothing ELSE AlibabaInfo(host))
    \/ /\ host.of = "openstack"
       /\ LET info == OpenStackInfo(host)
          IN Returns("openstack", IF <<>> \in host.down /\ info.UUID = None THEN Nothing ELSE info)

CollectLinode ==
    /\ host.of = "linode"
    /\ Returns("linode", IF host.signs = {} THEN Nothing ELSE LinodeInfo(host))

----------------------------------------------------------------------------
\* ocsf.buildCloud on the facts of one provider.
Field(info, f) == IF f \in DOMAIN info THEN info[f] ELSE None

\* A mutant: the account of one provider is the project of another.
OcsfCloudMixed(p, info) ==
    [region |-> Field(info, "Region"), zone |-> Field(info, "Zone"),
     account |-> Field(info, IF p \in {"scaleway", "oci"} THEN "ProjectUID" ELSE "AccountUID"),
     project |-> Field(info, "ProjectUID")]

OcsfCloudOf(p, info) ==
    [region |-> IF p \in {"openstack", "scaleway"} THEN None ELSE Field(info, "Region"),
     zone |-> IF p = "digital_ocean" THEN None ELSE Field(info, "Zone"),
     account |-> IF p \in {"azure", "oci", "alibaba", "scaleway"} THEN Field(info, "AccountUID") ELSE None,
     project |-> IF p \in {"gce", "openstack", "scaleway"} THEN Field(info, "ProjectUID") ELSE None]

----------------------------------------------------------------------------
CloudFact == facts.info

\* Azure reports every address twice, with its interface and in a list of its
\* kind: unless two interfaces share a MAC the two agree, whatever is missing.
AzureAddressesAgree ==
    Collected("azure") /\ IsInjective([k \in DOMAIN host.lists.nics |-> host.lists.nics[k].mac]) =>
        LET Of(fam, side) ==
                UNION {UNION {Range(Given(x.addrs, side)) : x \in CloudFact.Interfaces[m][fam]} :
                          m \in DOMAIN CloudFact.Interfaces}
        IN /\ Range(CloudFact.PublicIPv4) = Of("IPv4", "public")
           /\ Range(CloudFact.LocalIPv4) = Of("IPv4", "private")
           /\ Range(CloudFact.PublicIPv6) = Of("IPv6", "public")
           /\ Range(CloudFact.LocalIPv6) = Of("IPv6", "private")

\* What a document lists is reported, each item once and none that it does not
\* list, in whatever order a map is read and whatever parts are null.
ListsArriveWhole ==
    /\ Collected("gce") => Range(CloudFact.ServiceAccounts) = host.lists.accounts
                           /\ IsInjective(CloudFact.ServiceAccounts)
    /\ Collected("scaleway") => Range(CloudFact.Volumes) = host.lists.volumes
                                /\ "blank" \notin Range(CloudFact.SSHPublicKeys)
    /\ Collected("oci") => \A v \in Range(host.lists.volumes) :
            v.id # None <=> v.id \in DOMAIN CloudFact.VolumeAttachments
    /\ Collected("digital_ocean") =>
            \A s \in {"public", "private"} :
                host.lists[s] = LET mine == SelectSeq(CloudFact.Interfaces, LAMBDA i : i.scope = s)
                                IN [k \in DOMAIN mine |-> mine[k].iface]

\* A path of a tree that does not answer costs what is below it and nothing else:
\* a field that is text is missing only if its leaf or a directory on the way is.
LostPathsStayLocal ==
    host.of \in Trees /\ facts # NotYet =>
        LET Lost(p) == \E k \in 0..Len(p) : SubSeq(p, 1, k) \in host.down
            Told(p, v) == p \in DOMAIN host.tree /\ host.tree[p].t = "string" =>
                              IF Lost(p) THEN v = None ELSE v = host.tree[p].v
        IN /\ Collected("alibaba") =>
                /\ Told(<<"meta_data", "instance_id">>, Field(CloudFact, "ID"))
                /\ Told(<<"meta_data", "zone_id">>, Field(CloudFact, "Zone"))
                /\ Told(<<"meta_data", "instance", "instance_type">>, Field(CloudFact, "Type"))
           /\ Collected("openstack") =>
                /\ Told(<<"instance_id">>, Field(CloudFact, "ID"))
                /\ Told(<<"placement", "availability_zone">>, Field(CloudFact, "Zone"))
                      \/ (host.nova.ok /\ Field(CloudFact, "Zone") = host.nova.out.availability_zone)

\* The event says of the host's account, project and place what the provider's
\* own document says under its own names for them.
OcsfCarriesTheDocument ==
    facts # NotYet /\ host.of \in Documented =>
        LET cloud == OcsfCloudOf(host.of, CloudFact)
            Means(what) ==
                CASE what = "account" -> {"subscriptionId", "tenantId", "organization"}
                  [] what = "project" -> {"projectId", "project"}
                  [] what = "region"  -> {"location", "region"}
        IN \A what \in {"account", "project", "region"}, k \in DOMAIN host.scalars :
                k \in Means(what) /\ (host.of = "azure" => "compute" \in host.parts) => cloud[what] = host.scalars[k]

\* What the documents and trees of a cloud say arrives, in Info and in the event,
\* whatever of them is missing.
DocumentsAreKept ==
    /\ AzureAddressesAgree
    /\ ListsArriveWhole
    /\ LostPathsStayLocal
    /\ OcsfCarriesTheDocument
=============================================================================
