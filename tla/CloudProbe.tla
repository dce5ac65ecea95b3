------------------------------ MODULE CloudProbe ------------------------------
(***************************************************************************)
(* The nine cloud collectors (pkg/gohai/collectors) on one host, side by   *)
(* side on a level of their own, after dmi and hostname: each looks at the *)
(* signs of its cloud, then asks the metadata service it expects, through  *)
(* internal/cloudmetadata.  Facts.Cloud and the OCSF conversion say from   *)
(* their results which cloud the host is on.                               *)
(***************************************************************************)
EXTENDS Naturals, Sequences, Functions, FiniteSetsExt

Providers == {"ec2", "gce", "azure", "digital_ocean", "oci", "alibaba",
              "linode", "openstack", "scaleway"}

CONSTANTS
    Hosts,      \* the hosts gohai may find itself on, see HostOK
    Selections, \* the sets of cloud collectors a user may select
    Faults      \* what may happen to a request that should be answered

Fates == {"ok", "malformed", "cut", "status", "unreachable"}
Steps == {"token", "versions", "first", "rest", "document", "vnics", "volumes", "tree", "nova"}

\* A host: the cloud it is on, the DMI sections the dmi collector could read
\* (on macOS none), the signs of clouds in its files, and whether its
\* metadata service answers reads without a token.
HostOK(h) ==
    /\ h.platform \in Providers \cup {"none"}
    /\ h.dmi \subseteq {"bios", "chassis", "product"}
    /\ h.signs \subseteq {"xen", "azure", "linode", "scaleway"}
    /\ h.v1 \in BOOLEAN

ASSUME HostsAssumption == \A h \in Hosts : HostOK(h)
ASSUME SelectionsAssumption == Selections \subseteq SUBSET Providers
ASSUME FaultsAssumption == Faults \subseteq Fates \ {"ok"}

VARIABLES
    host,       \* the host
    selection,  \* the collectors that run
    ctx,        \* "live" or "cancelled"
    pc,         \* what each collector does next
    log,        \* what became of each request it sent
    result      \* what its Collect returned

vars == <<host, selection, ctx, pc, log, result>>

Init ==
    /\ host \in Hosts
    /\ selection \in Selections
    /\ ctx = "live"
    /\ pc = [p \in Providers |-> "gate"]
    /\ log = [p \in Providers |-> [s \in Steps |-> "none"]]
    /\ result = [p \in Providers |-> "none"]

\* The caller gives up, or the process is interrupted.
Cancel ==
    /\ ctx = "live"
    /\ ctx' = "cancelled"
    /\ UNCHANGED <<host, selection, pc, log, result>>

----------------------------------------------------------------------------
\* The metadata services.

\* OpenStack's service mirrors EC2's, so what the collector of the one asks for
\* there, the service of the other has as well, at the same address.
Served(p, s) ==
    CASE p = "openstack" /\ s = "tree" -> host.platform = p \/ (host.platform = "ec2" /\ host.v1)
      [] p = "ec2" /\ s # "token"      -> host.platform \in {p, "openstack"}
      [] OTHER                         -> host.platform = p

\* EC2 may insist on the token.
Refused(p, s) ==
    p = host.platform /\ p = "ec2" /\ s # "token" /\ ~ host.v1 /\ log["ec2"]["token"] \notin {"ok", "malformed"}

\* What may become of a request.  "malformed" is a body that is not what was
\* asked for, "cut" one that ends early or too late.
FatesOf(p, s) ==
    IF ~ Served(p, s) THEN {"status", "unreachable"}
    ELSE IF ctx = "cancelled" THEN {"unreachable", "cut"}
    ELSE IF Refused(p, s) THEN {"status"} \cup (Faults \cap {"unreachable"})
    ELSE {"ok"} \cup Faults

----------------------------------------------------------------------------
\* internal/cloudmetadata.

\* A mutant: a status other than 2xx is an answer.
GetAnyStatus(f) ==
    IF f \in {"ok", "malformed", "status"} THEN "body"
    ELSE IF f = "unreachable" THEN "notAvailable" ELSE "error"

\* Get, GetWithHeaders and Put: do.
Get(f) ==
    IF f \in {"ok", "malformed"} THEN "body"
    ELSE IF f \in {"status", "unreachable"} THEN "notAvailable" ELSE "error"

GetJSON(f) == IF f = "malformed" THEN "error" ELSE Get(f)

----------------------------------------------------------------------------
\* The gates.

\* A section of DMI that could not be read rules nothing out, except for EC2,
\* whose other sign then has to be there.
OpenOr(section, p) == section \notin host.dmi \/ host.platform = p

OnGCE == OpenOr("product", "gce")
OnAlibaba == OpenOr("product", "alibaba")
OnOpenStack == OpenOr("product", "openstack")
OnDigitalOcean == OpenOr("bios", "digital_ocean")
OnOCI == OpenOr("chassis", "oci")
OnEC2 == ("bios" \in host.dmi /\ host.platform = "ec2") \/ "xen" \in host.signs
OnAzure == "azure" \in host.signs
OnLinode == "linode" \in host.signs
OnScaleway == "scaleway" \in host.signs

Gate(p) ==
    CASE p = "gce" -> OnGCE
      [] p = "alibaba" -> OnAlibaba
      [] p = "openstack" -> OnOpenStack
      [] p = "digital_ocean" -> OnDigitalOcean
      [] p = "oci" -> OnOCI
      [] p = "ec2" -> OnEC2
      [] p = "azure" -> OnAzure
      [] p = "linode" -> OnLinode
      [] p = "scaleway" -> OnScaleway

FirstStep(p) ==
    CASE p = "ec2" -> "token"
      [] p = "azure" -> "versions"
      [] p \in {"openstack", "alibaba"} -> "tree"
      [] OTHER -> "document"

GoTo(p, s) ==
    /\ pc' = [pc EXCEPT ![p] = s]
    /\ UNCHANGED result

Return(p, r) ==
    /\ pc' = [pc EXCEPT ![p] = "done"]
    /\ result' = [result EXCEPT ![p] = r]

GateClosed(p) ==
    /\ pc[p] = "gate" /\ ~ Gate(p)
    /\ Return(p, "nil")
    /\ UNCHANGED <<host, selection, ctx, log>>

GateOpen(p) ==
    /\ pc[p] = "gate" /\ Gate(p) /\ p # "linode"
    /\ GoTo(p, FirstStep(p))
    /\ UNCHANGED <<host, selection, ctx, log>>

\* Linode has no metadata service that is asked.
Linode ==
    /\ "linode" \in selection /\ pc["linode"] = "gate" /\ OnLinode
    /\ Return("linode", "info")
    /\ UNCHANGED <<host, selection, ctx, log>>

\* p sends the request of step s, and this becomes of it.
Send(p, s, f) ==
    /\ pc[p] = s
    /\ f \in FatesOf(p, s)
    /\ log' = [log EXCEPT ![p][s] = f]
    /\ UNCHANGED <<host, selection, ctx>>

----------------------------------------------------------------------------
\* The collectors.

Gce(f) ==
    /\ Send("gce", "document", f)
    /\ Return("gce", IF Get(f) # "body" THEN "nil" ELSE IF f = "malformed" THEN "err" ELSE "info")

Scaleway(f) ==
    /\ Send("scaleway", "document", f)
    /\ Return("scaleway", IF Get(f) # "body" THEN "nil" ELSE IF f = "malformed" THEN "err" ELSE "info")

\* A mutant: the client's answer is returned as it is.
NeededRaw(answer) == IF answer = "body" THEN "info" ELSE answer

\* What a collector makes of a document it needs.
Needed(answer) ==
    IF answer = "body" THEN "info" ELSE IF answer = "notAvailable" THEN "nil" ELSE "err"

DigitalOcean(f) ==
    /\ Send("digital_ocean", "document", f)
    /\ Return("digital_ocean", Needed(GetJSON(f)))

\* Without an answer there is a version to fall back to.
AzureVersions(f) ==
    /\ Send("azure", "versions", f)
    /\ GoTo("azure", "document")

Azure(f) ==
    /\ Send("azure", "document", f)
    /\ Return("azure", Needed(GetJSON(f)))

OciInstance(f) ==
    /\ Send("oci", "document", f)
    /\ IF GetJSON(f) = "body" THEN GoTo("oci", "vnics") ELSE Return("oci", Needed(GetJSON(f)))

OciVnics(f) ==
    /\ Send("oci", "vnics", f)
    /\ IF GetJSON(f) = "error" THEN Return("oci", "err") ELSE GoTo("oci", "volumes")

OciVolumes(f) ==
    /\ Send("oci", "volumes", f)
    /\ Return("oci", IF GetJSON(f) = "error" THEN "err" ELSE "info")

\* A mutant: a root that does not come is asked for again.
AlibabaAgain(f) ==
    /\ Send("alibaba", "tree", f)
    /\ IF Get(f) = "body" THEN Return("alibaba", "info") ELSE GoTo("alibaba", "tree")

\* The root of the tree decides; what else fails in the walk is left out,
\* see CloudInfo.
Alibaba(f) ==
    /\ Send("alibaba", "tree", f)
    /\ Return("alibaba", IF Get(f) = "body" THEN "info" ELSE "nil")

OpenStackTree(f) ==
    /\ Send("openstack", "tree", f)
    /\ GoTo("openstack", "nova")

\* A mutant: that nothing came back is not noticed.
OpenStackAnyway(f) ==
    /\ Send("openstack", "nova", f)
    /\ Return("openstack", "info")

OpenStackNova(f) ==
    /\ Send("openstack", "nova", f)
    /\ Return("openstack",
              IF Get(log["openstack"]["tree"]) = "body" \/ GetJSON(f) = "body" THEN "info" ELSE "nil")

\* The token, the versions and the paths after the first may all fail, see
\* Imds for what that costs.
Ec2Token(f) ==
    /\ Send("ec2", "token", f)
    /\ GoTo("ec2", "versions")

Ec2Versions(f) ==
    /\ Send("ec2", "versions", f)
    /\ GoTo("ec2", "first")

Ec2First(f) ==
    /\ Send("ec2", "first", f)
    /\ IF Get(f) = "body" THEN GoTo("ec2", "rest") ELSE Return("ec2", "nil")

Ec2Rest(f) ==
    /\ Send("ec2", "rest", f)
    /\ Return("ec2", "info")

----------------------------------------------------------------------------
\* A step of one of the collectors.
Collect ==
    \/ \E p \in selection : GateClosed(p) \/ GateOpen(p)
    \/ Linode
    \/ \E f \in Fates :
        \/ Gce(f) \/ Scaleway(f) \/ DigitalOcean(f) \/ Alibaba(f)
        \/ AzureVersions(f) \/ Azure(f)
        \/ OciInstance(f) \/ OciVnics(f) \/ OciVolumes(f)
        \/ OpenStackTree(f) \/ OpenStackNova(f)
        \/ Ec2Token(f) \/ Ec2Versions(f) \/ Ec2First(f) \/ Ec2Rest(f)

Next == Cancel \/ Collect

\* Every request has a timeout, so some collector goes on while one is left.
Spec == Init /\ [][Next]_vars /\ WF_vars(Collect)

----------------------------------------------------------------------------
\* What is said of the host once the results are in Facts.

Filled == {p \in Providers : result[p] = "info"}

FirstOf(order, S) ==
    IF S \cap Range(order) = {} THEN "none"
    ELSE order[Min({i \in DOMAIN order : order[i] \in S})]

\* A mutant: the mirror comes before what it mirrors.
CloudMirrorFirst ==
    FirstOf(<<"openstack", "ec2", "gce", "azure", "digital_ocean", "oci", "alibaba", "linode",
              "scaleway">>, Filled)

\* Facts.Cloud.
Cloud ==
    FirstOf(<<"ec2", "gce", "azure", "digital_ocean", "oci", "alibaba", "linode", "openstack",
              "scaleway">>, Filled)

\* buildCloud of the OCSF conversion.
OcsfCloud ==
    FirstOf(<<"ec2", "gce", "azure", "oci", "alibaba", "digital_ocean", "openstack",
              "scaleway">>, Filled)

Done == \A p \in selection : result[p] # "none"

----------------------------------------------------------------------------
\* Every variable stays in the set of its values.
TypeOK ==
    /\ host \in Hosts /\ selection \in Selections
    /\ ctx \in {"live", "cancelled"}
    /\ pc \in [Providers -> {"gate", "done"} \cup Steps]
    /\ log \in [Providers -> [Steps -> Fates \cup {"none"}]]
    /\ result \in [Providers -> {"none", "nil", "info", "err"}]

Received(p, s) == log[p][s] \in {"ok", "malformed"}

Reached == {p \in Providers : \E s \in Steps : Received(p, s) \/ log[p][s] = "cut"}

Found ==
    ({"linode"} \cap host.signs)
    \cup {p \in Providers : \E s \in Steps \ {"token", "versions"} : Received(p, s)}

Contract == INSTANCE ProbeContract WITH
    Probes <- Providers, asked <- selection, reached <- Reached, found <- Found

\* The collectors keep the contract of probes: a field is filled only from
\* something received (for Linode, from a sign on the host), an error is
\* reported only of a service that answered: elsewhere nothing is said.
KeepsProbeContract == Contract!Init /\ [][Contract!Next]_(Contract!vars)

\* Every collector that runs returns, whatever the services do.
ProbesReturn == Contract!AllReturn

OwnSigns(p) ==
    /\ host.signs \subseteq {p} \cup (IF p = "ec2" THEN {"xen"} ELSE {})
    /\ Gate(p)

\* On a cloud whose own signs are there and whose service answered everything
\* it was asked, Facts.Cloud names that cloud, whatever the other collectors
\* asked of it or missed in DMI, and in whatever order.
NamesTheCloud ==
    LET p == host.platform IN
    Done /\ p \in selection /\ OwnSigns(p) /\ (\A s \in Steps : log[p][s] \in {"ok", "none"})
        => Cloud = p

\* The two views of the same Facts, which look at the providers in orders of
\* their own, name the same cloud, except on Linode, which OCSF leaves out.
ViewsAgree == Done /\ result["linode"] # "info" => Cloud = OcsfCloud
=============================================================================
