------------------------------ MODULE MCCloudProbe ------------------------------
(***************************************************************************)
(* Hosts and selections for CloudProbe.                                    *)
(***************************************************************************)
EXTENDS CloudProbe

AllSections == {"bios", "chassis", "product"}

Signs(p) == IF p = "ec2" THEN {"xen"} ELSE {p} \cap {"azure", "linode", "scaleway"}

\* Every cloud and none, with all of DMI or nothing of it (macOS), with the
\* signs of its own.
PlainHosts ==
    {[platform |-> p, dmi |-> d, signs |-> Signs(p), v1 |-> v] :
        p \in Providers \cup {"none"}, d \in {AllSections, {}}, v \in BOOLEAN}

\* Hosts whose signs are of another cloud, or are missing, as on a Mac of EC2.
OddHosts ==
    {[platform |-> p, dmi |-> d, signs |-> s, v1 |-> TRUE] :
        p \in {"ec2", "openstack", "none"}, d \in {AllSections, {"bios"}, {}},
        s \in {{}, {"xen"}, {"azure", "linode", "scaleway"}}}

AllHosts == PlainHosts \cup OddHosts

\* Collectors one by one, and together those that read one address or that the
\* two priorities order differently.
MCSelections ==
    {{p} : p \in Providers} \cup
    {{"ec2", "openstack", "linode"}, {"gce", "azure", "openstack"}, {"digital_ocean", "oci", "alibaba"}}

AllFaults == Fates \ {"ok"}
==================================================================================
