-------------------------------- MODULE MCImds --------------------------------
(* Instances of Imds: EC2 hosts with and without tokens, a host of no cloud. *)
EXTENDS Imds

Host(platform, v1, signs) == [platform |-> platform, dmi |-> {"bios"}, signs |-> signs, v1 |-> v1]

Cloud(h, versions, macs, lacks) == [host |-> h, versions |-> versions, macs |-> macs, lacks |-> lacks]

MCClouds ==
    {Cloud(Host("ec2", v1, {}), {2, 3}, {"m1"}, lacks) :
        v1 \in BOOLEAN, lacks \in {{}, {<<"token">>}, {<<"region">>, <<"iam">>, <<"macs">>}}}
    \cup {Cloud(Host("ec2", TRUE, {}), {2}, {"m1", "m2"}, {})}
    \cup {Cloud(Host("ec2", FALSE, {"xen"}), {3}, {}, {<<"public-keys", "0">>})}
    \cup {Cloud(Host("none", TRUE, signs), {}, {}, {}) : signs \in {{}, {"xen"}}}
=============================================================================
