------------------------------- MODULE MCGohai -------------------------------
(* Instances of Gohai: a part of the builtin collectors, and a build that is *)
(* wired wrongly. *)
EXTENDS Gohai, TLC

CONSTANTS cpu, virtualization, hostname, dmi, shard, typo,      \* names
          Cpu, Virtualization, Hostname, Dmi, Shard, Hostname2, KnottedCpu, \* collectors
          hardware, system, virtual, misspelt                   \* categories

MCNameOf == Cpu :> cpu @@ Virtualization :> virtualization @@ Hostname :> hostname
            @@ Dmi :> dmi @@ Shard :> shard @@ Hostname2 :> hostname
            @@ KnottedCpu :> cpu

\* As in the source, but for the last two.
MCCategoryOf == Cpu :> hardware @@ Virtualization :> virtual @@ Hostname :> system
                @@ Dmi :> hardware @@ Shard :> system @@ Hostname2 :> system
                @@ KnottedCpu :> hardware
MCDepsOf == Cpu :> <<>> @@ Virtualization :> <<cpu>> @@ Hostname :> <<>>
            @@ Dmi :> <<>> @@ Shard :> <<hostname, dmi>> @@ Hostname2 :> <<cpu>>
            @@ KnottedCpu :> <<virtualization>>

MCBuiltins == <<Hostname, Virtualization, Cpu, Shard, Dmi>>

\* hostname is built in twice, virtualization and cpu need each other, and
\* shard needs dmi, which nobody built in.
MiswiredBuiltins == <<Hostname, Virtualization, KnottedCpu, Hostname2, Shard>>

MCBuilds == {MCBuiltins, MiswiredBuiltins}

AllRequests == SUBSET Names
=============================================================================
