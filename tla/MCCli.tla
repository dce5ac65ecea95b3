-------------------------------- MODULE MCCli --------------------------------
(* Instances of Cli: the command lines that differ for the commands. *)
EXTENDS Cli

Line(list, format, flat, accepted, out, in) ==
    [list |-> list, format |-> format, flat |-> flat, accepted |-> accepted, out |-> out, in |-> in]

Asked == {Line(TRUE, "ohai", FALSE, TRUE, "pipe", "pipe"), Line(FALSE, "other", FALSE, TRUE, "pipe", "pipe"),
          Line(FALSE, "ohai", FALSE, FALSE, "pipe", "pipe"), Line(FALSE, "ocsf", FALSE, TRUE, "pipe", "pipe"),
          Line(FALSE, "ohai", TRUE, TRUE, "pipe", "pipe"), Line(FALSE, "ohai", FALSE, TRUE, "pipe", "pipe")}

Lines == Asked \cup {Line(FALSE, "ohai", FALSE, TRUE, out, "none") : out \in {"file", "full"}}
               \cup {Line(TRUE, "ohai", FALSE, TRUE, "file", in) : in \in {"terminal", "missing", "valid", "invalid"}}

PlainPipeline == {Line(FALSE, "ohai", FALSE, TRUE, "pipe", "pipe")}
=============================================================================
