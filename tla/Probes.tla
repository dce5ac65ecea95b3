-------------------------------- MODULE Probes --------------------------------
(***************************************************************************)
(* The pattern of two macOS collectors: three slow commands run each in a  *)
(* goroutine of its own and write into a variable of their own, and the    *)
(* collector waits for all of them before it looks at what they wrote.     *)
(***************************************************************************)
EXTENDS Collection

Probing == facts.of = "probing"

\* The probes that still run, and what the others have written.
Running(running, outs) == [of |-> "probing", running |-> running, outs |-> outs]

\* The goroutines of a collector are started.
StartProbes(of, probes) ==
    /\ host.of = of
    /\ facts = NotYet
    /\ facts' = Running(probes, Empty)
    /\ UNCHANGED host

\* A mutant: a goroutine whose command fails does not report that it is done.
ProbeUnlessFailed(p) ==
    /\ Probing /\ p \in facts.running /\ host.probe[p].ok
    /\ facts' = Running(facts.running \ {p}, Put(facts.outs, p, host.probe[p].out))
    /\ UNCHANGED host

\* A command ends, and its goroutine with it; one that fails leaves nothing.
ProbeReturns(p) ==
    /\ Probing /\ p \in facts.running
    /\ facts' = Running(facts.running \ {p},
                        IF host.probe[p].ok THEN Put(facts.outs, p, host.probe[p].out) ELSE facts.outs)
    /\ UNCHANGED host

\* A mutant: the collector waits for the first goroutine only.
WaitForOne(of, info) ==
    /\ host.of = of
    /\ Probing /\ facts.running # DOMAIN host.probe
    /\ facts' = [of |-> of, err |-> FALSE, info |-> info]
    /\ UNCHANGED host

\* All have ended and Collect returns.
WaitReturns(of, info) ==
    /\ host.of = of
    /\ Probing /\ facts.running = {}
    /\ facts' = [of |-> of, err |-> FALSE, info |-> info]
    /\ UNCHANGED host

\* What the probes have written: nothing yet, or nothing at all, is blank.
Written == [p \in DOMAIN host.probe |-> IF p \in DOMAIN facts.outs THEN facts.outs[p] ELSE Empty]
=============================================================================
