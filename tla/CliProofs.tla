------------------------------- MODULE CliProofs -------------------------------
(***************************************************************************)
(* What holds of the commands whatever the command line, the collectors,   *)
(* the length of the output and the moments of the interrupts are.         *)
(***************************************************************************)
EXTENDS Cli, TLAPS

----------------------------------------------------------------------------
\* The inductive invariant.

\* Nothing is written before collect gets to it, and it gets to it, unless it
\* only lists, with every collector finished and in the document unless it
\* failed.
WritingIsPrepared ==
    /\ pc["collect"] # "absent"
    /\ pc["collect"] \in {"start", "main", "collecting"} => sent = 0
    /\ sent > 0 \/ pc["collect"] = "writing" =>
          args.list \/ doc = {c \in Collectors : col[c] \in {"ok", "null"}}

\* Whoever has written everything and ended, ended well, and nobody else did.
EndIsKnown == pc["collect"] = "exited" => (exit["collect"] = "0" <=> sent = Pieces)

\* A verdict over a piped document is not given before its writer has ended.
VerdictWaits ==
    args.in = "pipe" /\ exit["validate"] = "0" =>
        pc["collect"] = "exited" /\ sent = Pieces /\ Conforms

CliInv ==
    /\ CliTypeOK
    /\ WritingIsPrepared
    /\ EndIsKnown
    /\ VerdictWaits

----------------------------------------------------------------------------
LEMMA InitCliInv == Init => CliInv
<1> SUFFICES ASSUME Init PROVE CliInv
  OBVIOUS
<1> USE DEF Init, Procs
<1>1. CliTypeOK
  BY BoundsAssumption DEF CliTypeOK, Ended
<1>2. WritingIsPrepared /\ EndIsKnown /\ VerdictWaits
  BY BoundsAssumption DEF WritingIsPrepared, EndIsKnown, VerdictWaits
<1> QED BY <1>1, <1>2 DEF CliInv

\* What ends or cancels a process leaves the document and the pipe alone.
LEMMA SignalsKeepCliInv ==
  ASSUME CliInv, NEW p \in Procs, Notify(p) \/ Interrupt(p) \/ Relay(p)
  PROVE  CliInv'
<1> USE DEF CliInv, CliTypeOK, Procs
<1>1. CASE Notify(p)
  <2>1. CliTypeOK'
    BY <1>1 DEF Notify
  <2>2. WritingIsPrepared' /\ EndIsKnown' /\ VerdictWaits'
    BY <1>1 DEF Notify, WritingIsPrepared, EndIsKnown, VerdictWaits, Conforms
  <2> QED BY <2>1, <2>2
<1>2. CASE Interrupt(p)
  <2>1. CliTypeOK'
    BY <1>2, BoundsAssumption DEF Interrupt, Exit, Alive
  <2>2. WritingIsPrepared' /\ EndIsKnown' /\ VerdictWaits'
    BY <1>2, BoundsAssumption
       DEF Interrupt, Exit, Alive, WritingIsPrepared, EndIsKnown, VerdictWaits, Conforms
  <2> QED BY <2>1, <2>2
<1>3. CASE Relay(p)
  <2>1. CliTypeOK'
    BY <1>3 DEF Relay
  <2>2. WritingIsPrepared' /\ EndIsKnown' /\ VerdictWaits'
    BY <1>3 DEF Relay, WritingIsPrepared, EndIsKnown, VerdictWaits, Conforms
  <2> QED BY <2>1, <2>2
<1> QED BY <1>1, <1>2, <1>3

\* Collectors move before anything is written only.
LEMMA BecomesKeepsCliInv ==
  ASSUME CliInv, NEW c \in Collectors,
         NEW s \in Ended \cup {"idle", "reading", "command", "held", "returning"}, Becomes(c, s)
  PROVE  CliInv'
<1> USE DEF CliInv, CliTypeOK, Becomes, process
<1>1. CliTypeOK'
  OBVIOUS
<1>2. WritingIsPrepared' /\ EndIsKnown' /\ VerdictWaits'
  BY DEF WritingIsPrepared, EndIsKnown, VerdictWaits
<1> QED BY <1>1, <1>2

LEMMA CollectorsKeepCliInv ==
  ASSUME CliInv, NEW c \in Collectors, CollectorStep(c) \/ CommandEnds(c)
  PROVE  CliInv'
<1>1. PICK s \in Ended \cup {"idle", "reading", "command", "held", "returning"} : Becomes(c, s)
  BY DEF CollectorStep, CommandEnds, Begin, KillCommand, LetGo, CollectorReturns, Ended
<1> QED BY <1>1, BecomesKeepsCliInv

LEMMA CollectKeepsCliInv ==
  ASSUME CliInv, Prepare \/ CollectReturns \/ Write \/ Written
  PROVE  CliInv'
<1> USE BoundsAssumption DEF CliInv, CliTypeOK, Procs, process, Exit
<1>1. CASE Prepare
  <2>1. CliTypeOK'
    BY <1>1 DEF Prepare
  <2>2. WritingIsPrepared' /\ EndIsKnown' /\ VerdictWaits'
    BY <1>1 DEF Prepare, WritingIsPrepared, EndIsKnown, VerdictWaits, Conforms
  <2> QED BY <2>1, <2>2
<1>2. CASE CollectReturns
  <2>1. CliTypeOK'
    BY <1>2 DEF CollectReturns
  <2>2. doc' = {c \in Collectors : col'[c] \in {"ok", "null"}}
    BY <1>2 DEF CollectReturns, Ended
  <2>3. WritingIsPrepared' /\ EndIsKnown' /\ VerdictWaits'
    BY <1>2, <2>2 DEF CollectReturns, WritingIsPrepared, EndIsKnown, VerdictWaits
  <2> QED BY <2>1, <2>3
<1>3. CASE Write
  <2>1. CliTypeOK'
    BY <1>3 DEF Write
  <2>2. WritingIsPrepared' /\ EndIsKnown' /\ VerdictWaits'
    BY <1>3 DEF Write, WritingIsPrepared, EndIsKnown, VerdictWaits
  <2> QED BY <2>1, <2>2
<1>4. CASE Written
  <2>1. CliTypeOK'
    BY <1>4 DEF Written
  <2>2. WritingIsPrepared' /\ EndIsKnown' /\ VerdictWaits'
    BY <1>4 DEF Written, WritingIsPrepared, EndIsKnown, VerdictWaits
  <2> QED BY <2>1, <2>2
<1> QED BY <1>1, <1>2, <1>3, <1>4

LEMMA ValidateKeepsCliInv ==
  ASSUME CliInv, ReadInput \/ Read \/ Judge
  PROVE  CliInv'
<1> USE DEF CliInv, CliTypeOK, Procs, process, Exit, Verdict
<1>1. CASE ReadInput
  <2>1. CliTypeOK'
    BY <1>1 DEF ReadInput
  <2>2. WritingIsPrepared' /\ EndIsKnown' /\ VerdictWaits'
    BY <1>1 DEF ReadInput, WritingIsPrepared, EndIsKnown, VerdictWaits, Conforms
  <2> QED BY <2>1, <2>2
<1>2. CASE Read
  <2>1. CliTypeOK'
    BY <1>2 DEF Read
  <2>2. WritingIsPrepared' /\ EndIsKnown' /\ VerdictWaits'
    BY <1>2 DEF Read, WritingIsPrepared, EndIsKnown, VerdictWaits, Conforms
  <2> QED BY <2>1, <2>2
<1>3. CASE Judge
  <2>1. CliTypeOK'
    BY <1>3 DEF Judge
  <2>2. WritingIsPrepared' /\ EndIsKnown' /\ VerdictWaits'
    BY <1>3 DEF Judge, Alive, WritingIsPrepared, EndIsKnown, VerdictWaits, Conforms
  <2> QED BY <2>1, <2>2
<1> QED BY <1>1, <1>2, <1>3

LEMMA NextCliInv == CliInv /\ [Next]_vars => CliInv'
<1> SUFFICES ASSUME CliInv, [Next]_vars PROVE CliInv'
  OBVIOUS
<1>1. CASE UNCHANGED vars
  BY <1>1 DEF vars, CliInv, CliTypeOK, WritingIsPrepared, EndIsKnown, VerdictWaits, Conforms
<1>2. CASE Next
  BY <1>2, SignalsKeepCliInv, CollectorsKeepCliInv, CollectKeepsCliInv, ValidateKeepsCliInv
     DEF Next, Main
<1> QED BY <1>1, <1>2

LEMMA CliInvHolds == Spec => []CliInv
BY InitCliInv, NextCliInv, PTL DEF Spec

----------------------------------------------------------------------------
\* The commands' state keeps its types; the pipe never holds more than its
\* one piece, and a second interrupt finds no room in the channel.
THEOREM CliTypeCorrect == Spec => []CliTypeOK
<1>1. CliInv => CliTypeOK
  BY DEF CliInv
<1> QED BY <1>1, CliInvHolds, PTL

\* Exit status 0 of collect means all of the output, and that of validate
\* behind a pipe all of a document that conforms, whatever was interrupted,
\* killed or cut.
THEOREM ExitsAreTrueHolds == Spec => []ExitsAreTrue
<1>1. CliInv => ExitsAreTrue
  BY BoundsAssumption
     DEF CliInv, CliTypeOK, Procs, WritingIsPrepared, EndIsKnown, VerdictWaits,
         ExitsAreTrue, ZeroMeansWritten, ValidMeansWhole
<1> QED BY <1>1, CliInvHolds, PTL
=============================================================================
