--------------------------------- MODULE Cli ---------------------------------
(***************************************************************************)
(* The commands (cmd, internal/cli, internal/executor): gohai collect      *)
(* writing to a file, to a full disk or to gohai validate, with interrupts *)
(* that arrive at any moment.  Collect is the sdk's, as module Gohai has   *)
(* it: it waits for every collector and keeps what did not fail.           *)
(***************************************************************************)
EXTENDS Naturals, FiniteSets

Procs == {"collect", "validate"}

CONSTANTS
    Collectors,    \* those that run
    Commanding,    \* those of them that wait for a command, the others read files
    Nullable,      \* those of them that may leave a list or map of theirs nil
    Invocations,   \* the command lines, see InvocationOK
    Pieces,        \* how many pieces the output is written and read in
    MaxInterrupts  \* how many interrupts a process may get: a bound of the model

\* A command line: what collect is asked for, whether New accepts it, where
\* its output goes, and what validate, which may not run at all, reads.
InvocationOK(i) ==
    /\ i.list \in BOOLEAN /\ i.flat \in BOOLEAN /\ i.accepted \in BOOLEAN
    /\ i.format \in {"ohai", "ocsf", "other"}
    /\ i.out \in {"pipe", "file", "full"}
    /\ i.in \in {"pipe", "terminal", "missing", "valid", "invalid", "none"}
    /\ i.out = "pipe" <=> i.in = "pipe"

ASSUME CollectorsAssumption == Commanding \subseteq Collectors /\ Nullable \subseteq Collectors
ASSUME InvocationsAssumption == \A i \in Invocations : InvocationOK(i)
ASSUME BoundsAssumption == Pieces \in Nat \ {0} /\ MaxInterrupts \in Nat

VARIABLES
    args,       \* the command line
    pc,         \* where the main goroutine of each process is
    sigChan,    \* the signals waiting for it, at most one
    relay,      \* the goroutine that takes one of them
    ctx,        \* its context, "live" or "cancelled"
    exit,       \* its exit status, or "signal"
    col,        \* what each collector is doing, or came to
    doc,        \* the collectors with a field in the document
    sent,       \* the pieces collect has written
    pipe,       \* the pieces in the pipe, which holds one
    interrupts  \* the interrupts each process has got

vars == <<args, pc, sigChan, relay, ctx, exit, col, doc, sent, pipe, interrupts>>
process == <<sigChan, relay, ctx, interrupts>>

Ended == {"ok", "null", "failed"}

Init ==
    /\ args \in Invocations
    /\ pc = [p \in Procs |-> IF p = "validate" /\ args.in = "none" THEN "absent" ELSE "start"]
    /\ sigChan = [p \in Procs |-> 0]
    /\ relay = [p \in Procs |-> "none"]
    /\ ctx = [p \in Procs |-> "live"]
    /\ exit = [p \in Procs |-> "none"]
    /\ col = [c \in Collectors |-> "idle"]
    /\ doc = {}
    /\ sent = 0
    /\ pipe = 0
    /\ interrupts = [p \in Procs |-> 0]

Alive(p) == pc[p] \notin {"absent", "exited"}

Exit(p, status) ==
    /\ pc' = [pc EXCEPT ![p] = "exited"]
    /\ exit' = [exit EXCEPT ![p] = status]

----------------------------------------------------------------------------
\* Execute, in every process.

\* signal.Notify, and the goroutine that waits for the channel.
Notify(p) ==
    /\ pc[p] = "start"
    /\ pc' = [pc EXCEPT ![p] = "main"]
    /\ relay' = [relay EXCEPT ![p] = "waiting"]
    /\ UNCHANGED <<args, sigChan, ctx, exit, col, doc, sent, pipe, interrupts>>

\* A mutant: the channel has room for every signal.
InterruptQueues(p) ==
    /\ Alive(p)
    /\ interrupts[p] < MaxInterrupts
    /\ interrupts' = [interrupts EXCEPT ![p] = @ + 1]
    /\ \/ pc[p] = "start" /\ Exit(p, "signal") /\ UNCHANGED sigChan
       \/ pc[p] # "start" /\ sigChan' = [sigChan EXCEPT ![p] = @ + 1] /\ UNCHANGED <<pc, exit>>
    /\ UNCHANGED <<args, relay, ctx, col, doc, sent, pipe>>

\* Before Notify an interrupt ends the process; afterwards it is sent to the
\* channel, and dropped when the channel is full.
Interrupt(p) ==
    /\ Alive(p)
    /\ interrupts[p] < MaxInterrupts
    /\ interrupts' = [interrupts EXCEPT ![p] = @ + 1]
    /\ \/ pc[p] = "start" /\ Exit(p, "signal") /\ UNCHANGED sigChan
       \/ pc[p] # "start" /\ sigChan' = [sigChan EXCEPT ![p] = 1] /\ UNCHANGED <<pc, exit>>
    /\ UNCHANGED <<args, relay, ctx, col, doc, sent, pipe>>

\* The goroutine takes one signal, cancels the context and ends.
Relay(p) ==
    /\ Alive(p)
    /\ relay[p] = "waiting"
    /\ sigChan[p] = 1
    /\ sigChan' = [sigChan EXCEPT ![p] = 0]
    /\ relay' = [relay EXCEPT ![p] = "ended"]
    /\ ctx' = [ctx EXCEPT ![p] = "cancelled"]
    /\ UNCHANGED <<args, pc, exit, col, doc, sent, pipe, interrupts>>

----------------------------------------------------------------------------
\* The collectors, and the commands some of them run.

Becomes(c, s) ==
    /\ pc["collect"] = "collecting"
    /\ col' = [col EXCEPT ![c] = s]
    /\ UNCHANGED <<args, pc, exit, doc, sent, pipe, process>>

\* With the context cancelled a command is not even started.
Begin(c) ==
    /\ col[c] = "idle"
    /\ \/ c \notin Commanding /\ Becomes(c, "reading")
       \/ c \in Commanding /\ ctx["collect"] = "live" /\ Becomes(c, "command")
       \/ c \in Commanding /\ ctx["collect"] = "cancelled" /\ Becomes(c, "returning")

\* The command ends by itself, now, later or never; what it started may
\* still hold the pipe its output comes through.
CommandEnds(c) == col[c] = "command" /\ \E s \in {"returning", "held"} : Becomes(c, s)

\* A mutant: the command is not told of the context.
KillNever(c) ==
    col[c] = "command" /\ ctx["collect"] = "cancelled" /\ FALSE /\ Becomes(c, "returning")

\* exec.CommandContext kills the command, and nothing that it started.
KillCommand(c) ==
    /\ col[c] = "command"
    /\ ctx["collect"] = "cancelled"
    /\ \E s \in {"returning", "held"} : Becomes(c, s)

\* CombinedOutput returns when the last holder of the pipe is gone.
LetGo(c) == col[c] = "held" /\ Becomes(c, "returning")

\* A collector returns a result, one with a nil list in it, or an error; one
\* whose command was killed may make do without it.
CollectorReturns(c) ==
    /\ col[c] \in {"reading", "returning"}
    /\ \E s \in {"ok", "failed"} \cup (IF c \in Nullable THEN {"null"} ELSE {}) : Becomes(c, s)

CollectorStep(c) ==
    \/ Begin(c)
    \/ KillCommand(c)
    \/ LetGo(c)
    \/ CollectorReturns(c)

----------------------------------------------------------------------------
\* gohai collect.

\* The command line is looked at: --list-collectors, the format, New.
Prepare ==
    /\ pc["collect"] = "main"
    /\ \/ args.list /\ pc' = [pc EXCEPT !["collect"] = "writing"] /\ UNCHANGED exit
       \/ ~ args.list /\ (args.format = "other" \/ ~ args.accepted) /\ Exit("collect", "1")
       \/ /\ ~ args.list /\ args.format # "other" /\ args.accepted
          /\ pc' = [pc EXCEPT !["collect"] = "collecting"]
          /\ UNCHANGED exit
    /\ UNCHANGED <<args, col, doc, sent, pipe, process>>

\* A mutant: an interrupted collection is an error.
CollectOrGiveUp ==
    /\ pc["collect"] = "collecting"
    /\ \A c \in Collectors : col[c] \in Ended
    /\ \/ ctx["collect"] = "cancelled" /\ Exit("collect", "1") /\ UNCHANGED doc
       \/ /\ ctx["collect"] = "live"
          /\ doc' = {c \in Collectors : col[c] # "failed"}
          /\ pc' = [pc EXCEPT !["collect"] = "writing"]
          /\ UNCHANGED exit
    /\ UNCHANGED <<args, col, sent, pipe, process>>

\* Collect returns when every collector has, interrupted or not, and never an
\* error for what the collectors did.
CollectReturns ==
    /\ pc["collect"] = "collecting"
    /\ \A c \in Collectors : col[c] \in Ended
    /\ doc' = {c \in Collectors : col[c] # "failed"}
    /\ pc' = [pc EXCEPT !["collect"] = "writing"]
    /\ UNCHANGED <<args, exit, col, sent, pipe, process>>

\* A mutant: a failed write is not noticed.
WriteUnchecked ==
    /\ pc["collect"] = "writing"
    /\ sent < Pieces
    /\ \/ args.out = "file" /\ sent' = sent + 1 /\ UNCHANGED <<pipe, pc, exit>>
       \/ args.out = "full" /\ Exit("collect", "0") /\ UNCHANGED <<sent, pipe>>
       \/ /\ args.out = "pipe" /\ Alive("validate") /\ pipe = 0
          /\ sent' = sent + 1 /\ pipe' = pipe + 1 /\ UNCHANGED <<pc, exit>>
       \/ args.out = "pipe" /\ ~ Alive("validate") /\ Exit("collect", "signal") /\ UNCHANGED <<sent, pipe>>
    /\ UNCHANGED <<args, col, doc, process>>

\* A piece goes out, and the first that cannot ends the command.  A pipe
\* nobody reads any more ends the process, which has not asked for SIGPIPE.
Write ==
    /\ pc["collect"] = "writing"
    /\ sent < Pieces
    /\ \/ args.out # "pipe" /\ sent' = sent + 1 /\ UNCHANGED <<pipe, pc, exit>>
       \/ args.out = "full" /\ Exit("collect", "1") /\ UNCHANGED <<sent, pipe>>
       \/ /\ args.out = "pipe" /\ Alive("validate") /\ pipe = 0
          /\ sent' = sent + 1 /\ pipe' = pipe + 1 /\ UNCHANGED <<pc, exit>>
       \/ args.out = "pipe" /\ ~ Alive("validate") /\ Exit("collect", "signal") /\ UNCHANGED <<sent, pipe>>
    /\ UNCHANGED <<args, col, doc, process>>

Written ==
    /\ pc["collect"] = "writing"
    /\ sent = Pieces
    /\ Exit("collect", "0")
    /\ UNCHANGED <<args, col, doc, sent, pipe, process>>

----------------------------------------------------------------------------
\* gohai validate.

\* The schema knows the document of --format ohai, and no null in it where a
\* list or a map belongs.
Conforms ==
    /\ ~ args.list /\ args.format = "ohai" /\ ~ args.flat
    /\ \A c \in doc : col[c] # "null"

Verdict(valid) == Exit("validate", IF valid THEN "0" ELSE "1")

\* readInput for a terminal, and for a file.
ReadInput ==
    /\ pc["validate"] = "main"
    /\ \/ args.in \in {"terminal", "missing", "invalid", "valid"} /\ Verdict(args.in = "valid")
       \/ args.in = "pipe" /\ pc' = [pc EXCEPT !["validate"] = "reading"] /\ UNCHANGED exit
    /\ UNCHANGED <<args, col, doc, sent, pipe, process>>

Read ==
    /\ pc["validate"] = "reading"
    /\ pipe > 0
    /\ pipe' = pipe - 1
    /\ UNCHANGED <<args, pc, exit, col, doc, sent, process>>

\* The end of the input, nothing of it, a part that does not parse, or all of it.
Judge ==
    /\ pc["validate"] = "reading"
    /\ pipe = 0
    /\ ~ Alive("collect")
    /\ Verdict(sent = Pieces /\ Conforms)
    /\ UNCHANGED <<args, col, doc, sent, pipe, process>>

----------------------------------------------------------------------------
Main == Prepare \/ CollectReturns \/ Write \/ Written \/ ReadInput \/ Read \/ Judge

Next ==
    \/ \E p \in Procs : Notify(p) \/ Interrupt(p) \/ Relay(p)
    \/ \E c \in Collectors : CollectorStep(c) \/ CommandEnds(c)
    \/ Main

\* What of a collector is only the scheduler's business: not that a command or
\* a read ends, nor that what a killed command started lets go of the pipe.
GoesOn(c) ==
    \/ Begin(c)
    \/ KillCommand(c)
    \/ col[c] = "returning" /\ CollectorReturns(c)

\* The scheduler runs every goroutine, and a kill takes effect.
Fairness ==
    /\ \A p \in Procs : WF_vars(Notify(p)) /\ WF_vars(Relay(p))
    /\ \A c \in Collectors : WF_vars(GoesOn(c))
    /\ WF_vars(Prepare \/ CollectReturns \/ Write \/ Written)
    /\ WF_vars(ReadInput \/ Read \/ Judge)

Spec == Init /\ [][Next]_vars /\ Fairness

----------------------------------------------------------------------------
\* Every variable keeps its shape.
CliTypeOK ==
    /\ args \in Invocations
    /\ pc \in [Procs -> {"absent", "start", "main", "collecting", "writing", "reading", "exited"}]
    /\ sigChan \in [Procs -> 0..1]
    /\ relay \in [Procs -> {"none", "waiting", "ended"}]
    /\ ctx \in [Procs -> {"live", "cancelled"}]
    /\ exit \in [Procs -> {"none", "0", "1", "signal"}]
    /\ \A p \in Procs : exit[p] = "none" <=> pc[p] # "exited"
    /\ col \in [Collectors -> Ended \cup {"idle", "reading", "command", "held", "returning"}]
    /\ doc \subseteq Collectors
    /\ sent \in 0..Pieces /\ pipe \in 0..1
    /\ interrupts \in [Procs -> 0..MaxInterrupts]

\* Exit status 0 of collect means that all of the output is written: what was
\* listed, or what every collector that did not fail returned.
ZeroMeansWritten ==
    exit["collect"] = "0" =>
        /\ sent = Pieces
        /\ args.list \/ doc = {c \in Collectors : col[c] \in {"ok", "null"}}

\* validate calls a piped document valid only when collect got all of it out and
\* ended well: one cut short by an interrupt, a kill or an error never passes.
ValidMeansWhole ==
    exit["validate"] = "0" /\ args.in = "pipe" => exit["collect"] = "0" /\ sent = Pieces /\ Conforms

\* What the exit status says is true, of either command.
ExitsAreTrue == ZeroMeansWritten /\ ValidMeansWhole

\* A collector is kept for ever by a read, or by a pipe that something a killed
\* command started does not let go of: nothing sets WaitDelay.
Stuck(c) == [](col[c] \in {"reading", "held"})

\* An interrupt does not cost the facts that are there already: what a collector
\* returned before the interrupt is written, and the command ends well, unless
\* another collector is stuck.
InterruptKeepsResults ==
    \A c \in Collectors :
        pc["collect"] = "collecting" /\ ctx["collect"] = "cancelled" /\ col[c] = "ok" /\ args.out = "file"
            ~> (exit["collect"] = "0" /\ c \in doc) \/ \E d \in Collectors \ {c} : Stuck(d)

\* An interrupted collect ends, and a validate that waits for it as well, even
\* when a command of a collector hangs: only a stuck collector keeps them.
InterruptEnds ==
    interrupts["collect"] > 0 ~> (\A p \in Procs : ~ Alive(p)) \/ \E c \in Collectors : Stuck(c)

\* What schemas/README.md says validate is for: the JSON that collect wrote is
\* valid.  See "findings".
OwnOutputIsValid ==
    exit["collect"] = "0" /\ args.in = "pipe" /\ args.format = "ohai" /\ ~ args.flat /\ ~ args.list
        => exit["validate"] # "1"
=============================================================================
