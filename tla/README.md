# gohai in TLA+

gohai collects facts about a host. Its core is a registry of collectors that
declare dependencies on each other: a run works out what is needed, sorts it
into levels and executes each level with one goroutine per collector. Around
it are the SDK (`pkg/gohai`: options, selection, `Facts`, timings), the cloud
collectors (metadata services over HTTP), the command line (signals, output,
exit codes) and about fifty collectors that turn files and command output into
structs.

This directory models that program. Everything here is translated from the
source (paths below are relative to the repository's root); `PROJECT.json`
maps each definition to the lines it stands for.

## Components

| component | source | state | operations | what is hard | what has to hold |
|---|---|---|---|---|---|
| planner | `internal/collector/registry.go` (`expandWithDeps`, `topoLevels`) | the set of names seen, in-degrees, the count of names left | visit, count, peel | cycles, names declared twice, unregistered names, termination | the closure of the request, levels that are a ranking, a cycle reported exactly when there is one |
| registry | `internal/collector/registry.go`, `collector.go` | the map of collectors behind an RWMutex; per run: levels, snapshot, results behind a mutex, a WaitGroup | Register, Get/Names/NamesInCategory/Selected, Run | goroutines of a level, hooks, failures, Run holding the read lock while collectors work, a writer between readers | dependencies finish first, snapshots do not depend on scheduling, every collector is accounted for, registrations are permanent and stand still during a run, every operation returns |
| SDK | `pkg/gohai/gohai.go`, `options.go`, `facts.go` | options, the selection made by New, the samples of a Collect, Facts | New with options, Collect, views of Facts | the selection is old when Collect uses it; options stack; Register's errors are ignored; three reasons for a nil field; keys joined with dots | what runs is what the options say, facts and timings agree, what New accepts can be collected, what is in the facts is in their views |
| public registry | `pkg/gohai/registry.go` | a registry of builtins | readers | nothing: read only | - |
| cloud view | `pkg/gohai/cloud.go`, `pkg/gohai/ocsf` | none | `Facts.Cloud`, `FromFacts` | two priority lists over the same fields | both name the same provider (Linode apart) |
| cloud metadata client | `internal/cloudmetadata/cloudmetadata.go` | base URL, headers, timeout | Get, GetWithHeaders, RawGet, Put, GetJSON | which failures count as "not this cloud" | a transport failure and a status are told apart from a broken answer |
| cloud collectors | `pkg/gohai/collectors/{ec2,azure,gce,oci,alibaba,openstack,digital_ocean,scaleway,linode}` | the IMDSv2 token, the negotiated version | gate, token, negotiation, walk | gates that fail open, a token that expires during the walk, requests that fail in the middle, partial documents | nothing is asked of a host that is not gated in; a failure is never taken for data; the host's cloud is named |
| command line | `main.go`, `cmd/{root,collect,validate}.go`, `internal/cli/output.go` | the context, a signal channel of capacity one, a relay goroutine | collect, validate | signals at any moment, commands that hang, output that fails or whose reader is gone | the exit status tells whether the output is whole; an interrupt keeps what was collected, and only a stuck collector keeps either command |
| executor | `internal/executor` | none | run a command under a context | a killed command's children hold its pipe | a cancelled command is not what keeps Collect |
| schema validation | `internal/validate`, `schemas` | none | validate | third-party code over generated data | a cut document is never valid |
| concurrent collectors | `collectors/virtualization`, `collectors/hardware` | variables shared with probes, a WaitGroup | three probes side by side on macOS; a cascade of signals on Linux | goroutines that end in any order or fail; signals that override and signals that only fill | every probe is waited for; the result is that of the code's order, not of the order of arrival |
| network, cpu | `collectors/network`, `collectors/cpu` | none | Collect | lines that continue, sections, blocks of an interface; aliases folded into a slice in place; products of numbers that may be missing | no route, address or parameter lost or put elsewhere; the layout nests |
| storage | `collectors/{filesystem,mdadm,zpools,memory}` | none | Collect | tables consumed while they are joined; torn lines; commands that fail for one array | nothing mounted and unmounted at once; a torn line costs itself |
| identity, platform | `collectors/{hostname,shard,platform,os_release,users}`, `internal/platform` | none | Collect, Detect | transient failures of name resolution, old release files, damaged account lines | retries only of transient errors; name, version and family of one source, completed where it is too short |
| listings | 23 collectors that list what a command or a file has | none | Collect | torn, repeated and overlong lines, nil against empty | no line is lost for another one's sake; a nil document means there was nothing to ask |
| single sources | 17 collectors of a few fields | none | Collect | fallbacks, and which sources have to be there | a later source counts only where the earlier ones have nothing |
| presentation | `cmd/version.go`, `internal/cli/theme.go` | none | print | - | - |

Collectors and SDK interact through the registry only: the SDK hands `Run` a
context, a list of names and two hooks, the registry calls each collector's
`Collect` with the results of the lower levels, and the SDK turns the map of
results into `Facts`. The command line calls the SDK and writes what it
returns. A collector sees the world through a file system, an executor and an
HTTP client.

## Modules

| module | what it is |
|---|---|
| `DepGraph` | the vocabulary: dependency graphs, closure, cycles, rankings, as mathematics |
| `Planner` | one call of `expandWithDeps` and `topoLevels`, one loop step per action |
| `RWMutex` | Go's `sync.RWMutex` as the registry uses it: announcing, draining, held-back readers |
| `Registry` | the registry and everybody that uses it at once |
| `RunContract` | what the registry promises, without locks, levels, snapshots or counters |
| `Gohai` | `New`, the options, `Collect`, timings and `Facts`, on top of `RunContract` |
| `CloudProbe` | the nine cloud collectors on one host, their requests, and the two views of their results |
| `ProbeContract` | what the fields of collectors that detect something promise, without requests |
| `Imds` | EC2's walk path by path, with a token that dies; implements `CloudProbe`'s EC2 collector |
| `Cli` | `gohai collect` and `gohai validate` as processes, with signals, commands, a pipe |
| `Collection` | what models of single collectors share: a host that answers, and what Collect returns |
| `Network`, `Cpu`, `Storage`, `Identity`, `Listings`, `Sources` | collectors as pure functions of their sources |
| `CloudInfo`, `FactsViews` | what the clouds' documents become; what readers of Facts get, OCSF included |
| `Probes`, `Virtualization`, `Hardware` | the probes that run side by side, and the two collectors that have them |
| `Collectors` | all of these in one system, and the properties of each group |
| `PlannerProofs`, `RegistryProofs`, `GohaiProofs`, `CloudProbeProofs`, `ImdsProofs`, `CliProofs`, `CollectorsProofs` | the theorems about the module of that name; the registry's end with the refinement of `RunContract` |
| `ResultsProofs` | on top of `CollectorsProofs`: what the CPU, storage, listing and network collectors make of their sources |
| `MCPlanner`, `MCRegistry`, `MCGohai`, `MCCloudProbe`, `MCImds`, `MCCli`, `MCCollectors` | instances for TLC |

An operator whose comment begins with "A mutant:" belongs to no specification.
It is the definition below it with a plausible bug, and shows that the
properties notice. `PROJECT.json` lists one for every property of a run; a
property that is a conjunction has more of them in the modules, for its other
conjuncts.

### Planner

The recursion of `visit` is a list of names still to look at: `VisitNew` puts
a collector's declarations in front of the rest of its caller's list, which is
the order of the depth-first recursion. `Count` and `Peel` are the loops of
`topoLevels`. The order inside a level is left out (the code sorts names, and
the goroutines of a level start at once).

Properties: `ExpansionIsClosure`, `LevelsAreRanking` (each collector on one
level, above all it declares and no higher than that forces it to be),
`CycleReportedIffKnot`, `CountsAreUnmetEntries`, `PlanningEnds`.

`MCPlanner` covers every graph on four names whose declaration lists have up to
two entries, self-loops and lists that name one collector twice included, with
any subset of the names registered, asked for one collector, for two with a
repetition, and for all of them. A cycle beside the request, an unregistered
name behind a registered one, a diamond and a chain of four levels need no
more. The order of a list is fixed, since only the order of the visit depends on
it; a request in descending order makes the visit meet names out of order.

### Registry

One action per step another goroutine can see. `Register` is the call, the
announcement of the writer, the lock and one of its two ends; a reader takes
and releases the read lock; `Run` takes the read lock, plans (with the planner's
result as `DepGraph` states it), and alternates between `StartLevel`, which
takes the snapshot and starts the level, and `WaitLevel`. Each goroutine calls
Collect, reports to OnComplete, then stores its result or reports to OnError,
then leaves the WaitGroup. Collect is the environment: it ends with a result or
an error whenever it likes.

Abstracted: results are known by the collector's name; the context is handed
on to Collect and not looked at by Run, so it does not appear; an empty name
stands outside `Names`; the four readers are one, since they read the map and
change nothing; elapsed times.

Properties: `WriterAlone`, `DepsFinishFirst`, `PriorIsLowerSuccesses`,
`RunAccountsForAll`, `RegistryIsStable`, `OperationsReturn`, and the refinement
of `RunContract`, its safety part as `KeepsContract` and with liveness as
`FulfilsContract`.

Fairness: weak fairness of every step of a goroutine or of a caller inside an
operation, because the Go scheduler runs goroutines that can run and Collect is
assumed to return; none of the calls themselves. Strong fairness of a writer's
announcement: several writers queue on a `sync.Mutex`, which hands itself to
the one that waited longest once it has starved for a millisecond. Readers and
runs need no fairness of their own beyond that, because an `Unlock` lets in all
it held back.

Runs: `MCRegistryRace` (two callers, five collector objects of which two have
the same name and one has none; which of the two is registered decides whether
the graph has a cycle), `MCRegistryDiamond` (one caller, three levels, two
collectors side by side, a duplicate declaration), `MCRegistryProgress` (three
callers, so that two can keep the read lock taken while a third wants to
write; a run is of nothing, or of one collector that takes its time and may
fail, whose OnError hook is set). Two names on one level are enough for every race between siblings,
since goroutines of a level share only the results map, the hooks and the
WaitGroup.

### Gohai

`New` registers the builtins (ignoring Register's error, as the code does),
applies options one after the other and selects; `Collect` runs the selection
on a registry known by `RunContract`, which the refinement above justifies.
A collector that succeeds may return nil, and `Facts.set` drops it. The
OnComplete hook takes the timings.

Properties: `OptionsAreHonoured`, `FactsAndTimingsAgree`, `OnlyWiringRefuses`,
`CollectEnds`; the types (`GohaiTypeOK`) are proved and not run. `MCGohai` has two builds: five builtin collectors with the
declarations and categories they have in the source, and a build with a
duplicate, a cycle and a missing dependency, because `Register`'s error is
dropped and nothing in the code rules such a build out. Every list of up to
`MaxOptions` = 3 options is tried, which is enough for any two to contradict
each other under a third. Fairness is weak fairness of a `Collect` under way,
which is what `RunContract` promises of a run.

### CloudProbe

The registry starts the cloud collectors side by side on a level above `dmi`
and `hostname`. Each is its gate and then one action per request, in the order
of the code; `log` holds what became of each request, `result` what Collect
returned. The client (`internal/cloudmetadata`) is what a caller can tell of a
request: a body, `ErrNotAvailable`, or another error. The environment decides
what becomes of a request: the service of the host's own cloud answers or meets
a fault, everybody else's is unreachable or answers with a status, and EC2's and
OpenStack's services, at one address with the same tree, answer for each other.
A cancelled context makes the requests after it unreachable, and may cut a body.

Abstracted: what the documents hold (`CloudInfo` has that); the choice of an API
version (whatever it is, the request that uses it may succeed or fail); EC2's
paths after the first are one request (`Imds` has them all), and the trees of
Alibaba and OpenStack are their roots, because no later failure there changes
whether Collect returns something. The branch for a missing
`dmi` result is left out: both `dmi` collectors return an Info that is never nil,
and dependencies run even when they are disabled.

Properties: `KeepsProbeContract` (the safety of the refinement of
`ProbeContract`), `ProbesReturn` (every collector that is selected returns),
`NamesTheCloud`, `ViewsAgree`; the types are proved and not run. `MCCloudProbe` has every cloud and
none, with all of DMI and with nothing of it, and hosts with another cloud's
signs or without their own; each collector alone, and three groups of three
that share an address or stand in different orders in the two views (more would
repeat the same races: a collector reads nothing another one writes). Fairness:
some collector goes on while one is left, since every request has a timeout.

### Imds

`todo` is the list of requests Collect has still to send: the token, the
versions, leaves, lists and directories in the order of the code, where an
answered directory puts what it lists in front. Every request takes up to a
timeout, so that `age` may grow by one with each; a token as old as `Life`
is refused, which EC2 does even where a request without a token would do. A
fault is an unreachable service, a cut body, a blank one, or a garbled one: it
is no JSON, and as a listing it names one thing (`Junk`) that the service does
not have. There are at most `MaxFaults` of them; a path the service does not
have is no fault. The code keeps any body with a good status for the value that
was asked for, and asks for every line of a listing (`Value`, `Listed`); the
identity document is decoded, dropped if it is no JSON, and fills the fields
that are empty (`Filled`). A body that is JSON, but of something else, is not
among the faults.

Properties: `PromptWalkIsWhole` (no fault, and a token that outlives the walk:
everything the service has is reported), `LossesStayLocal` (a fault costs the
value that was asked for, or what its directory lists, and nothing else; of the
two sources that say where the instance is one is enough, unless the other is
garbled and taken for it; nothing is reported under a name that is not the
service's unless its listing was garbled), and `ImplementsProbe`: with the mapping in the module every step is one of
`CloudProbe`'s EC2 collector or one it does not see; `WalkEnds` says that Collect
returns. What
`CloudProbe` sees is its `log` of the token, the versions, the first path and
the rest, which is taken from the last path, `user-data`.

`Life` = 2 stands for the six timeouts of the code: the token may die anywhere
behind the first two requests, which is all that the walk can tell. Two faults
are enough for one on each side of that moment, for a directory and a document,
and for both sources of a region; one interface and two are enough for the
fields of one not to end up with the other. Fairness: a request ends, since each
has a timeout.

### Cli

The main goroutine, the relay of `Execute` and the collectors of `collect`, and
the main goroutine and relay of `validate` behind a pipe that holds one piece. An
interrupt before `signal.Notify` ends the process; afterwards it fills the
channel of one, or is dropped. What Collect does is taken from `Gohai`: it
returns when all collectors have and keeps what did not fail.

A collector waits for a command or reads files. A command ends by itself, now
or never; a cancelled context kills it, but not its children, which may hold its
output; a command is not begun under a cancelled context.

Properties: `ExitsAreTrue` (`collect` ends with 0 only if all pieces are
written, and `validate` only if they are a whole document that conforms),
`InterruptKeepsResults` (written to a file, what a collector has returned when
the context is cancelled is in the document, and `collect` ends with 0),
`InterruptEnds` (an interrupted `collect` ends, and `validate` behind it). Both
except a collector that is stuck for ever (`Stuck`), in a read or in a pipe that
something which its killed command has started does not let go of: the kill
reaches the command alone (`executor.go:69`), nothing sets `WaitDelay`, and no
context reaches a read. That a command hangs is no exception.

Two collectors (one with a command and a list that may be null, one that reads
files) are enough, since they meet only in the document; two pieces, so that
there is a cut in the middle; two interrupts a process, so that one is dropped.
Fairness is weak fairness of every goroutine and of the kill (`GoesOn`). There is
none for a command that ends by itself, for a read, for what a killed command
leaves behind, and none for interrupts.

### Collectors

A behaviour of `Collectors` is one call of one collector on one host. The host
holds what every file, command and system call of that collector answers, each
on its own, so that sources that are read at different moments may disagree.
Lines are records that say what the parser can tell of them ("torn", "long", a
key and a value), names and paths are sequences of parts where a join, a split
or a prefix matters, numbers are small. Each collector is an action whose guard
is the collector the host is made for, with an error path where the code has
one. The concurrent ones take three kinds of steps: start, a probe's end, the
join.

| property | what it joins |
|---|---|
| `ListingsAreWhole` | a torn line costs itself (ZFS, pools); rpm's macros have their own lines and all of them; an interface of tc is listed once with its queues in order; nil tells "nothing to ask" from "nothing there"; SELinux is enabled if both of its sources agree |
| `NetworkIsWhole` | the default route's gateway and interface are of one route; every route with a device is listed at it once per hop, whatever is broken over lines; ethtool's calls do not disturb each other; `ip -d link`'s annotations stay in their block; of a number or a name that is printed twice the last counts; aliases of an OpenVZ guest and no other interfaces go, and where aliases come last an address reaches its interface, or the one its alias belongs to |
| `DocumentsAreKept` | Azure's addresses as lists and as pairs agree; lists arrive whole and in order; a lost subtree of Alibaba's or OpenStack's costs itself; the OCSF event says what the document says |
| `ViewsKeepFacts` | every leaf of the facts is in the flat map, with one of the values that share its key; the primary address is of the default interface |
| `ResourcesAddUp` | CPU lists expand whole; memory is in bytes; no device is both mounted and unmounted; btrfs's numbers are on its own mounts; an array keeps its own disks and its spares apart, whatever `mdadm --detail` does for another |
| `IdentityHolds` | a transient failure of either lookup is retried and a definite answer is not; a platform's name, version and family come from one source, which is completed where it leaves the family open or cuts the version short; accounts are those of the system's own lookup; fallbacks count in their order |
| `SignalsAddUp` | authoritative signals override, weak ones fill; on macOS the result is that of the cascade's order and of the commands asked one by one, whatever order they end in; a failing report takes its own fields only; CPUs are a multiple of cores and cores of sockets |
| `ProbesAreJoined` | a collector that has started its probes returns |

Hosts are small sets made in `MCCollectors`: for each collector a plain host,
of which one part at a time is varied over all sequences of up to two, three or
four of the lines that differ for the parser. Every parser keeps at most one
thing in mind from line to line (a section, a pending line, a name, a position),
so that three lines, one to set it, one to use it and one in between, reach
every case; rpm's need four, between two markers. Fairness: a probe's command
ends (the executor ends it at the latest with the context), and the goroutine
that waits for it goes on.

## What the runs show

The passing runs answer one question each; their `about` in `PROJECT.json` says
which. Four facts are worth knowing beyond "it holds":

* `CycleReportedIffKnot` holds although a cycle is noticed only by its absence
  from the levels: the in-degrees count entries, so a name declared twice must
  be counted and subtracted twice.
* `PriorIsLowerSuccesses` makes a run deterministic for its collectors: what
  they are handed does not depend on the scheduling of their siblings, because
  the snapshot is taken once a level.
* `OperationsReturn` depends on how RWMutex queues: readers that overlap for
  ever do not keep a writer out, because a writer that has announced itself
  holds back new readers. The mutant without that (`RLockBarging`) starves
  `Register`; the one that does not undo the WaitGroup's count when a collector
  fails (`OnErrorUndone`) keeps its Run, and behind it a writer, for ever.
* `ViewsAgree` is not a property of the two priority lists, which differ: it
  holds because the only two services that answer for each other, EC2's and
  OpenStack's, stand in the same order in both. Linode is in only one of them.

Of the collectors and of `Cli`:

* `ExitsAreTrue` holds of a pipe that breaks in the middle for two reasons: a
  writer whose reader is gone is killed by SIGPIPE, and a part of a document
  never parses.
* `InterruptKeepsResults` holds because a cancelled context is no error of
  Collect: collectors that were killed fail one by one, and the others' results
  are written.
* `InterruptEnds` is as much as the code gives: without the exception for a
  stuck collector TLC shows an interrupted `collect` that waits for a read, or
  for a pipe, for ever.
* `LossesStayLocal` holds as long as the token lives. Behind its death every
  path is refused, and the collector reports what it had by then as if that
  were all: the code tells an expired token from an absent path nowhere.
* `ListingsAreWhole` is about the lines in front of the first that is 64 KiB
  long or longer; `bufio.Scanner` stops there and no parser asks it why.

Three runs end in a violation, each of something the repository says of itself:

| run | what is said | what the code does |
|---|---|---|
| `registry_declared` | `collector.go:92`: prior results always include what is declared | not when the dependency failed |
| `cli_own_output` | `README.md:112`, `schemas/README.md:49`: `gohai collect --pretty \| gohai validate` | a list that stays nil is written as null, and validate refuses it |
| `block_devices` | `docs/collectors/block_device.md:8`: one entry for every device name in `/sys/block` | entries that are no directories are skipped, and the kernel's are symbolic links |

### Divergences without a run

Met while modelling; the models do what the code does.

* `options.go:72` makes a misspelt category an error of New; with
  `WithCollectors` among the options it is not looked at (`gohai.go:181`).
* `gohai.go:122`, `facts.go:93`: a collector that is not selected, or is
  disabled, leaves its field nil; as a dependency it fills it. That is left
  open by `FactsAndTimingsAgree`, which is about what was selected and what ran.
* `docs/collectors/openstack.md:11` makes the field the detection signal; an EC2
  host without DMI fills it from EC2's own service.
* `cloudmetadata.go:53`: a timeout is ErrNotAvailable; one inside the body is an
  error.
* `openstack.go:195`: a failing first call returns nothing; the second
  document fills the field.
* `docs/collectors/filesystem.md:9`: every filesystem carries UUID and label; a
  second mount of a device has neither (`filesystem.go:456`).
* `sysctl.go:63`: no Linux key contains ": "; values do (`dev.cdrom.info`), and
  the line is looked through whole, so that the name takes in part of the value.
* `kernel/darwin.go:73`: two signals, each of which holds on a native Intel Mac,
  are to exclude it together (`docs/collectors/kernel.md:39`); such a Mac is
  reported as a translated ARM one.
* `timezone.go:87`: only an absolute `/usr/share/zoneinfo/` is stripped, not
  `../usr/share/zoneinfo/`.
* `vmware/linux.go:127`: a failing session query makes a desktop guest.
* `docker.go:153`: no containers is null, and containers that could not be asked
  for are an empty list; the same of images.
* `mdadm.go:157`: of a state of two words the first is kept.
* `mdadm.go:144`: journal devices (J) and failed disks (F) are listed as members;
  `docs/collectors/mdadm.md:113` says journals are silently skipped, and
  `mdadm.go:56` that members are active. `ArraysKeepTheirDisks` leaves both open.
* `platform.go:198`: a version of one number is completed from redhat-release
  without a look at the distribution the file names. A host that gopsutil calls
  rhel 9 and whose file says Fedora 9.3 is reported as redhat 9.3.
* `shard.go:24`: the seed depends on what root may read and on which
  dependencies failed, so a host may change its shard.
* `network/linux.go:280`: any alias is to leave its addresses to its interface
  (`docs/collectors/network.md:269`). The list is filtered in place under indexes
  taken before; behind the first alias an interface has moved, and what an alias
  of its own leaves at the old place is lost: with lo, venet0, venet0:0, venet1,
  venet1:0 the addresses of the last. `AddressesReachTheirInterface` says so for
  the orders in which nothing is lost (`AliasesComeLast`); the hosts have others
  too, and without that condition TLC shows this one.
* `virtualization/linux.go:390`: a binary on the path is looked for with a
  program `command`, which not every system has; `linux.go:281` knows cgroups
  one level deep.
* `users.go:147`: a user id that is no number counts as root's.
* `platform.go:247`: an old release file "Red Hat ..." gives "red".

## What is proved

With TLAPS, for every value of the constants. What is assumed of them is named
where they are declared: sets of names and of interfaces are finite, lists are
sequences, the hosts are what the operator `...HostOK` of their module says a
host is. `PROJECT.json` lists the theorems.

*Planner* (`PlannerProofs`). All five invariants of the run. Most are not
inductive by themselves. The visit needs `VisitInv`: whatever keeps
the marked names from being closed is still on the list, and every closed set
around the request contains both. The levels need `LevelsInv`: a name that waits
has an unmet declaration that also waits or is on the last level (this is why
levels are as low as they can be), and levels and waiting names together are no
more than what is wanted. Cycles need `KnotInv`: names that wait for each other
are never placed.

*Registry* (`RegistryProofs`). `TypeOK`, `WriterAlone`, `DepsFinishFirst`,
`PriorIsLowerSuccesses`, `RunAccountsForAll`, and `RegistryIsStable` as an
action property. The inductive invariant has four parts: what the lock's
variables say of where its users are (`LockOK`), that a run's plan fits a
registry that cannot change under it (`PlanOK`), that levels below the current
one are finished and those above not begun (`ProgressOK`), and that results,
failures, samples and the WaitGroup's counter agree with how far each goroutine
is (`BooksOK`). The counter is a cardinality, so that the run passes the
WaitGroup only when everybody has left.

*Refinement* (the end of `RegistryProofs`). `Spec => KeepsContract`: a Register, the
start of a plan, a goroutine's Collect and its end, an answer are steps of
`RunContract`, and everything else leaves what it sees unchanged. It needs that
a call under way holds no answer yet (`AnswerInv`).

*SDK* (`GohaiProofs`). `GohaiTypeOK`, `OptionsAreHonoured`,
`FactsAndTimingsAgree`, `OnlyWiringRefuses`, for every build, list of options and
number of callers. `GohaiInv` adds what the types of the contract below are,
that nothing is registered or selected once New has returned (`NewOK`), that a
run under way is for what New selected (`RunOK`), and, name by name, that what a
collector returned, what the run knows of it and its sample tell the same
(`EntryOK`): `FactsAndTimingsAgree` speaks of the end of a Collect and says nothing
of the samples while they are taken. `OnlyWiringRefuses` rests on two lemmas about
closures: a name in one that was not asked for is declared by another name in it.

*Cloud collectors* (`CloudProbeProofs`). `TypeOK`, `NamesTheCloud`, `ViewsAgree`, and
`KeepsProbeContract`. `ProbeInv` says, collector by collector, which requests are
still unsent where it stands (`Ahead`), that it passed its gate to get there, that
only a service that is there was heard, and what made it return what it
returned. Fifteen handlers do three things to this: a request is answered and the
collector goes on or returns, so that the invariant is proved once for that
(`AnsweredKeepsProbeInv`) and each handler is shown to do it. `ViewsAgree` then is
arithmetic over two priority lists: whoever has filled a field is the host's own
cloud or its neighbour on the same address, and the two orders agree on those.

*EC2's walk* (`ImdsProofs`). `TypeOK`, `PromptWalkIsWhole`, `LossesStayLocal`,
`ImplementsProbe`. `ImdsInv` says where the walk is on its list (`PlaceOK`), that the
token and every answer is what the service had to give (`HonestOK`), that what
only a listing makes known was listed (`KidsOK`), and, as long as nothing was
given up, that every path is accounted for: asked for, to be asked for, or behind a
directory that is, or that failed or does not list it (`Accounted`). At the end,
when the list is empty, the last of these is the theorem: a path that is missing
is one that failed, or whose directory did. That a list is not asked for twice
needs that `todo` has no repetitions, which the types say. The refinement takes
each handler to one of `CloudProbe`'s and needs `PlaceOK` only.

*Commands* (`CliProofs`). `CliTypeOK`, `ExitsAreTrue`. `CliInv` adds that collect does
not write before everybody has finished (`WritingIsPrepared`), that the status is 0
exactly if all was written (`EndIsKnown`), and that a verdict over a pipe comes
after its writer's end (`VerdictWaits`); the interrupt at any moment is the case to
look at, because it ends a process without going through its handlers.

*Collectors* (`CollectorsProofs`). `ViewsKeepFacts`, `IdentityHolds` and
`SignalsAddUp`, each with its parts as theorems of their own. `CollectorsInv` says that
what is collected is the collector's function of its host and, while probes run
(`ProbingOK`), that those that have ended have written exactly what they were
answered; that is what makes the result independent of the order they end in.
The rest is about functions of sequences. The provers have no induction
over data with an operator as parameter, and none is needed: `FoldExists` and `FoldSteps` give, for a
fold over a sequence, the sequence of its intermediate values, and what holds of
each of those is proved by the least index where it would not (`Induction`).
`PasswdFold` (the first line of a name counts) and `LayersAddUp` (what the cascade
of signals has added: the layers are those of the signals, each in the role of one of
its signals, an authoritative one if it has one) are proved that way. `Usual` says what a
signal may be, and `OverridesHold` then needs only which signals come before and
after that of an LXC host.

*What the CPU and storage collectors report* (`ResultsProofs`). `ResourcesAddUp` and its
five parts. `ReportersInv` says that a report is the collector's function of its host,
and that a step of another collector is no step of these; with `CollectorsInvHolds` it
leaves five facts about functions, for lists of any length. A loop that drops lines is
`Kept` at a set of places, and a place's rank among those kept, which `RanksCount`
shows to be one-to-one and monotone, is where its line ends up: that is how nothing
is lost, moved or mounted and unmounted at once (`KeptHolds`). A loop that carries an amount or a
page size along is a fold with its intermediate values; `LastLineCounts` says that the
last line of a key decides, and `SizeAfter` is the page size in force at each line.
The sort of CPU numbers is stated by counting: the CPU at place r is the least one up
to which r are named, which is what a sort returns and needs no induction. The
`HostOK` assumptions say what a source's lines are, never that they are whole, in
order or without repetition.

*Listings* (`ResultsProofs`, behind them). `ListingsAreWhole` and its five parts.
`ListingsInv` says that a report is the collector's function of its host. What is in
front of an overlong line and not torn is again `Kept` at a set of places
(`GoodPlacesAre`), and what is made of it is one of five loops, each with an
invariant about the lines read so far. A map that is written line by line has the
keys of all lines and of each key the last (`LastPutCounts`, carried from ranks to
places by `LastOfPlaces`): datasets' properties, kernel modules, SELinux's words. A
list that takes a name only if it is not there yet has each name once (`OrderGrows`).
`QueuesInv` says of each interface of tc that the n-th of its queues is that of its
n-th line. rpm's macros need the most: `MacrosInv` says what would be stored if the last
macro read were stored now (`StoreMacro`), because that, and not the map, has every
macro that has begun, the open one up to the line that was read; the code's last
statement is this function, and the mutant without it shows why.

*The network* (the end of `ResultsProofs`). `NetworkIsWhole` and its five parts, also
from `ReportersInv`. Each is one loop over the lines of a command, given with the values it
goes through (`RouteFold`, `SectionFold`, `LinkFold` and their like), and an invariant of
what has been read so far. The routes need two: what a line's pieces are (`RouteInv`:
the routes made so far are the hops of the complete lines, the rest is pending), and where
the places of two sequences put one behind the other are (`RanksGoOn`), which carries a
count of hops over lines and then over families. `SectionInv` gives of every name the last
number printed in its section, and `LinkInv` of every interface what its blocks say, the mode
being that of the block's head or later. `AliasInv` says that what is kept is at the front of
the array under its name, in any order of interfaces; that its addresses are there too
(`AliasSum`) needs the interfaces that have aliases to keep their place (`KeptPlaces`), which
is `AliasesComeLast`, and TLC shows that it is necessary. The assumption on hosts
(`InterfacesOK`) is that a name occurs once and that an alias is of no alias, and on ip
(`RouteLinesOK`) that a hop follows a route; nothing is said about the lines of ethtool and of
`ip -d link`.

### Only model-checked

* Liveness, which is under fairness and so out of the prover's reach: `PlanningEnds`,
  `OperationsReturn`, `CollectEnds`, `ProbesReturn`, `WalkEnds`, `InterruptEnds`,
  `InterruptKeepsResults`, `ProbesAreJoined`, and the liveness of `FulfilsContract` (its
  safety is `KeepsContract`).
* `DocumentsAreKept`, which walks trees of documents and flattens them: induction over
  data. TLC evaluates it on all hosts of `MCCollectors`.

## What is not modelled

Wording, units of display, help, themes and versions; the typed getters of
Facts, and fields that are copied one to one (OCSF's among them), for which one
field stands. The parsers of single words: addresses, versions, dates. The macOS
variants of `services`, `packages` and `sessions`, which read another
command into the same list. The JSON schema library and the generator of the
schema, gopsutil and ghw, which are taken to answer or to fail. The public
registry is a second instance of the readers.

A panic in a collector, and a collector or hook that calls back into its
registry, do not occur in this repository; the first would end the process, and
the second could deadlock behind a waiting writer.

## Plan

What is left to prove of the collectors is `DocumentsAreKept`: a cloud's document and
what is made of it have the same places, one proof for each cloud, and for the two that
are walked as trees (Alibaba, OpenStack) by the depth that the code goes down to.
