------------------------------- MODULE Hardware -------------------------------
(***************************************************************************)
(* The hardware collector (pkg/gohai/collectors/hardware): on macOS three  *)
(* reports of system_profiler that are asked for at the same time; on      *)
(* Linux nothing.                                                          *)
(***************************************************************************)
EXTENDS Probes

CONSTANT HardwareHosts  \* the hosts, see HardwareHostOK

Reports == {"hardware", "storage", "power"}

\* A host: what each report has, by its key, if it is JSON at all; a machine has a
\* name.  A value has the type t of its JSON: "number", "string" of a number, "word"
\* or "bool".
HardwareHostOK(h) ==
    /\ h.of = "hardware" /\ h.darwin \in BOOLEAN
    /\ DOMAIN h.probe = Reports
    /\ \A r \in Reports : h.probe[r].ok => h.probe[r].out \in Seq(Range(h.probe[r].out))
    /\ h.probe["hardware"].ok => \A i \in Range(h.probe["hardware"].out) : i.machine # None
    /\ h.probe["power"].ok => \A i \in Range(h.probe["power"].out) :
          \A m \in {i.leaf, IF "charge" \in DOMAIN i.nested THEN i.nested["charge"] ELSE Empty} :
              \A k \in DOMAIN m : m[k].n \in Nat

ASSUME HardwareHostsAssumption == \A h \in HardwareHosts : HardwareHostOK(h)

NoHardware == [Machine |-> None, NumberProcessors |-> None, Packages |-> 0, Storage |-> <<>>, Battery |-> Nil, Charger |-> Nil]

----------------------------------------------------------------------------
\* anyToInt, anyToString: a number as JSON has it or as a string of digits.
AnyToInt(v) == IF v.t \in {"number", "string"} THEN v.n ELSE 0
AnyToString(v) == IF v.t = "bool" THEN None ELSE ToString(v.n)

\* firstInt, firstString, firstBool: the value of the item itself if it is one that
\* can be read, else that of a nested object.
First(item, nested, key) ==
    IF key \in DOMAIN item THEN {item[key]} ELSE IF key \in DOMAIN nested THEN {nested[key]} ELSE {}

\* A mutant: a word in the item hides the number in the nested object.
ReadableOrWord(m) == [k \in DOMAIN m |-> IF m[k].t = "word" THEN [m[k] EXCEPT !.n = 0] ELSE m[k]]

Readable(m) == Restrict(m, {k \in DOMAIN m : m[k].t # "word"})
FirstInt(item, nested, key) ==
    LET found == First(Readable(item), Readable(nested), key) IN IF found = {} THEN 0 ELSE (CHOOSE v \in found : TRUE).n

\* nestedMap: the object of that name, if it is there.
Nested(item, key) == IF key \in DOMAIN item.nested THEN item.nested[key] ELSE Empty

\* parseBattery: the rest of the charge is a share of the maximum, if there is one.
ParseBattery(item) ==
    LET charge == Nested(item, "charge")
        cur  == FirstInt(item.leaf, charge, "current")
        maxc == FirstInt(item.leaf, charge, "max")
    IN [CurrentCapacity |-> cur, MaxCapacity |-> maxc, Cycles |-> FirstInt(item.leaf, Nested(item, "health"), "cycles"),
        Remaining |-> IF maxc > 0 THEN (cur * 100) \div maxc ELSE 0]

\* applyHardware: the first item; a report that is missing changes nothing.
ApplyHardware(info, items) ==
    IF items = <<>> THEN info
    ELSE [info EXCEPT !.Machine = items[1].machine, !.NumberProcessors = AnyToString(items[1].processors),
                      !.Packages = AnyToInt(items[1].packages)]

\* applyStorage: every item, with the medium of its first physical volume.
ApplyStorage(info, items) ==
    LET Entry(i) == [Name |-> i.name, Partitions |-> Len(i.volumes),
                     DriveType |-> IF i.volumes = <<>> THEN None ELSE i.volumes[1]]
    IN [info EXCEPT !.Storage = [k \in DOMAIN items |-> Entry(items[k])]]

\* applyPower: the last battery and the last charger.
LastNamed(items, n) ==
    LET at == {k \in DOMAIN items : items[k].name = n} IN IF at = {} THEN Nil ELSE {items[Max(at)]}

ApplyPower(info, items) ==
    [info EXCEPT !.Battery = {ParseBattery(i) : i \in LastNamed(items, "battery")},
                 !.Charger = {i.leaf : i \in LastNamed(items, "charger")}]

HardwareInfo(out) ==
    ApplyPower(ApplyStorage(ApplyHardware(NoHardware, out["hardware"]), out["storage"]), out["power"])

CollectHardware ==
    \/ host.of = "hardware" /\ ~ host.darwin /\ Returns("hardware", NoHardware)
    \/ host.of = "hardware" /\ host.darwin /\ StartProbes("hardware", Reports)
    \/ host.of = "hardware" /\ Probing /\ WaitReturns("hardware", HardwareInfo(Written))

----------------------------------------------------------------------------
\* A report that fails takes away its own fields and no others, in whatever order
\* the reports end.
ReportsAreIndependent ==
    Collected("hardware") /\ host.darwin =>
        LET Has(r) == host.probe[r].ok /\ host.probe[r].out # <<>>
        IN /\ Has("hardware") <=> facts.info.Machine # None
           /\ Has("storage") <=> facts.info.Storage # <<>>
           /\ (Has("power") /\ \E i \in Range(host.probe["power"].out) : i.name = "battery") <=> facts.info.Battery # Nil

\* A number of the battery that can be read at either of its two places arrives,
\* whatever is at the other, and what is left is a share of the maximum.
BatteryReadsBothPlaces ==
    Collected("hardware") =>
        \A b \in facts.info.Battery :
            LET items == host.probe["power"].out
                item == items[Max({k \in DOMAIN items : items[k].name = "battery"})]
                Said(k) == {m[k].n : m \in {m \in {Nested(item, "charge"), item.leaf} : k \in DOMAIN m /\ m[k].t # "word"}}
            IN /\ b.CurrentCapacity \in Said("current") \/ (Said("current") = {} /\ b.CurrentCapacity = 0)
               /\ b.MaxCapacity \in Said("max") \/ (Said("max") = {} /\ b.MaxCapacity = 0)
               /\ b.CurrentCapacity <= b.MaxCapacity => b.Remaining <= 100

\* Every report counts for itself, and the battery in it is read as far as it can be.
ReportsAreWhole == ReportsAreIndependent /\ BatteryReadsBothPlaces
=============================================================================
