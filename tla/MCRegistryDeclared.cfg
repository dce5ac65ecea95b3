\* What the comment on Collect says of the prior results a collector is handed.
CONSTANTS
    a = a
    b = b
    c = c
    d = d
    NoName = NoName
    objA = objA
    objB = objB
    objC = objC
    objD = objD
    objA2 = objA2
    objNone = objNone
    NoCaller = NoCaller
    NoCollector = NoCollector
    Callers = {k1}
    Names = {a, b, c, d}
    Collectors = {objA, objB, objC, objD}
    NameOf <- MCNameOf
    DepsOf <- DiamondDepsOf
    Requests = {{a}, {d}, {b, c}}
    Hooks = {"OnComplete", "OnError"}
SPECIFICATION Spec
INVARIANT PriorHasDeclared
