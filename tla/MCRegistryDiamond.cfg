\* One caller and a diamond of four collectors, registered in any order and run
\* at any moment, two of them side by side and each free to fail.
CONSTANTS
    a = a
    b = b
    c = c
    d = d
    NoName = NoName
    objA = objA
    objB = objB
    objC = objC
    objD = objD
    objA2 = objA2
    objNone = objNone
    NoCaller = NoCaller
    NoCollector = NoCollector
    Callers = {k1}
    Names = {a, b, c, d}
    Collectors = {objA, objB, objC, objD}
    NameOf <- MCNameOf
    DepsOf <- DiamondDepsOf
    Requests = {{a}, {d}, {b, c}}
    Hooks = {"OnComplete", "OnError"}
SPECIFICATION Spec
PROPERTY FulfilsContract
