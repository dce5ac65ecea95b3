\* Two callers that register, read and run as they like, on a registry that
\* is filled while they do.
CONSTANTS
    a = a
    b = b
    c = c
    d = d
    NoName = NoName
    objA = objA
    objB = objB
    objC = objC
    objD = objD
    objA2 = objA2
    objNone = objNone
    NoCaller = NoCaller
    NoCollector = NoCollector
    Callers = {k1, k2}
    Names = {a, b, c}
    Collectors = {objA, objB, objC, objA2, objNone}
    NameOf <- MCNameOf
    DepsOf <- RaceDepsOf
    Requests = {{b, c}, {a}}
    Hooks = {"OnComplete", "OnError"}
SPECIFICATION Spec
INVARIANTS
    TypeOK
    WriterAlone
    DepsFinishFirst
    PriorIsLowerSuccesses
    RunAccountsForAll
PROPERTIES
    RegistryIsStable
    KeepsContract
