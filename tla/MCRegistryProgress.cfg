\* Three callers: two of them can keep the read lock taken for ever, with reads and
\* with runs whose collector may take its time and fail, while the third wants to
\* write.
CONSTANTS
    a = a
    b = b
    c = c
    d = d
    NoName = NoName
    objA = objA
    objB = objB
    objC = objC
    objD = objD
    objA2 = objA2
    objNone = objNone
    NoCaller = NoCaller
    NoCollector = NoCollector
    Callers = {k1, k2, k3}
    Names = {a}
    Collectors = {objA, objNone}
    NameOf <- MCNameOf
    DepsOf <- RaceDepsOf
    Requests = {{}, {a}}
    Hooks = {"OnError"}
SPECIFICATION Spec
PROPERTY OperationsReturn
