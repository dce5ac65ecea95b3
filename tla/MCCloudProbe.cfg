\* Every cloud, with its signs, with none of them and with another's, and every
\* fault of every request.
CONSTANTS
    Hosts <- AllHosts
    Selections <- MCSelections
    Faults <- AllFaults
SPECIFICATION Spec
INVARIANT NamesTheCloud
INVARIANT ViewsAgree
PROPERTIES
    KeepsProbeContract
    ProbesReturn
CHECK_DEADLOCK FALSE
