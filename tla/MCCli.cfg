\* Two collectors, one of them waiting for a command; two interrupts a process.
CONSTANTS
    Collectors = {"sessions", "users"}
    Commanding = {"sessions"}
    Nullable = {"sessions"}
    Invocations <- Lines
    Pieces = 2
    MaxInterrupts = 2
SPECIFICATION Spec
INVARIANTS
    CliTypeOK
    ExitsAreTrue
PROPERTIES
    InterruptKeepsResults
    InterruptEnds
CHECK_DEADLOCK FALSE
