\* gohai collect | gohai validate, with a collector that has nothing to list.
CONSTANTS
    Collectors = {"sessions", "users"}
    Commanding = {"sessions"}
    Nullable = {"sessions"}
    Invocations <- PlainPipeline
    Pieces = 2
    MaxInterrupts = 2
SPECIFICATION Spec
INVARIANT OwnOutputIsValid
CHECK_DEADLOCK FALSE
