\* A token that lives as long as two requests may last, and up to two faults.
CONSTANTS
    Clouds <- MCClouds
    Macs = {"m1", "m2"}
    Junk = "junk"
    Life = 2
    MaxFaults = 2
SPECIFICATION Spec
INVARIANTS
    TypeOK
    PromptWalkIsWhole
    LossesStayLocal
PROPERTIES
    ImplementsProbe
    WalkEnds
CHECK_DEADLOCK FALSE
