\* A home whose effort was written before the key beside it existed, and which has since
\* switched its harness.
CONSTANTS
    Commands = {"a", "b"}
    Profiles = {"p"}
    Cells = {"cell"}
    Harnesses = {"h1", "h2", "h3"}
    Capable = {"h1", "h2"}
    OldHomes = {"unrecorded"}
    MaxCommands = 3
SPECIFICATION RoutingSpec
INVARIANTS
    DefaultIsOfItsHarness
CHECK_DEADLOCK FALSE
