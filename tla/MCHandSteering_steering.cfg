\* Two operators and the watcher type to the same worker while commands end and replace
\* its attempt; anyone dies, is refused, or is answered by silence.
CONSTANTS
    o1 = o1
    o2 = o2
    Operators = {o1, o2}
    Watcher = Watcher
    Command = Command
    Nobody = Nobody
    MaxAttempts = 2
    MaxSends = 2
    Faults = {"crash", "rejected", "ambiguous", "unrecorded", "exit"}
SPECIFICATION SteeringSpec
SYMMETRY OperatorSymmetry
INVARIANTS
    SteeringInv
    GluedTextIsReported
    MessageOnce
PROPERTIES
    TypedToOwner
