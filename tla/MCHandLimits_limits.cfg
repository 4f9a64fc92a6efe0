\* The watcher, restarted and killed, resumes a limited worker whose attempt may be
\* replaced, next to reconcile and an operator's holds.
CONSTANTS
    o1 = o1
    o2 = o2
    Operators = {}
    Watcher = Watcher
    Command = Command
    Nobody = Nobody
    MaxAttempts = 2
    MaxSends = 2
    MaxEpisodes = 1
    Faults = {"crash", "exit"}
SPECIFICATION LimitsSpec
INVARIANTS
    LimitsInv
PROPERTIES
    OperatorHoldKept
    NoHoldForTheEnded
