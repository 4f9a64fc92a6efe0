\* A database that was left at the version named after the branch of an attempt.
CONSTANTS
    Found = {15}
SPECIFICATION LadderSpec
INVARIANTS
    AcceptedIsReadable
CHECK_DEADLOCK FALSE
