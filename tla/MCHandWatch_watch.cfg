\* Two report lines, two attempts, and any two of: a rewritten report, a replaced attempt,
\* a status that changes, a reconcile, a dead watcher or command, a refusal by GitHub.
CONSTANTS
    Kinds = {"link", "done"}
    MaxLines = 2
    MaxAttempts = 2
    MaxTroubles = 2
    UntilEvent = FALSE
    Statuses = {"working", "blocked"}
    Commands = {"pr", "merge", "replace", "reconcile"}
    Faults = {"crash", "gh"}
SPECIFICATION WatchSpec
INVARIANTS
    CursorIsAnnounced
    WatchInv
PROPERTIES
    MarkersCatchUp
    MergeIsSeen
