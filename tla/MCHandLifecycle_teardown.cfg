\* Teardown and what reopens its task: what its guard lets go, over refusals, retries
\* and half-done releases.  No crash, and no agent that works while a command runs.
CONSTANTS
    t1 = t1
    l1 = l1
    l2 = l2
    p1 = p1
    p2 = p2
    Tasks = {t1}
    MaxAttempts = 2
    Leases = {l1, l2}
    Panes = {p1, p2}
    Resources = {"herdr", "worktree"}
    Dispositions <- TeardownDispositions
    RepairCodes <- ReconcileCodes
    FactNames = {"pr", "delivered", "announced"}
    NoTask = NoTask
    NoAttempt = NoAttempt
    NoLease = NoLease
    NoPane = NoPane
    Commands = {"spawn", "teardown", "reopen"}
    Events = {"works", "reports", "opens_pr", "provision_error", "return_error", "append_error", "deliver", "unobservable", "worker_exit", "gives_up"}
SPECIFICATION LifecycleSpec
SYMMETRY IdentitySymmetry
INVARIANTS
    HeldIsClaimed
    DecisionHonoured
PROPERTIES
    UnlandedWorkStays
CHECK_DEADLOCK FALSE
