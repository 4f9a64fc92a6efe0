\* Launches that fail, die and are resumed, and scouts that are promoted: two attempts,
\* two leases and two panes, so that a resumed launch can open a second pane in the
\* worktree of the first, and a promotion can leave its scout half settled.
CONSTANTS
    t1 = t1
    l1 = l1
    l2 = l2
    p1 = p1
    p2 = p2
    Tasks = {t1}
    MaxAttempts = 2
    Leases = {l1, l2}
    Panes = {p1, p2}
    Resources = {"herdr", "worktree"}
    Dispositions <- TeardownDispositions
    RepairCodes <- ReconcileCodes
    FactNames = {"pr", "delivered", "announced"}
    NoTask = NoTask
    NoAttempt = NoAttempt
    NoLease = NoLease
    NoPane = NoPane
    Commands = {"spawn", "promote", "reconcile"}
    Events = {"reports", "crash", "close_error", "provision_error", "worker_exit", "pane_taken", "return_error", "append_error"}
SPECIFICATION LifecycleSpec
SYMMETRY IdentitySymmetry
INVARIANTS
    AgentsInv
    ReleasedIsGone
PROPERTIES
    StoreRefined
