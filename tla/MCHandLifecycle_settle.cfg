\* Teardown and reconcile take turns at the same attempt, and die, over leases and
\* panes that are lost or taken over, observations that fail, and attestations.
CONSTANTS
    t1 = t1
    l1 = l1
    l2 = l2
    p1 = p1
    p2 = p2
    Tasks = {t1}
    MaxAttempts = 1
    Leases = {l1}
    Panes = {p1}
    Resources = {"herdr", "worktree"}
    Dispositions <- TeardownDispositions
    RepairCodes <- ReconcileCodes
    FactNames = {"pr", "delivered", "announced"}
    NoTask = NoTask
    NoAttempt = NoAttempt
    NoLease = NoLease
    NoPane = NoPane
    Commands = {"spawn", "teardown", "reconcile"}
    Events = {"crash", "works", "return_error", "lease_lost", "lease_taken", "pane_taken", "attests", "unobservable", "append_error", "gives_up"}
SPECIFICATION LifecycleSpec
INVARIANTS
    ReleasedIsGone
    RecordInv
PROPERTIES
    ReconcileKeepsWork
