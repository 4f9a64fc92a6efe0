\* Everything a decision asks for happens in the end.
CONSTANTS
    t1 = t1
    l1 = l1
    l2 = l2
    p1 = p1
    p2 = p2
    Tasks = {t1}
    MaxAttempts = 1
    Leases = {l1}
    Panes = {p1}
    Resources = {"herdr", "worktree"}
    Dispositions <- TeardownDispositions
    RepairCodes <- ReconcileCodes
    FactNames = {"pr", "delivered", "announced"}
    NoTask = NoTask
    NoAttempt = NoAttempt
    NoLease = NoLease
    NoPane = NoPane
    Commands = {"spawn", "teardown", "reconcile"}
    Events = {"works", "rescue", "worker_exit", "crash", "provision_error"}
SPECIFICATION SupervisedSpec
PROPERTIES
    ClaimedDecisionCarriedOut
