\* Who owns a task, and what one attempt's row may become, between any two transactions.
CONSTANTS
    Tasks = {t1, t2}
    MaxAttempts = 2
    Leases = {"lease"}
    Panes = {"pane"}
    Resources = {"herdr", "worktree"}
    Dispositions = {"forced", "completed"}
    RepairCodes = {"worktree-dirty"}
    FactNames = {}
    NoTask = NoTask
    NoAttempt = NoAttempt
    NoLease = NoLease
    NoPane = NoPane
SPECIFICATION StoreSpec
SYMMETRY TaskSymmetry
CONSTRAINT InScope
INVARIANTS
    StoreInv
PROPERTIES
    HistoryFrozen
    DecisionStands
    SettledOnce
