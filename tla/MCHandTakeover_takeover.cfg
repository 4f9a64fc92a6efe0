\* Two watchers, three generations: an owner, its successor, and one more for a stale
\* request to hit; anyone dies or is interrupted, files cannot be written or removed.
CONSTANTS
    w1 = w1
    w2 = w2
    Watchers = {w1, w2}
    Nobody = Nobody
    MaxGen = 3
    Faults = {"crash", "file", "signal"}
SPECIFICATION TakeoverSpec
INVARIANTS
    TakeoverInv
PROPERTIES
    OwnershipKept
    ContenderSettles
