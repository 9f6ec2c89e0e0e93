SPECIFICATION Spec
CONSTANTS
    Replicas = {r1, r2}
    Writes = {w1, w2}
    Guarded = {w2}
    Fresh = {w2}
    Lists = {}
    Faults = {"redis", "push", "sync", "ttl"}
    MaxRestarts = 1
    None = None
SYMMETRY Symmetry
INVARIANTS PushExclusive StrandedOnlyIfExposed
PROPERTY ImplementsRemote
