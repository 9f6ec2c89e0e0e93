SPECIFICATION Spec
CONSTANTS
    Replicas = {r1}
    Writes = {w1, w2}
    Guarded = {w2}
    Fresh = {}
    Lists = {}
    Faults = {"push"}
    MaxRestarts = 0
    None = None
INVARIANT FailedPushRetried
