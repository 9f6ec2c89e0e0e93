SPECIFICATION FairSpec
CONSTANTS
    Requests = {m1, m2}
    Invalid = {}
    Replicas = {r1, r2}
    Faults = {}
    MaxDrops = 2
    MaxRestarts = 1
    MaxOverruns = 1
    None = None
INVARIANT BlockerIsUnfinished
PROPERTIES JobsFinish LockIsFreed
