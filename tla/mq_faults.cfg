SPECIFICATION Spec
CONSTANTS
    Requests = {m1, m2, m3}
    Invalid = {m3}
    Replicas = {r1, r2}
    Faults = {"redis", "publisher"}
    MaxDrops = 1
    MaxRestarts = 1
    MaxOverruns = 1
    None = None
SYMMETRY Symmetry
INVARIANTS OneMergeAtATime AtLeastOnce RepeatsNeedRedelivery
PROPERTIES ReleasesOwnLock ImplementsServer
