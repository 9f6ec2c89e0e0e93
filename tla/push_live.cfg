SPECIFICATION FairSpec
CONSTANTS
    Replicas = {r1}
    Writes = {w1, w2}
    Guarded = {}
    Fresh = {}
    Lists <- OneList
    Faults = {"push", "write", "reply", "ttl"}
    MaxRestarts = 1
    None = None
INVARIANT PrincipalsCoverRemote
PROPERTY AckedIsPushed
