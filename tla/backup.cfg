SPECIFICATION FairSpec
CONSTANTS
    r1 = r1
    r2 = r2
    b1 = b1
    b2 = b2
    b3 = b3
    Replicas = {r1, r2}
    Backups = {b1, b2, b3}
    On <- MCOn
    MaxPushes = 2
    Settings <- MCSettings
INVARIANTS AuthorsRewritten NoOlderThanBegin
PROPERTY Mirrored
