SPECIFICATION FairSpec
CONSTANTS
    t1 = t1
    t2 = t2
    t3 = t3
    t4 = t4
    c1 = c1
    c2 = c2
    q1 = q1
    q2 = q2
    schema1 = schema1
    schema2 = schema2
    none = none
    Runs = {t1, t2, t3, t4}
    Asked <- MCAsked
    Committing = {t1, t2, t3}
    Unnamed = {t3}
    Clients = {c1, c2}
    Follows <- MCFollows
    NoModels = none
    Settings <- MCSettings
    Readers = {q1, q2}
    MaxCommits = 4
    Missing = {0}
CHECK_DEADLOCK FALSE
INVARIANTS TypeOK ToldIsPushed ReadsForward
PROPERTIES MainKeepsCommits EndIsTold ImplementsFileCache EventuallyFresh
