SPECIFICATION FairSpec
CONSTANTS
    push = push
    other = other
    call = call
    migration = migration
    Hooks = {push, other}
    Calls = {call}
    Migrations = {migration}
    Rounds <- MCRounds
    Branch <- MCBranch
    Branches <- MCBranches
    Environment <- MCEnvironment
    Written <- MCWritten
    Read <- MCRead
    Sanitised <- MCSanitised
    Mounted = {1, 2}
    Static = {2}
    Own = {3}
    Settings <- MCSettings
CHECK_DEADLOCK FALSE
INVARIANTS BoundSurvives MissingOnlyIfDoomed TokenKept TornOnlyUnguarded OwnTarget
PROPERTY RunsStart
