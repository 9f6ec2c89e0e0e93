SPECIFICATION Spec
CONSTANTS
    e1 = e1
    e2 = e2
    e3 = e3
    x = x
    y = y
    Repos = {1, 2}
    Edits = {e1, e2, e3}
    Place <- MCPlace
    Consumers = {c1}
    Squashes = {}
    Settings <- MCOrphan
    None = None
CHECK_DEADLOCK FALSE
INVARIANT AllOrNone
