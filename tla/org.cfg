SPECIFICATION Spec
CONSTANTS
    e1 = e1
    e2 = e2
    e3 = e3
    x = x
    y = y
    Repos = {1, 2, 3}
    Edits = {e1, e2, e3}
    Place <- MCPlace
    Consumers = {c1, c2}
    Squashes = {s1}
    Settings <- MCSettings
    None = None
CHECK_DEADLOCK FALSE
SYMMETRY Symmetry
INVARIANTS PartialOnlyIfDisturbed LostOnlyIfRaced
PROPERTY MainKeepsWork
