SPECIFICATION Spec
CONSTANTS
    w = w
    s = s
    a = a
    b = b
    q1 = q1
    q2 = q2
    q3 = q3
    Workspaces = {w}
    Slots = {s}
    SlotOf <- MCSlotOf
    Names = {a, b}
    Requests = {q1, q2, q3}
    Settings <- MCSettings
    MaxRetries = 1
    None = None
CHECK_DEADLOCK FALSE
INVARIANTS AccessIsPublished KeptUnlessDamaged
PROPERTIES ImplementsLists
