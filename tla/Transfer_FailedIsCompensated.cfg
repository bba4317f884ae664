\* One call; TLC finds FailedIsCompensated violated.
CONSTANTS
    a1 = a1
    a2 = a2
    k1 = k1
    k2 = k2
    e1 = e1
    Accounts = {a1, a2}
    Keys = {k1}
    Calls = {c1}
    Orders <- MCOneOrder
    Edits = {e1}
    Edited <- MCEdited
    MaxInt = 2
    Opening <- MCOpening
SPECIFICATION Spec
INVARIANT FailedIsCompensated
