\* Two decisions about one request; TLC finds DecidedOnce violated.
CONSTANTS
    Forms = {f1}
    Calls = {c1, c2}
    Nobody = Nobody
SPECIFICATION Spec
INVARIANT DecidedOnce
CHECK_DEADLOCK FALSE
