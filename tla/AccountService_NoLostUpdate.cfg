\* Two requests on one funded account; TLC finds NoLostUpdate violated.
CONSTANTS
    a1 = a1
    a2 = a2
    Accounts = {a1, a2}
    Requests = {r1, r2}
    Adjustments <- MCAdjustments
    MaxInt = 3
    Opening <- MCOpening
SPECIFICATION Spec
INVARIANT NoLostUpdate
\* Requests is finite: when all are answered the model has no step left.
CHECK_DEADLOCK FALSE
