\* Three concurrent decisions about two requests.
CONSTANTS
    Forms = {f1, f2}
    Calls = {c1, c2, c3}
    Nobody = Nobody
SPECIFICATION Spec
INVARIANTS
    TypeOK
    AccountNeedsApproval
    UncontestedIsConsistent
    OkIsDone
\* Calls is finite: when all have returned the model has no step left.
CHECK_DEADLOCK FALSE
