SPECIFICATION Spec
SYMMETRY Symmetry
CONSTANTS
    Forms = {f1, f2}
    Emails = {e1, e2}
    Staff = {s1}
    Placeholder = nobody
INVARIANTS
    TypeOK
    ProfileByRegistrar
    SuccessIsComplete
    ManagerIsKnown
PROPERTIES
    StrandedForGood
CHECK_DEADLOCK FALSE
