\* Two tabs, an employee and a customer, a request, two decisions.  The address of the
\* list is taken to be answered, which it is only behind a gateway that drops its slash.
CONSTANTS
    None = None
    Nobody = Nobody
    Users = {e1, u1}
    Staff = {e1}
    Tabs = {t1, t2}
    StaffTabs = {t1, t2}
    Forms = {f1}
    Calls = {c1, c2}
    Fetches = {1}
    Jobs = {1}
    Routed = TRUE
    MaxActs = 3
\* The employees may be done.
CHECK_DEADLOCK FALSE
SPECIFICATION Spec
INVARIANTS
    TypeOK
    OnlyStaffDecide
    ContestNeedsTwo
    DecidedLeaves
PROPERTIES
    PagesSettle
