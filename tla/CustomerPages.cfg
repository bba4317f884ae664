\* One tab, two users, an account, two calls in flight.
CONSTANTS
    None = None
    Here = "here"
    Users = {u1, u2}
    Staff = {}
    Tabs = {"here"}
    StaffTabs = {}
    Accounts = {1}
    Calls = {1, 2}
    MaxActs = 4
\* The user may be done.
CHECK_DEADLOCK FALSE
SPECIFICATION Spec
INVARIANTS
    TypeOK
    OwnAccountsShown
    StarsAgree
PROPERTIES
    PagesSettle
