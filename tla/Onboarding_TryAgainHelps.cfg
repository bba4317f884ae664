SPECIFICATION PersistentSpec
CONSTANTS
    Forms = {f1}
    Emails = {e1}
    Staff = {s1}
    Placeholder = nobody
PROPERTIES
    TryAgainHelps
CHECK_DEADLOCK FALSE
