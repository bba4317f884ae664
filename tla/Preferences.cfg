\* Two tabs, two users, a theme and a language, two calls in flight.
CONSTANTS
    off = off
    on = on
    None = None
    Users = {u1, u2}
    Staff = {}
    Tabs = {t1, t2}
    StaffTabs = {}
    Theme = "theme"
    Language = "language"
    Settings = {"theme", "language"}
    Values = {off, on}
    Defaults <- MCDefaults
    SystemTheme = on
    Calls = {c1, c2}
    MaxActs = 3
\* The user may be done.
CHECK_DEADLOCK FALSE
SYMMETRY Interchangeable
SPECIFICATION Spec
INVARIANTS
    TypeOK
    ThemeIsShown
    LanguageFollows
    QuietIsConsistent

