\* Three concurrent requests of any kind, restarts and failing seeds; a token is
\* valid in the second it is made in and expired in the next.
CONSTANTS
    Calls = {c1, c2, c3}
    Emails = {admin_email, e1}
    Names = {admin_name, n1}
    AdminEmail = admin_email
    AdminName = admin_name
    Seed = seed
    Themes = {light, dark}
    Default = light
    AccessLife = 1
    MaxTime = 1
SPECIFICATION Spec
INVARIANTS
    TypeOK
    UsersAreDistinct
    TokenHasSession
    SerialUnlessOverwritten
    EmployeesAreAppointed
