------------------------- MODULE AuthServiceProofs -------------------------
(***************************************************************************)
(* What is proved of AuthService for every number of requests, emails and  *)
(* names, whatever races, fails or restarts.                               *)
(***************************************************************************)
EXTENDS AuthService, TLAPS

Stages  == {"new", "insert", "session", "touch", "save", "done"}
Answers == {"none", "ok", "error"}
Loaded  == {"session", "touch", "save"}

-----------------------------------------------------------------------------
(***************************************************************************)
(* What the handlers know.                                                 *)
(***************************************************************************)

\* The stage of a handler tells what it does, and only one that is done has answered.
StageOK ==
    \A c \in Calls :
        /\ stage[c] = "insert" => work[c].kind = "register"
        /\ stage[c] \in {"session", "touch"} => work[c].kind = "login"
        /\ stage[c] = "save" => work[c].kind = "theme"
        /\ stage[c] # "done" => reply[c] = "none"

\* A handler that has loaded a user holds a copy with one column changed.
OneColumn(w) ==
    /\ w.copy.email = w.seen.email /\ w.copy.name = w.seen.name /\ w.copy.role = w.seen.role
    /\ w.kind = "login" => w.copy.theme = w.seen.theme
    /\ w.kind = "theme" => w.copy.lastLogin = w.seen.lastLogin

\* The user is in the table, and has the email, the name and the role that were loaded:
\* nobody changes those.
CopyOK ==
    \A c \in Calls :
        stage[c] \in Loaded =>
            LET w == work[c]
            IN  /\ OneColumn(w)
                /\ w.target \in DOMAIN users
                /\ w.copy.email = users[w.target].email
                /\ w.copy.name = users[w.target].name
                /\ w.copy.role = users[w.target].role

\* A new row of an employee was asked for by one.
AskedByEmployee ==
    \A c \in Calls :
        stage[c] = "insert" /\ work[c].copy.role = "employee" => work[c].byEmployee

\* The session of c is in the table.
Owns(c) == stage[c] = "touch" \/ (work[c].kind = "login" /\ reply[c] = "ok")

SessionsOwned ==
    /\ \A c \in Calls : Owns(c) => work[c].token \in sessions
    /\ \A c, d \in Calls : Owns(c) /\ Owns(d) /\ work[c].token = work[d].token => c = d

IInv ==
    /\ TypeOK
    /\ StageOK
    /\ CopyOK
    /\ AskedByEmployee
    /\ SessionsOwned
    /\ UsersAreDistinct
    /\ EmployeesAreAppointed
    /\ SerialUnlessOverwritten

-----------------------------------------------------------------------------
(***************************************************************************)
(* Records.                                                                *)
(***************************************************************************)

\* A new user is a user, and so is the initial content of the locals.
LEMMA NewUserType ==
    ASSUME NEW email \in Emails, NEW name \in Names, NEW role \in Roles
    PROVE  /\ NewUser(email, name, role) \in User
           /\ NewUser(email, name, role).email = email
           /\ NewUser(email, name, role).name = name
           /\ NewUser(email, name, role).role = role
BY DefaultAssumption, TimeAssumption DEF NewUser, User

\* What idle requests carry, and the seeded row, are of their types.
LEMMA NoWorkType == NoWork \in Work /\ SeedRow \in User
<1>1. "employee" \in Roles
  BY DEF Roles
<1>2. NewUser(AdminEmail, AdminName, "employee") \in User
  BY <1>1, AdminAssumption, NewUserType
<1>3. NoToken \in Token /\ Seed \in Ids
  BY TimeAssumption DEF NoToken, Token, Ids
<1>4. QED
  BY <1>2, <1>3 DEF NoWork, Work, SeedRow

\* A row with another theme, and one with another last login.
LEMMA RowType ==
    ASSUME NEW row \in User, NEW theme \in Themes, NEW at \in -1 .. MaxTime
    PROVE  /\ [row EXCEPT !.theme = theme] \in User
           /\ [row EXCEPT !.theme = theme].email = row.email
           /\ [row EXCEPT !.theme = theme].name = row.name
           /\ [row EXCEPT !.theme = theme].role = row.role
           /\ [row EXCEPT !.theme = theme].lastLogin = row.lastLogin
           /\ [row EXCEPT !.lastLogin = at] \in User
           /\ [row EXCEPT !.lastLogin = at].email = row.email
           /\ [row EXCEPT !.lastLogin = at].name = row.name
           /\ [row EXCEPT !.lastLogin = at].role = row.role
           /\ [row EXCEPT !.lastLogin = at].theme = row.theme
BY DEF User

\* The locals that a request gives to its handler.
LEMMA RegisterLocals ==
    ASSUME NEW i \in Ids, NEW email \in Emails, NEW name \in Names, NEW role \in Roles,
           NEW b \in BOOLEAN
    PROVE  LET w == Registration(i, email, name, role, b)
           IN  w \in Work /\ w.kind = "register" /\ w.copy.role = role /\ w.byEmployee = b
<1>1. NewUser(email, name, role) \in User /\ NewUser(email, name, role).role = role
  BY NewUserType
<1>2. NoToken \in Token
  BY TimeAssumption DEF NoToken, Token, Ids
<1>3. QED
  BY <1>1, <1>2 DEF Registration, NoWork, Work

\* A login carries the row it loaded and a copy of it.
LEMMA LoginLocals ==
    ASSUME NEW i \in Ids, users[i] \in User, clock \in 0 .. MaxTime
    PROVE  LET w == LoginOf(i)
           IN  /\ w \in Work /\ w.kind = "login" /\ w.target = i
               /\ w.seen = users[i] /\ w.copy = users[i]
<1>1. [user |-> i, at |-> clock] \in Token
  BY DEF Token
<1>2. QED
  BY <1>1 DEF LoginOf, NoWork, Work

\* A change of the preferences carries the row it loaded and a copy with the new theme.
LEMMA UpdateLocals ==
    ASSUME NEW i \in Ids, users[i] \in User, NEW theme \in Themes
    PROVE  LET w == UpdateOf(i, theme)
           IN  /\ w \in Work /\ w.kind = "theme" /\ w.target = i
               /\ w.seen = users[i] /\ w.copy = [users[i] EXCEPT !.theme = theme]
<1>1. [users[i] EXCEPT !.theme = theme] \in User
  BY DEF User
<1>2. NoToken \in Token
  BY TimeAssumption DEF NoToken, Token, Ids
<1>3. QED
  BY <1>1, <1>2 DEF UpdateOf, NoWork, Work

\* What the operation of a handler makes of a row.
LEMMA AppliedType ==
    ASSUME NEW w \in Work, NEW row \in User
    PROVE  /\ Applied(w, row) \in User
           /\ row = w.seen /\ OneColumn(w) /\ w.kind \in {"login", "theme"}
                => Applied(w, row) = w.copy
<1>1. w.copy \in User /\ w.seen \in User
  BY DEF Work
<1>2. Applied(w, row) \in User
  BY <1>1 DEF Applied, User
<1>3. ASSUME row = w.seen, OneColumn(w), w.kind = "login"
      PROVE  Applied(w, row) = w.copy
  BY <1>1, <1>3 DEF Applied, OneColumn, User
<1>4. ASSUME row = w.seen, OneColumn(w), w.kind = "theme"
      PROVE  Applied(w, row) = w.copy
  BY <1>1, <1>4 DEF Applied, OneColumn, User
<1>5. QED
  BY <1>2, <1>3, <1>4

-----------------------------------------------------------------------------
(***************************************************************************)
(* The start and the steps of the tables.                                  *)
(***************************************************************************)

\* The invariant holds at the start.
LEMMA InitIInv == Init => IInv
<1> SUFFICES ASSUME Init PROVE IInv
  OBVIOUS
<1>1. TypeOK
  <2>1. DOMAIN users = {} /\ DOMAIN serial = {}
    BY DEF Init, Empty
  <2>2. work \in [Calls -> Work]
    BY NoWorkType DEF Init
  <2>3. clock \in 0 .. MaxTime
    BY TimeAssumption DEF Init
  <2>4. QED
    BY <2>1, <2>2, <2>3 DEF Init, TypeOK
<1>2. StageOK /\ CopyOK /\ AskedByEmployee /\ SessionsOwned
  BY DEF Init, StageOK, CopyOK, Loaded, AskedByEmployee, SessionsOwned, Owns
<1>3. UsersAreDistinct /\ EmployeesAreAppointed /\ SerialUnlessOverwritten
  BY DEF Init, Empty, UsersAreDistinct, EmployeesAreAppointed, SerialUnlessOverwritten
<1>4. QED
  BY <1>1, <1>2, <1>3 DEF IInv

\* What is said of the tables alone.
TablesOK ==
    /\ DOMAIN users \subseteq Ids /\ \A i \in DOMAIN users : users[i] \in User
    /\ DOMAIN serial = DOMAIN users /\ \A i \in DOMAIN users : serial[i] \in User
    /\ overwritten \subseteq DOMAIN users
    /\ appointed \subseteq DOMAIN users
    /\ UsersAreDistinct
    /\ EmployeesAreAppointed
    /\ SerialUnlessOverwritten

\* No user goes, and none gets another email, name or role.
UsersKept ==
    /\ DOMAIN users \subseteq DOMAIN users'
    /\ \A i \in DOMAIN users : /\ users'[i].email = users[i].email
                               /\ users'[i].name = users[i].name
                               /\ users'[i].role = users[i].role

\* The invariant has the types of the tables.
LEMMA InvTables == IInv => TablesOK
BY DEF IInv, TypeOK, TablesOK

\* A row that is added is free, and an employee's is asked for by one.
LEMMA AddStep ==
    ASSUME TablesOK, NEW i \in Ids, NEW row \in User, NEW b \in BOOLEAN,
           Free(row), AddUser(i, row, b), row.role = "employee" => b
    PROVE  TablesOK' /\ UsersKept
<1>1. /\ DOMAIN users' = DOMAIN users \cup {i}
      /\ \A j \in DOMAIN users : users'[j] = users[j]
      /\ i \notin DOMAIN users => users'[i] = row
  BY DEF AddUser, Added
<1>2. /\ DOMAIN serial' = DOMAIN users'
      /\ \A j \in DOMAIN users : serial'[j] = serial[j]
      /\ i \notin DOMAIN users => serial'[i] = row
  BY <1>1 DEF AddUser, Added, TablesOK
<1>3. /\ overwritten' = overwritten
      /\ appointed \subseteq appointed' /\ appointed' \subseteq appointed \cup {i}
      /\ row.role = "employee" => i \in appointed'
  BY DEF AddUser
<1>4. UsersKept
  BY <1>1 DEF UsersKept
<1>5. \A j \in DOMAIN users' : users'[j] \in User /\ serial'[j] \in User
  BY <1>1, <1>2 DEF TablesOK
<1>6. UsersAreDistinct'
  BY <1>1 DEF TablesOK, UsersAreDistinct, Free
<1>7. EmployeesAreAppointed'
  BY <1>1, <1>3 DEF TablesOK, EmployeesAreAppointed
<1>8. SerialUnlessOverwritten'
  BY <1>1, <1>2, <1>3 DEF TablesOK, SerialUnlessOverwritten
<1>9. QED
  BY <1>1, <1>2, <1>3, <1>4, <1>5, <1>6, <1>7, <1>8 DEF TablesOK

\* A row that is saved has the email, the name and the role that it had.
LEMMA SaveStep ==
    ASSUME IInv, NEW c \in Calls, stage[c] \in {"touch", "save"}, SaveUser(c)
    PROVE  TablesOK' /\ UsersKept
<1> DEFINE w == work[c]
           i == w.target
<1>1. TablesOK /\ w \in Work /\ w.copy \in User
  BY InvTables DEF IInv, TypeOK, Work
<1>2. /\ i \in DOMAIN users
      /\ w.copy.email = users[i].email
      /\ w.copy.name = users[i].name
      /\ w.copy.role = users[i].role
      /\ OneColumn(w) /\ w.kind \in {"login", "theme"}
  BY DEF IInv, CopyOK, StageOK, Loaded
<1>3. /\ DOMAIN users' = DOMAIN users
      /\ users'[i] = w.copy
      /\ \A j \in DOMAIN users : j # i => users'[j] = users[j]
  BY <1>2 DEF SaveUser
<1>4. /\ DOMAIN serial' = DOMAIN users
      /\ serial'[i] = Applied(w, serial[i])
      /\ \A j \in DOMAIN users : j # i => serial'[j] = serial[j]
  BY <1>1, <1>2 DEF SaveUser, TablesOK
<1>5. /\ overwritten \subseteq overwritten' /\ overwritten' \subseteq overwritten \cup {i}
      /\ i \notin overwritten' => users[i] = w.seen
      /\ appointed' = appointed
  BY DEF SaveUser
<1>6. UsersKept
  BY <1>2, <1>3 DEF UsersKept
<1>7. \A j \in DOMAIN users' : users'[j] \in User /\ serial'[j] \in User
  BY <1>1, <1>2, <1>3, <1>4, AppliedType DEF TablesOK
<1>8. UsersAreDistinct'
  BY <1>1, <1>3, <1>6 DEF TablesOK, UsersAreDistinct, UsersKept
<1>9. EmployeesAreAppointed'
  BY <1>1, <1>3, <1>5, <1>6 DEF TablesOK, EmployeesAreAppointed, UsersKept
<1>10. SerialUnlessOverwritten'
  <2>1. ASSUME i \notin overwritten' PROVE users'[i] = serial'[i]
    <3>1. users[i] = serial[i] /\ users[i] = w.seen /\ users[i] \in User
      BY <1>1, <1>2, <1>5, <2>1 DEF TablesOK, SerialUnlessOverwritten
    <3>2. Applied(w, serial[i]) = w.copy
      BY <1>1, <1>2, <3>1, AppliedType
    <3>3. QED
      BY <1>3, <1>4, <3>2
  <2>2. ASSUME NEW j \in DOMAIN users, j # i, j \notin overwritten' PROVE users'[j] = serial'[j]
    BY <1>1, <1>3, <1>4, <1>5, <2>2 DEF TablesOK, SerialUnlessOverwritten
  <2>3. QED
    BY <1>3, <2>1, <2>2 DEF SerialUnlessOverwritten
<1>11. QED
  BY <1>1, <1>3, <1>4, <1>5, <1>6, <1>7, <1>8, <1>9, <1>10, <1>2 DEF TablesOK

-----------------------------------------------------------------------------
(***************************************************************************)
(* The steps of the handlers.                                              *)
(***************************************************************************)

\* A handler that begins, knowing what its stage says.
LEMMA BeginStep ==
    ASSUME IInv, NEW c \in Calls, NEW s \in Stages, NEW w \in Work, Begin(c, s, w),
           \/ s = "insert" /\ w.kind = "register"
                /\ (w.copy.role = "employee" => w.byEmployee)
           \/ /\ \/ s = "session" /\ w.kind = "login"
                 \/ s = "save" /\ w.kind = "theme"
              /\ OneColumn(w)
              /\ w.target \in DOMAIN users
              /\ w.seen = users[w.target]
    PROVE  IInv'
<1>1. /\ stage[c] = "new" /\ stage'[c] = s /\ work'[c] = w
      /\ \A d \in Calls : d # c => stage'[d] = stage[d] /\ work'[d] = work[d]
      /\ stage' \in [Calls -> Stages] /\ work' \in [Calls -> Work]
      /\ UNCHANGED <<up, clock, users, sessions, reply, serial, overwritten, appointed>>
  BY DEF Begin, IInv, TypeOK, Stages, tables, observations
<1>2. reply[c] = "none"
  BY <1>1 DEF IInv, StageOK
<1>3. TypeOK'
  BY <1>1 DEF IInv, TypeOK, Stages
<1>4. StageOK'
  BY <1>1, <1>2 DEF IInv, StageOK
<1>5. CopyOK'
  <2>1. ASSUME NEW d \in Calls, stage'[d] \in Loaded
        PROVE  /\ OneColumn(work'[d])
               /\ work'[d].target \in DOMAIN users
               /\ work'[d].copy.email = users[work'[d].target].email
               /\ work'[d].copy.name = users[work'[d].target].name
               /\ work'[d].copy.role = users[work'[d].target].role
    <3>1. CASE d = c
      BY <1>1, <2>1, <3>1 DEF Loaded, OneColumn
    <3>2. CASE d # c
      BY <1>1, <2>1, <3>2 DEF IInv, CopyOK
    <3>3. QED
      BY <3>1, <3>2
  <2>2. QED
    BY <1>1, <2>1 DEF CopyOK
<1>6. AskedByEmployee'
  BY <1>1 DEF IInv, AskedByEmployee
<1>7. SessionsOwned'
  <2>1. ~Owns(c)'
    BY <1>1, <1>2 DEF Owns
  <2>2. \A d \in Calls : d # c => (Owns(d)' <=> Owns(d))
    BY <1>1 DEF Owns
  <2>3. QED
    BY <1>1, <2>1, <2>2 DEF IInv, SessionsOwned
<1>8. UsersAreDistinct' /\ EmployeesAreAppointed' /\ SerialUnlessOverwritten'
  BY <1>1 DEF IInv, UsersAreDistinct, EmployeesAreAppointed, SerialUnlessOverwritten
<1>9. QED
  BY <1>3, <1>4, <1>5, <1>6, <1>7, <1>8 DEF IInv

\* A handler that ends, whatever became of the tables.
LEMMA EndStep ==
    ASSUME IInv, NEW c \in Calls, NEW answer \in {"ok", "error"}, Return(c, answer),
           TablesOK', UsersKept, UNCHANGED <<up, clock>>,
           sessions \subseteq sessions', sessions' \subseteq Token,
           answer = "ok" => stage[c] = "touch" \/ work[c].kind # "login"
    PROVE  IInv'
<1>1. /\ stage'[c] = "done" /\ reply'[c] = answer
      /\ \A d \in Calls : d # c => stage'[d] = stage[d] /\ reply'[d] = reply[d]
      /\ stage' \in [Calls -> Stages] /\ reply' \in [Calls -> Answers]
      /\ UNCHANGED work
  BY DEF Return, IInv, TypeOK, Stages, Answers
<1>2. TypeOK'
  BY <1>1 DEF IInv, TypeOK, TablesOK, Stages, Answers
<1>3. StageOK' /\ AskedByEmployee'
  BY <1>1 DEF IInv, StageOK, AskedByEmployee
<1>4. CopyOK'
  <2>1. ASSUME NEW d \in Calls, stage'[d] \in Loaded
        PROVE  /\ OneColumn(work[d])
               /\ work[d].target \in DOMAIN users'
               /\ work[d].copy.email = users'[work[d].target].email
               /\ work[d].copy.name = users'[work[d].target].name
               /\ work[d].copy.role = users'[work[d].target].role
    <3>1. stage[d] \in Loaded
      BY <1>1, <2>1 DEF Loaded
    <3>2. QED
      BY <3>1 DEF IInv, CopyOK, UsersKept
  <2>2. QED
    BY <1>1, <2>1 DEF CopyOK
<1>5. SessionsOwned'
  <2>1. \A d \in Calls : Owns(d)' => Owns(d)
    BY <1>1 DEF Owns
  <2>2. QED
    BY <1>1, <2>1 DEF IInv, SessionsOwned
<1>6. QED
  BY <1>2, <1>3, <1>4, <1>5 DEF IInv, TablesOK

\* The tables as they were.
LEMMA SameTables ==
    ASSUME IInv, UNCHANGED <<users, observations>>
    PROVE  TablesOK' /\ UsersKept
BY InvTables DEF observations, TablesOK, UsersKept, UsersAreDistinct, EmployeesAreAppointed,
                 SerialUnlessOverwritten

\* The session of a login enters the table, unless its token is there.
LEMMA SessionStep ==
    ASSUME IInv, NEW c \in Calls, CreateSession(c)
    PROVE  IInv'
<1>1. /\ stage[c] = "session" /\ stage'[c] = "touch"
      /\ work[c].token \notin sessions /\ sessions' = sessions \cup {work[c].token}
      /\ work' = [work EXCEPT ![c].copy.lastLogin = clock]
      /\ \A d \in Calls : d # c => stage'[d] = stage[d]
      /\ stage' \in [Calls -> Stages]
      /\ UNCHANGED <<up, clock, users, reply, serial, overwritten, appointed>>
  BY DEF CreateSession, IInv, TypeOK, Stages, observations
<1>2. work[c] \in Work /\ work[c].copy \in User /\ clock \in -1 .. MaxTime
  BY TimeAssumption DEF IInv, TypeOK, Work
<1>3. /\ work'[c] = [work[c] EXCEPT !.copy = [work[c].copy EXCEPT !.lastLogin = clock]]
      /\ \A d \in Calls : d # c => work'[d] = work[d]
  BY <1>1 DEF IInv, TypeOK
<1>4. PICK copy \in User : /\ copy = [work[c].copy EXCEPT !.lastLogin = clock]
                           /\ copy.email = work[c].copy.email
                           /\ copy.name = work[c].copy.name
                           /\ copy.role = work[c].copy.role
                           /\ copy.theme = work[c].copy.theme
  BY <1>2, RowType, DefaultAssumption
<1>5. /\ work'[c] \in Work
      /\ work'[c].copy = copy
      /\ work'[c].kind = work[c].kind /\ work'[c].target = work[c].target
      /\ work'[c].seen = work[c].seen /\ work'[c].token = work[c].token
      /\ work'[c].byEmployee = work[c].byEmployee
  BY <1>2, <1>3, <1>4 DEF Work
<1>6. work' \in [Calls -> Work]
  BY <1>1, <1>5 DEF IInv, TypeOK
<1>7. work[c].kind = "login"
  BY <1>1 DEF IInv, StageOK
<1>8. TypeOK'
  BY <1>1, <1>2, <1>6 DEF IInv, TypeOK, Stages, Work
<1>9. StageOK' /\ AskedByEmployee'
  BY <1>1, <1>3, <1>5, <1>7 DEF IInv, StageOK, AskedByEmployee
<1>10. CopyOK'
  <2>1. ASSUME NEW d \in Calls, stage'[d] \in Loaded
        PROVE  /\ OneColumn(work'[d])
               /\ work'[d].target \in DOMAIN users
               /\ work'[d].copy.email = users[work'[d].target].email
               /\ work'[d].copy.name = users[work'[d].target].name
               /\ work'[d].copy.role = users[work'[d].target].role
    <3>1. CASE d = c
      <4>1. stage[c] \in Loaded
        BY <1>1 DEF Loaded
      <4>2. QED
        BY <1>1, <1>4, <1>5, <1>7, <3>1, <4>1 DEF IInv, CopyOK, OneColumn
    <3>2. CASE d # c
      BY <1>1, <1>3, <2>1, <3>2 DEF IInv, CopyOK
    <3>3. QED
      BY <3>1, <3>2
  <2>2. QED
    BY <1>1, <2>1 DEF CopyOK
<1>11. SessionsOwned'
  <2>1. \A d \in Calls : d # c => (Owns(d)' <=> Owns(d))
    BY <1>1, <1>3 DEF Owns
  <2>2. \A d \in Calls : Owns(d) => work[d].token \in sessions /\ work[d].token # work[c].token
    BY <1>1 DEF IInv, SessionsOwned
  <2>3. QED
    BY <1>1, <1>3, <1>5, <2>1, <2>2 DEF IInv, SessionsOwned
<1>12. UsersAreDistinct' /\ EmployeesAreAppointed' /\ SerialUnlessOverwritten'
  BY <1>1 DEF IInv, UsersAreDistinct, EmployeesAreAppointed, SerialUnlessOverwritten
<1>13. QED
  BY <1>8, <1>9, <1>10, <1>11, <1>12 DEF IInv

\* A handler that begins, with the locals that its request gives it.
LEMMA ArriveStep ==
    ASSUME IInv, NEW c \in Calls, Arrive(c)
    PROVE  IInv'
<1>0. /\ \A i \in DOMAIN users : i \in Ids /\ users[i] \in User
      /\ clock \in 0 .. MaxTime
  BY DEF IInv, TypeOK
<1>1. ASSUME NEW email \in Emails, NEW name \in Names, NEW role \in Roles, NEW b \in BOOLEAN,
             role = "employee" => b,
             Begin(c, "insert", Registration(c, email, name, role, b))
      PROVE  IInv'
  <2> DEFINE w == Registration(c, email, name, role, b)
  <2>1. w \in Work /\ w.kind = "register" /\ w.copy.role = role /\ w.byEmployee = b
    BY RegisterLocals DEF Ids
  <2>2. QED
    BY <1>1, <2>1, BeginStep DEF Stages
<1>2. ASSUME NEW email \in Emails, NEW name \in Names, NEW role \in Roles,
             RegisterCustomer(c, email, name) \/ RegisterEmployee(c, email, name, role)
      PROVE  IInv'
  BY <1>1, <1>2 DEF RegisterCustomer, RegisterEmployee, Roles
<1>3. ASSUME LoginFails(c) \/ \E email \in Emails, name \in Names : RefuseRegistration(c, email, name)
      PROVE  IInv'
  <2>1. /\ Return(c, "error")
        /\ UNCHANGED <<up, clock, tables, observations>>
    BY <1>3 DEF LoginFails, RefuseRegistration
  <2>2. TablesOK' /\ UsersKept
    BY <2>1, SameTables DEF tables
  <2>3. sessions \subseteq sessions' /\ sessions' \subseteq Token
    BY <2>1 DEF tables, IInv, TypeOK
  <2>4. QED
    BY <2>1, <2>2, <2>3, EndStep
<1>4. ASSUME NEW i \in DOMAIN users, StartLogin(c, i) PROVE IInv'
  <2> DEFINE w == LoginOf(i)
  <2>1. /\ w \in Work /\ w.kind = "login" /\ w.target = i
        /\ w.seen = users[i] /\ w.copy = users[i]
    BY <1>0, LoginLocals
  <2>2. OneColumn(w)
    BY <2>1 DEF OneColumn
  <2>3. Begin(c, "session", w)
    BY <1>4 DEF StartLogin
  <2>4. QED
    BY <2>1, <2>2, <2>3, BeginStep DEF Stages
<1>5. ASSUME NEW i \in DOMAIN users, NEW theme \in Themes, StartUpdate(c, i, theme) PROVE IInv'
  <2> DEFINE w == UpdateOf(i, theme)
  <2>1. /\ w \in Work /\ w.kind = "theme" /\ w.target = i
        /\ w.seen = users[i] /\ w.copy = [users[i] EXCEPT !.theme = theme]
    BY <1>0, UpdateLocals
  <2>2. OneColumn(w)
    <3>1. PICK row \in User : row = users[i]
      BY <1>0
    <3>2. /\ w.copy.email = row.email /\ w.copy.name = row.name
          /\ w.copy.role = row.role /\ w.copy.lastLogin = row.lastLogin
      BY <2>1, <3>1 DEF User
    <3>3. QED
      BY <2>1, <3>1, <3>2 DEF OneColumn
  <2>3. Begin(c, "save", w)
    BY <1>5 DEF StartUpdate
  <2>4. QED
    BY <2>1, <2>2, <2>3, BeginStep DEF Stages
<1>6. QED
  BY <1>2, <1>3, <1>4, <1>5 DEF Arrive, Roles

\* A handler that goes on.
LEMMA ContinueStep ==
    ASSUME IInv, NEW c \in Calls, Continue(c)
    PROVE  IInv'
<1>0. sessions \subseteq Token /\ work[c] \in Work
  BY DEF IInv, TypeOK
<1>1. ASSUME Insert(c) \/ InsertUnacknowledged(c) PROVE IInv'
  <2>1. /\ stage[c] = "insert" /\ Free(work[c].copy)
        /\ AddUser(c, work[c].copy, work[c].byEmployee)
        /\ \E answer \in {"ok", "error"} : Return(c, answer)
        /\ UNCHANGED <<up, clock>>
    BY <1>1 DEF Insert, InsertUnacknowledged
  <2>2. /\ work[c].kind = "register"
        /\ work[c].copy \in User /\ work[c].byEmployee \in BOOLEAN /\ c \in Ids
        /\ work[c].copy.role = "employee" => work[c].byEmployee
    BY <1>0, <2>1 DEF IInv, StageOK, AskedByEmployee, Work, Ids
  <2>3. TablesOK' /\ UsersKept
    BY <2>1, <2>2, InvTables, AddStep
  <2>4. UNCHANGED sessions
    BY <2>1 DEF AddUser
  <2>5. QED
    BY <1>0, <2>1, <2>2, <2>3, <2>4, EndStep
<1>2. ASSUME SaveLogin(c) \/ SavePreferences(c) \/ SavePreferencesUnacknowledged(c) PROVE IInv'
  <2>1. /\ stage[c] \in {"touch", "save"} /\ SaveUser(c)
        /\ \E answer \in {"ok", "error"} : Return(c, answer)
        /\ UNCHANGED <<up, clock>>
    BY <1>2 DEF SaveLogin, SavePreferences, SavePreferencesUnacknowledged
  <2>2. TablesOK' /\ UsersKept
    BY <2>1, SaveStep
  <2>3. stage[c] = "touch" \/ work[c].kind # "login"
    BY <2>1 DEF IInv, StageOK
  <2>4. UNCHANGED sessions
    BY <2>1 DEF SaveUser
  <2>5. QED
    BY <1>0, <2>1, <2>2, <2>3, <2>4, EndStep
<1>3. ASSUME \/ InsertFails(c) \/ CreateSessionFails(c) \/ CreateSessionUnacknowledged(c)
             \/ SaveLoginFails(c) \/ SavePreferencesFails(c)
      PROVE  IInv'
  <2>1. /\ Return(c, "error") \/ (Return(c, "ok") /\ stage[c] = "touch")
        /\ UNCHANGED <<up, clock, users, observations>>
        /\ sessions' = sessions \/ sessions' = sessions \cup {work[c].token}
    BY <1>3 DEF InsertFails, CreateSessionFails, CreateSessionUnacknowledged,
                SaveLoginFails, SavePreferencesFails, tables
  <2>2. TablesOK' /\ UsersKept
    BY <2>1, SameTables
  <2>3. sessions \subseteq sessions' /\ sessions' \subseteq Token
    BY <1>0, <2>1 DEF Work
  <2>4. QED
    BY <2>1, <2>2, <2>3, EndStep
<1>4. QED
  BY <1>1, <1>2, <1>3, SessionStep DEF Continue

\* The process starts, with or without a new employee, exits, or time passes.
LEMMA ProcessStep ==
    ASSUME IInv, StartSeeds \/ StartWithoutSeeding \/ Exit \/ Tick \/ UNCHANGED vars
    PROVE  IInv'
<1>1. /\ UNCHANGED <<sessions, work, reply>>
      /\ clock' \in 0 .. MaxTime /\ up' \in BOOLEAN
      /\ \A c \in Calls : stage'[c] = stage[c] \/ stage'[c] = "done"
      /\ stage' \in [Calls -> Stages]
  <2>1. CASE Tick
    BY <2>1, TimeAssumption DEF Tick, tables, handlers, IInv, TypeOK, Stages
  <2>2. CASE Exit
    BY <2>2 DEF Exit, tables, IInv, TypeOK, Stages
  <2>3. CASE StartSeeds \/ StartWithoutSeeding \/ UNCHANGED vars
    BY <2>3 DEF StartSeeds, StartWithoutSeeding, AddUser, vars, tables, handlers,
                IInv, TypeOK, Stages
  <2>4. QED
    BY <2>1, <2>2, <2>3
<1>2. TablesOK' /\ UsersKept
  <2>1. CASE StartSeeds
    <3>1. Free(SeedRow) /\ AddUser(Seed, SeedRow, TRUE) /\ Seed \in Ids
      BY <2>1 DEF StartSeeds, Ids
    <3>2. QED
      BY <3>1, InvTables, AddStep, NoWorkType
  <2>2. CASE StartWithoutSeeding \/ Exit \/ Tick \/ UNCHANGED vars
    BY <2>2, SameTables DEF StartWithoutSeeding, Exit, Tick, vars, tables
  <2>3. QED
    BY <2>1, <2>2
<1>3. TypeOK'
  BY <1>1, <1>2 DEF IInv, TypeOK, TablesOK, Stages
<1>4. StageOK' /\ AskedByEmployee'
  BY <1>1 DEF IInv, StageOK, AskedByEmployee
<1>5. CopyOK'
  <2>1. ASSUME NEW d \in Calls, stage'[d] \in Loaded
        PROVE  /\ OneColumn(work[d])
               /\ work[d].target \in DOMAIN users'
               /\ work[d].copy.email = users'[work[d].target].email
               /\ work[d].copy.name = users'[work[d].target].name
               /\ work[d].copy.role = users'[work[d].target].role
    <3>1. stage[d] \in Loaded
      BY <1>1, <2>1 DEF Loaded
    <3>2. QED
      BY <1>2, <3>1 DEF IInv, CopyOK, UsersKept
  <2>2. QED
    BY <1>1, <2>1 DEF CopyOK
<1>6. SessionsOwned'
  <2>1. \A d \in Calls : Owns(d)' => Owns(d)
    BY <1>1 DEF Owns
  <2>2. QED
    BY <1>1, <2>1 DEF IInv, SessionsOwned
<1>7. QED
  BY <1>2, <1>3, <1>4, <1>5, <1>6 DEF IInv, TablesOK

\* Every step preserves the invariant.
LEMMA NextIInv == IInv /\ [Next]_vars => IInv'
BY ProcessStep, ArriveStep, ContinueStep DEF Next

\* The invariant holds in every state.
LEMMA Invariance == Spec => []IInv
BY InitIInv, NextIInv, PTL DEF Spec

-----------------------------------------------------------------------------
(***************************************************************************)
(* What follows from it.                                                   *)
(***************************************************************************)

\* The tables and the handlers keep their types.
THEOREM TypeCorrect == Spec => []TypeOK
<1>1. IInv => TypeOK
  BY DEF IInv
<1>2. QED
  BY <1>1, Invariance, PTL

\* No two users share an email or a username, whatever registrations overlap: the
\* whole-row saves that come later do not bring an old one back.
THEOREM DistinctUsers == Spec => []UsersAreDistinct
<1>1. IInv => UsersAreDistinct
  BY DEF IInv
<1>2. QED
  BY <1>1, Invariance, PTL

\* Nobody becomes an employee who was not seeded or registered by an employee.
THEOREM AppointedEmployees == Spec => []EmployeesAreAppointed
<1>1. IInv => EmployeesAreAppointed
  BY DEF IInv
<1>2. QED
  BY <1>1, Invariance, PTL

\* A row that no save overwrote holds what the committed operations made of it.
THEOREM SerialUsers == Spec => []SerialUnlessOverwritten
<1>1. IInv => SerialUnlessOverwritten
  BY DEF IInv
<1>2. QED
  BY <1>1, Invariance, PTL

\* Every token that was given has a session, and no two logins were given the same one.
THEOREM SessionForToken == Spec => []TokenHasSession
<1>1. IInv => TokenHasSession
  BY DEF IInv, SessionsOwned, Owns, TokenHasSession, Given
<1>2. QED
  BY <1>1, Invariance, PTL
============================================================================
