---------------------------- MODULE AuthService ----------------------------
(***************************************************************************)
(* The auth service: users, sessions, tokens and the stored preferences.   *)
(*                                                                         *)
(* Requests run concurrently and are split at their database calls.        *)
(* Registration looks the user up and then inserts; the unique indexes on  *)
(* username and email decide between two that overlap.  Login inserts a    *)
(* session, whose token is unique too, and then writes the whole user row  *)
(* back with a new last login; UpdatePreferences writes the whole row      *)
(* back with new preferences.  Each start of the process seeds the default *)
(* employee, and serves whether that worked or not.                        *)
(*                                                                         *)
(* The access and the refresh token of a login are functions of the user   *)
(* and of the second in which they are made; one token stands for both     *)
(* here.  A tick of the clock is the second in which two tokens are equal, *)
(* and the 15 minutes an access token lives are cut to AccessLife ticks.   *)
(***************************************************************************)
EXTENDS Integers

CONSTANTS
    Calls,       \* the requests that may ever arrive, one goroutine each
    Emails,      \* what a user may register with
    Names,
    AdminEmail,  \* what the default employee is seeded with
    AdminName,
    Seed,        \* the id of the default employee
    Themes,      \* the preferences a user may choose between
    Default,     \* those of a new user
    AccessLife,  \* how long an access token is valid
    MaxTime      \* bound of the model: the clock stops here

ASSUME AdminAssumption == AdminEmail \in Emails /\ AdminName \in Names

ASSUME SeedAssumption == Seed \notin Calls

ASSUME DefaultAssumption == Default \in Themes

ASSUME TimeAssumption == AccessLife \in Nat \ {0} /\ MaxTime \in Nat

\* A user has the id that its insert was given, named after the call behind it.
Ids == Calls \cup {Seed}

Roles == {"customer", "employee"}

\* A row of auth.users.  No handler writes any other column of a row, so that
\* every status is "active".  last_login is -1 before the first login.
User == [email : Emails, name : Names, role : Roles, theme : Themes,
         lastLogin : -1 .. MaxTime]

NewUser(email, name, role) ==
    [email |-> email, name |-> name, role |-> role, theme |-> Default, lastLogin |-> -1]

Token == [user : Ids, at : 0 .. MaxTime]

NoToken == [user |-> Seed, at |-> 0]

VARIABLES
    up,          \* the process serves requests
    clock,
    users,       \* id -> row, for the users that exist
    sessions,    \* the tokens that have a row in auth.sessions
    stage,       \* call -> the database call it makes next
    work,        \* call -> the local variables of its handler
    reply,       \* call -> what the client was told
    (***********************************************************************)
    (* Observations: no guard reads them.                                  *)
    (***********************************************************************)
    serial,      \* id -> row, had every committed operation been atomic
    overwritten, \* the users whose row was saved over by one not loaded from it
    appointed    \* the users that the seed or an employee made an employee

tables       == <<users, sessions>>
handlers     == <<stage, work, reply>>
observations == <<serial, overwritten, appointed>>
vars         == <<up, clock, tables, handlers, observations>>

Empty == [i \in {} |-> NewUser(AdminEmail, AdminName, "employee")]

\* The locals of a handler: what it does, the user it does it to, the row as
\* loaded, the copy it will write, the token of the login, and whether an
\* employee asked for it.
Work == [kind : {"register", "login", "theme"}, target : Ids, seen : User, copy : User,
         token : Token, byEmployee : BOOLEAN]

NoWork == [kind |-> "register", target |-> Seed,
           seen |-> NewUser(AdminEmail, AdminName, "employee"),
           copy |-> NewUser(AdminEmail, AdminName, "employee"),
           token |-> NoToken, byEmployee |-> FALSE]

Init ==
    /\ up = FALSE
    /\ clock = 0
    /\ users = Empty
    /\ sessions = {}
    /\ stage = [c \in Calls |-> "new"]
    /\ work = [c \in Calls |-> NoWork]
    /\ reply = [c \in Calls |-> "none"]
    /\ serial = Empty
    /\ overwritten = {}
    /\ appointed = {}

-----------------------------------------------------------------------------
(***************************************************************************)
(* What the handlers are made of.                                          *)
(***************************************************************************)
Begin(c, s, w) ==
    /\ up
    /\ stage[c] = "new"
    /\ stage' = [stage EXCEPT ![c] = s]
    /\ work' = [work EXCEPT ![c] = w]
    /\ UNCHANGED <<up, clock, tables, reply, observations>>

Return(c, answer) ==
    /\ stage' = [stage EXCEPT ![c] = "done"]
    /\ reply' = [reply EXCEPT ![c] = answer]
    /\ UNCHANGED work

\* Mutant: only the email has a unique index.
Free_EmailOnly(row) == \A i \in DOMAIN users : users[i].email # row.email

\* What the unique indexes on email and username ask of a new row.
Free(row) ==
    \A i \in DOMAIN users : users[i].email # row.email /\ users[i].name # row.name

\* The table with one row more.
Added(table, i, row) ==
    [j \in DOMAIN table \cup {i} |-> IF j \in DOMAIN table THEN table[j] ELSE row]

\* A row enters the table.
AddUser(i, row, byEmployee) ==
    /\ users' = Added(users, i, row)
    /\ serial' = Added(serial, i, row)
    /\ appointed' = IF row.role = "employee" /\ byEmployee
                    THEN appointed \cup {i} ELSE appointed
    /\ UNCHANGED <<sessions, overwritten>>

\* The operation of w on a row.
Applied(w, row) ==
    IF w.kind = "login" THEN [row EXCEPT !.lastLogin = w.copy.lastLogin]
                        ELSE [row EXCEPT !.theme = w.copy.theme]

\* gorm's Save: every column is written.
SaveUser(c) ==
    LET w == work[c]
        i == w.target
    IN  /\ users' = [users EXCEPT ![i] = w.copy]
        /\ serial' = [serial EXCEPT ![i] = Applied(w, @)]
        /\ overwritten' = IF users[i] # w.seen THEN overwritten \cup {i} ELSE overwritten
        /\ UNCHANGED <<sessions, appointed>>

\* The tokens that clients were given by a successful login.
Given == {work[c].token : c \in {d \in Calls : work[d].kind = "login" /\ reply[d] = "ok"}}

\* AuthMiddleware: the signature and the expiry are checked, no session is.
Valid(t) == clock < t.at + AccessLife

\* A client that comes with a token of user i.
Authorized(i) == \E t \in Given : t.user = i /\ Valid(t)

-----------------------------------------------------------------------------
(***************************************************************************)
(* Starting up.                                                            *)
(***************************************************************************)
SeedRow == NewUser(AdminEmail, AdminName, "employee")

\* SeedDefaultEmployee inserts the employee; an error of its lookup counts as
\* "not found".
StartSeeds ==
    /\ ~up
    /\ Free(SeedRow)
    /\ AddUser(Seed, SeedRow, TRUE)
    /\ up' = TRUE
    /\ UNCHANGED <<clock, handlers>>

\* A user with the admin's email is there already, or the insert fails (the
\* username is taken, or the database is not ready): main() logs it and serves.
StartWithoutSeeding ==
    /\ ~up
    /\ up' = TRUE
    /\ UNCHANGED <<clock, tables, handlers, observations>>

\* The process exits and takes its handlers with it.
Exit ==
    /\ up
    /\ up' = FALSE
    /\ stage' = [c \in Calls |-> IF stage[c] = "new" THEN "new" ELSE "done"]
    /\ UNCHANGED <<clock, tables, work, reply, observations>>

Tick ==
    /\ clock < MaxTime
    /\ clock' = clock + 1
    /\ UNCHANGED <<up, tables, handlers, observations>>

-----------------------------------------------------------------------------
(***************************************************************************)
(* Registration.  A lookup that returns an error counts as "not found" and *)
(* users are never deleted, so that the two lookups are one step.          *)
(***************************************************************************)
Registration(c, email, name, role, byEmployee) ==
    [NoWork EXCEPT !.target = c, !.seen = NewUser(email, name, role),
                   !.copy = NewUser(email, name, role), !.byEmployee = byEmployee]

\* Mutant: the role is taken from the request.
RegisterCustomer_AnyRole(c, email, name) ==
    \E role \in Roles :
        Begin(c, "insert", Registration(c, email, name, role, FALSE))

RegisterCustomer(c, email, name) ==
    Begin(c, "insert", Registration(c, email, name, "customer", FALSE))

\* RoleMiddleware reads the role in the token, which the user had at login.
RegisterEmployee(c, email, name, role) ==
    /\ \E i \in DOMAIN users : users[i].role = "employee" /\ Authorized(i)
    /\ Begin(c, "insert", Registration(c, email, name, role, TRUE))

\* One of the lookups finds a user.
RefuseRegistration(c, email, name) ==
    /\ up
    /\ stage[c] = "new"
    /\ ~Free(NewUser(email, name, "customer"))
    /\ Return(c, "error")
    /\ UNCHANGED <<up, clock, tables, observations>>

Insert(c) ==
    /\ stage[c] = "insert"
    /\ Free(work[c].copy)
    /\ AddUser(c, work[c].copy, work[c].byEmployee)
    /\ Return(c, "ok")
    /\ UNCHANGED <<up, clock>>

\* A unique index or a failing database rejects the insert.
InsertFails(c) ==
    /\ stage[c] = "insert"
    /\ Return(c, "error")
    /\ UNCHANGED <<up, clock, tables, observations>>

InsertUnacknowledged(c) ==
    /\ stage[c] = "insert"
    /\ Free(work[c].copy)
    /\ AddUser(c, work[c].copy, work[c].byEmployee)
    /\ Return(c, "error")
    /\ UNCHANGED <<up, clock>>

-----------------------------------------------------------------------------
(***************************************************************************)
(* Login.                                                                  *)
(***************************************************************************)

LoginOf(i) ==
    [NoWork EXCEPT !.kind = "login", !.target = i, !.seen = users[i], !.copy = users[i],
                   !.token = [user |-> i, at |-> clock]]

\* The user is found and the password is right; the tokens are made.
StartLogin(c, i) == Begin(c, "session", LoginOf(i))

\* The user is unknown, the password wrong, or the database fails.
LoginFails(c) ==
    /\ up
    /\ stage[c] = "new"
    /\ Return(c, "error")
    /\ UNCHANGED <<up, clock, tables, observations>>

\* Mutants: last_login gets the expiry of the token; the tokens have no unique index.
CreateSession_Expiry(c) ==
    /\ stage[c] = "session"
    /\ work[c].token \notin sessions
    /\ sessions' = sessions \cup {work[c].token}
    /\ stage' = [stage EXCEPT ![c] = "touch"]
    /\ work' = [work EXCEPT ![c].copy.lastLogin = clock + AccessLife]
    /\ UNCHANGED <<up, clock, users, reply, observations>>

CreateSession_AnyToken(c) ==
    /\ stage[c] = "session"
    /\ sessions' = sessions \cup {work[c].token}
    /\ stage' = [stage EXCEPT ![c] = "touch"]
    /\ work' = [work EXCEPT ![c].copy.lastLogin = clock]
    /\ UNCHANGED <<up, clock, users, reply, observations>>

\* The session is inserted, and last_login gets the time.
CreateSession(c) ==
    /\ stage[c] = "session"
    /\ work[c].token \notin sessions
    /\ sessions' = sessions \cup {work[c].token}
    /\ stage' = [stage EXCEPT ![c] = "touch"]
    /\ work' = [work EXCEPT ![c].copy.lastLogin = clock]
    /\ UNCHANGED <<up, clock, users, reply, observations>>

\* The tokens are those of another login in the same second, or the database
\* fails: the client is told that it may not log in.
CreateSessionFails(c) ==
    /\ stage[c] = "session"
    /\ Return(c, "error")
    /\ UNCHANGED <<up, clock, tables, observations>>

CreateSessionUnacknowledged(c) ==
    /\ stage[c] = "session"
    /\ work[c].token \notin sessions
    /\ sessions' = sessions \cup {work[c].token}
    /\ Return(c, "error")
    /\ UNCHANGED <<up, clock, users, observations>>

\* Mutant: a user is saved that was made anew and not loaded.
SaveLogin_Blank(c) ==
    LET w == work[c]
    IN  /\ stage[c] = "touch"
        /\ users' = [users EXCEPT ![w.target] = [w.copy EXCEPT !.theme = Default]]
        /\ serial' = [serial EXCEPT ![w.target] = Applied(w, @)]
        /\ Return(c, "ok")
        /\ UNCHANGED <<up, clock, sessions, overwritten, appointed>>

\* Login writes the row back with the new last login, and is done.
SaveLogin(c) ==
    /\ stage[c] = "touch"
    /\ SaveUser(c)
    /\ Return(c, "ok")
    /\ UNCHANGED <<up, clock>>

\* The error is dropped.
SaveLoginFails(c) ==
    /\ stage[c] = "touch"
    /\ Return(c, "ok")
    /\ UNCHANGED <<up, clock, tables, observations>>

-----------------------------------------------------------------------------
(***************************************************************************)
(* Preferences.                                                            *)
(***************************************************************************)
UpdateOf(i, theme) ==
    [NoWork EXCEPT !.kind = "theme", !.target = i, !.seen = users[i],
                   !.copy = [users[i] EXCEPT !.theme = theme]]

\* The client's token is valid and its user is loaded.  The login's row that the
\* token was made from is not looked at, nor is the session.
StartUpdate(c, i, theme) ==
    /\ Authorized(i)
    /\ Begin(c, "save", UpdateOf(i, theme))

SavePreferences(c) ==
    /\ stage[c] = "save"
    /\ SaveUser(c)
    /\ Return(c, "ok")
    /\ UNCHANGED <<up, clock>>

SavePreferencesFails(c) ==
    /\ stage[c] = "save"
    /\ Return(c, "error")
    /\ UNCHANGED <<up, clock, tables, observations>>

SavePreferencesUnacknowledged(c) ==
    /\ stage[c] = "save"
    /\ SaveUser(c)
    /\ Return(c, "error")
    /\ UNCHANGED <<up, clock>>

-----------------------------------------------------------------------------
Arrive(c) ==
    \/ \E email \in Emails, name \in Names :
          \/ RegisterCustomer(c, email, name)
          \/ \E role \in Roles : RegisterEmployee(c, email, name, role)
          \/ RefuseRegistration(c, email, name)
    \/ \E i \in DOMAIN users :
          \/ StartLogin(c, i)
          \/ \E theme \in Themes : StartUpdate(c, i, theme)
    \/ LoginFails(c)

Continue(c) ==
    \/ Insert(c) \/ InsertFails(c) \/ InsertUnacknowledged(c)
    \/ CreateSession(c) \/ CreateSessionFails(c) \/ CreateSessionUnacknowledged(c)
    \/ SaveLogin(c) \/ SaveLoginFails(c)
    \/ SavePreferences(c) \/ SavePreferencesFails(c) \/ SavePreferencesUnacknowledged(c)

Next ==
    \/ StartSeeds \/ StartWithoutSeeding \/ Exit \/ Tick
    \/ \E c \in Calls : Arrive(c) \/ Continue(c)

\* Goroutines are scheduled and database calls return.
Fairness == \A c \in Calls : WF_vars(Continue(c))

Spec == Init /\ [][Next]_vars /\ Fairness

-----------------------------------------------------------------------------
TypeOK ==
    /\ up \in BOOLEAN
    /\ clock \in 0 .. MaxTime
    /\ DOMAIN users \subseteq Ids /\ \A i \in DOMAIN users : users[i] \in User
    /\ sessions \subseteq Token
    /\ stage \in [Calls -> {"new", "insert", "session", "touch", "save", "done"}]
    /\ work \in [Calls -> Work]
    /\ reply \in [Calls -> {"none", "ok", "error"}]
    /\ DOMAIN serial = DOMAIN users /\ \A i \in DOMAIN users : serial[i] \in User
    /\ overwritten \subseteq DOMAIN users
    /\ appointed \subseteq DOMAIN users

\* However registrations, restarts and seeds interleave, a user can be told apart
\* from every other by the email and by the username that they log in with.
UsersAreDistinct ==
    \A i, j \in DOMAIN users :
        users[i].email = users[j].email \/ users[i].name = users[j].name => i = j

\* Every token that a client was given has a session of its own.
TokenHasSession ==
    /\ Given \subseteq sessions
    /\ \A c, d \in {e \in Calls : work[e].kind = "login" /\ reply[e] = "ok"} :
          work[c].token = work[d].token => c = d

\* A user whose row was always saved over as it had been loaded has the
\* preferences and the last login that the committed operations gave it.
SerialUnlessOverwritten ==
    \A i \in DOMAIN users : i \notin overwritten => users[i] = serial[i]

\* An employee was seeded or was registered by an employee: no restart, race or
\* whole-row save makes one of a customer who registered alone.
EmployeesAreAppointed ==
    \A i \in DOMAIN users : users[i].role = "employee" => i \in appointed
=============================================================================
