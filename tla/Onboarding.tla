----------------------------- MODULE Onboarding -----------------------------
(***************************************************************************)
(* Making a customer: the registration page of the customer frontend and   *)
(* the onboarding page of the employee frontend, over the auth service and *)
(* the customer service.                                                   *)
(*                                                                         *)
(* Both pages register a user at the auth service, which asks for no       *)
(* token, and then create the profile at the customer service, which asks  *)
(* for an employee's.  Nothing ties the two calls together or undoes the   *)
(* first when the second fails, and the form starts with the first again.  *)
(* The customer service asks the auth service for a relationship manager   *)
(* and does without one when it gets no answer in time.                    *)
(*                                                                         *)
(* A page may lose its call at any time and show an error while the        *)
(* handler goes on: the registration, the lookup of the manager or the     *)
(* insert may still take effect.  The auth service's own steps are the     *)
(* subject of AuthService: registering a user is one step here.            *)
(***************************************************************************)
CONSTANTS
    Forms,       \* the open pages
    Emails,      \* the emails, and the ids of the users registered with them
    Staff,       \* the users who may become employees
    Placeholder  \* the manager of those who have none

ASSUME PlaceholderAssumption == Placeholder \notin Staff /\ Placeholder \notin Emails

ASSUME StaffAssumption == Staff \cap Emails = {}

Pages == {"register", "onboard"}

\* The role in the token that the browser sends; "none" when it has no valid one.
Tokens == {"none", "customer", "employee", "admin"}

VARIABLES
    page,       \* form -> the page it is on
    email,      \* form -> the email it is filled in with
    token,      \* form -> the token in its browser
    stage,      \* form -> what it shows or waits for
    calls,      \* the calls that the two services have not ended yet
    users,      \* the emails that are registered
    profiles,   \* the rows of customer.customers
    employees,  \* the employees that the auth service lists
    (***********************************************************************)
    (* Observation: no guard reads it.                                     *)
    (***********************************************************************)
    registrar   \* email -> the form that registered it

browser  == <<page, email, token, stage>>
services == <<users, profiles, employees, registrar>>
vars     == <<browser, calls, services>>

\* A call that registers a user, or makes the profile: of which form, how far it is,
\* the token it was sent with, the manager found for it, and whether the page still
\* waits for it.
Call == [form : Forms, user : Emails, at : {"register", "arrive", "manager", "insert"},
         token : Tokens, manager : Staff \cup {Placeholder}, heard : BOOLEAN]

\* A profile, with the form whose data it holds.
Profile == [user : Emails, manager : Staff \cup {Placeholder}, form : Forms]

\* The employee frontend lets employees and admins in, the customer frontend
\* everybody.  The default employee may be there or not.
Init ==
    /\ page \in [Forms -> Pages]
    /\ email \in [Forms -> Emails]
    /\ token \in [Forms -> Tokens]
    /\ \A f \in Forms : page[f] = "onboard" => token[f] \in {"employee", "admin"}
    /\ stage = [f \in Forms |-> "form"]
    /\ calls = {}
    /\ users = {}
    /\ profiles = {}
    /\ employees = {}
    /\ registrar = [e \in {} |-> Placeholder]

GoTo(f, s) == stage' = [stage EXCEPT ![f] = s]

\* The page that still waits for a call hears how it ended.
Hear(c, s) == stage' = [stage EXCEPT ![c.form] = IF c.heard THEN s ELSE @]

Ended(c) == calls' = calls \ {c}

GoesOn(c, d) == calls' = (calls \ {c}) \cup {d}

-----------------------------------------------------------------------------
(***************************************************************************)
(* The browser.                                                            *)
(***************************************************************************)
\* The fields can be edited until the form is sent, and again after an error.
Submit(f) ==
    /\ stage[f] = "form"
    /\ \E e \in Emails :
          /\ email' = [email EXCEPT ![f] = e]
          /\ calls' = calls \cup {[form |-> f, user |-> e, at |-> "register", token |-> "none",
                                    manager |-> Placeholder, heard |-> TRUE]}
    /\ GoTo(f, "register")
    /\ UNCHANGED <<page, token, services>>

\* The connection is lost, or the page is loaded again: the form is as it was, and
\* the handler of the call goes on.
GiveUp(f) ==
    /\ stage[f] \in {"register", "profile"}
    /\ GoTo(f, "form")
    /\ calls' = {[c EXCEPT !.heard = @ /\ c.form # f] : c \in calls}
    /\ UNCHANGED <<page, email, token, services>>

\* A token is valid for 15 minutes and is not refreshed; or the user logs out.
Expire(f) ==
    /\ token[f] # "none"
    /\ token' = [token EXCEPT ![f] = "none"]
    /\ UNCHANGED <<page, email, stage, calls, services>>

-----------------------------------------------------------------------------
(***************************************************************************)
(* The two calls, at the auth service and at the customer service.         *)
(***************************************************************************)
RegisterUser(f, e) ==
    /\ users' = users \cup {e}
    /\ registrar' = [d \in users' |-> IF d \in users THEN registrar[d] ELSE f]
    /\ UNCHANGED <<profiles, employees>>

\* The page that hears of it sends the second call, with the token of that moment.
SendProfile(c) ==
    IF c.heard
    THEN GoesOn(c, [c EXCEPT !.at = "arrive", !.token = token[c.form]])
    ELSE Ended(c)

\* Mutant: a user who is registered already is returned.
Registered_Again(c) ==
    /\ c.at = "register"
    /\ RegisterUser(c.form, c.user)
    /\ Hear(c, "profile")
    /\ SendProfile(c)
    /\ UNCHANGED <<page, email, token>>

Registered(c) ==
    /\ c.at = "register"
    /\ c.user \notin users
    /\ RegisterUser(c.form, c.user)
    /\ Hear(c, "profile")
    /\ SendProfile(c)
    /\ UNCHANGED <<page, email, token>>

\* AuthMiddleware and RoleMiddleware("employee"): an admin is not let in.
LetIn(c) ==
    /\ c.at = "arrive"
    /\ c.token = "employee"
    /\ GoesOn(c, [c EXCEPT !.at = "manager"])
    /\ UNCHANGED <<browser, services>>

\* Mutant: all users are listed.
Listed_Everybody == employees \cup users

\* ListUsers of the auth service, with role = "employee".
Listed == employees

\* The first of the list, which comes in no particular order.
FindManager(c) ==
    /\ c.at = "manager"
    /\ \E m \in Listed : GoesOn(c, [c EXCEPT !.at = "insert", !.manager = m])
    /\ UNCHANGED <<browser, services>>

\* There is no employee, the call fails, or it takes longer than five seconds.
NoManager(c) ==
    /\ c.at = "manager"
    /\ GoesOn(c, [c EXCEPT !.at = "insert"])
    /\ UNCHANGED <<browser, services>>

\* A profile's country has two letters; the registration page sends "Denmark".
\* user_id is unique.
Insertable(c) ==
    /\ page[c.form] = "onboard"
    /\ \A p \in profiles : p.user # c.user

Created(c) ==
    /\ c.at = "insert"
    /\ Insertable(c)
    /\ profiles' = profiles \cup {[user |-> c.user, manager |-> c.manager, form |-> c.form]}
    /\ Hear(c, "success")
    /\ Ended(c)
    /\ UNCHANGED <<page, email, token, users, employees, registrar>>

\* Mutant: the page takes the error of the second call for a success.
CallFails_Success(c) ==
    /\ Hear(c, IF c.at = "insert" THEN "success" ELSE "form")
    /\ Ended(c)
    /\ UNCHANGED <<page, email, token, services>>

\* The email is taken, the token is refused, the row is refused, or a service or its
\* database fails, at any step: the page shows an error and the form is as it was.
CallFails(c) ==
    /\ Hear(c, "form")
    /\ Ended(c)
    /\ UNCHANGED <<page, email, token, services>>

-----------------------------------------------------------------------------
\* An employee is seeded or registered.
Hire(e) ==
    /\ employees' = employees \cup {e}
    /\ UNCHANGED <<browser, calls, users, profiles, registrar>>

-----------------------------------------------------------------------------
\* A call goes on.
Handle(c) ==
    \/ Registered(c) \/ LetIn(c) \/ FindManager(c) \/ NoManager(c) \/ Created(c)
    \/ CallFails(c)

Next ==
    \/ \E f \in Forms : Submit(f) \/ GiveUp(f) \/ Expire(f)
    \/ \E c \in calls : Handle(c)
    \/ \E e \in Staff : Hire(e)

\* The call that a page waits for: it is answered, or its connection is lost.
Heard(f) == {c \in calls : c.form = f /\ c.heard}

Fairness == \A f \in Forms : WF_vars(GiveUp(f) \/ \E c \in Heard(f) : Handle(c))

Spec == Init /\ [][Next]_vars /\ Fairness

\* The user of the form tries again and again, and no call fails for ever.
Persistence ==
    \A f \in Forms :
        /\ WF_vars(Submit(f))
        /\ SF_vars(\E c \in Heard(f) : Registered(c))
        /\ SF_vars(\E c \in Heard(f) : LetIn(c))
        /\ SF_vars(\E c \in Heard(f) : Created(c))

PersistentSpec == Spec /\ Persistence

-----------------------------------------------------------------------------
(***************************************************************************)
(* Properties.                                                             *)
(***************************************************************************)
ProfileOf(e) == {p \in profiles : p.user = e}

\* Every variable has its type.
TypeOK ==
    /\ page \in [Forms -> Pages]
    /\ email \in [Forms -> Emails]
    /\ token \in [Forms -> Tokens]
    /\ stage \in [Forms -> {"form", "register", "profile", "success"}]
    /\ calls \subseteq Call
    /\ users \subseteq Emails
    /\ profiles \subseteq Profile
    /\ employees \subseteq Staff
    /\ DOMAIN registrar = users
    /\ \A e \in users : registrar[e] \in Forms

\* A user has one profile at most, and it holds the data of the form that
\* registered the user: two forms with one email, or a form that is sent again,
\* never give a user the profile of somebody else.
ProfileByRegistrar ==
    \A p \in profiles :
        /\ p.user \in users
        /\ p.form = registrar[p.user]
        /\ ProfileOf(p.user) = {p}

\* When a page reports a success the user and the profile are both there, at
\* the two services, and both are of this form.
SuccessIsComplete ==
    \A f \in Forms :
        stage[f] = "success" =>
            /\ email[f] \in users
            /\ \E p \in ProfileOf(email[f]) : p.form = f

\* The manager of a profile is an employee or the placeholder, however late the
\* auth service answers and whoever registers in the meantime.
ManagerIsKnown == \A p \in profiles : p.manager \in employees \cup {Placeholder}

\* Registered, without a profile, and with no call under way that could make one.
Stranded(e) ==
    /\ e \in users
    /\ ProfileOf(e) = {}
    /\ \A c \in calls : c.user = e => c.at = "register"

\* A user whose registration broke off between the services never gets a
\* profile: not from the same form sent again, nor from any other, nor from a
\* registration that is still under way.
StrandedForGood == [][\A e \in Emails : Stranded(e) => Stranded(e)']_vars

\* "Unable to connect to the server. Please check your connection and try again."
\* says the onboarding page of a call that it lost.  Here an employee who stays logged
\* in and tries again gets a customer made in the end, with an email of their own that
\* they do not change.  The code does not do this: after a first call that succeeded
\* every further one is refused.
TryAgainHelps ==
    \A f \in Forms :
        page[f] = "onboard" /\ [](token[f] = "employee")
            => (stage[f] = "register" ~> ProfileOf(email[f]) # {})
=============================================================================
