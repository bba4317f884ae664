------------------------------ MODULE Session ------------------------------
(***************************************************************************)
(* Who is signed in: the AuthProvider of the two frontends.                *)
(*                                                                         *)
(* Every tab has its own provider, with the user and the token in its      *)
(* state.  The tabs of one frontend share the browser's localStorage,      *)
(* where the provider leaves the user and the token for the next page that *)
(* is loaded, and where apiRequest takes the token of every call from.  A  *)
(* provider reads it once, when it is mounted: a tab is not told when      *)
(* another one signs in or out.                                            *)
(*                                                                         *)
(* A token stands for its user, and is as good as the user is: what an     *)
(* expired token does is what a call that fails does.                      *)
(***************************************************************************)
CONSTANTS
    Users,
    Staff,      \* the users whose role is employee or admin
    Tabs,       \* the tabs of one browser
    StaffTabs,  \* those that show the employee frontend
    None

ASSUME SessionAssumption ==
    /\ Staff \subseteq Users
    /\ StaffTabs \subseteq Tabs
    /\ None \notin Users

VARIABLES
    stored,  \* frontend -> whose token and user are in its localStorage
    user,    \* tab -> the user (and the token) in the state of its provider
    ready    \* tab -> its provider has read localStorage, ~isLoading

session == <<stored, user, ready>>

Frontends == {"customer", "employee"}

Frontend(t) == IF t \in StaffTabs THEN "employee" ELSE "customer"

SessionType ==
    /\ stored \in [Frontends -> Users \cup {None}]
    /\ user \in [Tabs -> Users \cup {None}]
    /\ ready \in [Tabs -> BOOLEAN]

\* An earlier visit may have left a token.
SessionInit ==
    /\ stored \in [Frontends -> Users \cup {None}]
    /\ stored["employee"] \in Staff \cup {None}
    /\ user = [t \in Tabs |-> None]
    /\ ready = [t \in Tabs |-> FALSE]

\* The user whose token the next call of the tab carries.
Bearer(t) == stored[Frontend(t)]

-----------------------------------------------------------------------------
\* The provider of t is mounted: the page is loaded, or its locale has changed.
Mount(t) ==
    /\ user' = [user EXCEPT ![t] = None]
    /\ ready' = [ready EXCEPT ![t] = FALSE]
    /\ UNCHANGED stored

\* Its effect reads localStorage.
Restore(t) ==
    /\ ~ready[t]
    /\ user' = [user EXCEPT ![t] = stored[Frontend(t)]]
    /\ ready' = [ready EXCEPT ![t] = TRUE]
    /\ UNCHANGED stored

\* Mutant: the role is not looked at.
Admits_Anyone(t, u) == TRUE

\* The employee frontend refuses the token of a customer.
Admits(t, u) == t \in StaffTabs => u \in Staff

\* The service has accepted the credentials of u.
Enter(t, u) ==
    /\ user' = [user EXCEPT ![t] = u]
    /\ stored' = [stored EXCEPT ![Frontend(t)] = u]
    /\ UNCHANGED ready

Leave(t) ==
    /\ user' = [user EXCEPT ![t] = None]
    /\ stored' = [stored EXCEPT ![Frontend(t)] = None]
    /\ UNCHANGED ready
============================================================================
