--------------------------- MODULE CustomerPages ---------------------------
(***************************************************************************)
(* The pages of the customer frontend in one tab: what each of them        *)
(* fetches when it is mounted, what it lets the user do, and where it      *)
(* sends the user.                                                         *)
(*                                                                         *)
(* A page is mounted afresh whenever the user comes to it.  An answer for  *)
(* a page that is gone changes no state, but what its caller does outside  *)
(* of the page still happens: a sign-in stores its token and pushes the    *)
(* overview, and a request that was accepted pushes the list of accounts   *)
(* two seconds later, wherever the user is by then.                        *)
(*                                                                         *)
(* The services are here as far as the pages see them: who owns which      *)
(* account, which are favourites, and which have transactions.  A          *)
(* favourite is a column of the account's row: everybody who saves the row *)
(* writes the favourite that they have read with it.                       *)
(***************************************************************************)
EXTENDS Integers, FiniteSets, Session

CONSTANTS
    Here,      \* the tab
    Accounts,  \* numbers: the service lists the accounts of a user in this order
    Calls,     \* at most so many calls are in flight
    MaxActs    \* bound: the user, and the rest of the world, act so often

ASSUME CustomerPagesAssumption ==
    /\ Here \in Tabs \ StaffTabs
    /\ Accounts \subseteq Nat /\ None \notin Accounts
    /\ MaxActs \in Nat

VARIABLES
    page,     \* the page that the tab is on
    account,  \* the account of the detail page
    body,     \* the page's own data: loading, loaded or failed
    list,     \* the accounts in its state
    stars,    \* those that it marks as favourites
    history,  \* what the page fetches or shows of the transactions of an account
    panel,    \* the call of the right sidebar that is next, or 0, or 5 after the last
    form,     \* the form of the page: open, busy, sent or error
    timers,   \* how many timers will push the list of accounts, or reset the support form
    calls,    \* the other calls in flight
    owner,    \* account -> its owner at the account service, None if it is not open
    favourite, posted,  \* the favourites there, and the accounts with transactions
    acts,
    (***********************************************************************)
    (* Observations: no guard reads them.                                  *)
    (***********************************************************************)
    disturbed,  \* the accounts whose favourite went another way than the page counts on
    crossed     \* somebody else was signed in while the overview was mounted

screen       == <<page, account, body, list, stars, history, panel, form>>
services     == <<owner, favourite, posted>>
observations == <<disturbed, crossed>>
vars         == <<session, screen, timers, calls, services, acts, observations>>

\* The calls that load the row of an account and save it.
RowWrites == {"toggle", "save"}

Dashboard == {"overview", "accounts", "detail", "new", "support", "transactions", "desk"}

\* "home" is any public page, "desk" a dashboard page with nothing to fetch or to
\* send (settings, loans, transfer), "lost" the error of an unknown address, and
\* "crashed" that of a page that could not be rendered.
Pages == Dashboard \cup {"home", "login", "register", "lost", "crashed"}

\* Who waits for a call: the page that made it, only the tab since the page is
\* gone, or nobody, because the document is gone, nothing would come of the answer,
\* the page has lost the connection, or the call came from elsewhere.  A "save"
\* is a deposit, a withdrawal or a change of status.  "owned" and "starred" are the
\* answer to a list; a toggle and a save keep what the service has read in "starred".
Call == [kind : {"list", "toggle", "save", "request", "enter", "register"},
         stage : {"idle", "sent", "read", "answered", "failed"},
         heard : {"page", "tab", "nobody"}, who : Users \cup {None},
         on : Accounts \cup {None}, owned : SUBSET Accounts, starred : SUBSET Accounts]

Idle == [kind |-> "list", stage |-> "idle", heard |-> "nobody", who |-> None, on |-> None,
         owned |-> {}, starred |-> {}]

Active == {c \in Calls : calls[c].stage # "idle"}

\* The toggles of a that the page waits for.
Toggles(a) == {c \in Active : /\ calls[c].kind = "toggle" /\ calls[c].on = a
                              /\ calls[c].heard = "page"}

User == user[Here]

Owned(u) == {a \in Accounts : owner[a] = u}

First(S) == CHOOSE a \in S : \A b \in S : a <= b

Init ==
    /\ SessionInit
    /\ page = "home" /\ account = None
    /\ body = "loaded" /\ list = {} /\ stars = {} /\ history = "none" /\ panel = 0
    /\ form = "open"
    /\ timers = [push |-> 0, reset |-> 0]
    /\ calls = [c \in Calls |-> Idle]
    /\ owner \in [Accounts -> Users \cup {None}]
    /\ favourite = {}
    /\ posted \in SUBSET {a \in Accounts : owner[a] # None}
    /\ acts = 0
    /\ disturbed = {} /\ crossed = FALSE

-----------------------------------------------------------------------------
Act == acts < MaxActs /\ acts' = acts + 1

\* Mutant: the answer to a list still finds a page to set the state of.
Left_Mounted(c) == IF c.kind = "list" THEN c ELSE [c EXCEPT !.heard = "tab"]

\* A call of a page that is left: nothing comes of the answer to a list, and outside
\* of the page nothing comes of that to a toggle.
Left(c) == IF c.kind = "list" \/ c.stage = "idle" THEN Idle
           ELSE IF c.heard = "page"
                   THEN [c EXCEPT !.heard = IF c.kind = "toggle" THEN "nobody" ELSE "tab"]
                   ELSE c

\* A call of a document that is left: the rows are saved all the same.
Dropped(c) == IF c.kind \notin RowWrites \/ c.stage = "idle" THEN Idle
              ELSE [c EXCEPT !.heard = "nobody"]

\* The list that page p fetches when it has user u.
Asks(p, u) ==
    IF p \in {"overview", "accounts"} /\ u # None
       THEN {[Idle EXCEPT !.kind = "list", !.stage = "sent", !.heard = "page", !.who = u]}
       ELSE {}

Send(present, S) ==
    IF S = {} THEN calls' = present
    ELSE \E c \in Calls, call \in S :
            present[c].stage = "idle" /\ calls' = [present EXCEPT ![c] = call]

\* The page of all transactions names no account, and its history waits forever.
HistoryOf(p, u) == CASE p = "transactions" -> "unasked"
                     [] p = "detail" /\ u # None -> "account"
                     [] OTHER -> "none"

\* The overview shows its layout, with the sidebars, only when it has loaded.
PanelOf(p, u) == IF p \in Dashboard \ {"overview"} /\ u # None THEN 1 ELSE 0

\* Page p (of account a) is mounted for u: its state is new, its effects fetch.
Open(p, a, u, present) ==
    /\ page' = p /\ account' = a
    /\ body' = IF p \in {"overview", "accounts", "detail"} THEN "loading" ELSE "loaded"
    /\ list' = {} /\ stars' = {}
    /\ history' = HistoryOf(p, u)
    /\ panel' = PanelOf(p, u)
    /\ form' = "open"
    /\ Send(present, Asks(p, u))
    /\ disturbed' = {} /\ crossed' = FALSE

\* A push or a link to another page.
Go(p, a) ==
    /\ p # page
    /\ Open(p, a, User, [c \in Calls |-> Left(calls[c])])

\* The address is entered, or the page loaded again.
Load(p, a) ==
    /\ Act
    /\ p # "crashed" /\ (p = "detail" <=> a # None)
    /\ Mount(Here)
    /\ Open(p, a, None, [c \in Calls |-> Dropped(calls[c])])
    /\ timers' = [push |-> 0, reset |-> 0]
    /\ UNCHANGED services

\* The provider has read localStorage; a user it finds starts the effects.
Start ==
    /\ Restore(Here)
    /\ history' = IF user'[Here] = None THEN history ELSE HistoryOf(page, user'[Here])
    /\ panel' = PanelOf(page, user'[Here])
    /\ Send(calls, Asks(page, user'[Here]))
    /\ UNCHANGED <<page, account, body, list, stars, form, timers, services, acts, observations>>

\* Mutant: the overview does not look whether somebody is signed in.
Guard_NotOverview ==
    /\ ready[Here] /\ User = None /\ page \in Dashboard \ {"overview"}
    /\ Go("login", None)
    /\ timers' = [timers EXCEPT !.reset = 0]
    /\ UNCHANGED <<session, services, acts>>

\* A dashboard page without a user: the layout pushes the login page, and the
\* overview then the home page.
Guard ==
    /\ ready[Here] /\ User = None /\ page \in Dashboard
    /\ Go(IF page = "overview" THEN "home" ELSE "login", None)
    /\ timers' = [timers EXCEPT !.reset = 0]
    /\ UNCHANGED <<session, services, acts>>

-----------------------------------------------------------------------------
\* The layout, and with it the menu, is there.
MenuShown == page \in Dashboard /\ User # None /\ (page = "overview" => body # "loading")

\* The header of the public pages.
PublicLinks == {"home", "login"}

MenuLinks == {"overview", "accounts", "desk", "support"}

\* The cards of the overview lack the locale.
OverviewLinks == {p \in {"lost"} : list # {}}

AccountsLinks == {p \in {"new"} : body # "loading"} \cup {p \in {"detail"} : list # {}}

\* Where the links of the page lead.  The way back from the account is taken to be
\* the one the user came.
Links ==
    (IF MenuShown THEN MenuLinks ELSE {})
    \cup (CASE page \in {"home", "login", "register"} -> PublicLinks
             [] page = "overview" /\ MenuShown -> OverviewLinks
             [] page = "accounts" /\ MenuShown -> AccountsLinks
             [] OTHER -> {})

Follow(p, a) ==
    /\ Act
    /\ p \in Links /\ (IF p = "detail" THEN a \in list ELSE a = None)
    /\ Go(p, a)
    /\ timers' = [timers EXCEPT !.reset = 0]
    /\ UNCHANGED <<session, services>>

SignOut ==
    /\ Act /\ MenuShown
    /\ Leave(Here)
    /\ UNCHANGED <<screen, timers, calls, services, observations>>

Toggled(S, a) == (S \ {a}) \cup ({a} \ S)

\* A star on the page of accounts: the page toggles it at once, the service then.
Toggle(a) ==
    /\ Act
    /\ page = "accounts" /\ User # None /\ body # "loading" /\ a \in list
    /\ stars' = Toggled(stars, a)
    /\ Send(calls, {[Idle EXCEPT !.kind = "toggle", !.stage = "sent", !.heard = "page", !.on = a]})
    /\ UNCHANGED <<session, page, account, body, list, history, panel, form, timers,
                   services, observations>>

FormEnabled == form \in {"open", "error"}

SubmitEntry(u) ==
    /\ Act
    /\ ready[Here] /\ page = "login" /\ FormEnabled
    /\ form' = "busy"
    /\ Send(calls, {[Idle EXCEPT !.kind = "enter", !.stage = "sent", !.heard = "page", !.who = u]})
    /\ UNCHANGED <<session, page, account, body, list, stars, history, panel, timers,
                   services, observations>>

\* The form of the register page would sign in the user it made, but the profile is
\* always refused (see Onboarding).
SubmitRegistration ==
    /\ Act
    /\ page = "register" /\ FormEnabled
    /\ form' = "busy"
    /\ Send(calls, {[Idle EXCEPT !.kind = "register", !.stage = "sent", !.heard = "page"]})
    /\ UNCHANGED <<session, page, account, body, list, stars, history, panel, timers,
                   services, observations>>

SubmitRequest ==
    /\ Act
    /\ page = "new" /\ User # None /\ FormEnabled
    /\ form' = "busy"
    /\ Send(calls, {[Idle EXCEPT !.kind = "request", !.stage = "sent", !.heard = "page"]})
    /\ UNCHANGED <<session, page, account, body, list, stars, history, panel, timers,
                   services, observations>>

\* The support form is sent nowhere, and is never disabled.
SubmitSupport ==
    /\ Act
    /\ page = "support" /\ User # None
    /\ form' = "sent"
    /\ timers' = [timers EXCEPT !.reset = @ + 1]
    /\ UNCHANGED <<session, page, account, body, list, stars, history, panel, calls,
                   services, observations>>

ResetSupport ==
    /\ timers.reset > 0
    /\ form' = "open"
    /\ timers' = [timers EXCEPT !.reset = @ - 1]
    /\ UNCHANGED <<session, page, account, body, list, stars, history, panel, calls,
                   services, acts, observations>>

\* Two seconds after a request was accepted, wherever the user is by then.
Redirect ==
    /\ timers.push > 0
    /\ IF page = "accounts"
          THEN /\ timers' = [timers EXCEPT !.push = @ - 1]
               /\ UNCHANGED <<screen, calls, observations>>
          ELSE /\ Go("accounts", None)
               /\ timers' = [push |-> timers.push - 1, reset |-> 0]
    /\ UNCHANGED <<session, services, acts>>

-----------------------------------------------------------------------------
\* The services: a list is read at once; a row is read, and then written as a whole;
\* a request is made, a user is signed in.
Serve(c) ==
    LET call == calls[c]
    IN  /\ call.stage = "sent" /\ call.kind # "register"
        /\ CASE call.kind = "list" ->
                   calls' = [calls EXCEPT ![c] =
                       [@ EXCEPT !.stage = "answered", !.owned = Owned(call.who),
                                 !.starred = Owned(call.who) \cap favourite]]
             [] call.kind = "toggle" ->
                   calls' = [calls EXCEPT ![c] =
                       [@ EXCEPT !.stage = "read", !.starred = {call.on} \cap favourite]]
             [] OTHER -> calls' = [calls EXCEPT ![c].stage = "answered"]
        /\ disturbed' = IF call.kind = "list" THEN {} ELSE disturbed
        /\ UNCHANGED <<session, screen, timers, services, acts, crossed>>

\* A toggle saves the opposite of the favourite it has read, any other save the same.
\* The page counts on its own toggles to change the favourite, and on no other call to.
Write(c) ==
    LET call  == calls[c]
        saved == IF call.kind = "toggle" THEN {call.on} \ call.starred ELSE call.starred
        hoped == IF c \in Toggles(call.on) THEN {call.on} \ favourite
                                           ELSE {call.on} \cap favourite
    IN  /\ call.stage = "read"
        /\ calls' = [calls EXCEPT ![c] =
               IF @.heard = "nobody" THEN Idle ELSE [@ EXCEPT !.stage = "answered", !.starred = {}]]
        /\ favourite' = (favourite \ {call.on}) \cup saved
        /\ disturbed' = disturbed \cup {a \in {call.on} : saved # hoped}
        /\ UNCHANGED <<session, screen, timers, owner, posted, acts, crossed>>

\* A call fails: it is refused, or lost on the way, or its answer is.
Fail(c) ==
    LET call == calls[c]
    IN  /\ call.stage \in {"sent", "read", "answered"}
        /\ calls' = [calls EXCEPT ![c] =
               IF @.heard = "nobody" THEN Idle
               ELSE [@ EXCEPT !.stage = "failed", !.owned = {}, !.starred = {}]]
        /\ disturbed' = disturbed \cup
              {a \in {call.on} : c \in Toggles(a) /\ call.stage = "answered"}
        /\ UNCHANGED <<session, screen, timers, services, acts, crossed>>

\* The page loses the connection and puts the star back; the service goes on.
GiveUp(c) ==
    /\ c \in Toggles(calls[c].on) /\ calls[c].stage \in {"sent", "read"}
    /\ stars' = Toggled(stars, calls[c].on)
    /\ calls' = [calls EXCEPT ![c].heard = "nobody"]
    /\ UNCHANGED <<session, page, account, body, list, history, panel, form, timers,
                   services, acts, observations>>

-----------------------------------------------------------------------------
Done(c) == [calls EXCEPT ![c] = Idle]

\* The overview has what it needs for its layout.
PanelStarts == panel' = IF page = "overview" /\ panel = 0 THEN 1 ELSE panel

\* The page of accounts and the overview have their list, or an error.  The
\* overview goes on with the history of the first account.
ReceiveList(c) ==
    LET call == calls[c]
    IN  /\ call.kind = "list" /\ call.stage = "answered"
        /\ list' = call.owned /\ stars' = call.starred
        /\ body' = "loaded"
        /\ history' = IF page = "overview" /\ call.owned # {} THEN "sent" ELSE "none"
        /\ PanelStarts
        /\ calls' = Done(c)
        /\ UNCHANGED <<session, page, account, form, timers, services, acts, observations>>

MissList(c) ==
    /\ calls[c].kind = "list" /\ calls[c].stage = "failed"
    /\ body' = "failed"
    /\ PanelStarts
    /\ calls' = Done(c)
    /\ UNCHANGED <<session, page, account, list, stars, history, form, timers, services, acts,
                   observations>>

\* Mutant: an error does not put the star back.
ReceiveToggle_Keeps(c) ==
    /\ calls[c].kind = "toggle" /\ calls[c].stage \in {"answered", "failed"}
    /\ calls' = Done(c)
    /\ UNCHANGED <<session, screen, timers, services, acts, observations>>

\* Mutant: the star is put back on a page that was mounted since.
ReceiveToggle_Anywhere(c) ==
    LET call == calls[c]
    IN  /\ call.kind = "toggle" /\ call.stage \in {"answered", "failed"}
        /\ stars' = IF call.stage = "failed" THEN Toggled(stars, call.on) ELSE stars
        /\ calls' = Done(c)
        /\ UNCHANGED <<session, page, account, body, list, history, panel, form, timers,
                       services, acts, observations>>

\* The page has toggled the star already; an error toggles it back.
ReceiveToggle(c) ==
    LET call == calls[c]
    IN  /\ call.kind = "toggle" /\ call.stage \in {"answered", "failed"}
        /\ stars' = IF call.stage = "failed" /\ c \in Toggles(call.on)
                       THEN Toggled(stars, call.on) ELSE stars
        /\ calls' = Done(c)
        /\ UNCHANGED <<session, page, account, body, list, history, panel, form, timers,
                       services, acts, observations>>

\* The answer to a form, if it is still there.
Answer(c, f) == form' = IF calls[c].heard = "page" THEN f ELSE form

ReceiveRequest(c) ==
    LET call == calls[c]
    IN  /\ call.kind = "request" /\ call.stage \in {"answered", "failed"}
        /\ Answer(c, IF call.stage = "answered" THEN "sent" ELSE "error")
        /\ timers' = IF call.stage = "answered" THEN [timers EXCEPT !.push = @ + 1] ELSE timers
        /\ calls' = Done(c)
        /\ UNCHANGED <<session, page, account, body, list, stars, history, panel,
                       services, acts, observations>>

RefuseEntry(c) ==
    /\ calls[c].kind \in {"enter", "register"} /\ calls[c].stage = "failed"
    /\ Answer(c, "error")
    /\ calls' = Done(c)
    /\ UNCHANGED <<session, page, account, body, list, stars, history, panel, timers,
                   services, acts, observations>>

\* The token is stored and the overview pushed, wherever the user is by now.  An
\* overview that is there already stays, and fetches for its new user.
ReceiveEntry(c) ==
    LET u == calls[c].who
    IN  /\ calls[c].kind = "enter" /\ calls[c].stage = "answered"
        /\ Enter(Here, u)
        /\ IF page = "overview"
              THEN /\ Send(Done(c), Asks(page, u))
                   /\ panel' = IF body = "loading" THEN 0 ELSE 1
                   /\ crossed' = (crossed \/ User # u)
                   /\ UNCHANGED <<page, account, body, list, stars, history, form, timers,
                                  disturbed>>
              ELSE /\ Open("overview", None, u, [d \in Calls |-> Left(Done(c)[d])])
                   /\ timers' = [timers EXCEPT !.reset = 0]
        /\ UNCHANGED <<services, acts>>

Receive(c) ==
    \/ ReceiveList(c) \/ MissList(c) \/ ReceiveToggle(c)
    \/ ReceiveRequest(c) \/ ReceiveEntry(c) \/ RefuseEntry(c)

-----------------------------------------------------------------------------
\* The right sidebar: the profile, then the manager if the profile names one, the
\* accounts, and the number of transactions of each.  Without a profile or a
\* manager it goes on, without the accounts or a number it ends.
PanelStep ==
    /\ panel' \in CASE panel = 1 -> {2, 3}
                    [] panel = 2 -> {3}
                    [] panel = 3 -> {4, 5}
                    [] panel = 4 -> {5}
                    [] OTHER -> {}
    /\ UNCHANGED <<session, page, account, body, list, stars, history, form, timers, calls,
                   services, acts, observations>>

\* The detail page: the account, and then its transactions.  They come in a record
\* that the page takes for an array, so it always finds none.
DetailStep ==
    /\ page = "detail" /\ history \in {"account", "sent"}
    /\ \/ history = "account" /\ history' = "sent" /\ UNCHANGED body
       \/ history = "sent" /\ history' = "empty" /\ body' = "loaded"
       \/ history' = "failed" /\ body' = "failed"
    /\ UNCHANGED <<session, page, account, list, stars, panel, form, timers, calls,
                   services, acts, observations>>

\* The history on the overview: it looks in every transaction for fields that the
\* service does not send, so one is enough to throw while it is rendered.
HistoryStep ==
    /\ page = "overview" /\ history = "sent"
    /\ \/ /\ First(list) \in posted
          /\ Go("crashed", None)
          /\ UNCHANGED timers
       \/ /\ \/ history' = "empty" /\ First(list) \notin posted
             \/ history' = "failed"
          /\ UNCHANGED <<page, account, body, list, stars, panel, form, timers, calls, observations>>
    /\ UNCHANGED <<session, services, acts>>

-----------------------------------------------------------------------------
\* The rest of the world: an account is opened, its row saved or its favourite toggled
\* by a call from elsewhere, and another tab of the browser signs in or out.
OpenAccount(a, u) ==
    /\ Act
    /\ owner[a] = None
    /\ owner' = [owner EXCEPT ![a] = u]
    /\ UNCHANGED <<session, screen, timers, calls, favourite, posted, observations>>

\* Its handler has read the row.
SaveElsewhere(k, a) ==
    /\ Act
    /\ owner[a] # None
    /\ Send(calls, {[Idle EXCEPT !.kind = k, !.stage = "read", !.on = a,
                                 !.starred = {a} \cap favourite]})
    /\ UNCHANGED <<session, screen, timers, services, observations>>

EnterElsewhere(u) ==
    /\ Act
    /\ stored["customer"] # u
    /\ stored' = [stored EXCEPT !["customer"] = u]
    /\ UNCHANGED <<user, ready, screen, timers, calls, services, observations>>

-----------------------------------------------------------------------------
UserActs ==
    \/ SignOut \/ SubmitRegistration \/ SubmitRequest \/ SubmitSupport
    \/ \E p \in Pages, a \in Accounts \cup {None} : Load(p, a) \/ Follow(p, a)
    \/ \E a \in Accounts : Toggle(a)
    \/ \E u \in Users : SubmitEntry(u)

WorldActs ==
    \/ \E a \in Accounts : \/ \E k \in RowWrites : SaveElsewhere(k, a)
                          \/ \E u \in Users : OpenAccount(a, u)
    \/ \E u \in Users \cup {None} : EnterElsewhere(u)

Next ==
    \/ UserActs \/ WorldActs
    \/ Start \/ Guard \/ ResetSupport \/ Redirect
    \/ PanelStep \/ DetailStep \/ HistoryStep
    \/ \E c \in Calls : Serve(c) \/ Write(c) \/ Fail(c) \/ GiveUp(c) \/ Receive(c)

\* Effects run, timers fire, and calls end, with an answer or an error.
Fairness ==
    /\ WF_vars(Start) /\ WF_vars(Guard) /\ WF_vars(Redirect) /\ WF_vars(ResetSupport)
    /\ WF_vars(PanelStep) /\ WF_vars(DetailStep) /\ WF_vars(HistoryStep)
    /\ \A c \in Calls : /\ WF_vars(Serve(c) \/ Write(c) \/ Fail(c))
                        /\ WF_vars(Receive(c))

Spec == Init /\ [][Next]_vars /\ Fairness

-----------------------------------------------------------------------------
TypeOK ==
    /\ SessionType
    /\ page \in Pages
    /\ account \in Accounts \cup {None}
    /\ body \in {"loading", "loaded", "failed"}
    /\ list \subseteq Accounts /\ stars \subseteq list
    /\ history \in {"none", "unasked", "account", "sent", "empty", "failed"}
    /\ panel \in 0..5
    /\ form \in {"open", "busy", "sent", "error"}
    /\ timers \in [{"push", "reset"} -> 0..MaxActs]
    /\ calls \in [Calls -> Call]
    /\ owner \in [Accounts -> Users \cup {None}]
    /\ favourite \subseteq Accounts /\ posted \subseteq Accounts
    /\ acts \in 0..MaxActs
    /\ disturbed \subseteq Accounts /\ crossed \in BOOLEAN

\* The page of accounts and the overview show accounts of the user that is signed
\* in, however the answers of pages that were left come in, except when a sign-in
\* as somebody else arrives on the overview.
OwnAccountsShown ==
    page \in {"overview", "accounts"} /\ User # None /\ ~crossed => list \subseteq Owned(User)

\* When the page has heard of its toggles, a star is where the service has a favourite,
\* after any number of toggles that overlap, fail or are lost, and whatever saves come
\* between.  Not so only for an account where, since the list was read, a call from
\* elsewhere or one that the page has lost did change the favourite, a toggle of the page
\* did not, because of a save that had read the row before, or its answer was lost.
StarsAgree ==
    \A a \in list \ disturbed :
        page = "accounts" /\ Toggles(a) = {} => (a \in stars <=> a \in favourite)

\* Once the user waits, no dashboard page is left with a spinner or without a user:
\* it has all it fetches or the errors, or the tab is on another page.  The page of
\* all transactions, which spins forever, is not among them.
Settled ==
    /\ User # None
    /\ body # "loading" /\ history \notin {"account", "sent"} /\ panel = 5

PagesSettle ==
    page \in Dashboard \ {"transactions"} ~> (page \notin Dashboard \ {"transactions"} \/ Settled)
============================================================================
