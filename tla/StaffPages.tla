----------------------------- MODULE StaffPages -----------------------------
(***************************************************************************)
(* The employee frontend in the tabs of one browser, and the account       *)
(* service's requests (AccountRequests) that its widget decides.           *)
(*                                                                         *)
(* A wrapper around every page sends who is not signed in to the login     *)
(* page, and mounts the page only for a user.  The home page has the       *)
(* widget: it lists the pending requests when it is mounted and when it is *)
(* refreshed, and sends one decision at a time.  The service asks for no   *)
(* token: who may decide is up to the login page.                          *)
(*                                                                         *)
(* What was begun on a page goes on when the page is left: a decision is   *)
(* made, a customer is onboarded and, three seconds later, the list of     *)
(* customers pushed.                                                       *)
(*                                                                         *)
(* The other pages show fixed data and call nothing: they are "desk".      *)
(***************************************************************************)
EXTENDS Integers, Session

CONSTANTS
    Forms, Calls, Nobody,  \* as in AccountRequests; every call is one decision
    Fetches,   \* at most so many lists are being fetched
    Jobs,      \* at most so many logins and onboardings are under way
    Routed,    \* whether the address of the list, "/requests/", is one of the service
    MaxActs    \* bound: the employees act so often

ASSUME StaffPagesAssumption ==
    /\ StaffTabs = Tabs
    /\ Forms # {} /\ None \notin Forms \cup Tabs
    /\ Nobody \notin Calls
    /\ Routed \in BOOLEAN
    /\ MaxActs \in Nat

VARIABLES
    requests, accounts, stage, work, reply, contested, decisions,  \* AccountRequests
    page,        \* tab -> its page
    form,        \* tab -> the form of the login page or the onboarding page
    rows,        \* tab -> the requests that its widget lists
    loading,     \* tab -> the widget's isLoading
    processing,  \* tab -> the widget's processingId
    fetches,     \* the lists that are being fetched
    sent,        \* call -> the decision that a widget has sent
    jobs,        \* the logins and the onboardings under way
    pushes,      \* tab -> the timers that will push the list of customers
    acts,
    (***********************************************************************)
    (* Observations: no guard reads them.                                  *)
    (***********************************************************************)
    told,        \* tab -> the requests that its widget was told it had decided
    overtaken,   \* tab -> those of them that a list then in flight may bring back
    crossed      \* the requests with a decision sent while another was under way
                 \* whose answer this widget did not await

service      == <<requests, accounts, stage, work, reply, contested, decisions>>
widget       == <<rows, loading, processing, fetches, told, overtaken>>
vars         == <<session, service, page, form, widget, sent, jobs, pushes, acts, crossed>>

R == INSTANCE AccountRequests

Pages == {"home", "customers", "onboard", "desk", "login"}

\* A list: "sent", then "answered" with the pending requests.
Fetch == [tab : Tabs \cup {None}, stage : {"idle", "sent", "answered"}, rows : SUBSET Forms]

IdleFetch == [tab |-> None, stage |-> "idle", rows |-> {}]

\* A decision, by the user of a tab.  The tab is None when its widget does not await
\* the answer: it had one, or is gone.
Decision == [tab : Tabs \cup {None}, form : Forms \cup {None},
             to : {"none", "approved", "rejected"}, who : Users \cup {None}]

Unsent == [tab |-> None, form |-> None, to |-> "none", who |-> None]

\* A login or an onboarding, whose form may still be there to hear of it.
Job == [kind : {"idle", "enter", "onboard"}, tab : Tabs \cup {None},
        who : Users \cup {None}, heard : BOOLEAN]

IdleJob == [kind |-> "idle", tab |-> None, who |-> None, heard |-> FALSE]

Init ==
    /\ SessionInit /\ stored["customer"] = None
    /\ R!Init
    /\ page = [t \in Tabs |-> "home"]
    /\ form = [t \in Tabs |-> "open"]
    /\ rows = [t \in Tabs |-> {}]
    /\ loading = [t \in Tabs |-> TRUE]
    /\ processing = [t \in Tabs |-> None]
    /\ fetches = [s \in Fetches |-> IdleFetch]
    /\ sent = [c \in Calls |-> Unsent]
    /\ jobs = [j \in Jobs |-> IdleJob]
    /\ pushes = [t \in Tabs |-> 0]
    /\ acts = 0
    /\ told = [t \in Tabs |-> {}]
    /\ overtaken = [t \in Tabs |-> {}]
    /\ crossed = {}

-----------------------------------------------------------------------------
Act == acts < MaxActs /\ acts' = acts + 1

\* The widget of t is mounted.
Shown(t) == page[t] = "home" /\ user[t] # None

\* fetchRequests: one more list, beside those that present has.
Ask(t, present) ==
    /\ \E s \in Fetches :
          /\ present[s].stage = "idle"
          /\ fetches' = [present EXCEPT ![s] = [IdleFetch EXCEPT !.tab = t, !.stage = "sent"]]
    /\ loading' = [loading EXCEPT ![t] = TRUE]

\* What t had fetched is of no use when its widget is gone.
FetchesWithout(t) ==
    [s \in Fetches |-> IF fetches[s].tab = t THEN IdleFetch ELSE fetches[s]]

\* t is on page p with a new page, and a new widget if it is the home page of
\* somebody.  A job on the old page goes on unheard.
Turn(t, p, somebody) ==
    /\ page' = [page EXCEPT ![t] = p]
    /\ form' = [form EXCEPT ![t] = "open"]
    /\ rows' = [rows EXCEPT ![t] = {}]
    /\ processing' = [processing EXCEPT ![t] = None]
    /\ IF p = "home" /\ somebody
          THEN Ask(t, FetchesWithout(t))
          ELSE /\ fetches' = FetchesWithout(t)
               /\ loading' = [loading EXCEPT ![t] = TRUE]
    /\ sent' = [c \in Calls |-> [sent[c] EXCEPT !.tab = IF @ = t THEN None ELSE @]]
    /\ told' = [told EXCEPT ![t] = {}]
    /\ overtaken' = [overtaken EXCEPT ![t] = {}]

JobsUnheard(t) == [j \in Jobs |-> [jobs[j] EXCEPT !.heard = @ /\ jobs[j].tab # t]]

JobsWithout(t) == [j \in Jobs |-> IF jobs[j].tab = t THEN IdleJob ELSE jobs[j]]

-----------------------------------------------------------------------------
\* The address is entered, or the page loaded again: its calls and timers are lost.
Load(t, p) ==
    /\ Act
    /\ Mount(t)
    /\ Turn(t, p, FALSE)
    /\ jobs' = JobsWithout(t)
    /\ pushes' = [pushes EXCEPT ![t] = 0]
    /\ UNCHANGED <<service, crossed>>

\* The provider has read localStorage, and the wrapper shows the page if there is a user.
Start(t) ==
    /\ Restore(t)
    /\ IF page[t] = "home" /\ user'[t] # None THEN Ask(t, fetches) ELSE UNCHANGED <<fetches, loading>>
    /\ UNCHANGED <<service, page, form, rows, processing, told, overtaken, sent, jobs, pushes,
                   acts, crossed>>

\* The wrapper: nobody is signed in.
Guard(t) ==
    /\ ready[t] /\ user[t] = None /\ page[t] # "login"
    /\ Turn(t, "login", FALSE)
    /\ jobs' = JobsUnheard(t)
    /\ UNCHANGED <<session, service, pushes, acts, crossed>>

\* The menu and the shortcuts are on every page but the login page.
MenuShown(t) == user[t] # None /\ page[t] # "login"

Menu == {"home", "customers", "desk"}

Shortcuts == {"onboard", "customers"}

\* The best customers on the home page, and the list of them, lead to one's page.
HomeLinks == {"customers", "desk"}

ListLinks == {"desk"}

Links(p) == Menu \cup Shortcuts
            \cup (CASE p = "home" -> HomeLinks [] p = "customers" -> ListLinks [] OTHER -> {})

Follow(t, p) ==
    /\ Act
    /\ MenuShown(t) /\ p \in Links(page[t]) /\ p # page[t]
    /\ Turn(t, p, TRUE)
    /\ jobs' = JobsUnheard(t)
    /\ UNCHANGED <<session, service, pushes, crossed>>

SignOut(t) ==
    /\ Act
    /\ MenuShown(t)
    /\ Leave(t)
    /\ Turn(t, "login", FALSE)
    /\ jobs' = JobsUnheard(t)
    /\ UNCHANGED <<service, pushes, crossed>>

\* Three seconds after a customer was onboarded.
Redirect(t) ==
    /\ pushes[t] > 0
    /\ pushes' = [pushes EXCEPT ![t] = @ - 1]
    /\ IF page[t] = "customers"
          THEN UNCHANGED <<page, form, widget, sent, jobs>>
          ELSE Turn(t, "customers", FALSE) /\ jobs' = JobsUnheard(t)
    /\ UNCHANGED <<session, service, acts, crossed>>

-----------------------------------------------------------------------------
Begin(t, job) ==
    \E j \in Jobs : /\ jobs[j].kind = "idle"
                    /\ jobs' = [jobs EXCEPT ![j] =
                          [job EXCEPT !.tab = t, !.heard = TRUE]]

SubmitEntry(t, u) ==
    /\ Act
    /\ ready[t] /\ page[t] = "login" /\ form[t] # "busy"
    /\ form' = [form EXCEPT ![t] = "busy"]
    /\ Begin(t, [IdleJob EXCEPT !.kind = "enter", !.who = u])
    /\ UNCHANGED <<session, service, page, widget, sent, pushes, crossed>>

\* Seven fields are filled in, and the last is not the day that stands for none.
Complete(t) ==
    /\ Act
    /\ page[t] = "onboard" /\ user[t] # None /\ form[t] \in {"open", "error"}
    /\ form' = [form EXCEPT ![t] = "filled"]
    /\ UNCHANGED <<session, service, page, widget, sent, jobs, pushes, crossed>>

SubmitCustomer(t) ==
    /\ Act
    /\ page[t] = "onboard" /\ user[t] # None /\ form[t] \in {"filled", "error"}
    /\ form' = [form EXCEPT ![t] = "busy"]
    /\ Begin(t, [IdleJob EXCEPT !.kind = "onboard"])
    /\ UNCHANGED <<session, service, page, widget, sent, pushes, crossed>>

\* The job is over; its form, if it is still there, shows f.
Close(j, f) ==
    /\ jobs' = [jobs EXCEPT ![j] = IdleJob]
    /\ form' = IF jobs[j].heard THEN [form EXCEPT ![jobs[j].tab] = f] ELSE form

\* The token is stored and the home page pushed, wherever the tab is by now.  A
\* home page that is there already stays, and its widget fetches again.
ReceiveEntry(j) ==
    LET job == jobs[j]  t == job.tab
    IN  /\ job.kind = "enter" /\ Admits(t, job.who)
        /\ Enter(t, job.who)
        /\ IF Shown(t)
              THEN /\ Ask(t, fetches)
                   /\ jobs' = [jobs EXCEPT ![j] = IdleJob]
                   /\ UNCHANGED <<page, form, rows, processing, told, overtaken, sent>>
              ELSE /\ Turn(t, "home", TRUE)
                   /\ jobs' = [JobsUnheard(t) EXCEPT ![j] = IdleJob]
        /\ UNCHANGED <<service, pushes, acts, crossed>>

\* The call fails, or the role is not that of an employee.
RefuseEntry(j) ==
    /\ jobs[j].kind = "enter"
    /\ Close(j, "error")
    /\ UNCHANGED <<session, service, page, widget, sent, pushes, acts, crossed>>

\* The calls of the onboarding, which are those of Onboarding, succeed or one fails.
ReceiveCustomer(j) ==
    LET t == jobs[j].tab
    IN  /\ jobs[j].kind = "onboard"
        /\ \/ Close(j, "done") /\ pushes' = [pushes EXCEPT ![t] = @ + 1]
           \/ Close(j, "error") /\ UNCHANGED pushes
        /\ UNCHANGED <<session, service, page, widget, sent, acts, crossed>>

-----------------------------------------------------------------------------
\* The widget's button to refresh is never disabled.
Refresh(t) ==
    /\ Act
    /\ Shown(t)
    /\ Ask(t, fetches)
    /\ UNCHANGED <<session, service, page, form, rows, processing, told, overtaken, sent, jobs,
                   pushes, crossed>>

\* Mutant: the list has the requests that are processed as well.
Pending_All == {f \in Forms : requests[f].status # "none"}

Pending == {f \in Forms : requests[f].status = "pending"}

ServeList(s) ==
    /\ Routed
    /\ fetches[s].stage = "sent"
    /\ fetches' = [fetches EXCEPT ![s].stage = "answered", ![s].rows = Pending]
    /\ UNCHANGED <<session, service, page, form, rows, loading, processing, told, overtaken,
                   sent, jobs, pushes, acts, crossed>>

ReceiveList(s) ==
    LET t == fetches[s].tab
    IN  /\ fetches[s].stage = "answered"
        /\ rows' = [rows EXCEPT ![t] = fetches[s].rows]
        /\ loading' = [loading EXCEPT ![t] = FALSE]
        /\ fetches' = [fetches EXCEPT ![s] = IdleFetch]
        /\ UNCHANGED <<session, service, page, form, processing, told, overtaken, sent, jobs,
                       pushes, acts, crossed>>

\* An error leaves the rows as they are.
MissList(s) ==
    /\ fetches[s].stage # "idle"
    /\ loading' = [loading EXCEPT ![fetches[s].tab] = FALSE]
    /\ fetches' = [fetches EXCEPT ![s] = IdleFetch]
    /\ UNCHANGED <<session, service, page, form, rows, processing, told, overtaken, sent, jobs,
                   pushes, acts, crossed>>

\* The decisions about f that the service has not brought to an end.
UnderWay(f) == {c \in Calls : sent[c].form = f /\ stage[c] # "done"}

\* Mutant: the second button sends its title.
Buttons_Denied == {"approved", "denied"}

Buttons == {"approved", "rejected"}

\* Mutant: the buttons are not disabled while a decision is being sent.
Decide_Twice(t, f, to, c) ==
    /\ Act
    /\ Shown(t) /\ ~loading[t] /\ f \in rows[t]
    /\ sent[c] = Unsent
    /\ sent' = [sent EXCEPT ![c] = [tab |-> t, form |-> f, to |-> to, who |-> user[t]]]
    /\ processing' = [processing EXCEPT ![t] = f]
    /\ crossed' = IF \E d \in UnderWay(f) : sent[d].tab # t
                     THEN crossed \cup {f} ELSE crossed
    /\ UNCHANGED <<session, service, page, form, rows, loading, fetches, told, overtaken, jobs,
                   pushes>>

\* A row's buttons: the widget sends no other decision before this one has ended.
Decide(t, f, to, c) ==
    /\ Act
    /\ Shown(t) /\ ~loading[t] /\ f \in rows[t] /\ processing[t] = None
    /\ sent[c] = Unsent
    /\ sent' = [sent EXCEPT ![c] = [tab |-> t, form |-> f, to |-> to, who |-> user[t]]]
    /\ processing' = [processing EXCEPT ![t] = f]
    /\ crossed' = IF \E d \in UnderWay(f) : sent[d].tab # t
                     THEN crossed \cup {f} ELSE crossed
    /\ UNCHANGED <<session, service, page, form, rows, loading, fetches, told, overtaken, jobs,
                   pushes>>

\* A step of the service with a decision that was sent to it.
Serve(c) ==
    /\ sent[c] # Unsent
    /\ \/ R!Load(c, sent[c].form, sent[c].to) \/ R!RefuseProcessed(c, sent[c].form)
       \/ R!LoadFails(c) \/ R!Continue(c) \/ R!Exit(c)
    /\ UNCHANGED <<session, page, form, widget, sent, jobs, pushes, acts, crossed>>

\* The row is removed.
Decided(c) ==
    LET t == sent[c].tab  f == sent[c].form
    IN  /\ t # None /\ stage[c] = "done" /\ reply[c] = "ok"
        /\ rows' = [rows EXCEPT ![t] = @ \ {f}]
        /\ processing' = [processing EXCEPT ![t] = None]
        /\ sent' = [sent EXCEPT ![c].tab = None]
        /\ told' = [told EXCEPT ![t] = @ \cup {f}]
        /\ overtaken' = IF \E s \in Fetches : fetches[s].tab = t
                           THEN [overtaken EXCEPT ![t] = @ \cup {f}] ELSE overtaken
        /\ UNCHANGED <<session, service, page, form, loading, fetches, jobs, pushes, acts,
                       crossed>>

\* Mutant: an error leaves the widget processing.
DecisionFails_Hangs(c) ==
    /\ sent[c].tab # None
    /\ sent' = [sent EXCEPT ![c].tab = None]
    /\ UNCHANGED <<session, service, page, form, widget, jobs, pushes, acts, crossed>>

\* The service refuses or fails, or the answer is lost, perhaps while the service is
\* still at work.  The row stays.
DecisionFails(c) ==
    /\ sent[c].tab # None
    /\ sent' = [sent EXCEPT ![c].tab = None]
    /\ processing' = [processing EXCEPT ![sent[c].tab] = None]
    /\ UNCHANGED <<session, service, page, form, rows, loading, fetches, told, overtaken, jobs,
                   pushes, acts, crossed>>

\* A customer submits a request.
Submit(f) ==
    /\ R!Submit(f)
    /\ UNCHANGED <<session, page, form, widget, sent, jobs, pushes, acts, crossed>>

-----------------------------------------------------------------------------
EmployeeActs(t) ==
    \/ SignOut(t) \/ Complete(t) \/ SubmitCustomer(t) \/ Refresh(t)
    \/ \E p \in Pages : Load(t, p) \/ Follow(t, p)
    \/ \E u \in Users : SubmitEntry(t, u)
    \/ \E f \in Forms, to \in Buttons, c \in Calls : Decide(t, f, to, c)

JobStep(j) == ReceiveEntry(j) \/ RefuseEntry(j) \/ ReceiveCustomer(j)

Next ==
    \/ \E t \in Tabs : EmployeeActs(t) \/ Start(t) \/ Guard(t) \/ Redirect(t)
    \/ \E s \in Fetches : ServeList(s) \/ ReceiveList(s) \/ MissList(s)
    \/ \E j \in Jobs : JobStep(j)
    \/ \E c \in Calls : Serve(c) \/ Decided(c) \/ DecisionFails(c)
    \/ \E f \in Forms : Submit(f)

\* Effects run, timers fire, and calls end, with an answer or an error.
Fairness ==
    /\ \A t \in Tabs : WF_vars(Start(t)) /\ WF_vars(Guard(t)) /\ WF_vars(Redirect(t))
    /\ \A s \in Fetches : WF_vars(ReceiveList(s) \/ MissList(s))
    /\ \A j \in Jobs : WF_vars(JobStep(j))
    /\ \A c \in Calls : WF_vars(Serve(c)) /\ WF_vars(Decided(c) \/ DecisionFails(c))

Spec == Init /\ [][Next]_vars /\ Fairness

-----------------------------------------------------------------------------
TypeOK ==
    /\ SessionType
    /\ R!TypeOK
    /\ page \in [Tabs -> Pages]
    /\ form \in [Tabs -> {"open", "filled", "busy", "done", "error"}]
    /\ rows \in [Tabs -> SUBSET Forms]
    /\ loading \in [Tabs -> BOOLEAN]
    /\ processing \in [Tabs -> Forms \cup {None}]
    /\ fetches \in [Fetches -> Fetch]
    /\ sent \in [Calls -> Decision]
    /\ jobs \in [Jobs -> Job]
    /\ pushes \in [Tabs -> 0..MaxActs]
    /\ acts \in 0..MaxActs
    /\ told \in [Tabs -> SUBSET Forms] /\ overtaken \in [Tabs -> SUBSET Forms]
    /\ crossed \subseteq Forms

\* Every decision that the service commits was sent by an employee: the service asks
\* nobody who they are, the login page turns customers away, and whatever the tabs
\* of the browser leave in localStorage for each other was let in by it.
OnlyStaffDecide == \A d \in decisions : sent[d.by].who \in Staff

\* A decision is saved over another one only when a second was sent while the first
\* was under way, by another tab, after the widget was left and mounted again, or
\* after the first one's answer was lost: the widget itself sends one at a time.
ContestNeedsTwo == \A f \in Forms : contested[f] => f \in crossed

\* A request that the widget was told is decided does not come back to its list, by
\* any refresh, unless a list was being fetched at that moment.
DecidedLeaves == \A t \in Tabs : rows[t] \cap told[t] \subseteq overtaken[t]

\* Once the employee waits, no page is left without a user, and no widget loading
\* or processing.
Settled(t) ==
    \/ page[t] = "login"
    \/ user[t] # None /\ (page[t] = "home" => ~loading[t] /\ processing[t] = None)

PagesSettle == \A t \in Tabs : []<>Settled(t)
============================================================================
