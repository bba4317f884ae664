---------------------------- MODULE Preferences ----------------------------
(***************************************************************************)
(* The preferences of a customer: the copy in the state of each tab's      *)
(* PreferencesProvider, the one in localStorage that the tabs share, the   *)
(* row of the auth service, and two things they decide, the theme          *)
(* attribute of the document and the locale of the address.                *)
(*                                                                         *)
(* The provider fetches the preferences whenever it gets a token, and      *)
(* saves all of them whenever one is changed.  Nothing orders these calls: *)
(* they may reach the service, and their answers the tab, in any order.    *)
(*                                                                         *)
(* A change of language is pushed to the address when the save has ended.  *)
(* A login and a request for an account push a path too, with the locale   *)
(* there was when the form was sent.  The providers hang below the locale, *)
(* so they are mounted again; what is in flight then ends in a provider    *)
(* that is gone, which can no longer set state but still writes            *)
(* localStorage and the theme attribute, and still pushes.                 *)
(*                                                                         *)
(* A login also saves the whole row of its user, as it was read when the   *)
(* credentials were checked.  And a user may sign in, or change the        *)
(* preferences, in another browser.                                        *)
(***************************************************************************)
EXTENDS Naturals, Session

CONSTANTS
    Settings,     \* the fields of the preferences, Theme and Language among them
    Theme,
    Language,
    Values,       \* of every setting: light and dark, da and en, off and on
    Defaults,     \* the preferences in a provider's initial state, and of a new user
    SystemTheme,  \* the theme that the system asks for
    Calls,        \* at most so many calls are in flight
    MaxActs       \* bound: the users load, sign in or out, ask and change so often

\* Only the customer frontend has preferences.
ASSUME PreferencesAssumption ==
    /\ StaffTabs = {}
    /\ {Theme, Language} \subseteq Settings
    /\ Defaults \in [Settings -> Values]
    /\ SystemTheme \in Values
    /\ None \notin Values \cup Tabs \cup [Settings -> Values]
    /\ MaxActs \in Nat

VARIABLES
    saved,   \* user -> the preferences in its row of the auth service
    kept,    \* the preferences in localStorage, or None
    prefs,   \* tab -> those in its provider's state
    attr,    \* tab -> the data-theme attribute of the document
    locale,  \* tab -> the locale in its address, the last one if there is none
    calls,   \* the calls in flight
    acts,    \* what the users have done so far, for the bound
    (***********************************************************************)
    (* Observations: no guard reads them.                                  *)
    (***********************************************************************)
    due,       \* tab -> the languages its address may have when no save is in flight
    latest,    \* the tab whose provider wrote localStorage last, None if that one is gone
    orphaned,  \* tab -> a provider that is gone has set its theme attribute
    muddled    \* a call has failed or may have disturbed another, and no call was
               \* sent on its own since

stores       == <<saved, kept>>
pages        == <<prefs, attr, locale>>
observations == <<due, latest, orphaned, muddled>>
vars         == <<session, stores, pages, calls, acts, observations>>

Prefs == [Settings -> Values]

\* A call of one tab: to get or to put the preferences of "as", to sign "as" in, or to
\* request an account.  "live": the provider that made it is still mounted.  "goto": the
\* locale to push after it.  A login is "read" between the service's read of the row and
\* its save.  "tab" is None when nobody waits for the end, or another browser does.
Call == [kind : {"get", "put", "login", "request"},
         stage : {"idle", "sent", "read", "answered", "failed"},
         tab : Tabs \cup {None}, live : BOOLEAN, as : Users \cup {None}, data : Prefs,
         goto : Values \cup {None}]

Idle == [kind |-> "get", stage |-> "idle", tab |-> None, live |-> FALSE, as |-> None,
         data |-> Defaults, goto |-> None]

Init ==
    /\ SessionInit
    /\ saved = [u \in Users |-> Defaults]
    /\ kept = None
    /\ prefs = [t \in Tabs |-> Defaults]
    /\ attr = [t \in Tabs |-> Defaults[Theme]]
    /\ locale = [t \in Tabs |-> Defaults[Language]]
    /\ calls = [c \in Calls |-> Idle]
    /\ acts = 0
    /\ due = [t \in Tabs |-> {locale[t]}]
    /\ latest = None
    /\ orphaned = [t \in Tabs |-> FALSE]
    /\ muddled = FALSE

-----------------------------------------------------------------------------
Active == {c \in Calls : calls[c].stage # "idle"}

\* The languages that saves of t are going to push.
Pending(t) ==
    {calls[c].goto : c \in {d \in Active : calls[d].kind = "put" /\ calls[d].tab = t}} \ {None}

\* The address of t moves to the locale l: a save in flight moves it again.
Moved(t, l) == [due EXCEPT ![t] = IF Pending(t) = {} THEN {l} ELSE Pending(t)]

\* What is left of a call when the service is done with it.
Ended(call, stage) ==
    IF call.tab = None
       THEN Idle
       ELSE [call EXCEPT !.stage = stage, !.as = None, !.data = Defaults]

\* A save disturbs everything else that reads or writes the row or localStorage, and so
\* do two fetches for different users.
Disturbs(x, y) ==
    /\ "request" \notin {x.kind, y.kind}
    /\ \/ "put" \in {x.kind, y.kind}
       \/ x.kind = "get" /\ y.kind = "get" /\ x.as # y.as

\* "muddled" when call takes the slot c: a fetch or a save on its own mends all.
MuddledBy(c, call) ==
    LET others == {calls[d] : d \in Active \ {c}}
    IN  /\ ~(call.kind \in {"get", "put"} /\ \A o \in others : o.kind = "request")
        /\ muddled \/ \E o \in others : Disturbs(o, call)

Send(call) ==
    \E c \in Calls \ Active :
        /\ calls' = [calls EXCEPT ![c] = call]
        /\ muddled' = MuddledBy(c, call)

\* apiRequest sends the stored token, or else the one it is given.
Sender(t, u) == IF Bearer(t) # None THEN Bearer(t) ELSE u

Sent(kind, t) == [Idle EXCEPT !.kind = kind, !.stage = "sent", !.tab = t, !.live = TRUE]

Get(t, u)       == [Sent("get", t) EXCEPT !.as = u]
Put(t, u, p, l) == [Sent("put", t) EXCEPT !.as = u, !.data = p, !.goto = l]
Login(t, u, l)  == [Sent("login", t) EXCEPT !.as = u, !.goto = l]
Request(t, l)   == [Sent("request", t) EXCEPT !.goto = l]

Fetch(t, u) == Send(Get(t, Sender(t, u)))

-----------------------------------------------------------------------------
Act == acts < MaxActs /\ acts' = acts + 1

\* A call that nobody waits for.  A save or a login that was sent may still be served.
Abandoned(call) ==
    IF call.kind \in {"put", "login"} /\ call.stage \in {"sent", "read"}
       THEN [call EXCEPT !.tab = None, !.live = FALSE, !.goto = None]
       ELSE Idle

\* The page is loaded: nobody waits for the calls of the one that was there.
Load(t) ==
    /\ Act
    /\ Mount(t)
    /\ prefs' = [prefs EXCEPT ![t] = Defaults]
    /\ attr' = [attr EXCEPT ![t] = Defaults[Theme]]
    /\ calls' = [c \in Calls |-> IF calls[c].tab = t THEN Abandoned(calls[c]) ELSE calls[c]]
    /\ due' = [due EXCEPT ![t] = {locale[t]}]
    /\ orphaned' = [orphaned EXCEPT ![t] = FALSE]
    /\ UNCHANGED <<stores, locale, latest, muddled>>

\* The effects of the two providers.  The preferences come from localStorage, or
\* else the theme from the system; the token, if there is one, starts a fetch.
Start(t) ==
    LET known == IF kept # None THEN kept ELSE [Defaults EXCEPT ![Theme] = SystemTheme]
    IN  /\ Restore(t)
        /\ prefs' = [prefs EXCEPT ![t] = known]
        /\ attr' = [attr EXCEPT ![t] = known[Theme]]
        /\ IF Bearer(t) # None THEN Fetch(t, Bearer(t)) ELSE UNCHANGED <<calls, muddled>>
        /\ orphaned' = [orphaned EXCEPT ![t] = FALSE]
        /\ UNCHANGED <<stores, locale, acts, due, latest>>

\* The form of the login page, which shows whoever is signed in.  A registration sends
\* its two other calls first.
SubmitSignIn(t, u) ==
    /\ Act /\ ready[t]
    /\ Send(Login(t, u, locale[t]))
    /\ UNCHANGED <<session, stores, pages, due, latest, orphaned>>

\* The form of the page of new accounts.
SubmitRequest(t) ==
    /\ Act /\ user[t] # None
    /\ Send(Request(t, locale[t]))
    /\ UNCHANGED <<session, stores, pages, due, latest, orphaned>>

\* The preferences stay on the page and in localStorage.
SignOut(t) ==
    /\ Act /\ user[t] # None
    /\ Leave(t)
    /\ UNCHANGED <<stores, pages, calls, observations>>

\* The address of t gets the locale l, and the providers below it are mounted
\* again; those of the calls in present that t made no longer have one.
Relocate(t, l, present) ==
    /\ Mount(t)
    /\ locale' = [locale EXCEPT ![t] = l]
    /\ prefs' = [prefs EXCEPT ![t] = Defaults]
    /\ calls' = [d \in Calls |-> [present[d] EXCEPT !.live = @ /\ present[d].tab # t]]

\* The language menu in the header of the public pages saves nothing, and neither does
\* a step back in the history of the tab.  The link of the overview to an account has no
\* locale, and the step back from there mounts the providers for the same one.
SwitchLocale(t, l) ==
    /\ Act
    /\ l # locale[t] \/ user[t] # None
    /\ Relocate(t, l, calls)
    /\ due' = Moved(t, l)
    /\ UNCHANGED <<stores, attr, latest, orphaned, muddled>>

\* The overview pushes "/" when nobody is signed in, and the middleware picks a locale
\* from the cookie or the headers.
LeaveOverview(t, l) ==
    /\ Act /\ ready[t] /\ user[t] = None
    /\ l # locale[t]
    /\ Relocate(t, l, calls)
    /\ due' = Moved(t, l)
    /\ UNCHANGED <<stores, attr, latest, orphaned, muddled>>

\* Mutant: the other settings are left out.
Updated_Partial(p, s, v) == [x \in {s} |-> v]

Updated(p, s, v) == [p EXCEPT ![s] = v]

\* Mutant: localStorage is not written.
Keep_Nothing(p) == UNCHANGED kept

Keep(p) == kept' = p

\* The controls: a switch of the settings page turns its setting over, a language
\* can be chosen again in the sidebar.
Offers(t, s, v) == user[t] # None /\ (s # Language => v # prefs[t][s])

\* The page shows the change and keeps it at once, and saves all of its preferences.
Change(t, s, v) ==
    LET updated == Updated(prefs[t], s, v)
    IN  /\ Act
        /\ Offers(t, s, v)
        /\ prefs' = [prefs EXCEPT ![t] = updated]
        /\ attr' = IF s = Theme THEN [attr EXCEPT ![t] = v] ELSE attr
        /\ Keep(updated)
        /\ Send(Put(t, Sender(t, user[t]), updated, IF s = Language THEN v ELSE None))
        /\ due' = IF s = Language THEN [due EXCEPT ![t] = Pending(t) \cup {v}] ELSE due
        /\ latest' = t
        /\ UNCHANGED <<session, saved, locale, orphaned>>

-----------------------------------------------------------------------------
\* The users in other browsers: a login, and a change of the preferences.
SignInElsewhere(u) ==
    /\ Act
    /\ Send([Login(None, u, None) EXCEPT !.live = FALSE])
    /\ UNCHANGED <<session, stores, pages, due, latest, orphaned>>

SaveElsewhere(u, p) ==
    /\ Act
    /\ saved' = [saved EXCEPT ![u] = p]
    /\ muddled' = TRUE
    /\ UNCHANGED <<session, kept, pages, calls, due, latest, orphaned>>

-----------------------------------------------------------------------------
\* The service reads the row of the caller, or writes all the preferences in it.
ServeGet(c) ==
    /\ calls[c].kind = "get" /\ calls[c].stage = "sent"
    /\ calls' = [calls EXCEPT ![c].stage = "answered", ![c].as = None,
                              ![c].data = saved[calls[c].as]]
    /\ UNCHANGED saved

ServePut(c) ==
    /\ calls[c].kind = "put" /\ calls[c].stage = "sent"
    /\ calls' = [calls EXCEPT ![c] = Ended(@, "answered")]
    /\ saved' = [saved EXCEPT ![calls[c].as] = calls[c].data]

\* Login reads the row of the user,
CheckLogin(c) ==
    /\ calls[c].kind = "login" /\ calls[c].stage = "sent"
    /\ calls' = [calls EXCEPT ![c].stage = "read", ![c].data = saved[calls[c].as]]
    /\ UNCHANGED saved

\* and saves it with the time, after the password is compared and a session inserted.
\* The error of that save is ignored.
FinishLogin(c) ==
    /\ calls[c].stage = "read"
    /\ calls' = [calls EXCEPT ![c] = IF @.tab = None
                                        THEN Idle
                                        ELSE [@ EXCEPT !.stage = "answered",
                                                       !.data = Defaults]]
    /\ saved' \in {saved, [saved EXCEPT ![calls[c].as] = calls[c].data]}

ServeRequest(c) ==
    /\ calls[c].kind = "request" /\ calls[c].stage = "sent"
    /\ calls' = [calls EXCEPT ![c] = Ended(@, "answered")]
    /\ UNCHANGED saved

Serve(c) ==
    /\ ServeGet(c) \/ ServePut(c) \/ CheckLogin(c) \/ FinishLogin(c) \/ ServeRequest(c)
    /\ UNCHANGED <<session, kept, pages, acts, observations>>

\* The call is lost or refused, before the service, in it or after it.
Lose(c) ==
    /\ \/ calls[c].stage \in {"sent", "read"}
       \/ calls[c].stage = "answered" /\ calls[c].kind # "request"
    /\ calls' = [calls EXCEPT ![c] = Ended(@, "failed")]
    /\ muddled' = (muddled \/ calls[c].kind \in {"get", "put"})
    /\ UNCHANGED <<session, stores, pages, acts, due, latest, orphaned>>

-----------------------------------------------------------------------------
End(c) == [calls EXCEPT ![c] = Idle]

\* Mutant: the fetched theme is not set on the document.
ReceivePrefs_Unthemed(c) ==
    LET t == calls[c].tab
        data == calls[c].data
    IN  /\ calls[c].stage = "answered" /\ calls[c].kind = "get"
        /\ Keep(data)
        /\ IF calls[c].live
              THEN prefs' = [prefs EXCEPT ![t] = data] /\ latest' = t
              ELSE UNCHANGED prefs /\ latest' = None
        /\ calls' = End(c)
        /\ UNCHANGED <<session, saved, attr, locale, acts, due, orphaned, muddled>>

\* fetchPreferences goes on with the answer.
ReceivePrefs(c) ==
    LET t == calls[c].tab
        data == calls[c].data
    IN  /\ calls[c].stage = "answered" /\ calls[c].kind = "get"
        /\ Keep(data)
        /\ attr' = [attr EXCEPT ![t] = data[Theme]]
        /\ IF calls[c].live
              THEN prefs' = [prefs EXCEPT ![t] = data] /\ latest' = t
              ELSE UNCHANGED prefs /\ latest' = None
        /\ orphaned' = [orphaned EXCEPT ![t] = ~calls[c].live]
        /\ calls' = End(c)
        /\ UNCHANGED <<session, saved, locale, acts, due, muddled>>

\* Mutant: the error of a save is thrown, and nothing is pushed.
Ignore_Error(c) ==
    /\ \/ calls[c].stage = "failed"
       \/ /\ calls[c].kind \in {"put", "request"} /\ calls[c].stage = "answered"
          /\ calls[c].goto \in {None, locale[calls[c].tab]}
    /\ calls' = End(c)
    /\ UNCHANGED <<session, stores, pages, acts, observations>>

\* A save or a request has ended and there is no other locale to push, or something else
\* than a save has failed: the page shows or logs the error.
Ignore(c) ==
    /\ \/ calls[c].kind # "put" /\ calls[c].stage = "failed"
       \/ /\ calls[c].kind = "put" /\ calls[c].stage = "failed"
          /\ calls[c].goto \in {None, locale[calls[c].tab]}
       \/ /\ calls[c].kind \in {"put", "request"} /\ calls[c].stage = "answered"
          /\ calls[c].goto \in {None, locale[calls[c].tab]}
    /\ calls' = End(c)
    /\ UNCHANGED <<session, stores, pages, acts, observations>>

\* The save of a new language has ended, well or not.
Push(c) ==
    LET t == calls[c].tab
        l == calls[c].goto
    IN  /\ calls[c].stage \in {"answered", "failed"}
        /\ calls[c].kind = "put" /\ l \notin {None, locale[t]}
        /\ Relocate(t, l, End(c))
        /\ UNCHANGED <<stores, attr, acts, observations>>

\* The page of new accounts pushes two seconds after the answer, wherever the tab is by
\* then, the locale it had.
Redirect(c) ==
    LET t == calls[c].tab
        l == calls[c].goto
    IN  /\ calls[c].stage = "answered" /\ calls[c].kind = "request"
        /\ l \notin {None, locale[t]}
        /\ Relocate(t, l, End(c))
        /\ due' = Moved(t, l)
        /\ UNCHANGED <<stores, attr, acts, latest, orphaned, muddled>>

\* The login has succeeded.  A provider that is mounted has a new token, which starts a
\* fetch; the locale is then still the one to push.
ReceiveLogin(c) ==
    LET t == calls[c].tab
        u == calls[c].as
    IN  /\ calls[c].stage = "answered" /\ calls[c].kind = "login" /\ calls[c].live
        /\ Enter(t, u)
        /\ calls' = [calls EXCEPT ![c] = Get(t, u)]
        /\ muddled' = MuddledBy(c, Get(t, u))
        /\ UNCHANGED <<stores, pages, acts, due, latest, orphaned>>

\* One that is gone only leaves the token in localStorage, and the form pushes the
\* locale it was sent from, as that of a request does.
StoreLogin(c) ==
    LET call == calls[c]
    IN  /\ call.stage = "answered" /\ call.kind = "login" /\ ~call.live
        /\ stored' = [stored EXCEPT ![Frontend(call.tab)] = call.as]
        /\ calls' = [calls EXCEPT ![c] = [call EXCEPT !.kind = "request", !.as = None]]
        /\ muddled' = TRUE
        /\ UNCHANGED <<user, ready, stores, pages, acts, due, latest, orphaned>>

\* The page hears an error while the service goes on with a save or a login.  The
\* language of a save is pushed all the same.
GiveUp(c) ==
    LET t == calls[c].tab
        l == calls[c].goto
        left == [calls EXCEPT ![c] = Abandoned(@)]
    IN  /\ t # None
        /\ calls[c].kind \in {"put", "login"} /\ calls[c].stage \in {"sent", "read"}
        /\ IF calls[c].kind = "put" /\ l \notin {None, locale[t]}
              THEN Relocate(t, l, left) /\ UNCHANGED attr
              ELSE calls' = left /\ UNCHANGED <<session, pages>>
        /\ muddled' = (muddled \/ calls[c].kind = "put")
        /\ UNCHANGED <<stores, acts, due, latest, orphaned>>

Receive(c) ==
    \/ ReceivePrefs(c) \/ Ignore(c) \/ Push(c) \/ Redirect(c)
    \/ ReceiveLogin(c) \/ StoreLogin(c)

-----------------------------------------------------------------------------
Next ==
    \/ \E t \in Tabs :
          \/ Load(t) \/ Start(t) \/ SignOut(t) \/ SubmitRequest(t)
          \/ \E u \in Users : SubmitSignIn(t, u)
          \/ \E l \in Values : SwitchLocale(t, l) \/ LeaveOverview(t, l)
          \/ \E s \in Settings, v \in Values : Change(t, s, v)
    \/ \E u \in Users : SignInElsewhere(u) \/ \E p \in Prefs : SaveElsewhere(u, p)
    \/ \E c \in Calls : Serve(c) \/ Lose(c) \/ GiveUp(c) \/ Receive(c)

Spec == Init /\ [][Next]_vars

-----------------------------------------------------------------------------
TypeOK ==
    /\ SessionType
    /\ saved \in [Users -> Prefs]
    /\ kept \in Prefs \cup {None}
    /\ prefs \in [Tabs -> Prefs]
    /\ attr \in [Tabs -> Values]
    /\ locale \in [Tabs -> Values]
    /\ calls \in [Calls -> Call]
    /\ due \in [Tabs -> SUBSET Values]
    /\ latest \in Tabs \cup {None}
    /\ orphaned \in [Tabs -> BOOLEAN]
    /\ acts \in 0..MaxActs
    /\ muddled \in BOOLEAN

\* The document shows the theme of the preferences in the tab's state at every
\* moment, whatever the order of fetches and changes, except after an answer to a
\* provider that a change of the locale had replaced.
ThemeIsShown ==
    \A t \in Tabs : ready[t] /\ attr[t] # prefs[t][Theme] => orphaned[t]

\* When the saves of a tab have ended, well or not, its address has a language whose
\* save was in flight when one was chosen in it last, in whatever order they ended: that
\* one, if there was no other.  Or it has the locale that the address moved to after all
\* of them, by the menu of the public pages, by "/", or by the push of a form that was
\* sent from the old locale.
LanguageFollows ==
    \A t \in Tabs : Pending(t) = {} => locale[t] \in due[t]

Quiet == Active = {} /\ \A t \in Tabs : ready[t]

\* After the last answer the tab whose provider wrote localStorage last shows what it
\* wrote.  And localStorage then holds what the service has saved for the user that is
\* signed in, whatever logins saved in between.  That is so again from the first fetch or
\* save that is sent on its own after the things that break it: a fetch or save that
\* failed or met another, a change in another browser, and a login that was answered
\* after its provider had been replaced.
QuietIsConsistent ==
    Quiet =>
        /\ latest # None => prefs[latest] = kept
        /\ ~muddled /\ stored["customer"] # None => kept = saved[stored["customer"]]
============================================================================
