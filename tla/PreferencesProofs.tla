------------------------- MODULE PreferencesProofs -------------------------
(***************************************************************************)
(* What is proved of Preferences for every number of tabs, users, settings *)
(* and calls in flight, in whatever order the calls end.                   *)
(***************************************************************************)
EXTENDS Preferences, TLAPS

-----------------------------------------------------------------------------
(***************************************************************************)
(* Type correctness.  The answer to a fetch has its type because the call  *)
(* went out for a user: no page fetches or saves without a token.          *)
(***************************************************************************)

\* The service reads and writes the row of a user, and a login is answered for one.
ForUser(call) ==
    /\ call.stage \in {"sent", "read"} /\ call.kind # "request" => call.as \in Users
    /\ call.stage = "answered" /\ call.kind = "login" => call.as \in Users

SentForUser == \A c \in Calls : ForUser(calls[c])

TInv == TypeOK /\ SentForUser

\* The initial preferences and the idle call have their types.
LEMMA DefaultTypes ==
    /\ Defaults \in Prefs /\ Defaults[Theme] \in Values /\ Defaults[Language] \in Values
    /\ Idle \in Call
BY PreferencesAssumption DEF Prefs, Idle, Call

\* Whatever was disturbed.
LEMMA MuddledType ==
    ASSUME TypeOK, NEW c, NEW call
    PROVE  MuddledBy(c, call) \in BOOLEAN
BY DEF MuddledBy, TypeOK

\* A slot gets another call, and no other slot changes.
LEMMA SlotStep ==
    ASSUME TInv, NEW c \in Calls, NEW call \in Call, ForUser(call),
           calls' = [calls EXCEPT ![c] = call]
    PROVE  /\ calls' \in [Calls -> Call] /\ SentForUser' /\ calls'[c] = call
           /\ \A d \in Calls : d # c => calls'[d] = calls[d]
<1>1. /\ calls' \in [Calls -> Call] /\ calls'[c] = call
      /\ \A d \in Calls : d # c => calls'[d] = calls[d]
  BY DEF TInv, TypeOK
<1>2. SentForUser'
  BY <1>1 DEF TInv, SentForUser, ForUser
<1>3. QED
  BY <1>1, <1>2

\* A call that is sent takes a slot that was idle, and no other.
LEMMA SendStep ==
    ASSUME TInv, NEW call \in Call, ForUser(call), Send(call)
    PROVE  /\ calls' \in [Calls -> Call] /\ SentForUser' /\ muddled' \in BOOLEAN
           /\ \E c \in Calls : /\ calls[c].stage = "idle" /\ calls'[c] = call
                               /\ muddled' = MuddledBy(c, call)
                               /\ \A d \in Calls : d # c => calls'[d] = calls[d]
<1>1. PICK c \in Calls \ Active : /\ calls' = [calls EXCEPT ![c] = call]
                                  /\ muddled' = MuddledBy(c, call)
  BY DEF Send
<1>2. /\ calls' \in [Calls -> Call] /\ SentForUser' /\ calls'[c] = call
      /\ \A d \in Calls : d # c => calls'[d] = calls[d]
  BY <1>1, SlotStep
<1>3. calls[c].stage = "idle"
  BY DEF Active
<1>4. muddled' \in BOOLEAN
  BY <1>1, MuddledType DEF TInv
<1>5. QED
  BY <1>1, <1>2, <1>3, <1>4

\* What a page sends are calls, for the user whose token they carry.
LEMMA SentCalls ==
    ASSUME NEW t \in Tabs \cup {None}, NEW u \in Users, NEW p \in Prefs,
           NEW l \in Values \cup {None}
    PROVE  /\ /\ Get(t, u) \in Call /\ ForUser(Get(t, u))
              /\ Get(t, u).kind = "get" /\ Get(t, u).stage = "sent" /\ Get(t, u).tab = t
              /\ Get(t, u).as = u /\ Get(t, u).goto = None
           /\ /\ Put(t, u, p, l) \in Call /\ ForUser(Put(t, u, p, l))
              /\ Put(t, u, p, l).kind = "put" /\ Put(t, u, p, l).stage = "sent"
              /\ Put(t, u, p, l).tab = t /\ Put(t, u, p, l).as = u
              /\ Put(t, u, p, l).data = p /\ Put(t, u, p, l).goto = l
           /\ /\ Login(t, u, l) \in Call /\ ForUser(Login(t, u, l))
              /\ Login(t, u, l).kind = "login" /\ Login(t, u, l).stage = "sent"
              /\ Login(t, u, l).tab = t /\ Login(t, u, l).as = u
           /\ /\ Request(t, l) \in Call /\ ForUser(Request(t, l))
              /\ Request(t, l).kind = "request" /\ Request(t, l).stage = "sent"
              /\ Request(t, l).tab = t /\ Request(t, l).as = None
<1>1. ASSUME NEW kind \in {"get", "put", "login", "request"}
      PROVE  /\ Sent(kind, t) \in Call /\ Sent(kind, t).kind = kind
             /\ Sent(kind, t).stage = "sent" /\ Sent(kind, t).tab = t
             /\ Sent(kind, t).as = None /\ Sent(kind, t).goto = None
  BY DefaultTypes DEF Sent, Idle, Call
<1>2. /\ Get(t, u) \in Call
      /\ Get(t, u).kind = "get" /\ Get(t, u).stage = "sent" /\ Get(t, u).tab = t
      /\ Get(t, u).as = u /\ Get(t, u).goto = None
  BY <1>1 DEF Get, Call
<1>3. /\ Put(t, u, p, l) \in Call
      /\ Put(t, u, p, l).kind = "put" /\ Put(t, u, p, l).stage = "sent"
      /\ Put(t, u, p, l).tab = t /\ Put(t, u, p, l).as = u
      /\ Put(t, u, p, l).data = p /\ Put(t, u, p, l).goto = l
  BY <1>1 DEF Put, Call
<1>4. /\ Login(t, u, l) \in Call
      /\ Login(t, u, l).kind = "login" /\ Login(t, u, l).stage = "sent"
      /\ Login(t, u, l).tab = t /\ Login(t, u, l).as = u
  BY <1>1 DEF Login, Call
<1>5. /\ Request(t, l) \in Call
      /\ Request(t, l).kind = "request" /\ Request(t, l).stage = "sent"
      /\ Request(t, l).tab = t /\ Request(t, l).as = None
  BY <1>1 DEF Request, Call
<1>6. QED
  BY <1>2, <1>3, <1>4, <1>5 DEF ForUser

\* A login in another browser is a call without a tab.
LEMMA LoginElsewhere ==
    ASSUME NEW u \in Users
    PROVE  LET call == [Login(None, u, None) EXCEPT !.live = FALSE]
           IN  /\ call \in Call /\ ForUser(call)
               /\ call.kind = "login" /\ call.stage = "sent" /\ call.tab = None
               /\ call.as = u
BY SentCalls, DefaultTypes DEF Login, Sent, Idle, Call, ForUser

\* Whoever is signed in sends a user's token.
LEMMA SenderType ==
    ASSUME TypeOK, NEW t, NEW u \in Users
    PROVE  Sender(t, u) \in Users
BY DEF TypeOK, SessionType, Sender, Bearer, Frontend, Frontends

\* A call that ends, or that the service is done with, stays a call.
LEMMA EndStep ==
    ASSUME TInv, NEW c \in Calls, calls' = End(c)
    PROVE  /\ calls' \in [Calls -> Call] /\ SentForUser'
           /\ calls'[c] = Idle /\ \A d \in Calls : d # c => calls'[d] = calls[d]
<1>1. /\ calls' \in [Calls -> Call] /\ calls'[c] = Idle
      /\ \A d \in Calls : d # c => calls'[d] = calls[d]
  BY DefaultTypes DEF TInv, TypeOK, End
<1>2. SentForUser'
  BY <1>1 DEF TInv, SentForUser, ForUser, Idle
<1>3. QED
  BY <1>1, <1>2

\* A call that the service is done with still goes to its tab, if it has one.
LEMMA EndedType ==
    ASSUME NEW call \in Call, NEW s \in {"answered", "failed"}
    PROVE  /\ Ended(call, s) \in Call
           /\ call.tab # None =>
                 /\ Ended(call, s).stage = s /\ Ended(call, s).kind = call.kind
                 /\ Ended(call, s).tab = call.tab /\ Ended(call, s).goto = call.goto
                 /\ Ended(call, s).as = None
           /\ call.tab = None => Ended(call, s) = Idle
           /\ s = "failed" \/ call.kind # "login" => ForUser(Ended(call, s))
BY DefaultTypes DEF Ended, Call, ForUser, Idle

\* The session keeps its type.
LEMMA SessionStep ==
    ASSUME SessionType, NEW t,
           \/ UNCHANGED session \/ Mount(t) \/ Restore(t) \/ Leave(t)
           \/ \E u \in Users : Enter(t, u)
    PROVE  SessionType'
<1>1. stored[Frontend(t)] \in Users \cup {None}
  BY DEF SessionType, Frontend, Frontends
<1>2. QED
  BY <1>1 DEF SessionType, session, Mount, Restore, Leave, Enter

\* A new locale leaves the calls without their provider, and changes nothing else in them.
LEMMA RelocateStep ==
    ASSUME TInv, NEW t, NEW l \in Values, NEW present \in [Calls -> Call],
           Relocate(t, l, present)
    PROVE  /\ SessionType'
           /\ locale' \in [Tabs -> Values] /\ prefs' \in [Tabs -> Prefs]
           /\ calls' \in [Calls -> Call]
           /\ \A c \in Calls : /\ calls'[c].kind = present[c].kind
                               /\ calls'[c].stage = present[c].stage
                               /\ calls'[c].tab = present[c].tab
                               /\ calls'[c].as = present[c].as
                               /\ calls'[c].goto = present[c].goto
           /\ (\A c \in Calls : ForUser(present[c])) => SentForUser'
<1>1. SessionType'
  BY SessionStep DEF TInv, TypeOK, Relocate
<1>2. locale' \in [Tabs -> Values] /\ prefs' \in [Tabs -> Prefs]
  BY DefaultTypes DEF TInv, TypeOK, Relocate
<1>3. \A c \in Calls : /\ calls'[c] \in Call
                       /\ calls'[c].kind = present[c].kind
                       /\ calls'[c].stage = present[c].stage
                       /\ calls'[c].tab = present[c].tab
                       /\ calls'[c].as = present[c].as
                       /\ calls'[c].goto = present[c].goto
  BY DEF Relocate, Call
<1>4. calls' \in [Calls -> Call]
  BY <1>3 DEF Relocate
<1>5. (\A c \in Calls : ForUser(present[c])) => SentForUser'
  BY <1>3 DEF SentForUser, ForUser
<1>6. QED
  BY <1>1, <1>2, <1>3, <1>4, <1>5

\* What the user does counts.
LEMMA ActType == TypeOK /\ Act => acts' \in 0..MaxActs
BY PreferencesAssumption DEF TypeOK, Act

\* The types hold at the start.
LEMMA InitTInv == Init => TInv
<1> SUFFICES ASSUME Init PROVE TInv
  OBVIOUS
<1>1. SessionType
  BY DEF Init, SessionInit, SessionType
<1>2. calls \in [Calls -> Call] /\ SentForUser
  BY DefaultTypes DEF Init, SentForUser, ForUser, Idle
<1>3. acts \in 0..MaxActs
  BY PreferencesAssumption DEF Init
<1>4. QED
  BY <1>1, <1>2, <1>3, DefaultTypes DEF Init, TInv, TypeOK

\* A call that nobody awaits is a call, and pushes nothing: the rest of a save or of a
\* login, which the service goes on with.
LEMMA AbandonedType ==
    ASSUME NEW call \in Call
    PROVE  /\ Abandoned(call) \in Call
           /\ Abandoned(call).tab = None /\ Abandoned(call).goto = None
           /\ ForUser(call) => ForUser(Abandoned(call))
           /\ Abandoned(call) = Idle
                 \/ /\ Abandoned(call).kind = call.kind /\ call.kind \in {"put", "login"}
                    /\ Abandoned(call).stage = call.stage /\ call.stage \in {"sent", "read"}
                    /\ Abandoned(call).as = call.as /\ Abandoned(call).data = call.data
BY DefaultTypes DEF Abandoned, Call, Idle, ForUser

\* The calls of a page that is loaded anew are abandoned.
LEMMA LoadCalls ==
    ASSUME TInv, NEW t \in Tabs, Load(t)
    PROVE  /\ calls' \in [Calls -> Call]
           /\ \A c \in Calls :
                 calls'[c] = IF calls[c].tab = t THEN Abandoned(calls[c]) ELSE calls[c]
           /\ SentForUser'
<1>1. \A c \in Calls : calls'[c] = IF calls[c].tab = t THEN Abandoned(calls[c]) ELSE calls[c]
  BY DEF Load
<1>2. \A c \in Calls : calls[c] \in Call
  BY DEF TInv, TypeOK
<1>3. calls' \in [Calls -> Call]
  BY <1>2, AbandonedType DEF Load
<1>4. SentForUser'
  BY <1>1, <1>2, AbandonedType DEF TInv, SentForUser, ForUser
<1>5. QED
  BY <1>1, <1>3, <1>4

\* What a change sends is a call, with all of the preferences.
LEMMA ChangeTypes ==
    ASSUME TInv, NEW t \in Tabs, NEW s \in Settings, NEW v \in Values, Change(t, s, v)
    PROVE  /\ Updated(prefs[t], s, v) \in Prefs
           /\ Updated(prefs[t], s, v)[s] = v
           /\ \A x \in Settings : x # s => Updated(prefs[t], s, v)[x] = prefs[t][x]
           /\ Sender(t, user[t]) \in Users
           /\ \E l \in Values \cup {None} :
                 /\ l = IF s = Language THEN v ELSE None
                 /\ Send(Put(t, Sender(t, user[t]), Updated(prefs[t], s, v), l))
<1>1. /\ Updated(prefs[t], s, v) \in Prefs
      /\ Updated(prefs[t], s, v)[s] = v
      /\ \A x \in Settings : x # s => Updated(prefs[t], s, v)[x] = prefs[t][x]
  BY DEF TInv, TypeOK, Prefs, Updated
<1>2. Sender(t, user[t]) \in Users
  BY SenderType DEF Change, Offers, TInv, TypeOK, SessionType
<1>3. Send(Put(t, Sender(t, user[t]), Updated(prefs[t], s, v), IF s = Language THEN v ELSE None))
  BY DEF Change
<1>4. QED
  BY <1>1, <1>2, <1>3

\* A step of the service, or a call that is lost, keeps what a call is about until nobody
\* awaits it.
LEMMA ServedStep ==
    ASSUME TInv, NEW c \in Calls, Serve(c) \/ Lose(c)
    PROVE  /\ calls' \in [Calls -> Call] /\ SentForUser' /\ saved' \in [Users -> Prefs]
           /\ \A d \in Calls : d # c => calls'[d] = calls[d]
           /\ calls[c].stage # "idle"
           /\ calls'[c] # Idle =>
                 /\ calls'[c].stage # "idle"
                 /\ calls'[c].kind = calls[c].kind
                 /\ calls'[c].tab = calls[c].tab
                 /\ calls'[c].goto = calls[c].goto
           /\ calls'[c] = Idle => calls[c].tab = None
<1>1. calls[c] \in Call /\ ForUser(calls[c])
  BY DEF TInv, TypeOK, SentForUser
<1>3. saved \in [Users -> Prefs]
  BY DEF TInv, TypeOK
<1>4. CASE ServeGet(c)
  <2> DEFINE call == [calls[c] EXCEPT !.stage = "answered", !.as = None,
                                      !.data = saved[calls[c].as]]
  <2>1. saved[calls[c].as] \in Prefs
    BY <1>1, <1>3, <1>4 DEF ServeGet, ForUser
  <2>2. /\ call \in Call /\ ForUser(call) /\ call.stage = "answered"
        /\ call.kind = calls[c].kind /\ call.tab = calls[c].tab /\ call.goto = calls[c].goto
    BY <1>1, <1>4, <2>1 DEF ServeGet, Call, ForUser
  <2>3. calls' = [calls EXCEPT ![c] = call] /\ UNCHANGED saved /\ calls[c].stage = "sent"
    BY <1>4 DEF ServeGet, TInv, TypeOK
  <2> HIDE DEF call
  <2>4. /\ calls' \in [Calls -> Call] /\ SentForUser' /\ calls'[c] = call
        /\ \A d \in Calls : d # c => calls'[d] = calls[d]
    BY <2>2, <2>3, SlotStep
  <2>5. QED
    BY <1>3, <2>2, <2>3, <2>4 DEF Idle
<1>5. CASE CheckLogin(c)
  <2> DEFINE call == [calls[c] EXCEPT !.stage = "read", !.data = saved[calls[c].as]]
  <2>1. saved[calls[c].as] \in Prefs
    BY <1>1, <1>3, <1>5 DEF CheckLogin, ForUser
  <2>2. /\ call \in Call /\ ForUser(call) /\ call.stage = "read"
        /\ call.kind = calls[c].kind /\ call.tab = calls[c].tab /\ call.goto = calls[c].goto
    BY <1>1, <1>5, <2>1 DEF CheckLogin, Call, ForUser
  <2>3. calls' = [calls EXCEPT ![c] = call] /\ UNCHANGED saved /\ calls[c].stage = "sent"
    BY <1>5 DEF CheckLogin, TInv, TypeOK
  <2> HIDE DEF call
  <2>4. /\ calls' \in [Calls -> Call] /\ SentForUser' /\ calls'[c] = call
        /\ \A d \in Calls : d # c => calls'[d] = calls[d]
    BY <2>2, <2>3, SlotStep
  <2>5. QED
    BY <1>3, <2>2, <2>3, <2>4 DEF Idle
<1>6. CASE FinishLogin(c)
  <2>1. saved' \in [Users -> Prefs]
    BY <1>1, <1>3, <1>6 DEF FinishLogin, Call
  <2>2. CASE calls[c].tab = None
    <3>1. calls' = [calls EXCEPT ![c] = Idle]
      BY <1>6, <2>2 DEF FinishLogin
    <3>2. /\ calls' \in [Calls -> Call] /\ SentForUser' /\ calls'[c] = Idle
          /\ \A d \in Calls : d # c => calls'[d] = calls[d]
      BY <3>1, SlotStep, DefaultTypes DEF ForUser, Idle
    <3>3. QED
      BY <1>6, <2>1, <2>2, <3>1, <3>2 DEF FinishLogin
  <2>3. CASE calls[c].tab # None
    <3> DEFINE call == [calls[c] EXCEPT !.stage = "answered", !.data = Defaults]
    <3>1. /\ call \in Call /\ ForUser(call) /\ call.stage = "answered"
          /\ call.kind = calls[c].kind /\ call.tab = calls[c].tab /\ call.goto = calls[c].goto
      BY <1>1, <1>6, DefaultTypes DEF FinishLogin, Call, ForUser
    <3>2. calls' = [calls EXCEPT ![c] = call] /\ calls[c].stage = "read"
      BY <1>6, <2>3 DEF FinishLogin
    <3> HIDE DEF call
    <3>3. /\ calls' \in [Calls -> Call] /\ SentForUser' /\ calls'[c] = call
          /\ \A d \in Calls : d # c => calls'[d] = calls[d]
      BY <3>1, <3>2, SlotStep
    <3>4. QED
      BY <2>1, <3>1, <3>2, <3>3 DEF Idle
  <2>4. QED
    BY <2>2, <2>3
<1>7. CASE ServePut(c) \/ ServeRequest(c) \/ Lose(c)
  <2>1. PICK s \in {"answered", "failed"} :
           /\ calls' = [calls EXCEPT ![c] = Ended(@, s)]
           /\ s = "failed" \/ calls[c].kind # "login"
    BY <1>7 DEF ServePut, ServeRequest, Lose
  <2>2. /\ Ended(calls[c], s) \in Call /\ ForUser(Ended(calls[c], s))
        /\ calls[c].tab # None =>
              /\ Ended(calls[c], s).stage = s /\ Ended(calls[c], s).kind = calls[c].kind
              /\ Ended(calls[c], s).tab = calls[c].tab /\ Ended(calls[c], s).goto = calls[c].goto
        /\ calls[c].tab = None => Ended(calls[c], s) = Idle
    BY <1>1, <2>1, EndedType
  <2>3. saved' \in [Users -> Prefs]
    BY <1>1, <1>3, <1>7 DEF ServePut, ServeRequest, Lose, stores, Call
  <2>4. calls[c].stage # "idle"
    BY <1>7 DEF ServePut, ServeRequest, Lose
  <2>5. /\ calls' \in [Calls -> Call] /\ SentForUser' /\ calls'[c] = Ended(calls[c], s)
        /\ \A d \in Calls : d # c => calls'[d] = calls[d]
    BY <2>1, <2>2, SlotStep
  <2>6. QED
    BY <2>1, <2>2, <2>3, <2>4, <2>5 DEF Idle
<1>8. QED
  BY <1>4, <1>5, <1>6, <1>7 DEF Serve

\* Every step preserves the types.
LEMMA NextTInv == TInv /\ [Next]_vars => TInv'
<1> SUFFICES ASSUME TInv, [Next]_vars PROVE TInv'
  OBVIOUS
<1> USE DEF stores, pages, observations
<1>1. ASSUME NEW t \in Tabs, Load(t) PROVE TInv'
  <2>1. calls' \in [Calls -> Call] /\ SentForUser'
    BY <1>1, LoadCalls
  <2>2. SessionType' /\ acts' \in 0..MaxActs
    BY <1>1, SessionStep, ActType DEF Load, TInv, TypeOK
  <2>3. due' \in [Tabs -> SUBSET Values]
    BY <1>1 DEF Load, TInv, TypeOK
  <2>4. QED
    BY <1>1, <2>1, <2>2, <2>3, DefaultTypes DEF Load, TInv, TypeOK
<1>2. ASSUME NEW t \in Tabs, Start(t) PROVE TInv'
  <2> DEFINE known == IF kept # None THEN kept ELSE [Defaults EXCEPT ![Theme] = SystemTheme]
  <2>1. known \in Prefs /\ known[Theme] \in Values
    BY PreferencesAssumption DEF TInv, TypeOK, Prefs
  <2>2. calls' \in [Calls -> Call] /\ SentForUser' /\ muddled' \in BOOLEAN
    <3>1. CASE Bearer(t) # None
      <4>1. Sender(t, Bearer(t)) \in Users
        BY <3>1 DEF TInv, TypeOK, SessionType, Bearer, Frontend, Frontends, Sender
      <4>2. Get(t, Sender(t, Bearer(t))) \in Call /\ ForUser(Get(t, Sender(t, Bearer(t))))
        BY <4>1, DefaultTypes, SentCalls
      <4>3. Send(Get(t, Sender(t, Bearer(t))))
        BY <1>2, <3>1 DEF Start, Fetch
      <4>4. QED
        BY <4>2, <4>3, SendStep
    <3>2. CASE Bearer(t) = None
      BY <1>2, <3>2 DEF Start, TInv, TypeOK, SentForUser, ForUser
    <3>3. QED
      BY <3>1, <3>2
  <2>3. SessionType'
    BY <1>2, SessionStep DEF Start, TInv, TypeOK
  <2>4. prefs' \in [Tabs -> Prefs] /\ attr' \in [Tabs -> Values]
    BY <1>2, <2>1 DEF Start, TInv, TypeOK
  <2>5. QED
    BY <1>2, <2>2, <2>3, <2>4 DEF Start, TInv, TypeOK
<1>3. ASSUME NEW t \in Tabs, SignOut(t) PROVE TInv'
  <2>1. SessionType' /\ acts' \in 0..MaxActs
    BY <1>3, SessionStep, ActType DEF SignOut, TInv, TypeOK
  <2>2. QED
    BY <1>3, <2>1 DEF SignOut, TInv, TypeOK, SentForUser, ForUser
<1>4. ASSUME NEW call \in Call, ForUser(call), Act, Send(call),
             UNCHANGED <<session, stores, pages, due, latest, orphaned>>
      PROVE  TInv'
  <2>1. calls' \in [Calls -> Call] /\ SentForUser' /\ muddled' \in BOOLEAN
    BY <1>4, SendStep
  <2>2. SessionType' /\ acts' \in 0..MaxActs
    BY <1>4, SessionStep, ActType DEF TInv, TypeOK
  <2>3. QED
    BY <1>4, <2>1, <2>2 DEF TInv, TypeOK
<1>5. ASSUME NEW t \in Tabs, \/ SubmitRequest(t)
                             \/ \E u \in Users : SubmitSignIn(t, u)
      PROVE  TInv'
  <2>1. locale[t] \in Values
    BY DEF TInv, TypeOK
  <2>2. CASE \E u \in Users : SubmitSignIn(t, u)
    BY <1>4, <2>1, <2>2, DefaultTypes, SentCalls DEF SubmitSignIn
  <2>3. CASE SubmitRequest(t)
    <3>1. Request(t, locale[t]) \in Call /\ ForUser(Request(t, locale[t]))
      <4>1. user[t] \in Users
        BY <2>3 DEF SubmitRequest, TInv, TypeOK, SessionType
      <4>2. QED
        BY <2>1, <4>1, DefaultTypes, SentCalls
    <3>2. QED
      BY <1>4, <2>3, <3>1 DEF SubmitRequest
  <2>4. QED
    BY <1>5, <2>2, <2>3
<1>6. ASSUME NEW u \in Users, SignInElsewhere(u) PROVE TInv'
  BY <1>4, <1>6, LoginElsewhere DEF SignInElsewhere
<1>7. ASSUME NEW u \in Users, NEW p \in Prefs, SaveElsewhere(u, p) PROVE TInv'
  <2>1. SessionType' /\ acts' \in 0..MaxActs
    BY <1>7, SessionStep, ActType DEF SaveElsewhere, TInv, TypeOK
  <2>2. saved' \in [Users -> Prefs] /\ muddled' \in BOOLEAN
    BY <1>7 DEF SaveElsewhere, TInv, TypeOK
  <2>3. UNCHANGED <<kept, prefs, attr, locale, calls, due, latest, orphaned>>
    BY <1>7 DEF SaveElsewhere
  <2>4. QED
    BY <2>1, <2>2, <2>3 DEF TInv, TypeOK, SentForUser, ForUser
<1>8. ASSUME NEW t, NEW l \in Values, NEW present \in [Calls -> Call],
             \A c \in Calls : ForUser(present[c]), Relocate(t, l, present),
             UNCHANGED <<stores, attr, latest, orphaned>>, muddled' \in BOOLEAN,
             acts' \in 0..MaxActs, due' \in [Tabs -> SUBSET Values]
      PROVE  TInv'
  BY <1>8, RelocateStep DEF TInv, TypeOK
<1>9. \A t : \A l \in Values : Moved(t, l) \in [Tabs -> SUBSET Values]
  <2>1. \A t : Pending(t) \subseteq Values
    BY DEF Pending, Active, TInv, TypeOK, Call
  <2>2. QED
    BY <2>1 DEF Moved, TInv, TypeOK
<1>10. (\A c \in Calls : ForUser(calls[c])) /\ calls \in [Calls -> Call]
  BY DEF TInv, TypeOK, SentForUser
<1>11. ASSUME NEW t \in Tabs, NEW l \in Values, SwitchLocale(t, l) \/ LeaveOverview(t, l)
       PROVE  TInv'
  <2>1. acts' \in 0..MaxActs
    BY <1>11, ActType DEF SwitchLocale, LeaveOverview, TInv
  <2>2. due' \in [Tabs -> SUBSET Values]
    BY <1>9, <1>11 DEF SwitchLocale, LeaveOverview
  <2>3. QED
    BY <1>8, <1>10, <1>11, <2>1, <2>2 DEF SwitchLocale, LeaveOverview, TInv, TypeOK
<1>12. ASSUME NEW t \in Tabs, NEW s \in Settings, NEW v \in Values, Change(t, s, v)
       PROVE  TInv'
  <2> DEFINE u == Sender(t, user[t])
             p == Updated(prefs[t], s, v)
  <2>1. u \in Users /\ p \in Prefs
    BY <1>12, ChangeTypes
  <2>2. PICK l \in Values \cup {None} : Send(Put(t, u, p, l))
    BY <1>12, ChangeTypes
  <2> HIDE DEF u, p
  <2>3. calls' \in [Calls -> Call] /\ SentForUser' /\ muddled' \in BOOLEAN
    BY <2>1, <2>2, SentCalls, SendStep
  <2>4. kept' \in Prefs \cup {None} /\ prefs' \in [Tabs -> Prefs] /\ attr' \in [Tabs -> Values]
    BY <1>12, <2>1 DEF Change, Keep, TInv, TypeOK, p
  <2>5. Pending(t) \subseteq Values
    BY DEF Pending, Active, TInv, TypeOK, Call
  <2>6. due' \in [Tabs -> SUBSET Values] /\ acts' \in 0..MaxActs
    BY <1>12, <2>5, ActType DEF Change, TInv, TypeOK
  <2>7. UNCHANGED <<session, saved, locale, orphaned>> /\ latest' \in Tabs \cup {None}
    BY <1>12 DEF Change
  <2>8. SessionType'
    BY <2>7, SessionStep DEF TInv, TypeOK
  <2>9. QED
    BY <2>3, <2>4, <2>6, <2>7, <2>8 DEF TInv, TypeOK
<1>13. ASSUME NEW c \in Calls, Serve(c) \/ Lose(c) PROVE TInv'
  <2>1. /\ UNCHANGED <<session, kept, prefs, attr, locale, acts, due, latest, orphaned>>
        /\ muddled' \in BOOLEAN
    BY <1>13 DEF Serve, Lose, TInv, TypeOK
  <2>2. SessionType'
    BY <2>1, SessionStep DEF TInv, TypeOK
  <2>3. QED
    BY <1>13, <2>1, <2>2, ServedStep DEF TInv, TypeOK
<1>14. ASSUME NEW c \in Calls, ReceivePrefs(c) PROVE TInv'
  <2>1. calls[c].data \in Prefs /\ calls[c].data[Theme] \in Values
        /\ calls[c].tab \in Tabs \cup {None} /\ calls[c].live \in BOOLEAN
    BY PreferencesAssumption DEF TInv, TypeOK, Call, Prefs
  <2>2. calls' \in [Calls -> Call] /\ SentForUser'
    BY <1>14, EndStep DEF ReceivePrefs
  <2>3. /\ kept' \in Prefs \cup {None} /\ prefs' \in [Tabs -> Prefs]
        /\ attr' \in [Tabs -> Values] /\ latest' \in Tabs \cup {None}
        /\ orphaned' \in [Tabs -> BOOLEAN]
    BY <1>14, <2>1 DEF ReceivePrefs, Keep, TInv, TypeOK
  <2>4. UNCHANGED <<session, saved, locale, acts, due, muddled>>
    BY <1>14 DEF ReceivePrefs
  <2>5. SessionType'
    BY <2>4, SessionStep DEF TInv, TypeOK
  <2>6. QED
    BY <2>2, <2>3, <2>4, <2>5 DEF TInv, TypeOK
<1>15. ASSUME NEW c \in Calls, Ignore(c) PROVE TInv'
  <2>1. calls' \in [Calls -> Call] /\ SentForUser'
    BY <1>15, EndStep DEF Ignore
  <2>2. SessionType'
    BY <1>15, SessionStep DEF Ignore, TInv, TypeOK
  <2>3. QED
    BY <1>15, <2>1, <2>2 DEF Ignore, TInv, TypeOK
<1>16. ASSUME NEW c \in Calls, Push(c) \/ Redirect(c) PROVE TInv'
  <2> DEFINE t == calls[c].tab
             l == calls[c].goto
             present == End(c)
  <2>1. l \in Values \cup {None}
    BY <1>10 DEF Call
  <2>2. present \in [Calls -> Call] /\ \A d \in Calls : ForUser(present[d])
    BY <1>10, DefaultTypes DEF End, ForUser, Idle
  <2>3. Relocate(t, l, present) /\ UNCHANGED <<stores, attr, acts, latest, orphaned, muddled>>
    BY <1>16 DEF Push, Redirect
  <2>4. l \in Values
    BY <1>16, <2>1 DEF Push, Redirect
  <2>5. due' \in [Tabs -> SUBSET Values]
    BY <1>9, <1>16, <2>4 DEF Push, Redirect, TInv, TypeOK
  <2> HIDE DEF t, l, present
  <2>6. QED
    BY <1>8, <2>2, <2>3, <2>4, <2>5 DEF TInv, TypeOK
<1>17. ASSUME NEW c \in Calls, ReceiveLogin(c) PROVE TInv'
  <2> DEFINE t == calls[c].tab
             u == calls[c].as
  <2>1. u \in Users /\ t \in Tabs \cup {None}
    BY <1>10, <1>17 DEF ReceiveLogin, ForUser, Call
  <2>2. /\ Enter(t, u) /\ calls' = [calls EXCEPT ![c] = Get(t, u)]
        /\ muddled' = MuddledBy(c, Get(t, u))
        /\ UNCHANGED <<stores, pages, acts, due, latest, orphaned>>
    BY <1>17 DEF ReceiveLogin
  <2> HIDE DEF t, u
  <2>3. SessionType'
    BY <2>1, <2>2, SessionStep DEF TInv, TypeOK
  <2>4. Get(t, u) \in Call /\ ForUser(Get(t, u))
    BY <2>1, DefaultTypes, SentCalls
  <2>5. calls' \in [Calls -> Call] /\ SentForUser' /\ muddled' \in BOOLEAN
    BY <2>2, <2>4, SlotStep, MuddledType DEF TInv
  <2>6. QED
    BY <2>2, <2>3, <2>5 DEF TInv, TypeOK
<1>18. ASSUME NEW c \in Calls, StoreLogin(c) PROVE TInv'
  <2> DEFINE push == [calls[c] EXCEPT !.kind = "request", !.as = None]
  <2>1. calls[c].as \in Users
    BY <1>10, <1>18 DEF StoreLogin, ForUser
  <2>2. push \in Call /\ ForUser(push) /\ calls' = [calls EXCEPT ![c] = push]
    BY <1>10, <1>18 DEF StoreLogin, ForUser, Call
  <2> HIDE DEF push
  <2>3. calls' \in [Calls -> Call] /\ SentForUser'
    BY <2>2, SlotStep
  <2>4. SessionType'
    BY <1>18, <2>1 DEF StoreLogin, TInv, TypeOK, SessionType
  <2>5. QED
    BY <1>18, <2>3, <2>4 DEF StoreLogin, TInv, TypeOK
<1>19. ASSUME NEW c \in Calls, GiveUp(c) PROVE TInv'
  <2> DEFINE t == calls[c].tab
             l == calls[c].goto
             left == [calls EXCEPT ![c] = Abandoned(@)]
  <2>1. left \in [Calls -> Call] /\ \A d \in Calls : ForUser(left[d])
    BY <1>10, AbandonedType
  <2>2. /\ UNCHANGED <<stores, attr, acts, due, latest, orphaned>>
        /\ muddled' \in BOOLEAN
        /\ \/ l # None /\ Relocate(t, l, left)
           \/ calls' = left /\ UNCHANGED <<session, pages>>
    BY <1>19 DEF GiveUp, TInv, TypeOK
  <2>3. l \in Values \cup {None}
    BY <1>10 DEF Call
  <2> HIDE DEF t, l, left
  <2>4. CASE l # None /\ Relocate(t, l, left)
    BY <1>8, <2>1, <2>2, <2>3, <2>4 DEF TInv, TypeOK
  <2>5. CASE calls' = left /\ UNCHANGED <<session, pages>>
    <3>1. SessionType'
      BY <2>5, SessionStep DEF TInv, TypeOK
    <3>2. QED
      BY <2>1, <2>2, <2>5, <3>1 DEF TInv, TypeOK, SentForUser
  <2>6. QED
    BY <2>2, <2>4, <2>5
<1>20. CASE UNCHANGED vars
  BY <1>20, SessionStep DEF vars, TInv, TypeOK, SentForUser, ForUser
<1>21. QED
  BY <1>1, <1>2, <1>3, <1>5, <1>6, <1>7, <1>11, <1>12, <1>13, <1>14, <1>15, <1>16, <1>17, <1>18,
     <1>19, <1>20
     DEF Next, Receive

\* The preferences, the calls and the session keep their types.
THEOREM TypeCorrect == Spec => []TypeOK
<1>1. TInv => TypeOK
  BY DEF TInv
<1>2. QED
  BY <1>1, InitTInv, NextTInv, PTL DEF Spec

-----------------------------------------------------------------------------
(***************************************************************************)
(* The theme.                                                              *)
(***************************************************************************)
TypedTheme == TInv /\ ThemeIsShown

\* Every step keeps the attribute of the document and the preferences together.
LEMMA NextTheme == TypedTheme /\ [Next]_vars => TypedTheme'
<1> SUFFICES ASSUME TInv, ThemeIsShown, [Next]_vars PROVE TypedTheme'
  BY DEF TypedTheme
<1>1. TInv'
  BY NextTInv
<1> SUFFICES ThemeIsShown'
  BY <1>1 DEF TypedTheme
<1> USE DEF stores, pages, observations, session
<1>2. ASSUME NEW t \in Tabs, Load(t) PROVE ThemeIsShown'
  BY <1>2 DEF Load, Mount, ThemeIsShown, TInv, TypeOK, SessionType
<1>3. ASSUME NEW t \in Tabs, Start(t) PROVE ThemeIsShown'
  <2>1. /\ prefs'[t][Theme] = attr'[t]
        /\ \A u \in Tabs : u # t =>
              prefs'[u] = prefs[u] /\ attr'[u] = attr[u] /\ ready'[u] = ready[u]
                /\ orphaned'[u] = orphaned[u]
    BY <1>3 DEF Start, Restore, TInv, TypeOK, SessionType
  <2>2. QED
    BY <2>1 DEF ThemeIsShown
<1>4. ASSUME UNCHANGED <<ready, attr, prefs, orphaned>> PROVE ThemeIsShown'
  BY <1>4 DEF ThemeIsShown
<1>5. ASSUME NEW t, NEW l, NEW present, Relocate(t, l, present), UNCHANGED <<attr, orphaned>>
      PROVE  ThemeIsShown'
  BY <1>5 DEF Relocate, Mount, ThemeIsShown, TInv, TypeOK, SessionType
<1>6. ASSUME NEW t \in Tabs, NEW s \in Settings, NEW v \in Values, Change(t, s, v)
      PROVE  ThemeIsShown'
  <2>1. /\ prefs'[t] = Updated(prefs[t], s, v)
        /\ attr'[t] = IF s = Theme THEN v ELSE attr[t]
        /\ \A u \in Tabs : u # t => prefs'[u] = prefs[u] /\ attr'[u] = attr[u]
        /\ UNCHANGED <<ready, orphaned>>
    BY <1>6 DEF Change, TInv, TypeOK
  <2>2. prefs'[t][Theme] = IF s = Theme THEN v ELSE prefs[t][Theme]
    BY <1>6, <2>1, ChangeTypes, PreferencesAssumption
  <2>3. QED
    BY <2>1, <2>2 DEF ThemeIsShown
<1>7. ASSUME NEW c \in Calls, ReceivePrefs(c) PROVE ThemeIsShown'
  <2> DEFINE t == calls[c].tab
             data == calls[c].data
  <2>1. /\ \A u \in Tabs : u # t =>
              prefs'[u] = prefs[u] /\ attr'[u] = attr[u] /\ orphaned'[u] = orphaned[u]
        /\ t \in Tabs /\ calls[c].live => prefs'[t] = data /\ attr'[t] = data[Theme]
        /\ t \in Tabs /\ ~calls[c].live => orphaned'[t]
        /\ UNCHANGED ready
    BY <1>7 DEF ReceivePrefs, TInv, TypeOK
  <2>2. QED
    BY <2>1 DEF ThemeIsShown
<1>8. ASSUME NEW t \in Tabs, \/ SignOut(t) \/ SubmitRequest(t)
                             \/ \E u \in Users : SubmitSignIn(t, u)
      PROVE  ThemeIsShown'
  BY <1>4, <1>8 DEF SignOut, Leave, SubmitRequest, SubmitSignIn
<1>9. ASSUME NEW u \in Users, SignInElsewhere(u) \/ \E p \in Prefs : SaveElsewhere(u, p)
      PROVE  ThemeIsShown'
  BY <1>4, <1>9 DEF SignInElsewhere, SaveElsewhere
<1>10. ASSUME NEW c \in Calls, Serve(c) \/ Lose(c) \/ Ignore(c) PROVE ThemeIsShown'
  BY <1>4, <1>10 DEF Serve, Lose, Ignore
<1>11. ASSUME NEW c \in Calls, ReceiveLogin(c) \/ StoreLogin(c) PROVE ThemeIsShown'
  BY <1>4, <1>11 DEF ReceiveLogin, Enter, StoreLogin
<1>12. ASSUME NEW t \in Tabs, NEW l \in Values, SwitchLocale(t, l) \/ LeaveOverview(t, l)
       PROVE  ThemeIsShown'
  BY <1>5, <1>12 DEF SwitchLocale, LeaveOverview
<1>13. ASSUME NEW c \in Calls, Push(c) \/ Redirect(c) PROVE ThemeIsShown'
  BY <1>5, <1>13 DEF Push, Redirect
<1>14. ASSUME NEW c \in Calls, GiveUp(c) PROVE ThemeIsShown'
  BY <1>4, <1>5, <1>14 DEF GiveUp
<1>15. CASE UNCHANGED vars
  BY <1>15 DEF vars, ThemeIsShown
<1>16. QED
  BY <1>2, <1>3, <1>6, <1>7, <1>8, <1>9, <1>10, <1>11, <1>12, <1>13, <1>14, <1>15
     DEF Next, Receive

\* Whatever the order of fetches and changes, the document shows the theme of the
\* preferences that the tab has, unless an answer to an unmounted provider set it.
THEOREM ThemeShown == Spec => []ThemeIsShown
<1>1. Init => TypedTheme
  BY InitTInv DEF Init, SessionInit, TypedTheme, ThemeIsShown
<1>2. TypedTheme => ThemeIsShown
  BY DEF TypedTheme
<1>3. QED
  BY <1>1, <1>2, NextTheme, PTL DEF Spec

-----------------------------------------------------------------------------
(***************************************************************************)
(* The language.                                                           *)
(***************************************************************************)

\* The call c is a save that is going to push a language to t.
PushesTo(c, t) ==
    calls[c].stage # "idle" /\ calls[c].kind = "put" /\ calls[c].tab = t /\ calls[c].goto # None

\* A language that a save is going to push to t is due there, and if none is then the one
\* that is there.
Follows(t) ==
    /\ Pending(t) \subseteq due[t]
    /\ Pending(t) = {} => locale[t] \in due[t]

LInv == TInv /\ \A t \in Tabs : Follows(t)

\* What is pending in terms of the calls.
LEMMA PendingIs ==
    ASSUME NEW t
    PROVE  \A l : l \in Pending(t) <=> \E c \in Calls : PushesTo(c, t) /\ calls[c].goto = l
BY DEF Pending, PushesTo, Active

\* The same after a step.
LEMMA PendingIsNext ==
    ASSUME NEW t
    PROVE  \A l : l \in Pending(t)' <=> \E c \in Calls : PushesTo(c, t)' /\ calls'[c].goto = l
BY DEF Pending, PushesTo, Active

\* The call d pushes to t what it pushed before, if anything.
StillPushes(d, t) ==
    /\ PushesTo(d, t)' <=> PushesTo(d, t)
    /\ PushesTo(d, t) => calls'[d].goto = calls[d].goto

\* What is pending stays while every call pushes the same.
LEMMA SamePending ==
    ASSUME NEW t, \A d \in Calls : StillPushes(d, t)
    PROVE  Pending(t)' = Pending(t)
<1>1. \A l : l \in Pending(t)' <=> l \in Pending(t)
  BY PendingIs, PendingIsNext DEF StillPushes
<1>2. QED
  BY <1>1

\* A tab follows as long as what is pending, what is due and its locale stay.
LEMMA SameFollows ==
    ASSUME NEW t \in Tabs, Follows(t), Pending(t)' = Pending(t),
           due'[t] = due[t], locale'[t] = locale[t]
    PROVE  Follows(t)'
BY DEF Follows

\* A call that is sent and is no save pushes nothing.
LEMMA SendPushes ==
    ASSUME TInv, NEW call \in Call, ForUser(call), Send(call), call.kind # "put", NEW t
    PROVE  Pending(t)' = Pending(t)
<1>1. PICK c \in Calls : /\ calls[c].stage = "idle" /\ calls'[c] = call
                         /\ \A d \in Calls : d # c => calls'[d] = calls[d]
  BY SendStep
<1>2. \A d \in Calls : StillPushes(d, t)
  BY <1>1 DEF StillPushes, PushesTo
<1>3. QED
  BY <1>2, SamePending

\* The address of a tab moves, after a call or none has ended: every save that is still
\* in flight pushes what it did.
LEMMA RelocatePending ==
    ASSUME TInv, NEW t, NEW l \in Values, NEW present \in [Calls -> Call],
           Relocate(t, l, present), NEW u,
           \A c \in Calls : \/ present[c] = calls[c]
                            \/ present[c].tab # u /\ ~PushesTo(c, u)
    PROVE  Pending(u)' = Pending(u)
<1>1. \A c \in Calls : /\ calls'[c].kind = present[c].kind
                       /\ calls'[c].stage = present[c].stage
                       /\ calls'[c].tab = present[c].tab
                       /\ calls'[c].goto = present[c].goto
  BY RelocateStep
<1>2. \A c \in Calls : StillPushes(c, u)
  BY <1>1 DEF StillPushes, PushesTo
<1>3. QED
  BY <1>2, SamePending

\* The call c ends or is abandoned, its page goes to the locale that it pushes or stays
\* where that is, and nothing else happens to what is pending.
LEMMA PushedFollows ==
    ASSUME LInv, NEW c \in Calls, NEW u \in Tabs, due'[u] = due[u],
           \A d \in Calls : d # c => StillPushes(d, u), ~PushesTo(c, u)',
           \/ ~PushesTo(c, u) /\ locale'[u] = locale[u]
           \/ PushesTo(c, u) /\ locale'[u] = calls[c].goto
    PROVE  Follows(u)'
<1>1. \A l : l \in Pending(u)' => l \in Pending(u)
  BY PendingIs, PendingIsNext DEF StillPushes
<1>2. Pending(u)' \subseteq due'[u]
  BY <1>1 DEF LInv, Follows
<1>3. CASE ~PushesTo(c, u) /\ locale'[u] = locale[u]
  <2>1. \A d \in Calls : StillPushes(d, u)
    BY <1>3 DEF StillPushes
  <2>2. Pending(u)' = Pending(u)
    BY <2>1, SamePending
  <2>3. QED
    BY <1>3, <2>2, SameFollows DEF LInv
<1>4. CASE PushesTo(c, u) /\ locale'[u] = calls[c].goto
  <2>1. locale'[u] \in Pending(u)
    BY <1>4, PendingIs
  <2>2. QED
    BY <1>2, <2>1 DEF LInv, Follows
<1>5. QED
  BY <1>3, <1>4

\* The address of t moves by something else than a save.
LEMMA MovedFollows ==
    ASSUME LInv, NEW t, NEW l \in Values, NEW present \in [Calls -> Call],
           Relocate(t, l, present), due' = Moved(t, l),
           \A c \in Calls, u \in Tabs : \/ present[c] = calls[c]
                                        \/ present[c].tab # u /\ ~PushesTo(c, u),
           NEW u \in Tabs
    PROVE  Follows(u)'
<1>1. Pending(u)' = Pending(u)
  BY RelocatePending DEF LInv
<1>2. CASE u = t
  <2>1. due'[u] = (IF Pending(u) = {} THEN {l} ELSE Pending(u)) /\ locale'[u] = l
    BY <1>2 DEF Moved, Relocate, LInv, TInv, TypeOK
  <2>2. QED
    BY <1>1, <2>1 DEF Follows
<1>3. CASE u # t
  <2>1. due'[u] = due[u] /\ locale'[u] = locale[u]
    BY <1>3 DEF Moved, Relocate, LInv, TInv, TypeOK
  <2>2. QED
    BY <1>1, <2>1, SameFollows DEF LInv
<1>4. QED
  BY <1>2, <1>3

\* Every step preserves it.
LEMMA NextLInv == LInv /\ [Next]_vars => LInv'
<1> SUFFICES ASSUME LInv, [Next]_vars PROVE LInv'
  OBVIOUS
<1>1. TInv /\ TInv' /\ (\A c \in Calls : calls[c] \in Call) /\ calls \in [Calls -> Call]
  BY NextTInv DEF LInv, TInv, TypeOK
<1>2. \A u \in Tabs : Follows(u)
  BY DEF LInv
<1> SUFFICES ASSUME NEW u \in Tabs PROVE Follows(u)'
  BY <1>1 DEF LInv
<1>3. ASSUME Pending(u)' = Pending(u), due'[u] = due[u], locale'[u] = locale[u]
      PROVE  Follows(u)'
  BY <1>2, <1>3, SameFollows
<1>4. ASSUME UNCHANGED calls PROVE Pending(u)' = Pending(u)
  BY <1>4 DEF Pending, Active
<1> USE DEF stores, pages, observations
<1>5. ASSUME NEW t \in Tabs, Load(t) PROVE Follows(u)'
  <2>1. \A c \in Calls : calls'[c] = IF calls[c].tab = t THEN Abandoned(calls[c]) ELSE calls[c]
    BY <1>1, <1>5, LoadCalls
  <2>2. due'[t] = {locale[t]} /\ UNCHANGED locale /\ \A v \in Tabs : v # t => due'[v] = due[v]
    BY <1>1, <1>5 DEF Load, TInv, TypeOK
  <2>3. CASE u = t
    <3>1. \A c \in Calls : ~PushesTo(c, t)'
      BY <1>1, <2>1, AbandonedType DEF PushesTo
    <3>2. Pending(t)' = {}
      BY <3>1, PendingIsNext
    <3>3. QED
      BY <2>2, <2>3, <3>2 DEF Follows
  <2>4. CASE u # t
    <3>1. \A c \in Calls : StillPushes(c, u)
      BY <1>1, <2>1, <2>4, AbandonedType, PreferencesAssumption DEF StillPushes, PushesTo
    <3>2. QED
      BY <1>3, <2>2, <2>4, <3>1, SamePending
  <2>5. QED
    BY <2>3, <2>4
<1>6. ASSUME NEW t \in Tabs, Start(t) PROVE Follows(u)'
  <2>1. CASE Bearer(t) # None
    <3>1. Sender(t, Bearer(t)) \in Users
      BY <1>1, <2>1 DEF TInv, TypeOK, SessionType, Bearer, Frontend, Frontends, Sender
    <3>2. Send(Get(t, Sender(t, Bearer(t))))
      BY <1>6, <2>1 DEF Start, Fetch
    <3>3. /\ Get(t, Sender(t, Bearer(t))) \in Call /\ ForUser(Get(t, Sender(t, Bearer(t))))
          /\ Get(t, Sender(t, Bearer(t))).kind # "put"
      BY <3>1, DefaultTypes, SentCalls
    <3>4. Pending(u)' = Pending(u)
      BY <1>1, <3>2, <3>3, SendPushes
    <3>5. QED
      BY <1>3, <1>6, <3>4 DEF Start
  <2>2. CASE Bearer(t) = None
    BY <1>3, <1>4, <1>6, <2>2 DEF Start
  <2>3. QED
    BY <2>1, <2>2
<1>7. ASSUME NEW t \in Tabs, SignOut(t) PROVE Follows(u)'
  BY <1>3, <1>4, <1>7 DEF SignOut
<1>8. ASSUME NEW call \in Call, ForUser(call), Send(call), call.kind # "put",
             UNCHANGED <<due, locale>>
      PROVE  Follows(u)'
  BY <1>1, <1>3, <1>8, SendPushes
<1>9. ASSUME NEW t \in Tabs, NEW w \in Users, SubmitSignIn(t, w) PROVE Follows(u)'
  <2>0. locale[t] \in Values
    BY <1>1 DEF TInv, TypeOK
  <2>1. /\ Login(t, w, locale[t]) \in Call /\ ForUser(Login(t, w, locale[t]))
        /\ Login(t, w, locale[t]).kind # "put"
    BY <2>0, DefaultTypes, SentCalls
  <2>2. QED
    BY <1>8, <1>9, <2>1 DEF SubmitSignIn
<1>10. ASSUME NEW t \in Tabs, SubmitRequest(t) PROVE Follows(u)'
  <2>1. user[t] \in Users /\ locale[t] \in Values
    BY <1>1, <1>10 DEF SubmitRequest, TInv, TypeOK, SessionType
  <2>2. /\ Request(t, locale[t]) \in Call /\ ForUser(Request(t, locale[t]))
        /\ Request(t, locale[t]).kind # "put"
    BY <2>1, DefaultTypes, SentCalls
  <2>3. QED
    BY <1>8, <1>10, <2>2 DEF SubmitRequest
<1>11. ASSUME NEW w \in Users, SignInElsewhere(w) PROVE Follows(u)'
  <2> DEFINE call == [Login(None, w, None) EXCEPT !.live = FALSE]
  <2>1. call \in Call /\ ForUser(call) /\ call.kind # "put"
    BY LoginElsewhere
  <2>2. Send(call) /\ UNCHANGED <<due, locale>>
    BY <1>11 DEF SignInElsewhere
  <2> HIDE DEF call
  <2>3. QED
    BY <1>8, <2>1, <2>2
<1>12. ASSUME NEW w \in Users, NEW p \in Prefs, SaveElsewhere(w, p) PROVE Follows(u)'
  BY <1>3, <1>4, <1>12 DEF SaveElsewhere
<1>13. ASSUME NEW t \in Tabs, NEW l \in Values, SwitchLocale(t, l) \/ LeaveOverview(t, l)
       PROVE  Follows(u)'
  <2>1. Relocate(t, l, calls) /\ due' = Moved(t, l)
    BY <1>13 DEF SwitchLocale, LeaveOverview
  <2>2. QED
    BY <1>1, <2>1, MovedFollows
<1>14. ASSUME NEW t \in Tabs, NEW s \in Settings, NEW v \in Values, Change(t, s, v)
       PROVE  Follows(u)'
  <2> DEFINE w == Sender(t, user[t])
             p == Updated(prefs[t], s, v)
  <2>1. w \in Users /\ p \in Prefs
    BY <1>1, <1>14, ChangeTypes
  <2>2. PICK l \in Values \cup {None} : /\ l = IF s = Language THEN v ELSE None
                                        /\ Send(Put(t, w, p, l))
    BY <1>1, <1>14, ChangeTypes
  <2>3. UNCHANGED locale /\ due' = IF s = Language
                                      THEN [due EXCEPT ![t] = Pending(t) \cup {v}]
                                      ELSE due
    BY <1>14 DEF Change
  <2> HIDE DEF w, p
  <2>4. /\ Put(t, w, p, l) \in Call /\ ForUser(Put(t, w, p, l))
        /\ Put(t, w, p, l).stage = "sent" /\ Put(t, w, p, l).kind = "put"
        /\ Put(t, w, p, l).tab = t /\ Put(t, w, p, l).goto = l
    BY <2>1, SentCalls
  <2>5. PICK c \in Calls : /\ calls[c].stage = "idle" /\ calls'[c] = Put(t, w, p, l)
                           /\ \A d \in Calls : d # c => calls'[d] = calls[d]
    BY <1>1, <2>2, <2>4, SendStep
  <2>6. \A d \in Calls : d # c => StillPushes(d, u)
    BY <2>5 DEF StillPushes, PushesTo
  <2>7. CASE u # t \/ s # Language
    <3>1. l # None => u # t
      BY <2>2, <2>7
    <3>2. StillPushes(c, u)
      BY <2>4, <2>5, <3>1 DEF StillPushes, PushesTo
    <3>3. Pending(u)' = Pending(u)
      BY <2>6, <3>2, SamePending
    <3>4. due'[u] = due[u]
      BY <1>1, <2>3, <2>7 DEF TInv, TypeOK
    <3>5. QED
      BY <1>3, <2>3, <3>3, <3>4
  <2>8. CASE u = t /\ s = Language
    <3>1. v # None /\ l = v
      BY <2>2, <2>8, PreferencesAssumption
    <3>2. PushesTo(c, u)' /\ ~PushesTo(c, u) /\ calls'[c].goto = v
      BY <2>4, <2>5, <2>8, <3>1 DEF PushesTo
    <3>3. \A x : x \in Pending(u)' <=> x \in Pending(u) \/ x = v
      BY <2>6, <3>2, PendingIs, PendingIsNext DEF StillPushes
    <3>4. due'[u] = Pending(u) \cup {v}
      BY <1>1, <2>3, <2>8 DEF TInv, TypeOK
    <3>5. QED
      BY <3>3, <3>4 DEF Follows
  <2>9. QED
    BY <2>7, <2>8
<1>15. ASSUME NEW c \in Calls, Serve(c) \/ Lose(c) PROVE Follows(u)'
  <2>1. \A d \in Calls : StillPushes(d, u)
    <3>1. \A d \in Calls : d # c => StillPushes(d, u)
      BY <1>1, <1>15, ServedStep DEF StillPushes, PushesTo
    <3>2. CASE calls'[c] = Idle
      <4>1. calls[c].tab # u
        BY <1>1, <1>15, <3>2, ServedStep, PreferencesAssumption
      <4>2. QED
        BY <3>1, <3>2, <4>1 DEF StillPushes, PushesTo, Idle
    <3>3. CASE calls'[c] # Idle
      BY <1>1, <1>15, <3>1, <3>3, ServedStep DEF StillPushes, PushesTo
    <3>4. QED
      BY <3>2, <3>3
  <2>2. UNCHANGED <<due, locale>>
    BY <1>15 DEF Serve, Lose
  <2>3. QED
    BY <1>3, <2>1, <2>2, SamePending
<1>16. ASSUME NEW c \in Calls, ReceivePrefs(c) \/ Ignore(c) PROVE Follows(u)'
  <2>1. /\ calls'[c] = Idle /\ \A d \in Calls : d # c => calls'[d] = calls[d]
        /\ UNCHANGED <<due, locale>>
    BY <1>1, <1>16, EndStep DEF ReceivePrefs, Ignore
  <2>2. PushesTo(c, u) => calls[c].goto = locale[u]
    BY <1>16 DEF ReceivePrefs, Ignore, PushesTo
  <2>3. ~PushesTo(c, u)' /\ \A d \in Calls : d # c => StillPushes(d, u)
    BY <2>1 DEF StillPushes, PushesTo, Idle
  <2>4. QED
    BY <2>1, <2>2, <2>3, PushedFollows
<1>17. ASSUME NEW c \in Calls, NEW t \in Tabs \cup {None}, t = calls[c].tab,
              NEW l \in Values, l = calls[c].goto, calls[c].kind = "put",
              calls[c].stage # "idle", NEW present \in [Calls -> Call],
              present[c].tab # u, \A d \in Calls : d # c => present[d] = calls[d],
              Relocate(t, l, present), UNCHANGED due
       PROVE  Follows(u)'
  <2>1. \A d \in Calls : /\ calls'[d].kind = present[d].kind
                         /\ calls'[d].stage = present[d].stage
                         /\ calls'[d].tab = present[d].tab
                         /\ calls'[d].goto = present[d].goto
    BY <1>1, <1>17, RelocateStep
  <2>2. ~PushesTo(c, u)' /\ \A d \in Calls : d # c => StillPushes(d, u)
    BY <1>17, <2>1 DEF StillPushes, PushesTo
  <2>3. l # None /\ (PushesTo(c, u) <=> u = t)
    BY <1>17, PreferencesAssumption DEF PushesTo
  <2>4. locale'[u] = IF u = t THEN l ELSE locale[u]
    BY <1>1, <1>17 DEF Relocate, TInv, TypeOK
  <2>5. QED
    BY <1>17, <2>2, <2>3, <2>4, PushedFollows
<1>18. ASSUME NEW c \in Calls
       PROVE  /\ End(c) \in [Calls -> Call] /\ End(c)[c] = Idle
              /\ \A d \in Calls : d # c => End(c)[d] = calls[d]
              /\ Idle.tab # u
  BY <1>1, DefaultTypes, PreferencesAssumption DEF End, Idle
<1>19. ASSUME NEW c \in Calls, Push(c) PROVE Follows(u)'
  <2>1. /\ calls[c].kind = "put" /\ calls[c].stage # "idle" /\ calls[c].goto # None
        /\ Relocate(calls[c].tab, calls[c].goto, End(c)) /\ UNCHANGED due
    BY <1>19 DEF Push
  <2>2. calls[c].tab \in Tabs \cup {None} /\ calls[c].goto \in Values
    BY <1>1, <2>1 DEF Call
  <2>3. QED
    BY <1>17, <1>18, <2>1, <2>2
<1>20. ASSUME NEW c \in Calls, Redirect(c) PROVE Follows(u)'
  <2>1. /\ calls[c].kind = "request" /\ calls[c].goto # None
        /\ Relocate(calls[c].tab, calls[c].goto, End(c))
        /\ due' = Moved(calls[c].tab, calls[c].goto)
    BY <1>20 DEF Redirect
  <2>2. calls[c].tab \in Tabs \cup {None} /\ calls[c].goto \in Values
    BY <1>1, <2>1 DEF Call
  <2>3. \A d \in Calls, v \in Tabs : \/ End(c)[d] = calls[d]
                                     \/ End(c)[d].tab # v /\ ~PushesTo(d, v)
    BY <1>18, <2>1, PreferencesAssumption DEF PushesTo, Idle
  <2>4. QED
    BY <1>18, <2>1, <2>2, <2>3, MovedFollows
<1>21. ASSUME NEW c \in Calls, ReceiveLogin(c) \/ StoreLogin(c) PROVE Follows(u)'
  <2>1. /\ calls[c].kind = "login" /\ UNCHANGED <<due, locale>>
        /\ \/ calls' = [calls EXCEPT ![c] = Get(calls[c].tab, calls[c].as)]
           \/ calls' = [calls EXCEPT ![c] = [calls[c] EXCEPT !.kind = "request", !.as = None]]
    BY <1>21 DEF ReceiveLogin, StoreLogin
  <2>2. Get(calls[c].tab, calls[c].as).kind = "get"
    BY DEF Get, Sent, Idle
  <2>3. [calls[c] EXCEPT !.kind = "request", !.as = None].kind = "request"
    BY <1>1 DEF Call
  <2>4. calls'[c].kind # "put" /\ \A d \in Calls : d # c => calls'[d] = calls[d]
    BY <1>1, <2>1, <2>2, <2>3
  <2>5. \A d \in Calls : StillPushes(d, u)
    BY <2>1, <2>4 DEF StillPushes, PushesTo
  <2>6. QED
    BY <1>3, <2>1, <2>5, SamePending
<1>22. ASSUME NEW c \in Calls, GiveUp(c) PROVE Follows(u)'
  <2> DEFINE left == [calls EXCEPT ![c] = Abandoned(@)]
  <2>1. /\ left \in [Calls -> Call] /\ left[c].tab # u
        /\ \A d \in Calls : d # c => left[d] = calls[d]
    BY <1>1, AbandonedType, PreferencesAssumption
  <2>2. /\ calls[c].kind \in {"put", "login"} /\ calls[c].stage # "idle" /\ UNCHANGED due
        /\ \/ /\ calls[c].kind = "put" /\ calls[c].goto # None
              /\ Relocate(calls[c].tab, calls[c].goto, left)
           \/ /\ calls' = left /\ UNCHANGED locale
              /\ calls[c].kind = "login" \/ calls[c].goto \in {None, locale[calls[c].tab]}
    BY <1>22 DEF GiveUp
  <2> HIDE DEF left
  <2>3. calls[c].tab \in Tabs \cup {None} /\ calls[c].goto \in Values \cup {None}
    BY <1>1 DEF Call
  <2>4. CASE /\ calls[c].kind = "put" /\ calls[c].goto # None
             /\ Relocate(calls[c].tab, calls[c].goto, left)
    BY <1>17, <2>1, <2>2, <2>3, <2>4
  <2>5. CASE /\ calls' = left /\ UNCHANGED locale
             /\ calls[c].kind = "login" \/ calls[c].goto \in {None, locale[calls[c].tab]}
    <3>1. ~PushesTo(c, u)' /\ \A d \in Calls : d # c => StillPushes(d, u)
      BY <2>1, <2>5 DEF StillPushes, PushesTo
    <3>2. PushesTo(c, u) => locale[u] = calls[c].goto
      BY <2>5 DEF PushesTo
    <3>3. QED
      BY <2>2, <2>5, <3>1, <3>2, PushedFollows
  <2>6. QED
    BY <2>2, <2>4, <2>5
<1>23. CASE UNCHANGED vars
  BY <1>3, <1>4, <1>23 DEF vars
<1>24. QED
  BY <1>5, <1>6, <1>7, <1>9, <1>10, <1>11, <1>12, <1>13, <1>14, <1>15, <1>16, <1>19, <1>20, <1>21,
     <1>22, <1>23
     DEF Next, Receive

\* When the saves of a tab have ended, well or not, its address has a language whose save
\* was in flight when one was chosen in it last, or the locale that something else than a
\* save moved it to after them.
THEOREM AddressFollows == Spec => []LanguageFollows
<1>1. Init => LInv
  <2> SUFFICES ASSUME Init PROVE LInv
    OBVIOUS
  <2>1. \A c \in Calls : calls[c] = Idle
    BY DEF Init
  <2>2. \A t \in Tabs : Follows(t)
    BY <2>1 DEF Init, Follows, Pending, Active, Idle
  <2>3. QED
    BY <2>2, InitTInv DEF LInv
<1>2. LInv => LanguageFollows
  BY DEF LInv, Follows, LanguageFollows
<1>3. QED
  BY <1>1, <1>2, NextLInv, PTL DEF Spec

-----------------------------------------------------------------------------
(***************************************************************************)
(* localStorage and the service.                                           *)
(***************************************************************************)

\* No preferences are not preferences.
LEMMA NonePrefs == \A p \in Prefs : p # None
BY PreferencesAssumption DEF Prefs

\* Only the rest of a save or of a login may have no tab that waits for it, and then it has
\* no answer.
CallOK(call) ==
    /\ call.stage \notin {"sent", "read"} /\ call.kind # "login" => call.as = None
    /\ call.stage \in {"answered", "failed"} => call.tab \in Tabs
    /\ call.stage = "sent" /\ call.kind = "get" => call.tab \in Tabs
    /\ call.stage = "read" => call.kind = "login"

CallsOK == \A c \in Calls : CallOK(calls[c])

\* The provider that wrote localStorage last has what it wrote, until it is replaced by
\* one that reads it.
LastShown ==
    /\ latest # None => kept # None
    /\ \A t \in Tabs : latest = t /\ ready[t] => prefs[t] = kept

SignedIn == stored["customer"]

\* A fetch or save in flight is one of the user that is signed in, a fetch brings what is
\* saved and a save what is kept.
Agrees(call) ==
    call.kind \in {"get", "put"} =>
        /\ call.stage # "failed"
        /\ call.stage = "sent" => call.as = SignedIn
        /\ call.kind = "get" /\ call.stage = "answered" => call.data = saved[SignedIn]
        /\ call.kind = "put" /\ call.stage = "sent" => call.data = kept

InFlight(c) == calls[c].stage # "idle"

\* What makes localStorage and the service agree is still to come, or they do.
Current ==
    \/ \E t \in Tabs : ~ready[t]
    \/ \E c \in Calls : /\ InFlight(c)
                        /\ calls[c].kind = "put" => calls[c].stage = "sent"
                        /\ calls[c].kind \in {"get", "put"}
    \/ kept = saved[SignedIn]

\* Beside a save there are only requests, so what a login has read is still what is saved.
Undisturbed ==
    /\ \A c, d \in Calls :
          InFlight(c) /\ InFlight(d) /\ calls[c].kind = "put" /\ calls[d].kind # "request" => c = d
    /\ \A c \in Calls : calls[c].stage = "read" => calls[c].data = saved[calls[c].as]

Settled ==
    /\ Undisturbed
    /\ SignedIn # None => Current /\ \A c \in Calls : InFlight(c) => Agrees(calls[c])

QInv == TInv /\ CallsOK /\ LastShown /\ (~muddled => Settled)

\* It follows from the invariant that they agree when nothing is in flight.
LEMMA QuietFollows == QInv => QuietIsConsistent
<1> SUFFICES ASSUME QInv, Quiet PROVE /\ latest # None => prefs[latest] = kept
                                      /\ ~muddled /\ SignedIn # None => kept = saved[SignedIn]
  BY DEF QuietIsConsistent, SignedIn
<1>1. (\A t \in Tabs : ready[t]) /\ \A c \in Calls : ~InFlight(c)
  BY DEF Quiet, Active, InFlight
<1>2. latest # None => prefs[latest] = kept
  BY <1>1 DEF QInv, LastShown, TInv, TypeOK
<1>3. ~muddled /\ SignedIn # None => kept = saved[SignedIn]
  BY <1>1 DEF QInv, Settled, Current
<1>4. QED
  BY <1>2, <1>3

\* The call c goes on, and if it is a fetch or a save then nothing happens to it.
GoesOn(c) ==
    /\ InFlight(c)
    /\ calls'[c].kind = calls[c].kind
    /\ calls[c].kind \in {"get", "put"} =>
          /\ calls'[c].stage = calls[c].stage
          /\ calls'[c].as = calls[c].as
          /\ calls'[c].data = calls[c].data

\* Nothing is disturbed while calls only go on or end.
LEMMA StillSettled ==
    ASSUME Settled, SignedIn' = SignedIn, UNCHANGED <<saved, kept>>,
           \A c \in Calls : InFlight(c)' => GoesOn(c),
           \A c \in Calls : calls'[c].stage = "read" => calls'[c].data = saved[calls'[c].as],
           SignedIn # None => Current'
    PROVE  Settled'
<1>1. Undisturbed'
  BY DEF Settled, Undisturbed, GoesOn
<1>2. ASSUME SignedIn # None, NEW c \in Calls, InFlight(c)' PROVE Agrees(calls[c])'
  <2>1. Agrees(calls[c]) /\ GoesOn(c)
    BY <1>2 DEF Settled, GoesOn
  <2>2. QED
    BY <2>1 DEF GoesOn, Agrees
<1>3. QED
  BY <1>1, <1>2 DEF Settled

\* What is still to come stays so while no fetch or save ends.
LEMMA StillCurrent ==
    ASSUME Current, SignedIn' = SignedIn, UNCHANGED <<saved, kept, ready>>,
           \A c \in Calls : InFlight(c) /\ calls[c].kind \in {"get", "put"}
                               => calls'[c] = calls[c]
    PROVE  Current'
BY DEF Current, InFlight

\* A fetch or a save that takes a slot, and does not disturb or is not disturbed.
LEMMA SlotAgrees ==
    ASSUME TInv, CallsOK, ~muddled => Settled, NEW c \in Calls, NEW call \in Call,
           call.kind \in {"get", "put"}, call.stage = "sent", call.tab \in Tabs,
           call.as \in Users, calls' = [calls EXCEPT ![c] = call],
           muddled' = MuddledBy(c, call), UNCHANGED saved,
           SignedIn' # None => SignedIn' = call.as, call.kind = "put" => call.data = kept'
    PROVE  CallsOK' /\ (~muddled' => Settled')
<1>1. calls'[c] = call /\ \A d \in Calls : d # c => calls'[d] = calls[d]
  BY DEF TInv, TypeOK
<1>2. CallsOK'
  BY <1>1 DEF CallsOK, CallOK
<1>3. ASSUME ~muddled' PROVE Settled'
  <2>1. ASSUME NEW d \in Calls, d # c, InFlight(d)
        PROVE  \/ calls[d].kind = "request"
               \/ ~muddled /\ ~Disturbs(calls[d], call)
    BY <1>3, <2>1 DEF MuddledBy, Active, InFlight
  <2>2. ASSUME NEW d \in Calls, d # c, InFlight(d), calls[d].kind # "request"
        PROVE  /\ ~muddled /\ call.kind = "get" /\ calls[d].kind # "put"
               /\ calls[d].kind = "get" => calls[d].as = call.as
    BY <2>1, <2>2 DEF Disturbs
  <2>3. ASSUME NEW d \in Calls, d # c, InFlight(d), calls[d].kind = "get"
        PROVE  calls[d].stage = "sent" /\ calls[d].as = call.as
    BY <2>2, <2>3, SessionAssumption DEF CallsOK, CallOK
  <2>4. \A d \in Calls : d # c => calls'[d] = calls[d] /\ (InFlight(d)' <=> InFlight(d))
    BY <1>1 DEF InFlight
  <2>5. Undisturbed'
    <3>1. ASSUME NEW d \in Calls, NEW e \in Calls, InFlight(d)', InFlight(e)',
                 calls'[d].kind = "put", calls'[e].kind # "request"
          PROVE  d = e
      BY <1>1, <2>2, <2>4, <3>1
    <3>2. ASSUME NEW d \in Calls, calls'[d].stage = "read"
          PROVE  calls'[d].data = saved'[calls'[d].as]
      <4>1. d # c /\ calls'[d] = calls[d] /\ InFlight(d)
        BY <1>1, <3>2 DEF InFlight
      <4>2. calls[d].kind # "request"
        BY <3>2, <4>1 DEF CallsOK, CallOK
      <4>3. Settled
        BY <2>2, <4>1, <4>2
      <4>4. QED
        BY <3>2, <4>1, <4>3 DEF Settled, Undisturbed
    <3>3. QED
      BY <3>1, <3>2 DEF Undisturbed
  <2>6. ASSUME SignedIn' # None, NEW d \in Calls, InFlight(d)' PROVE Agrees(calls[d])'
    <3>1. CASE d = c
      BY <1>1, <2>6, <3>1 DEF Agrees
    <3>2. CASE d # c
      BY <2>2, <2>3, <2>4, <2>6, <3>2 DEF Agrees
    <3>3. QED
      BY <3>1, <3>2
  <2>7. Current'
    BY <1>1 DEF Current, InFlight
  <2>8. QED
    BY <2>5, <2>6, <2>7 DEF Settled
<1>4. QED
  BY <1>2, <1>3

\* A login or a request that is sent, and does not meet a save.
LEMMA FormAgrees ==
    ASSUME TInv, CallsOK, ~muddled => Settled, NEW call \in Call, ForUser(call),
           call.kind \in {"login", "request"}, call.stage = "sent", Send(call),
           UNCHANGED <<session, saved, kept>>
    PROVE  CallsOK' /\ (~muddled' => Settled')
<1>1. PICK c \in Calls : /\ calls[c].stage = "idle" /\ calls'[c] = call
                         /\ muddled' = MuddledBy(c, call)
                         /\ \A d \in Calls : d # c => calls'[d] = calls[d]
  BY SendStep
<1>2. CallsOK'
  BY <1>1 DEF CallsOK, CallOK
<1>3. ASSUME ~muddled' PROVE Settled'
  <2>1. Settled /\ SignedIn' = SignedIn /\ UNCHANGED ready
    BY <1>1, <1>3 DEF MuddledBy, session, SignedIn
  <2>2. \A d \in Calls : d # c /\ InFlight(d) => ~Disturbs(calls[d], call)
    BY <1>1, <1>3 DEF MuddledBy, Active, InFlight
  <2>3. \A d \in Calls : d # c /\ InFlight(d) /\ calls[d].kind = "put" => call.kind = "request"
    BY <2>2 DEF Disturbs
  <2>4. \A d \in Calls : d # c => calls'[d] = calls[d] /\ (InFlight(d)' <=> InFlight(d))
    BY <1>1 DEF InFlight
  <2>5. Undisturbed'
    BY <1>1, <2>1, <2>3, <2>4 DEF Settled, Undisturbed
  <2>6. ASSUME SignedIn # None, NEW d \in Calls, InFlight(d)' PROVE Agrees(calls[d])'
    <3>1. CASE d = c
      BY <1>1, <3>1 DEF Agrees
    <3>2. CASE d # c
      <4>1. Agrees(calls[d]) /\ calls'[d] = calls[d]
        BY <2>1, <2>4, <2>6, <3>2 DEF Settled
      <4>2. QED
        BY <2>1, <4>1 DEF Agrees
    <3>3. QED
      BY <3>1, <3>2
  <2>7. SignedIn # None => Current'
    BY <1>1, <2>1, StillCurrent DEF Settled, InFlight
  <2>8. QED
    BY <2>1, <2>5, <2>6, <2>7 DEF Settled
<1>4. QED
  BY <1>2, <1>3

\* The providers are mounted again: they have to read localStorage and to fetch.
LEMMA RelocateAgrees ==
    ASSUME TInv, NEW t \in Tabs, NEW l \in Values, NEW present \in [Calls -> Call],
           Relocate(t, l, present), UNCHANGED <<saved, kept, latest>>,
           LastShown, \A c \in Calls : CallOK(present[c])
    PROVE  /\ CallsOK' /\ LastShown'
           /\ /\ Settled
              /\ \A c \in Calls : present[c] = calls[c] \/ present[c] = Idle
              => Settled'
<1>1. \A c \in Calls : /\ calls'[c].kind = present[c].kind
                       /\ calls'[c].stage = present[c].stage
                       /\ calls'[c].tab = present[c].tab
                       /\ calls'[c].as = present[c].as
                       /\ calls'[c].data = present[c].data
  BY DEF Relocate, Call
<1>2. CallsOK'
  BY <1>1 DEF CallsOK, CallOK
<1>3. /\ ready'[t] = FALSE /\ SignedIn' = SignedIn
      /\ \A u \in Tabs : u # t => ready'[u] = ready[u] /\ prefs'[u] = prefs[u]
  BY DEF Relocate, Mount, TInv, TypeOK, SessionType, SignedIn
<1>4. LastShown'
  BY <1>3 DEF LastShown
<1>5. ASSUME Settled, \A c \in Calls : present[c] = calls[c] \/ present[c] = Idle
      PROVE  Settled'
  <2>1. \A c \in Calls : InFlight(c)' => present[c] = calls[c]
    BY <1>1, <1>5 DEF InFlight, Idle
  <2>2. \A c \in Calls : InFlight(c)' => GoesOn(c)
    BY <1>1, <2>1 DEF InFlight, GoesOn
  <2>3. \A c \in Calls : calls'[c].stage = "read" => calls'[c].data = saved[calls'[c].as]
    BY <1>1, <1>5, <2>1 DEF InFlight, Settled, Undisturbed
  <2>4. Current'
    BY <1>3 DEF Current
  <2>5. QED
    BY <1>3, <1>5, <2>2, <2>3, <2>4, StillSettled
<1>6. QED
  BY <1>2, <1>4, <1>5

\* What is left of a call that nobody awaits is in order.
LEMMA AbandonedOK ==
    ASSUME NEW call \in Call, CallOK(call)
    PROVE  CallOK(Abandoned(call))
BY AbandonedType DEF CallOK, Idle

\* Every step preserves it.
LEMMA NextQInv == QInv /\ [Next]_vars => QInv'
<1> SUFFICES ASSUME QInv, [Next]_vars PROVE QInv'
  OBVIOUS
<1> USE DEF stores, pages, observations
<1>1. TInv /\ TInv' /\ CallsOK /\ LastShown /\ (~muddled => Settled)
  BY NextTInv DEF QInv
<1>2. \A t : Bearer(t) = SignedIn
  BY PreferencesAssumption DEF Bearer, Frontend, SignedIn
<1>3. (\A c \in Calls : calls[c] \in Call /\ CallOK(calls[c])) /\ calls \in [Calls -> Call]
  BY <1>1 DEF TInv, TypeOK, CallsOK
<1> SUFFICES CallsOK' /\ LastShown' /\ (~muddled' => Settled')
  BY <1>1 DEF QInv
<1>4. ASSUME NEW t \in Tabs, Load(t)
      PROVE  CallsOK' /\ LastShown' /\ (~muddled' => Settled')
  <2>1. \A c \in Calls : calls'[c] = IF calls[c].tab = t THEN Abandoned(calls[c]) ELSE calls[c]
    BY <1>1, <1>4, LoadCalls
  <2>2. /\ ready'[t] = FALSE /\ SignedIn' = SignedIn
        /\ \A u \in Tabs : u # t => ready'[u] = ready[u] /\ prefs'[u] = prefs[u]
        /\ UNCHANGED <<saved, kept, latest, muddled>>
    BY <1>1, <1>4 DEF Load, Mount, TInv, TypeOK, SessionType, SignedIn
  <2>3. CallsOK'
    BY <1>3, <2>1, AbandonedOK DEF CallsOK
  <2>4. LastShown'
    BY <1>1, <2>2 DEF LastShown
  <2>5. ASSUME NEW c \in Calls
        PROVE  /\ InFlight(c)' => GoesOn(c)
               /\ calls'[c].stage = "read" => /\ calls[c].stage = "read"
                                              /\ calls'[c].data = calls[c].data
                                              /\ calls'[c].as = calls[c].as
    <3>1. CASE calls'[c] = calls[c]
      BY <3>1 DEF InFlight, GoesOn
    <3>2. CASE calls'[c] = Abandoned(calls[c])
      BY <1>3, <3>2, AbandonedType DEF InFlight, GoesOn, Idle
    <3>3. QED
      BY <2>1, <3>1, <3>2
  <2>6. Current'
    BY <2>2 DEF Current
  <2>7. ~muddled' => Settled'
    <3> SUFFICES ASSUME ~muddled' PROVE Settled'
      OBVIOUS
    <3>1. Settled
      BY <1>1, <2>2
    <3>2. \A c \in Calls : calls'[c].stage = "read" => calls'[c].data = saved[calls'[c].as]
      BY <2>5, <3>1 DEF Settled, Undisturbed
    <3>3. QED
      BY <2>2, <2>5, <2>6, <3>1, <3>2, StillSettled
  <2>8. QED
    BY <2>3, <2>4, <2>7
<1>5. ASSUME NEW t \in Tabs, Start(t)
      PROVE  CallsOK' /\ LastShown' /\ (~muddled' => Settled')
  <2>1. /\ SignedIn' = SignedIn /\ UNCHANGED <<saved, kept, latest>>
        /\ kept # None => prefs'[t] = kept
        /\ \A u \in Tabs : u # t => ready'[u] = ready[u] /\ prefs'[u] = prefs[u]
    BY <1>1, <1>5 DEF Start, Restore, TInv, TypeOK, SessionType, SignedIn
  <2>2. LastShown'
    BY <1>1, <2>1, PreferencesAssumption DEF LastShown
  <2>3. CASE Bearer(t) # None
    <3>1. SignedIn \in Users /\ Sender(t, Bearer(t)) = SignedIn
      BY <1>1, <1>2, <2>3 DEF TInv, TypeOK, SessionType, SignedIn, Sender, Frontends
    <3>2. /\ Get(t, SignedIn) \in Call /\ ForUser(Get(t, SignedIn))
          /\ Get(t, SignedIn).kind = "get" /\ Get(t, SignedIn).stage = "sent"
          /\ Get(t, SignedIn).tab = t /\ Get(t, SignedIn).as = SignedIn
      BY <3>1, DefaultTypes, SentCalls
    <3>3. Send(Get(t, SignedIn))
      BY <1>5, <2>3, <3>1 DEF Start, Fetch
    <3>4. PICK c \in Calls : /\ calls' = [calls EXCEPT ![c] = Get(t, SignedIn)]
                             /\ muddled' = MuddledBy(c, Get(t, SignedIn))
      BY <3>3 DEF Send
    <3>5. QED
      BY <1>1, <2>1, <2>2, <3>1, <3>2, <3>4, SlotAgrees
  <2>4. CASE Bearer(t) = None
    <3>1. SignedIn = None /\ UNCHANGED <<calls, muddled>>
      BY <1>2, <1>5, <2>4 DEF Start
    <3>2. QED
      BY <1>1, <2>1, <2>2, <3>1 DEF CallsOK, Settled, Undisturbed, InFlight
  <2>5. QED
    BY <2>3, <2>4
<1>6. ASSUME NEW t \in Tabs, SignOut(t)
      PROVE  CallsOK' /\ LastShown' /\ (~muddled' => Settled')
  <2>1. SignedIn' = None
    BY <1>1, <1>6, PreferencesAssumption
       DEF SignOut, Leave, SignedIn, TInv, TypeOK, SessionType, Frontends, Frontend
  <2>2. UNCHANGED <<calls, saved, kept, prefs, ready, latest, muddled>>
    BY <1>6 DEF SignOut, Leave
  <2>3. CallsOK' /\ LastShown'
    BY <1>1, <2>2 DEF CallsOK, LastShown
  <2>4. QED
    BY <1>1, <2>1, <2>2, <2>3 DEF Settled, Undisturbed, InFlight
<1>7. ASSUME NEW call \in Call, ForUser(call), call.kind \in {"login", "request"},
             call.stage = "sent", Send(call), UNCHANGED <<session, stores, pages, latest>>
      PROVE  CallsOK' /\ LastShown' /\ (~muddled' => Settled')
  <2>1. LastShown'
    BY <1>1, <1>7 DEF LastShown, session
  <2>2. QED
    BY <1>1, <1>7, <2>1, FormAgrees
<1>8. ASSUME NEW t \in Tabs, NEW u \in Users, SubmitSignIn(t, u)
      PROVE  CallsOK' /\ LastShown' /\ (~muddled' => Settled')
  <2>1. locale[t] \in Values
    BY <1>1 DEF TInv, TypeOK
  <2>2. /\ Login(t, u, locale[t]) \in Call /\ ForUser(Login(t, u, locale[t]))
        /\ Login(t, u, locale[t]).kind = "login" /\ Login(t, u, locale[t]).stage = "sent"
    BY <2>1, DefaultTypes, SentCalls
  <2>3. QED
    BY <1>7, <1>8, <2>2 DEF SubmitSignIn
<1>9. ASSUME NEW t \in Tabs, SubmitRequest(t)
      PROVE  CallsOK' /\ LastShown' /\ (~muddled' => Settled')
  <2>1. user[t] \in Users /\ locale[t] \in Values
    BY <1>1, <1>9 DEF SubmitRequest, TInv, TypeOK, SessionType
  <2>2. /\ Request(t, locale[t]) \in Call /\ ForUser(Request(t, locale[t]))
        /\ Request(t, locale[t]).kind = "request" /\ Request(t, locale[t]).stage = "sent"
    BY <2>1, DefaultTypes, SentCalls
  <2>3. QED
    BY <1>7, <1>9, <2>2 DEF SubmitRequest
<1>10. ASSUME NEW u \in Users, SignInElsewhere(u)
       PROVE  CallsOK' /\ LastShown' /\ (~muddled' => Settled')
  <2> DEFINE call == [Login(None, u, None) EXCEPT !.live = FALSE]
  <2>1. call \in Call /\ ForUser(call) /\ call.kind = "login" /\ call.stage = "sent"
    BY LoginElsewhere
  <2>2. Send(call) /\ UNCHANGED <<session, stores, pages, latest>>
    BY <1>10 DEF SignInElsewhere
  <2> HIDE DEF call
  <2>3. QED
    BY <1>7, <2>1, <2>2
<1>11. ASSUME UNCHANGED <<kept, prefs, ready, latest>> PROVE LastShown'
  BY <1>1, <1>11 DEF LastShown
<1>12. ASSUME NEW u \in Users, NEW p \in Prefs, SaveElsewhere(u, p)
       PROVE  CallsOK' /\ LastShown' /\ (~muddled' => Settled')
  <2>1. UNCHANGED <<calls, kept, prefs, ready, latest>> /\ muddled'
    BY <1>12 DEF SaveElsewhere, session
  <2>2. QED
    BY <1>1, <1>11, <2>1 DEF CallsOK
<1>13. ASSUME NEW t \in Tabs, NEW l \in Values, SwitchLocale(t, l) \/ LeaveOverview(t, l)
       PROVE  CallsOK' /\ LastShown' /\ (~muddled' => Settled')
  <2>1. Relocate(t, l, calls) /\ UNCHANGED <<saved, kept, latest, muddled>>
    BY <1>13 DEF SwitchLocale, LeaveOverview
  <2>2. QED
    BY <1>1, <1>3, <2>1, RelocateAgrees
<1>14. ASSUME NEW t \in Tabs, NEW s \in Settings, NEW v \in Values, Change(t, s, v)
       PROVE  CallsOK' /\ LastShown' /\ (~muddled' => Settled')
  <2> DEFINE p == Updated(prefs[t], s, v)
             u == Sender(t, user[t])
  <2>1. p \in Prefs /\ u \in Users
    BY <1>1, <1>14, ChangeTypes
  <2>2. PICK l \in Values \cup {None} : Send(Put(t, u, p, l))
    BY <1>1, <1>14, ChangeTypes
  <2>3. SignedIn # None => u = SignedIn
    BY <1>2 DEF Sender
  <2>4. /\ kept' = p /\ prefs' = [prefs EXCEPT ![t] = p] /\ latest' = t
        /\ UNCHANGED <<session, saved>>
    BY <1>14 DEF Change, Keep
  <2> HIDE DEF p, u
  <2>5. /\ Put(t, u, p, l) \in Call /\ Put(t, u, p, l).kind = "put"
        /\ Put(t, u, p, l).stage = "sent" /\ Put(t, u, p, l).as = u
        /\ Put(t, u, p, l).tab = t /\ Put(t, u, p, l).data = p
    BY <2>1, SentCalls
  <2>6. LastShown'
    <3>1. p # None
      BY <2>1, NonePrefs
    <3>2. prefs'[t] = p
      BY <1>1, <2>4 DEF TInv, TypeOK
    <3>3. QED
      BY <2>4, <3>1, <3>2 DEF LastShown
  <2>7. SignedIn' = SignedIn
    BY <2>4 DEF session, SignedIn
  <2>8. PICK c \in Calls : /\ calls' = [calls EXCEPT ![c] = Put(t, u, p, l)]
                           /\ muddled' = MuddledBy(c, Put(t, u, p, l))
    BY <2>2 DEF Send
  <2>9. QED
    BY <1>1, <2>1, <2>3, <2>4, <2>5, <2>6, <2>7, <2>8, SlotAgrees
<1>15. ASSUME NEW c \in Calls, Serve(c)
       PROVE  CallsOK' /\ LastShown' /\ (~muddled' => Settled')
  <2>1. /\ UNCHANGED <<session, kept, prefs, latest, muddled>>
        /\ InFlight(c)
        /\ \A d \in Calls : d # c => calls'[d] = calls[d]
    BY <1>1, <1>15, ServedStep DEF Serve, InFlight
  <2>2. LastShown' /\ SignedIn' = SignedIn /\ UNCHANGED ready
    BY <1>11, <2>1 DEF session, SignedIn
  <2>3. CASE ServeGet(c)
    <3>1. /\ calls'[c] = [calls[c] EXCEPT !.stage = "answered", !.as = None,
                                          !.data = saved[calls[c].as]]
          /\ UNCHANGED saved /\ calls[c].kind = "get" /\ calls[c].stage = "sent"
      BY <1>3, <2>3 DEF ServeGet
    <3>2. /\ calls'[c].stage = "answered" /\ calls'[c].as = None /\ calls'[c].kind = "get"
          /\ calls'[c].data = saved[calls[c].as] /\ calls'[c].tab = calls[c].tab
      BY <1>3, <3>1 DEF Call
    <3>3. CallsOK'
      BY <1>1, <2>1, <3>1, <3>2 DEF CallsOK, CallOK
    <3>4. \A d \in Calls : (InFlight(d)' <=> InFlight(d)) /\ calls'[d].kind = calls[d].kind
      BY <2>1, <3>1, <3>2 DEF InFlight
    <3>5. ASSUME ~muddled' PROVE Settled'
      <4>1. Settled
        BY <1>1, <2>1, <3>5
      <4>2. Undisturbed'
        BY <2>1, <3>1, <3>2, <3>4, <4>1 DEF Settled, Undisturbed
      <4>3. ASSUME SignedIn # None, NEW d \in Calls, InFlight(d)' PROVE Agrees(calls[d])'
        <5>1. CASE d = c
          <6>1. calls[c].as = SignedIn
            BY <2>1, <3>1, <4>1, <4>3 DEF Settled, Agrees
          <6>2. QED
            BY <2>2, <3>1, <3>2, <5>1, <6>1 DEF Agrees
        <5>2. CASE d # c
          <6>1. Agrees(calls[d]) /\ calls'[d] = calls[d] /\ UNCHANGED kept
            BY <2>1, <3>4, <4>1, <4>3, <5>2 DEF Settled
          <6>2. QED
            BY <2>2, <3>1, <6>1 DEF Agrees
        <5>3. QED
          BY <5>1, <5>2
      <4>4. Current'
        <5>1. InFlight(c)' /\ calls'[c].kind = "get"
          BY <2>1, <3>2, <3>4
        <5>2. QED
          BY <5>1 DEF Current
      <4>5. QED
        BY <2>2, <4>2, <4>3, <4>4 DEF Settled
    <3>6. QED
      BY <2>2, <3>3, <3>5
  <2>4. CASE ServePut(c)
    <3>1. /\ calls'[c] = Ended(calls[c], "answered")
          /\ saved' = [saved EXCEPT ![calls[c].as] = calls[c].data]
          /\ calls[c].kind = "put" /\ calls[c].stage = "sent" /\ calls[c].as \in Users
      BY <1>1, <1>3, <2>4 DEF ServePut, TInv, SentForUser, ForUser
    <3>2. \/ calls'[c] = Idle
          \/ /\ calls[c].tab \in Tabs /\ calls'[c].stage = "answered" /\ calls'[c].as = None
             /\ calls'[c].tab = calls[c].tab /\ calls'[c].kind = "put"
      BY <1>3, <3>1 DEF Ended, Call
    <3>3. CallsOK'
      BY <1>1, <2>1, <3>2 DEF CallsOK, CallOK, Idle
    <3>4. ASSUME ~muddled' PROVE Settled'
      <4>1. Settled
        BY <1>1, <2>1, <3>4
      <4>2. \A d \in Calls : d # c /\ InFlight(d)' => calls'[d].kind = "request"
        BY <2>1, <3>1, <4>1 DEF Settled, Undisturbed, InFlight
      <4>3. calls'[c].stage # "read"
        BY <3>2 DEF Idle
      <4>4. \A d \in Calls : calls'[d].stage = "read" => calls'[d].kind = "login"
        BY <3>3 DEF CallsOK, CallOK
      <4>5. Undisturbed'
        BY <4>2, <4>3, <4>4 DEF Undisturbed, InFlight
      <4>6. ASSUME SignedIn # None PROVE Current' /\ \A d \in Calls : InFlight(d)' => Agrees(calls[d])'
        <5>1. calls[c].as = SignedIn /\ calls[c].data = kept
          BY <2>1, <3>1, <4>1, <4>6 DEF Settled, Agrees
        <5>2. kept' = saved'[SignedIn']
          BY <1>1, <2>1, <2>2, <3>1, <5>1 DEF TInv, TypeOK
        <5>3. Agrees(calls[c])'
          BY <3>2 DEF Agrees, Idle
        <5>4. \A d \in Calls : InFlight(d)' => Agrees(calls[d])'
          BY <4>2, <5>3 DEF Agrees
        <5>5. QED
          BY <5>2, <5>4 DEF Current
      <4>7. QED
        BY <2>2, <4>5, <4>6 DEF Settled
    <3>5. QED
      BY <2>2, <3>3, <3>4
  <2>5. ASSUME calls[c].kind \in {"login", "request"}, calls'[c].stage \in {"idle", "read", "answered"},
               calls'[c] = Idle \/ calls'[c].kind = calls[c].kind,
               calls'[c].stage = "read" => calls'[c].data = saved[calls'[c].as],
               ~muddled /\ Settled => UNCHANGED saved, CallOK(calls'[c])
        PROVE  CallsOK' /\ LastShown' /\ (~muddled' => Settled')
    <3>1. CallsOK'
      BY <1>1, <2>1, <2>5 DEF CallsOK
    <3>2. ASSUME ~muddled' PROVE Settled'
      <4>1. Settled /\ UNCHANGED saved
        BY <1>1, <2>1, <2>5, <3>2
      <4>2. \A d \in Calls : InFlight(d)' => GoesOn(d)
        BY <2>1, <2>5 DEF InFlight, GoesOn, Idle
      <4>3. \A d \in Calls : calls'[d].stage = "read" => calls'[d].data = saved[calls'[d].as]
        BY <2>1, <2>5, <4>1 DEF Settled, Undisturbed
      <4>4. SignedIn # None => Current'
        BY <2>1, <2>2, <2>5, <4>1, StillCurrent DEF Settled
      <4>5. QED
        BY <2>1, <2>2, <4>1, <4>2, <4>3, <4>4, StillSettled
    <3>3. QED
      BY <2>2, <3>1, <3>2
  <2>6. CASE CheckLogin(c)
    <3>1. /\ calls'[c] = [calls[c] EXCEPT !.stage = "read", !.data = saved[calls[c].as]]
          /\ UNCHANGED saved /\ calls[c].kind = "login"
      BY <1>3, <2>6 DEF CheckLogin
    <3>2. /\ calls'[c].stage = "read" /\ calls'[c].kind = "login"
          /\ calls'[c].data = saved[calls'[c].as]
      BY <1>3, <3>1 DEF Call
    <3>3. QED
      BY <2>5, <3>1, <3>2 DEF CallOK
  <2>7. CASE FinishLogin(c)
    <3>1. calls[c].stage = "read" /\ calls[c].kind = "login"
      BY <1>3, <2>7 DEF FinishLogin, CallOK
    <3>2. \/ calls'[c] = Idle
          \/ /\ calls[c].tab # None
             /\ calls'[c] = [calls[c] EXCEPT !.stage = "answered", !.data = Defaults]
      BY <1>3, <2>7 DEF FinishLogin
    <3>3. \/ calls'[c] = Idle
          \/ /\ calls'[c].stage = "answered" /\ calls'[c].kind = "login"
             /\ calls'[c].tab \in Tabs
      BY <1>3, <3>1, <3>2 DEF Call
    <3>4. CallOK(calls'[c]) /\ calls'[c].stage \in {"idle", "answered"}
      BY <3>3 DEF CallOK, Idle
    <3>5. Settled => UNCHANGED saved
      <4>1. Settled => calls[c].data = saved[calls[c].as]
        BY <3>1 DEF Settled, Undisturbed
      <4>2. saved' \in {saved, [saved EXCEPT ![calls[c].as] = calls[c].data]}
        BY <2>7 DEF FinishLogin
      <4>3. saved \in [Users -> Prefs]
        BY <1>1 DEF TInv, TypeOK
      <4>4. QED
        BY <4>1, <4>2, <4>3
    <3>6. QED
      BY <2>5, <3>1, <3>3, <3>4, <3>5
  <2>8. CASE ServeRequest(c)
    <3>1. /\ calls[c].kind = "request" /\ UNCHANGED saved
          /\ calls'[c] = Ended(calls[c], "answered")
      BY <1>3, <2>8 DEF ServeRequest
    <3>2. \/ calls'[c] = Idle
          \/ /\ calls[c].tab \in Tabs /\ calls'[c].stage = "answered" /\ calls'[c].as = None
             /\ calls'[c].tab = calls[c].tab /\ calls'[c].kind = "request"
      BY <1>3, <3>1 DEF Ended, Call
    <3>3. CallOK(calls'[c]) /\ calls'[c].stage \in {"idle", "answered"}
      BY <3>2 DEF CallOK, Idle
    <3>4. QED
      BY <2>5, <3>1, <3>2, <3>3
  <2>9. QED
    BY <1>15, <2>3, <2>4, <2>6, <2>7, <2>8 DEF Serve
<1>16. ASSUME NEW c \in Calls, Lose(c)
       PROVE  CallsOK' /\ LastShown' /\ (~muddled' => Settled')
  <2>1. /\ UNCHANGED <<session, saved, kept, prefs, latest>>
        /\ muddled' = (muddled \/ calls[c].kind \in {"get", "put"})
        /\ calls'[c] = Ended(calls[c], "failed") /\ InFlight(c)
        /\ \A d \in Calls : d # c => calls'[d] = calls[d]
    BY <1>3, <1>16 DEF Lose, InFlight
  <2>2. calls'[c] = Idle \/ /\ calls[c].tab \in Tabs /\ calls'[c].tab = calls[c].tab
                            /\ calls'[c].stage = "failed" /\ calls'[c].as = None
                            /\ calls'[c].kind = calls[c].kind
    BY <1>3, <2>1 DEF Ended, Call
  <2>3. CallsOK'
    BY <1>1, <2>1, <2>2 DEF CallsOK, CallOK, Idle
  <2>4. LastShown' /\ SignedIn' = SignedIn /\ UNCHANGED ready
    BY <1>11, <2>1 DEF session, SignedIn
  <2>5. ASSUME ~muddled' PROVE Settled'
    <3>1. Settled /\ calls[c].kind \notin {"get", "put"}
      BY <1>1, <2>1, <2>5
    <3>2. \A d \in Calls : InFlight(d)' => GoesOn(d)
      BY <2>1, <2>2, <3>1 DEF InFlight, GoesOn, Idle
    <3>3. \A d \in Calls : calls'[d].stage = "read" => calls'[d].data = saved[calls'[d].as]
      BY <2>1, <2>2, <3>1 DEF Settled, Undisturbed, Idle
    <3>4. SignedIn # None => Current'
      BY <2>1, <2>4, <3>1, StillCurrent DEF Settled
    <3>5. QED
      BY <2>1, <2>4, <3>1, <3>2, <3>3, <3>4, StillSettled
  <2>6. QED
    BY <2>3, <2>4, <2>5
<1>17. ASSUME NEW c \in Calls, ReceivePrefs(c)
       PROVE  CallsOK' /\ LastShown' /\ (~muddled' => Settled')
  <2>1. PICK t \in Tabs, data \in Prefs : t = calls[c].tab /\ data = calls[c].data
    BY <1>3, <1>17 DEF ReceivePrefs, CallOK, Call
  <2>2. /\ calls'[c] = Idle /\ \A d \in Calls : d # c => calls'[d] = calls[d]
        /\ calls[c].stage = "answered" /\ calls[c].kind = "get" /\ InFlight(c)
        /\ UNCHANGED <<session, saved, muddled>> /\ kept' = data
        /\ \/ prefs' = [prefs EXCEPT ![t] = data] /\ latest' = t
           \/ UNCHANGED prefs /\ latest' = None
    BY <1>1, <1>17, <2>1, EndStep DEF ReceivePrefs, Keep, InFlight
  <2>3. CallsOK'
    BY <1>1, <2>2 DEF CallsOK, CallOK, Idle
  <2>4. LastShown'
    <3>1. data # None /\ t # None /\ DOMAIN prefs = Tabs
      BY <1>1, <2>1, NonePrefs, PreferencesAssumption DEF TInv, TypeOK
    <3>2. \A u \in Tabs : latest' = u => u = t /\ prefs'[u] = data
      BY <2>2, <3>1, PreferencesAssumption
    <3>3. QED
      BY <2>2, <3>1, <3>2 DEF LastShown
  <2>5. SignedIn' = SignedIn
    BY <2>2 DEF session, SignedIn
  <2>6. ASSUME ~muddled' PROVE Settled'
    <3>1. Settled
      BY <1>1, <2>2, <2>6
    <3>2. \A d \in Calls : InFlight(d)' => /\ d # c /\ InFlight(d) /\ calls'[d] = calls[d]
                                           /\ calls[d].kind # "put"
      BY <2>2, <3>1 DEF Settled, Undisturbed, InFlight, Idle
    <3>3. Undisturbed'
      BY <2>2, <3>1, <3>2 DEF Settled, Undisturbed, Idle
    <3>4. ASSUME SignedIn # None PROVE Current' /\ \A d \in Calls : InFlight(d)' => Agrees(calls[d])'
      <4>1. data = saved[SignedIn]
        BY <2>1, <2>2, <3>1, <3>4 DEF Settled, Agrees
      <4>2. \A d \in Calls : InFlight(d)' => Agrees(calls[d])'
        BY <2>2, <2>5, <3>1, <3>2, <3>4 DEF Settled, Agrees
      <4>3. QED
        BY <2>2, <2>5, <4>1, <4>2 DEF Current
    <3>5. QED
      BY <2>5, <3>3, <3>4 DEF Settled
  <2>7. QED
    BY <2>3, <2>4, <2>6
<1>18. ASSUME NEW c \in Calls, Ignore(c)
       PROVE  CallsOK' /\ LastShown' /\ (~muddled' => Settled')
  <2>1. /\ calls'[c] = Idle /\ \A d \in Calls : d # c => calls'[d] = calls[d]
        /\ UNCHANGED <<session, saved, kept, prefs, latest, muddled>> /\ InFlight(c)
        /\ \/ calls[c].stage = "failed"
           \/ calls[c].kind \in {"put", "request"} /\ calls[c].stage = "answered"
    BY <1>1, <1>18, EndStep DEF Ignore, InFlight
  <2>2. CallsOK' /\ LastShown' /\ SignedIn' = SignedIn /\ UNCHANGED ready
    BY <1>1, <1>11, <2>1 DEF CallsOK, CallOK, Idle, session, SignedIn
  <2>3. ASSUME ~muddled' PROVE Settled'
    <3>1. Settled
      BY <1>1, <2>1, <2>3
    <3>2. \A d \in Calls : InFlight(d)' => d # c /\ GoesOn(d)
      BY <2>1 DEF InFlight, GoesOn, Idle
    <3>3. \A d \in Calls : calls'[d].stage = "read" => calls'[d].data = saved[calls'[d].as]
      BY <2>1, <3>1 DEF Settled, Undisturbed, Idle
    <3>4. SignedIn # None => Current'
      <4> SUFFICES ASSUME SignedIn # None PROVE Current'
        OBVIOUS
      <4>1. Current /\ Agrees(calls[c])
        BY <2>1, <3>1 DEF Settled
      <4>2. calls[c].kind # "get" /\ ~(calls[c].kind = "put" /\ calls[c].stage = "sent")
        BY <2>1, <4>1 DEF Agrees
      <4>3. QED
        BY <2>1, <2>2, <4>1, <4>2 DEF Current, InFlight
    <3>5. QED
      BY <2>1, <2>2, <3>1, <3>2, <3>3, <3>4, StillSettled
  <2>4. QED
    BY <2>2, <2>3
<1>19. ASSUME NEW c \in Calls, Push(c) \/ Redirect(c)
       PROVE  CallsOK' /\ LastShown' /\ (~muddled' => Settled')
  <2>1. /\ calls[c].goto \in Values /\ calls[c].tab \in Tabs /\ End(c) \in [Calls -> Call]
        /\ \A d \in Calls : End(c)[d] = calls[d] \/ End(c)[d] = Idle
    BY <1>3, <1>19, DefaultTypes DEF Push, Redirect, CallOK, Call, End
  <2>2. PICK t \in Tabs, l \in Values, present \in [Calls -> Call] :
           t = calls[c].tab /\ l = calls[c].goto /\ present = End(c)
    BY <2>1
  <2>3. Relocate(t, l, present) /\ UNCHANGED <<saved, kept, latest, muddled>>
    BY <1>19, <2>2 DEF Push, Redirect
  <2>4. \A d \in Calls : CallOK(present[d])
    BY <1>3, <2>1, <2>2 DEF CallOK, Idle
  <2>5. QED
    BY <1>1, <2>1, <2>2, <2>3, <2>4, RelocateAgrees
<1>20. ASSUME NEW c \in Calls, ReceiveLogin(c)
       PROVE  CallsOK' /\ LastShown' /\ (~muddled' => Settled')
  <2> DEFINE t == calls[c].tab
             u == calls[c].as
  <2>1. t \in Tabs /\ u \in Users
    BY <1>1, <1>3, <1>20 DEF ReceiveLogin, CallOK, TInv, SentForUser, ForUser
  <2>2. /\ Enter(t, u) /\ calls' = [calls EXCEPT ![c] = Get(t, u)]
        /\ muddled' = MuddledBy(c, Get(t, u))
        /\ UNCHANGED <<saved, kept, prefs, latest>>
    BY <1>20 DEF ReceiveLogin
  <2> HIDE DEF t, u
  <2>3. SignedIn' = u
    BY <1>1, <2>2, PreferencesAssumption
       DEF Enter, SignedIn, TInv, TypeOK, SessionType, Frontends, Frontend
  <2>4. LastShown'
    BY <1>11, <2>2 DEF Enter
  <2>5. /\ Get(t, u) \in Call /\ Get(t, u).kind = "get" /\ Get(t, u).stage = "sent"
        /\ Get(t, u).tab = t /\ Get(t, u).as = u
    BY <2>1, DefaultTypes, SentCalls
  <2>6. QED
    BY <1>1, <2>1, <2>2, <2>3, <2>4, <2>5, SlotAgrees
<1>21. ASSUME NEW c \in Calls, StoreLogin(c)
       PROVE  CallsOK' /\ LastShown' /\ (~muddled' => Settled')
  <2>1. /\ calls'[c] = [calls[c] EXCEPT !.kind = "request", !.as = None]
        /\ \A d \in Calls : d # c => calls'[d] = calls[d]
        /\ calls[c].stage = "answered" /\ muddled' /\ UNCHANGED <<kept, prefs, ready, latest>>
    BY <1>3, <1>21 DEF StoreLogin
  <2>2. /\ calls'[c].stage = "answered" /\ calls'[c].as = None
        /\ calls'[c].kind = "request" /\ calls'[c].tab \in Tabs
    BY <1>3, <2>1 DEF Call, CallOK
  <2>3. QED
    BY <1>1, <1>11, <2>1, <2>2 DEF CallsOK, CallOK
<1>22. ASSUME NEW c \in Calls, GiveUp(c)
       PROVE  CallsOK' /\ LastShown' /\ (~muddled' => Settled')
  <2> DEFINE left == [calls EXCEPT ![c] = Abandoned(@)]
  <2>1. /\ left \in [Calls -> Call] /\ left[c] = Abandoned(calls[c])
        /\ \A d \in Calls : d # c => left[d] = calls[d]
    BY <1>3, AbandonedType
  <2>2. \A d \in Calls : CallOK(left[d])
    BY <1>3, <2>1, AbandonedOK
  <2>3. /\ calls[c].kind \in {"put", "login"} /\ InFlight(c)
        /\ UNCHANGED <<saved, kept, latest>> /\ calls[c].tab \in Tabs
        /\ muddled' = (muddled \/ calls[c].kind = "put")
        /\ \/ /\ calls[c].kind = "put" /\ calls[c].goto \in Values
              /\ Relocate(calls[c].tab, calls[c].goto, left)
           \/ calls' = left /\ UNCHANGED <<session, prefs>>
    BY <1>3, <1>22 DEF GiveUp, InFlight, Call
  <2> HIDE DEF left
  <2>4. CASE /\ calls[c].kind = "put" /\ calls[c].goto \in Values
             /\ Relocate(calls[c].tab, calls[c].goto, left)
    BY <1>1, <2>1, <2>2, <2>3, <2>4, RelocateAgrees
  <2>5. CASE calls' = left /\ UNCHANGED <<session, prefs>>
    <3>1. CallsOK' /\ LastShown' /\ SignedIn' = SignedIn /\ UNCHANGED ready
      BY <1>11, <2>2, <2>3, <2>5 DEF CallsOK, session, SignedIn
    <3>2. ASSUME ~muddled' PROVE Settled'
      <4>1. Settled /\ calls[c].kind = "login"
        BY <1>1, <2>3, <3>2
      <4>2. \/ calls'[c] = Idle
            \/ /\ calls'[c].kind = calls[c].kind /\ calls'[c].stage = calls[c].stage
               /\ calls'[c].as = calls[c].as /\ calls'[c].data = calls[c].data
        BY <1>3, <2>1, <2>5, AbandonedType
      <4>3. \A d \in Calls : InFlight(d)' => GoesOn(d)
        BY <2>1, <2>3, <2>5, <4>1, <4>2 DEF InFlight, GoesOn, Idle
      <4>4. \A d \in Calls : calls'[d].stage = "read" => calls'[d].data = saved[calls'[d].as]
        BY <2>1, <2>5, <4>1, <4>2 DEF Settled, Undisturbed, Idle
      <4>5. SignedIn # None => Current'
        BY <2>1, <2>3, <2>5, <3>1, <4>1, StillCurrent DEF Settled
      <4>6. QED
        BY <2>3, <3>1, <4>1, <4>3, <4>4, <4>5, StillSettled
    <3>3. QED
      BY <3>1, <3>2
  <2>6. QED
    BY <2>3, <2>4, <2>5
<1>23. ASSUME UNCHANGED vars
       PROVE  CallsOK' /\ LastShown' /\ (~muddled' => Settled')
  BY <1>1, <1>23
     DEF vars, session, CallsOK, LastShown, Settled, Undisturbed, Agrees, Current, InFlight, SignedIn
<1>24. QED
  BY <1>4, <1>5, <1>6, <1>8, <1>9, <1>10, <1>12, <1>13, <1>14, <1>15, <1>16, <1>17, <1>18, <1>19,
     <1>20, <1>21, <1>22, <1>23
     DEF Next, Receive

\* After the last answer the tab whose provider wrote localStorage last shows it, and
\* localStorage holds what the service has saved for the user that is signed in, from the
\* first fetch or save that is sent on its own after whatever had broken that. With no tab
\* at all nothing would have fetched what an earlier visit left.
THEOREM QuietConsistent ==
    ASSUME Tabs # {}
    PROVE  Spec => []QuietIsConsistent
<1>1. Init => QInv
  <2> SUFFICES ASSUME Init PROVE QInv
    OBVIOUS
  <2>1. (\A c \in Calls : calls[c] = Idle) /\ \A t \in Tabs : ~ready[t]
    BY DEF Init, SessionInit
  <2>2. CallsOK /\ LastShown
    BY <2>1 DEF Init, CallsOK, CallOK, LastShown, Idle
  <2>3. Settled
    BY <2>1 DEF Settled, Undisturbed, Current, InFlight, Idle
  <2>4. QED
    BY <2>2, <2>3, InitTInv DEF QInv
<1>2. QED
  BY <1>1, QuietFollows, NextQInv, PTL DEF Spec
============================================================================
