------------------------ MODULE CustomerPagesProofs ------------------------
(***************************************************************************)
(* What is proved of CustomerPages for any number of users, accounts and   *)
(* calls in flight.                                                        *)
(***************************************************************************)
EXTENDS CustomerPages, FiniteSetTheorems, TLAPS

-----------------------------------------------------------------------------
(***************************************************************************)
(* The inductive invariant.                                                *)
(***************************************************************************)

\* A list of accounts, or a sign-in, is under way.
Listing(c)  == calls[c].kind = "list" /\ calls[c].stage # "idle"
Entering(c) == calls[c].kind = "enter" /\ calls[c].stage # "idle"

\* What a call has read is its account or nothing, and that it is one is left open here.
CallType ==
    [kind : {"list", "toggle", "save", "request", "enter", "register"},
     stage : {"idle", "sent", "read", "answered", "failed"},
     heard : {"page", "tab", "nobody"}, who : Users \cup {None},
     on : Accounts \cup {None}, owned : SUBSET Accounts,
     starred : SUBSET (Accounts \cup {None})]

Types ==
    /\ SessionType
    /\ calls \in [Calls -> CallType]
    /\ owner \in [Accounts -> Users \cup {None}]
    /\ crossed \in BOOLEAN

\* A list is of a user, and has accounts of that user only.
ListsAreOwned ==
    \A c \in Calls : Listing(c) => /\ calls[c].who \in Users
                                   /\ calls[c].owned \subseteq Owned(calls[c].who)

\* A document that was just loaded has no user and shows nothing, and waits for
\* nothing that its predecessor asked for.
FreshIsEmpty ==
    ~ready[Here] => /\ User = None
                    /\ list = {}
                    /\ \A c \in Calls : ~Listing(c) /\ ~Entering(c)

\* What the page shows of accounts, and what it waits for, are its user's.
ShowsOwn ==
    User # None /\ ~crossed =>
        /\ list \subseteq Owned(User)
        /\ \A c \in Calls : Listing(c) => calls[c].who = User

IInv == Types /\ ListsAreOwned /\ FreshIsEmpty /\ ShowsOwn

-----------------------------------------------------------------------------
(***************************************************************************)
(* Calls.                                                                  *)
(***************************************************************************)
\* The tab is one of the customer frontend.
LEMMA HereIsTab == Here \in Tabs /\ Frontend(Here) = "customer" /\ Frontend(Here) \in Frontends
BY CustomerPagesAssumption DEF Frontend, Frontends

\* A call that is over is idle.
LEMMA IdleType == Idle \in CallType /\ Idle.stage = "idle"
BY DEF Idle, CallType

\* What a page asks for is a list of its user, without an answer yet.
LEMMA AsksType ==
    ASSUME NEW p, NEW u \in Users \cup {None}, NEW call \in Asks(p, u)
    PROVE  /\ call \in CallType /\ call.kind = "list" /\ call.owned = {} /\ call.who = u
           /\ u \in Users
BY DEF Asks, Idle, CallType

\* A call that is sent takes the place of one that is not in flight.
LEMMA SendStep ==
    ASSUME NEW present \in [Calls -> CallType], NEW S \in SUBSET CallType, Send(present, S)
    PROVE  /\ calls' \in [Calls -> CallType]
           /\ \A c \in Calls : calls'[c] = present[c] \/ calls'[c] \in S
BY DEF Send

\* Of the page that is left no list remains, and of the document no sign-in either.
LEMMA LeftType ==
    ASSUME NEW call \in CallType
    PROVE  /\ Left(call) \in CallType
           /\ Left(call).kind = "list" => Left(call).stage = "idle"
           /\ Left(call).kind = "enter" /\ Left(call).stage # "idle" =>
                 call.kind = "enter" /\ call.stage # "idle"
           /\ Dropped(call) \in CallType
           /\ Dropped(call).kind \in {"list", "enter"} => Dropped(call).stage = "idle"
BY DEF Left, Dropped, Idle, CallType, RowWrites

-----------------------------------------------------------------------------
(***************************************************************************)
(* The steps.                                                              *)
(***************************************************************************)

\* The invariant holds at the start.
LEMMA InitIInv == Init => IInv
<1> SUFFICES ASSUME Init PROVE IInv
  OBVIOUS
<1>1. Types
  <2>1. SessionType
    BY DEF Init, SessionInit, SessionType
  <2>2. calls \in [Calls -> CallType]
    BY IdleType DEF Init
  <2>3. QED
    BY <2>1, <2>2 DEF Init, Types
<1>2. \A c \in Calls : ~Listing(c) /\ ~Entering(c)
  BY IdleType DEF Init, Listing, Entering
<1>3. list = {} /\ User = None
  BY HereIsTab DEF Init, SessionInit, User
<1>4. QED
  BY <1>1, <1>2, <1>3 DEF IInv, ListsAreOwned, FreshIsEmpty, ShowsOwn

\* A page is mounted for the user that the tab has then.
LEMMA OpenStep ==
    ASSUME IInv, SessionType', NEW p, NEW a, NEW u \in Users \cup {None}, u = User',
           NEW present \in [Calls -> CallType], Open(p, a, u, present), owner' = owner,
           \A c \in Calls : present[c].kind = "list" => present[c].stage = "idle",
           ready'[Here] \/ (u = None /\ \A c \in Calls :
                                present[c].kind = "enter" => present[c].stage = "idle")
    PROVE  IInv'
<1>1. list' = {} /\ crossed' = FALSE /\ Send(present, Asks(p, u))
  BY DEF Open
<1>2. Asks(p, u) \in SUBSET CallType
  BY AsksType
<1>3. /\ calls' \in [Calls -> CallType]
      /\ \A c \in Calls : calls'[c] = present[c] \/ calls'[c] \in Asks(p, u)
  BY <1>1, <1>2, SendStep
<1>4. ASSUME NEW c \in Calls, Listing(c)'
      PROVE  calls'[c].who = u /\ u \in Users /\ calls'[c].owned = {}
  <2>1. calls'[c] \in Asks(p, u)
    BY <1>3, <1>4 DEF Listing
  <2>2. QED
    BY <2>1, AsksType
<1>5. ASSUME NEW c \in Calls, ~ready'[Here] PROVE ~Listing(c)' /\ ~Entering(c)'
  <2>1. u = None /\ u \notin Users
    BY <1>5, SessionAssumption
  <2>2. ~Listing(c)'
    BY <1>4, <2>1
  <2>3. calls'[c] = present[c] \/ calls'[c].kind = "list"
    BY <1>3, AsksType
  <2>4. QED
    BY <1>5, <2>2, <2>3 DEF Entering
<1>6. Types'
  BY <1>1, <1>3 DEF IInv, Types
<1>7. ListsAreOwned'
  BY <1>4 DEF ListsAreOwned
<1>8. FreshIsEmpty'
  BY <1>1, <1>5 DEF FreshIsEmpty
<1>9. ShowsOwn'
  BY <1>1, <1>4 DEF ShowsOwn
<1>10. QED
  BY <1>6, <1>7, <1>8, <1>9 DEF IInv

\* A push or a link.
LEMMA GoStep ==
    ASSUME IInv, NEW p, NEW a, Go(p, a), UNCHANGED <<session, services>>
    PROVE  IInv'
<1> DEFINE present == [c \in Calls |-> Left(calls[c])]
<1>1. present \in [Calls -> CallType] /\ \A c \in Calls : present[c].kind = "list" => present[c].stage = "idle"
  BY LeftType DEF IInv, Types
<1>2. /\ SessionType' /\ User' = User /\ User \in Users \cup {None} /\ owner' = owner
      /\ ready' = ready
  BY HereIsTab DEF IInv, Types, SessionType, session, services, User
<1>3. \A c \in Calls : present[c].kind = "enter" /\ present[c].stage # "idle" => Entering(c)
  BY LeftType DEF IInv, Types, Entering
<1>4. ready[Here] \/ (User = None /\ \A c \in Calls : present[c].kind = "enter" => present[c].stage = "idle")
  BY <1>3 DEF IInv, FreshIsEmpty
<1>5. Open(p, a, User, present)
  BY DEF Go
<1> HIDE DEF present
<1>6. QED
  BY <1>1, <1>2, <1>4, <1>5, OpenStep

\* Calls are made, served, lost or received, and the list of the page is the same or one
\* that was answered.
LEMMA CallStep ==
    ASSUME IInv, calls' \in [Calls -> CallType], UNCHANGED <<session, crossed>>,
           owner' \in [Accounts -> Users \cup {None}],
           \A a \in Accounts : owner[a] # None => owner'[a] = owner[a],
           \A c \in Calls : Listing(c)' =>
              /\ Listing(c) /\ calls'[c].who = calls[c].who
              /\ calls'[c].owned \subseteq calls[c].owned \cup Owned(calls[c].who),
           \A c \in Calls : Entering(c)' => Entering(c) \/ ready[Here],
           list' = list \/ \E c \in Calls : Listing(c) /\ list' = calls[c].owned
    PROVE  IInv'
<1>1. user' = user /\ ready' = ready /\ stored' = stored /\ User' = User
  BY DEF session, User
<1>2. \A u \in Users : Owned(u) \subseteq Owned(u)'
  BY SessionAssumption DEF Owned
<1>3. Types'
  BY <1>1 DEF IInv, Types, SessionType
<1>4. ListsAreOwned'
  BY <1>2 DEF IInv, ListsAreOwned
<1>5. FreshIsEmpty'
  BY <1>1 DEF IInv, FreshIsEmpty
<1>6. ShowsOwn'
  <2>1. SUFFICES ASSUME User # None, ~crossed
                 PROVE  /\ list' \subseteq Owned(User)'
                        /\ \A c \in Calls : Listing(c)' => calls'[c].who = User
    BY <1>1 DEF ShowsOwn
  <2>2. PICK u \in Users : u = User
    BY <2>1, HereIsTab DEF IInv, Types, SessionType, User
  <2>3. list \subseteq Owned(u) /\ \A c \in Calls : Listing(c) => calls[c].who = u
    BY <2>1, <2>2 DEF IInv, ShowsOwn
  <2>4. list' \subseteq Owned(u)
    BY <2>3 DEF IInv, ListsAreOwned
  <2>5. list' \subseteq Owned(u)'
    BY <1>2, <2>4
  <2>6. QED
    BY <1>1, <2>2, <2>3, <2>5
<1>7. QED
  BY <1>3, <1>4, <1>5, <1>6 DEF IInv

\* A form or a star sends a call that is no list.
LEMMA SubmitStep ==
    ASSUME IInv, NEW call \in CallType, call.kind # "list", call.kind = "enter" => ready[Here],
           Send(calls, {call}), UNCHANGED <<session, crossed, owner, list>>
    PROVE  IInv'
<1>1. calls' \in [Calls -> CallType] /\ \A c \in Calls : calls'[c] = calls[c] \/ calls'[c] = call
  BY SendStep DEF IInv, Types
<1>2. \A c \in Calls : Listing(c)' => /\ Listing(c) /\ calls'[c].who = calls[c].who
                                      /\ calls'[c].owned \subseteq calls[c].owned \cup Owned(calls[c].who)
  BY <1>1 DEF Listing
<1>3. \A c \in Calls : Entering(c)' => Entering(c) \/ ready[Here]
  BY <1>1 DEF Entering
<1>4. owner' \in [Accounts -> Users \cup {None}]
  BY DEF IInv, Types
<1>5. QED
  BY <1>1, <1>2, <1>3, <1>4, CallStep

\* One call goes on: it is no list that was not one, and no sign-in that was not one.
LEMMA OneCallStep ==
    ASSUME IInv, NEW c \in Calls, NEW call \in CallType, calls' = [calls EXCEPT ![c] = call],
           call.stage # "idle" => /\ call.kind = calls[c].kind /\ calls[c].stage # "idle"
                                  /\ call.who = calls[c].who,
           call.owned \subseteq calls[c].owned \cup Owned(calls[c].who),
           list' = list \/ (Listing(c) /\ list' = calls[c].owned),
           UNCHANGED <<session, crossed, owner>>
    PROVE  IInv'
<1>1. calls' \in [Calls -> CallType] /\ calls'[c] = call /\ \A d \in Calls \ {c} : calls'[d] = calls[d]
  BY DEF IInv, Types
<1>2. \A d \in Calls : Listing(d)' => /\ Listing(d) /\ calls'[d].who = calls[d].who
                                      /\ calls'[d].owned \subseteq calls[d].owned \cup Owned(calls[d].who)
  BY <1>1 DEF Listing
<1>3. \A d \in Calls : Entering(d)' => Entering(d) \/ ready[Here]
  BY <1>1 DEF Entering
<1>4. owner' \in [Accounts -> Users \cup {None}]
  BY DEF IInv, Types
<1>5. QED
  BY <1>1, <1>2, <1>3, <1>4, CallStep

\* Nothing that the invariant is about changes, but that accounts are opened.
LEMMA QuietStep ==
    ASSUME IInv, UNCHANGED <<session, crossed, list, calls>>,
           owner' \in [Accounts -> Users \cup {None}],
           \A a \in Accounts : owner[a] # None => owner'[a] = owner[a]
    PROVE  IInv'
<1>1. calls' \in [Calls -> CallType]
  BY DEF IInv, Types
<1>2. \A c \in Calls : (Listing(c)' <=> Listing(c)) /\ (Entering(c)' <=> Entering(c))
  BY DEF Listing, Entering
<1>3. QED
  BY <1>1, <1>2, CallStep

\* The user leaves, in this tab or another, and with it what the page could show of it.
LEMMA LeaveStep ==
    ASSUME IInv, SessionType', User' \in {User, None}, UNCHANGED <<ready, crossed, list, calls, owner>>
    PROVE  IInv'
<1>1. \A c \in Calls : (Listing(c)' <=> Listing(c)) /\ (Entering(c)' <=> Entering(c))
  BY DEF Listing, Entering
<1>2. \A u : Owned(u)' = Owned(u)
  BY DEF Owned
<1>3. QED
  BY <1>1, <1>2 DEF IInv, Types, ListsAreOwned, FreshIsEmpty, ShowsOwn

\* A load of the document.
LEMMA LoadStep == ASSUME IInv, NEW p, NEW a, Load(p, a) PROVE IInv'
<1> DEFINE present == [c \in Calls |-> Dropped(calls[c])]
<1>1. present \in [Calls -> CallType]
      /\ \A c \in Calls : present[c].kind \in {"list", "enter"} => present[c].stage = "idle"
  BY LeftType DEF IInv, Types
<1>2. SessionType' /\ User' = None /\ owner' = owner
  BY HereIsTab DEF Load, Mount, IInv, Types, SessionType, services, User
<1>3. Open(p, a, None, present)
  BY DEF Load
<1> HIDE DEF present
<1>4. QED
  BY <1>1, <1>2, <1>3, OpenStep

\* The provider reads localStorage: who it finds gets a list of their own.
LEMMA StartStep == ASSUME IInv, Start PROVE IInv'
<1>1. /\ ~ready[Here] /\ ready'[Here] /\ SessionType' /\ User' \in Users \cup {None}
      /\ User' = user'[Here]
  BY HereIsTab DEF Start, Restore, IInv, Types, SessionType, User
<1>2. /\ list' = list /\ list = {} /\ owner' = owner /\ crossed' = crossed
      /\ \A c \in Calls : ~Listing(c)
  BY <1>1 DEF Start, IInv, FreshIsEmpty, services, observations
<1>3. Asks(page, User') \in SUBSET CallType
  BY <1>1, AsksType
<1>4. /\ calls' \in [Calls -> CallType]
      /\ \A c \in Calls : calls'[c] = calls[c] \/ calls'[c] \in Asks(page, User')
  BY <1>1, <1>3, SendStep DEF Start, IInv, Types
<1>5. \A c \in Calls : Listing(c)' => calls'[c] \in Asks(page, User')
  BY <1>2, <1>4 DEF Listing
<1>6. \A c \in Calls : Listing(c)' => calls'[c].who = User' /\ User' \in Users /\ calls'[c].owned = {}
  BY <1>1, <1>5, AsksType
<1>7. Types' /\ FreshIsEmpty'
  BY <1>1, <1>2, <1>4 DEF IInv, Types, FreshIsEmpty
<1>8. ListsAreOwned' /\ ShowsOwn'
  BY <1>2, <1>6 DEF ListsAreOwned, ShowsOwn
<1>9. QED
  BY <1>7, <1>8 DEF IInv

\* A sign-in arrives: the page that fetches then is its user's.
LEMMA ReceiveEntryStep == ASSUME IInv, NEW c \in Calls, ReceiveEntry(c) PROVE IInv'
<1> DEFINE u == calls[c].who
           present == [d \in Calls |-> Left(Done(c)[d])]
<1>1. /\ Entering(c) /\ Enter(Here, u) /\ owner' = owner
  BY DEF ReceiveEntry, Entering, services
<1>2. ready[Here] /\ ready'[Here] /\ u \in Users \cup {None}
  BY <1>1 DEF IInv, FreshIsEmpty, Types, Enter, CallType
<1>3. SessionType' /\ User' = u
  BY <1>1, <1>2, HereIsTab DEF Enter, IInv, Types, SessionType, User
<1>4. Done(c) \in [Calls -> CallType] /\ \A d \in Calls : Done(c)[d] = calls[d] \/ Done(c)[d] = Idle
  BY IdleType DEF Done, IInv, Types
<1>5. CASE page = "overview"
  <2>1. /\ Send(Done(c), Asks(page, u)) /\ list' = list
        /\ crossed' = (crossed \/ User # u)
    BY <1>5 DEF ReceiveEntry
  <2>2. Asks(page, u) \in SUBSET CallType
    BY <1>2, AsksType
  <2>3. /\ calls' \in [Calls -> CallType]
        /\ \A d \in Calls : calls'[d] = Done(c)[d] \/ calls'[d] \in Asks(page, u)
    BY <1>4, <2>1, <2>2, SendStep
  <2>4. \A d \in Calls : calls'[d] \in Asks(page, u) =>
            calls'[d].who = u /\ u \in Users /\ calls'[d].owned = {}
    BY <1>2, AsksType
  <2>5. \A d \in Calls : Listing(d)' =>
            \/ calls'[d].who = u /\ u \in Users /\ calls'[d].owned = {}
            \/ Listing(d) /\ calls'[d] = calls[d]
    BY <1>4, <2>3, <2>4, IdleType DEF Listing
  <2>6. \A v : Owned(v)' = Owned(v)
    BY <1>1 DEF Owned
  <2>7. Types'
    BY <1>1, <1>3, <2>1, <2>3 DEF IInv, Types
  <2>8. ListsAreOwned'
    BY <2>5, <2>6 DEF IInv, ListsAreOwned
  <2>9. ShowsOwn'
    <3>1. SUFFICES ASSUME u # None, ~crossed, User = u
                   PROVE  /\ list \subseteq Owned(u)
                          /\ \A d \in Calls : Listing(d)' => calls'[d].who = u
      BY <1>3, <2>1, <2>6, <2>7 DEF ShowsOwn, Types
    <3>2. list \subseteq Owned(u) /\ \A d \in Calls : Listing(d) => calls[d].who = u
      BY <3>1 DEF IInv, ShowsOwn
    <3>3. QED
      BY <2>5, <3>2
  <2>10. QED
    BY <1>2, <2>7, <2>8, <2>9 DEF IInv, FreshIsEmpty
<1>6. CASE page # "overview"
  <2>1. Open("overview", None, u, present)
    BY <1>6 DEF ReceiveEntry
  <2>2. present \in [Calls -> CallType] /\ \A d \in Calls : present[d].kind = "list" => present[d].stage = "idle"
    BY <1>4, LeftType
  <2> HIDE DEF present, u
  <2>3. QED
    BY <1>1, <1>2, <1>3, <2>1, <2>2, OpenStep
<1>7. QED
  BY <1>5, <1>6

\* Every step keeps the invariant: what the user does,
LEMMA UserActsStep == ASSUME IInv, UserActs PROVE IInv'
<1>1. CASE SignOut
  <2>1. SessionType' /\ User' = None
    BY <1>1, HereIsTab DEF SignOut, Leave, IInv, Types, SessionType, User
  <2>2. QED
    BY <1>1, <2>1, LeaveStep DEF SignOut, Leave, screen, observations, services
<1>2. CASE SubmitRegistration
  <2> DEFINE call == [Idle EXCEPT !.kind = "register", !.stage = "sent", !.heard = "page"]
  <2>1. call \in CallType /\ call.kind = "register"
    BY DEF Idle, CallType
  <2>2. Send(calls, {call}) /\ UNCHANGED <<session, crossed, owner, list>>
    BY <1>2 DEF SubmitRegistration, services, observations
  <2> HIDE DEF call
  <2>3. QED
    BY <2>1, <2>2, SubmitStep
<1>3. CASE SubmitRequest
  <2> DEFINE call == [Idle EXCEPT !.kind = "request", !.stage = "sent", !.heard = "page"]
  <2>1. call \in CallType /\ call.kind = "request"
    BY DEF Idle, CallType
  <2>2. Send(calls, {call}) /\ UNCHANGED <<session, crossed, owner, list>>
    BY <1>3 DEF SubmitRequest, services, observations
  <2> HIDE DEF call
  <2>3. QED
    BY <2>1, <2>2, SubmitStep
<1>4. CASE SubmitSupport
  BY <1>4, QuietStep DEF SubmitSupport, services, observations, IInv, Types
<1>5. ASSUME NEW p \in Pages, NEW a \in Accounts \cup {None}, Load(p, a) PROVE IInv'
  BY <1>5, LoadStep
<1>6. ASSUME NEW p \in Pages, NEW a \in Accounts \cup {None}, Follow(p, a) PROVE IInv'
  BY <1>6, GoStep DEF Follow
<1>7. ASSUME NEW a \in Accounts, Toggle(a) PROVE IInv'
  <2> DEFINE call == [Idle EXCEPT !.kind = "toggle", !.stage = "sent", !.heard = "page", !.on = a]
  <2>1. call \in CallType /\ call.kind = "toggle"
    BY DEF Idle, CallType
  <2>2. Send(calls, {call}) /\ UNCHANGED <<session, crossed, owner, list>>
    BY <1>7 DEF Toggle, services, observations
  <2> HIDE DEF call
  <2>3. QED
    BY <2>1, <2>2, SubmitStep
<1>8. ASSUME NEW u \in Users, SubmitEntry(u) PROVE IInv'
  <2> DEFINE call == [Idle EXCEPT !.kind = "enter", !.stage = "sent", !.heard = "page", !.who = u]
  <2>1. call \in CallType /\ call.kind = "enter"
    BY DEF Idle, CallType
  <2>2. /\ Send(calls, {call}) /\ UNCHANGED <<session, crossed, owner, list>>
        /\ ready[Here]
    BY <1>8 DEF SubmitEntry, services, observations
  <2> HIDE DEF call
  <2>3. QED
    BY <2>1, <2>2, SubmitStep
<1>9. QED
  BY <1>1, <1>2, <1>3, <1>4, <1>5, <1>6, <1>7, <1>8 DEF UserActs

\* what the rest of the world does,
LEMMA WorldActsStep == ASSUME IInv, WorldActs PROVE IInv'
<1>1. ASSUME NEW k \in RowWrites, NEW a \in Accounts, SaveElsewhere(k, a) PROVE IInv'
  <2> DEFINE call == [Idle EXCEPT !.kind = k, !.stage = "read", !.on = a,
                                  !.starred = {a} \cap favourite]
  <2>1. call \in CallType /\ call.kind = k
    BY DEF Idle, CallType, RowWrites
  <2>2. Send(calls, {call}) /\ UNCHANGED <<session, crossed, owner, list>>
    BY <1>1 DEF SaveElsewhere, screen, services, observations
  <2> HIDE DEF call
  <2>3. QED
    BY <2>1, <2>2, SubmitStep DEF RowWrites
<1>2. ASSUME NEW a \in Accounts, NEW u \in Users, OpenAccount(a, u) PROVE IInv'
  <2>1. owner' \in [Accounts -> Users \cup {None}] /\ \A b \in Accounts : owner[b] # None => owner'[b] = owner[b]
    BY <1>2 DEF OpenAccount, IInv, Types
  <2>2. QED
    BY <1>2, <2>1, QuietStep DEF OpenAccount, screen, observations
<1>3. ASSUME NEW u \in Users \cup {None}, EnterElsewhere(u) PROVE IInv'
  <2>1. SessionType' /\ User' = User
    BY <1>3 DEF EnterElsewhere, IInv, Types, SessionType, User
  <2>2. QED
    BY <1>3, <2>1, LeaveStep DEF EnterElsewhere, screen, observations, services
<1>4. QED
  BY <1>1, <1>2, <1>3 DEF WorldActs

\* what the page does by itself,
LEMMA PageStep ==
    ASSUME IInv, Guard \/ ResetSupport \/ Redirect \/ PanelStep \/ DetailStep \/ HistoryStep
    PROVE  IInv'
<1>1. CASE Guard
  BY <1>1, GoStep DEF Guard
<1>2. CASE ResetSupport
  BY <1>2, QuietStep DEF ResetSupport, services, observations, IInv, Types
<1>3. CASE Redirect
  <2>1. CASE page = "accounts"
    BY <1>3, <2>1, QuietStep DEF Redirect, screen, services, observations, IInv, Types
  <2>2. CASE page # "accounts"
    BY <1>3, <2>2, GoStep DEF Redirect
  <2>3. QED
    BY <2>1, <2>2
<1>4. CASE PanelStep
  BY <1>4, QuietStep DEF PanelStep, services, observations, IInv, Types
<1>5. CASE DetailStep
  BY <1>5, QuietStep DEF DetailStep, services, observations, IInv, Types
<1>6. CASE HistoryStep
  <2>1. CASE Go("crashed", None)
    BY <1>6, <2>1, GoStep DEF HistoryStep
  <2>2. CASE UNCHANGED <<page, account, body, list, stars, panel, form, timers, calls, observations>>
    BY <1>6, <2>2, QuietStep DEF HistoryStep, services, observations, IInv, Types
  <2>3. QED
    BY <1>6, <2>1, <2>2 DEF HistoryStep
<1>7. QED
  BY <1>1, <1>2, <1>3, <1>4, <1>5, <1>6

\* and what becomes of a call.
LEMMA ServiceStep ==
    ASSUME IInv, NEW c \in Calls, Serve(c) \/ Write(c) \/ Fail(c) \/ GiveUp(c)
    PROVE  IInv'
<1>1. calls[c] \in CallType
  BY DEF IInv, Types
<1>2. CASE Serve(c)
  <2>1. CASE calls[c].kind = "list"
    <3> DEFINE call == [calls[c] EXCEPT !.stage = "answered", !.owned = Owned(calls[c].who),
                                        !.starred = Owned(calls[c].who) \cap favourite]
    <3>1. /\ call \in CallType /\ call.kind = calls[c].kind /\ call.who = calls[c].who
          /\ call.owned = Owned(calls[c].who)
      BY <1>1 DEF CallType, Owned
    <3>2. calls' = [calls EXCEPT ![c] = call] /\ calls[c].stage # "idle"
      BY <1>2, <2>1 DEF Serve, IInv, Types
    <3>3. UNCHANGED <<session, crossed, owner, list>>
      BY <1>2 DEF Serve, screen, services
    <3> HIDE DEF call
    <3>4. QED
      BY <3>1, <3>2, <3>3, OneCallStep
  <2>2. CASE calls[c].kind = "toggle"
    <3> DEFINE call == [calls[c] EXCEPT !.stage = "read", !.starred = {calls[c].on} \cap favourite]
    <3>1. /\ call \in CallType /\ call.kind = calls[c].kind /\ call.who = calls[c].who
          /\ call.owned = calls[c].owned
      BY <1>1 DEF CallType
    <3>2. calls' = [calls EXCEPT ![c] = call] /\ calls[c].stage # "idle"
      BY <1>2, <2>2 DEF Serve, IInv, Types
    <3>3. UNCHANGED <<session, crossed, owner, list>>
      BY <1>2 DEF Serve, screen, services
    <3> HIDE DEF call
    <3>4. QED
      BY <3>1, <3>2, <3>3, OneCallStep
  <2>3. CASE calls[c].kind \notin {"list", "toggle"}
    <3> DEFINE call == [calls[c] EXCEPT !.stage = "answered"]
    <3>1. /\ call \in CallType /\ call.kind = calls[c].kind /\ call.who = calls[c].who
          /\ call.owned = calls[c].owned
      BY <1>1 DEF CallType
    <3>2. calls' = [calls EXCEPT ![c] = call] /\ calls[c].stage # "idle"
      BY <1>2, <2>3 DEF Serve, IInv, Types
    <3>3. UNCHANGED <<session, crossed, owner, list>>
      BY <1>2 DEF Serve, screen, services
    <3> HIDE DEF call
    <3>4. QED
      BY <3>1, <3>2, <3>3, OneCallStep
  <2>4. QED
    BY <2>1, <2>2, <2>3
<1>3. CASE Write(c)
  <2> DEFINE call == IF calls[c].heard = "nobody" THEN Idle
                     ELSE [calls[c] EXCEPT !.stage = "answered", !.starred = {}]
  <2>1. /\ call \in CallType
        /\ call.stage # "idle" => call.kind = calls[c].kind /\ call.who = calls[c].who
        /\ call.owned \subseteq calls[c].owned
    BY <1>1 DEF Idle, CallType
  <2>2. calls' = [calls EXCEPT ![c] = call] /\ calls[c].stage # "idle"
    BY <1>3 DEF Write, IInv, Types
  <2>3. UNCHANGED <<session, crossed, owner, list>>
    BY <1>3 DEF Write, screen
  <2> HIDE DEF call
  <2>4. QED
    BY <2>1, <2>2, <2>3, OneCallStep
<1>4. CASE Fail(c)
  <2> DEFINE call == IF calls[c].heard = "nobody" THEN Idle
                     ELSE [calls[c] EXCEPT !.stage = "failed", !.owned = {}, !.starred = {}]
  <2>1. /\ call \in CallType
        /\ call.stage # "idle" => call.kind = calls[c].kind /\ call.who = calls[c].who
        /\ call.owned = {}
    BY <1>1 DEF Idle, CallType
  <2>2. calls' = [calls EXCEPT ![c] = call] /\ calls[c].stage # "idle"
    BY <1>4 DEF Fail, IInv, Types
  <2>3. UNCHANGED <<session, crossed, owner, list>>
    BY <1>4 DEF Fail, screen, services
  <2> HIDE DEF call
  <2>4. QED
    BY <2>1, <2>2, <2>3, OneCallStep
<1>5. CASE GiveUp(c)
  <2> DEFINE call == [calls[c] EXCEPT !.heard = "nobody"]
  <2>1. /\ call \in CallType /\ call.kind = calls[c].kind /\ call.who = calls[c].who
        /\ call.owned = calls[c].owned
    BY <1>1 DEF CallType
  <2>2. calls' = [calls EXCEPT ![c] = call] /\ calls[c].stage # "idle"
    BY <1>5 DEF GiveUp, IInv, Types
  <2>3. UNCHANGED <<session, crossed, owner, list>>
    BY <1>5 DEF GiveUp, services, observations
  <2> HIDE DEF call
  <2>4. QED
    BY <2>1, <2>2, <2>3, OneCallStep
<1>6. QED
  BY <1>2, <1>3, <1>4, <1>5

\* An answer, or an error, arrives.
LEMMA ReceiveStep == ASSUME IInv, NEW c \in Calls, Receive(c) PROVE IInv'
<1>1. Idle \in CallType /\ Idle.stage = "idle" /\ Idle.owned = {}
  BY IdleType DEF Idle
<1>2. ASSUME calls' = Done(c), list' = list \/ (Listing(c) /\ list' = calls[c].owned),
             UNCHANGED <<session, crossed, owner>>
      PROVE  IInv'
  BY <1>1, <1>2, OneCallStep DEF Done
<1>3. CASE ReceiveList(c)
  BY <1>2, <1>3 DEF ReceiveList, Listing, services, observations
<1>4. CASE MissList(c)
  BY <1>2, <1>4 DEF MissList, services, observations
<1>5. CASE ReceiveToggle(c)
  BY <1>2, <1>5 DEF ReceiveToggle, services, observations
<1>6. CASE ReceiveRequest(c)
  BY <1>2, <1>6 DEF ReceiveRequest, services, observations
<1>7. CASE RefuseEntry(c)
  BY <1>2, <1>7 DEF RefuseEntry, services, observations
<1>8. CASE ReceiveEntry(c)
  BY <1>8, ReceiveEntryStep
<1>9. QED
  BY <1>3, <1>4, <1>5, <1>6, <1>7, <1>8 DEF Receive

\* Every step preserves the invariant.
LEMMA NextIInv == ASSUME IInv, [Next]_vars PROVE IInv'
<1>1. CASE Next
  BY <1>1, UserActsStep, WorldActsStep, StartStep, PageStep, ServiceStep, ReceiveStep DEF Next
<1>2. CASE UNCHANGED vars
  BY <1>2, QuietStep DEF vars, screen, services, observations, IInv, Types
<1>3. QED
  BY <1>1, <1>2

-----------------------------------------------------------------------------
(***************************************************************************)
(* The stars.  A page and the service toggle by turns: the page when the   *)
(* user clicks and when it hears of an error, the service when it writes.  *)
(* Whether they agree is thus the parity of the toggles that only one of   *)
(* them has made yet.                                                      *)
(***************************************************************************)

\* What a call carries.
Known(call) ==
    /\ call.starred \subseteq Accounts
    /\ call.stage = "read" => call.kind \in RowWrites /\ call.starred \subseteq {call.on}
    /\ call.stage # "idle" /\ call.kind \in RowWrites => call.on \in Accounts
    /\ call.stage # "idle" /\ call.kind = "list" => call.starred \subseteq call.owned

CallsKnown == \A c \in Calls : Known(calls[c])

\* A toggle that the page waits for, of whichever account.
Awaited(call) == call.kind = "toggle" /\ call.stage # "idle" /\ call.heard = "page"

\* It is one of the page of accounts, and of its list.
AwaitedHere ==
    \A a \in Accounts :
        Toggles(a) # {} => page = "accounts" /\ body # "loading" /\ a \in list

\* The page of accounts fetches its list once, shows no account before, and nothing
\* changes the stars in the answer.
ListsAgree ==
    page = "accounts" =>
        /\ ~ready[Here] => body = "loading"
        /\ body = "loading" => list = {}
        /\ \A c \in Calls : Listing(c) =>
              /\ body = "loading"
              /\ \A d \in Calls : Listing(d) => d = c
              /\ calls[c].stage = "answered" =>
                    \A a \in calls[c].owned \ disturbed : a \in calls[c].starred <=> a \in favourite

\* The toggles that the page has made and the service not, or not yet.
Waiting(a) == {c \in Toggles(a) : calls[c].stage \in {"sent", "read", "failed"}}

Finite(a) == IsFiniteSet(Waiting(a))

Even(a) == Cardinality(Waiting(a)) % 2 = 0

StarsAwait ==
    /\ \A a \in Accounts : Finite(a)
    /\ page = "accounts" =>
          \A a \in list \ disturbed : (a \in stars <=> a \in favourite) <=> Even(a)

ScreenTypes ==
    /\ page \in Pages
    /\ account \in Accounts \cup {None}
    /\ body \in {"loading", "loaded", "failed"}
    /\ list \subseteq Accounts /\ stars \subseteq list
    /\ history \in {"none", "unasked", "account", "sent", "empty", "failed"}
    /\ panel \in 0..5
    /\ form \in {"open", "busy", "sent", "error"}
    /\ favourite \subseteq Accounts /\ posted \subseteq Accounts
    /\ disturbed \subseteq Accounts

SInv == ScreenTypes /\ CallsKnown /\ AwaitedHere /\ ListsAgree /\ StarsAwait

\* One toggle more, or one less, changes the parity.
LEMMA Parity ==
    ASSUME NEW c
    PROVE  \A a : Finite(a) =>
              /\ c \notin Waiting(a) /\ Waiting(a)' = Waiting(a) \cup {c} =>
                    Finite(a)' /\ (Even(a)' <=> ~Even(a))
              /\ c \in Waiting(a) /\ Waiting(a)' = Waiting(a) \ {c} =>
                    Finite(a)' /\ (Even(a)' <=> ~Even(a))
<1>1. ASSUME NEW S, IsFiniteSet(S), c \notin S
      PROVE  /\ IsFiniteSet(S \cup {c})
             /\ Cardinality(S \cup {c}) % 2 = 0 <=> Cardinality(S) % 2 # 0
  <2>1. Cardinality(S) \in Nat
    BY <1>1, FS_CardinalityType
  <2>2. IsFiniteSet(S \cup {c}) /\ Cardinality(S \cup {c}) = Cardinality(S) + 1
    BY <1>1, FS_AddElement
  <2>3. QED
    BY <2>1, <2>2
<1>2. ASSUME NEW S, IsFiniteSet(S), c \in S
      PROVE  /\ IsFiniteSet(S \ {c})
             /\ Cardinality(S \ {c}) % 2 = 0 <=> Cardinality(S) % 2 # 0
  <2>1. IsFiniteSet(S \ {c}) /\ c \notin S \ {c} /\ (S \ {c}) \cup {c} = S
    BY <1>2, FS_RemoveElement
  <2>2. QED
    BY <1>1, <2>1
<1>3. QED
  BY <1>1, <1>2 DEF Even, Finite

\* Where no toggle waits, the page and the service have toggled equally often.
LEMMA EmptyIsEven == \A a : Waiting(a) = {} => Even(a) /\ Finite(a)
BY FS_EmptySet DEF Even, Finite

\* They hold at the start.
LEMMA InitSInv == Init => SInv
<1> SUFFICES ASSUME Init PROVE SInv
  OBVIOUS
<1>1. \A c \in Calls : calls[c] = Idle
  BY DEF Init
<1>2. CallsKnown
  BY <1>1 DEF CallsKnown, Known, Idle
<1>3. \A a : Toggles(a) = {} /\ Waiting(a) = {}
  BY <1>1 DEF Toggles, Waiting, Active, Idle
<1>4. AwaitedHere /\ ListsAgree /\ StarsAwait
  BY <1>3, EmptyIsEven DEF Init, AwaitedHere, ListsAgree, StarsAwait
<1>5. ScreenTypes
  BY DEF Init, ScreenTypes, Pages, Dashboard
<1>6. QED
  BY <1>2, <1>4, <1>5 DEF SInv

\* Whose toggle a call is.
LEMMA TogglesAre == \A a, c : c \in Toggles(a) <=> c \in Calls /\ Awaited(calls[c]) /\ calls[c].on = a
BY DEF Toggles, Active, Awaited

\* The toggles that the page waits for are left alone.
SameToggles ==
    \A c \in Calls : \/ calls'[c] = calls[c]
                     \/ ~Awaited(calls[c]) /\ ~Awaited(calls'[c])

\* The favourites change only where they are disturbed.
SameFavourites ==
    /\ disturbed \subseteq disturbed'
    /\ \A a \in Accounts \ disturbed' : a \in favourite' <=> a \in favourite

\* A step that leaves the toggles alone leaves alone what is counted of them.
LEMMA TogglesStay ==
    ASSUME SameToggles
    PROVE  /\ \A a : Toggles(a)' = Toggles(a) /\ Waiting(a)' = Waiting(a)
           /\ \A a : Even(a)' <=> Even(a)
           /\ \A a : Finite(a)' <=> Finite(a)
<1>1. \A a : Toggles(a)' = Toggles(a)
  BY DEF SameToggles, Toggles, Active, Awaited
<1>2. \A a : \A c \in Toggles(a) : calls'[c] = calls[c]
  BY DEF SameToggles, Toggles, Active, Awaited
<1>3. \A a : Waiting(a)' = Waiting(a)
  BY <1>1, <1>2 DEF Waiting
<1>4. /\ \A a : Even(a)' <=> Even(a)
      /\ \A a : Finite(a)' <=> Finite(a)
  BY <1>3 DEF Even, Finite
<1>5. QED
  BY <1>1, <1>3, <1>4

\* A step that leaves the stars and the toggles alone, on the same page.
LEMMA StarsStay ==
    ASSUME SInv, SameToggles, SameFavourites,
           UNCHANGED <<page, list, stars>>,
           body' = body \/ page # "accounts"
    PROVE  AwaitedHere' /\ StarsAwait'
<1>1. /\ \A a : Toggles(a)' = Toggles(a) /\ Waiting(a)' = Waiting(a)
      /\ \A a : Even(a)' <=> Even(a)
      /\ \A a : Finite(a)' <=> Finite(a)
  BY TogglesStay
<1>2. AwaitedHere'
  BY <1>1 DEF SInv, AwaitedHere
<1>3. page = "accounts" => \A a \in list \ disturbed' :
         /\ a \in Accounts \ disturbed'
         /\ (a \in stars <=> a \in favourite) <=> Even(a)
  BY DEF SInv, StarsAwait, ScreenTypes, SameFavourites
<1>4. page = "accounts" => \A a \in list \ disturbed' :
         (a \in stars <=> a \in favourite') <=> Even(a)'
  BY <1>1, <1>3 DEF SameFavourites
<1>5. StarsAwait'
  BY <1>1, <1>4 DEF SInv, StarsAwait
<1>6. QED
  BY <1>2, <1>5

\* No list is answered.
LEMMA ListsStay ==
    ASSUME IInv, SInv, SameFavourites, UNCHANGED <<page, list>>,
           ~ready'[Here] => ~ready[Here],
           body' = body \/ page # "accounts",
           \A c \in Calls : Listing(c)' => \/ Listing(c) /\ calls'[c] = calls[c]
                                           \/ Listing(c) /\ calls'[c].stage # "answered"
    PROVE  ListsAgree'
<1>1. \A c \in Calls : calls[c].owned \subseteq Accounts \cup {None}
  BY DEF IInv, Types, CallType
<1>2. \A c \in Calls : Listing(c)' /\ calls'[c].stage = "answered" =>
         /\ Listing(c) /\ calls'[c] = calls[c]
  BY DEF Listing
<1>3. \A c \in Calls : Listing(c)' => Listing(c)
  OBVIOUS
<1>4. page = "accounts" => \A c \in Calls : Listing(c)' /\ calls'[c].stage = "answered" =>
         \A a \in calls'[c].owned \ disturbed' : a \in calls'[c].starred <=> a \in favourite'
  BY <1>2 DEF SInv, ListsAgree, SameFavourites, IInv, Types, CallType
<1>5. QED
  BY <1>3, <1>4 DEF SInv, ListsAgree

\* What is left of the calls when a page or its document is: no list, and nothing that
\* a page waits for.
Leaves(present) ==
    /\ present \in [Calls -> CallType]
    /\ \A c \in Calls :
          /\ Known(present[c])
          /\ present[c].stage # "idle" =>
                /\ present[c].kind # "list" /\ ~Awaited(present[c])
                /\ calls[c].stage # "idle" /\ present[c].kind = calls[c].kind

\* Who leaves a page or a document leaves its calls so.
LEMMA LeftLeaves ==
    ASSUME IInv, SInv
    PROVE  /\ Leaves([c \in Calls |-> Left(calls[c])])
           /\ Leaves([c \in Calls |-> Dropped(calls[c])])
           /\ \A c \in Calls : Leaves([d \in Calls |-> Left(Done(c)[d])])
<1>1. \A c \in Calls : calls[c] \in CallType /\ Known(calls[c])
  BY DEF IInv, Types, SInv, CallsKnown
<1>2. Known(Idle) /\ Idle \in CallType /\ Left(Idle) = Idle /\ Idle.stage = "idle"
  BY IdleType DEF Known, Idle, Left
<1>3. ASSUME NEW call \in CallType, Known(call)
      PROVE  /\ Known(Left(call)) /\ Known(Dropped(call))
             /\ Left(call) \in CallType /\ Dropped(call) \in CallType
             /\ Left(call).stage # "idle" =>
                   /\ Left(call).kind # "list" /\ ~Awaited(Left(call))
                   /\ call.stage # "idle" /\ Left(call).kind = call.kind
             /\ Dropped(call).stage # "idle" =>
                   /\ Dropped(call).kind # "list" /\ ~Awaited(Dropped(call))
                   /\ call.stage # "idle" /\ Dropped(call).kind = call.kind
  BY <1>3 DEF Known, Left, Dropped, Idle, CallType, Awaited, RowWrites
<1>4. \A c, d \in Calls : Done(c)[d] = calls[d] \/ Done(c)[d] = Idle
  BY DEF Done, IInv, Types
<1>5. QED
  BY <1>1, <1>2, <1>3, <1>4 DEF Leaves

\* A page is mounted: it shows no account yet, and waits for no toggle.
LEMMA OpenStars ==
    ASSUME IInv, SInv, NEW p \in Pages, NEW a \in Accounts \cup {None},
           NEW u \in Users \cup {None}, NEW present, Leaves(present),
           Open(p, a, u, present), UNCHANGED services
    PROVE  SInv'
<1>1. Asks(p, u) \in SUBSET CallType
  BY AsksType
<1>2. /\ calls' \in [Calls -> CallType]
      /\ \A c \in Calls : calls'[c] = present[c] \/ calls'[c] \in Asks(p, u)
  BY <1>1, SendStep DEF Open, Leaves
<1>3. ASSUME NEW call \in Asks(p, u)
      PROVE  /\ Known(call) /\ call.kind = "list" /\ call.stage = "sent"
             /\ p \in {"overview", "accounts"}
  BY <1>3 DEF Asks, Known, Idle, RowWrites
<1>4. CallsKnown'
  BY <1>2, <1>3 DEF CallsKnown, Leaves
<1>5. \A c \in Calls : Listing(c)' => calls'[c] \in Asks(p, u)
  BY <1>2 DEF Listing, Leaves
<1>6. \A c, d \in Calls : Listing(c)' /\ Listing(d)' => c = d
  <2>1. CASE Asks(p, u) = {}
    BY <1>5, <2>1
  <2>2. CASE Asks(p, u) # {}
    <3>1. PICK c \in Calls, call \in Asks(p, u) : calls' = [present EXCEPT ![c] = call]
      BY <2>2 DEF Open, Send
    <3>2. \A d \in Calls : d # c => calls'[d] = present[d]
      BY <3>1 DEF Leaves
    <3>3. \A d \in Calls : d # c => ~Listing(d)'
      BY <3>2 DEF Listing, Leaves
    <3>4. QED
      BY <3>3
  <2>3. QED
    BY <2>1, <2>2
<1>7. \A c \in Calls : ~Awaited(calls'[c])
  BY <1>2, <1>3 DEF Leaves, Awaited
<1>8. \A b : Toggles(b)' = {} /\ Waiting(b)' = {}
  BY <1>7 DEF Toggles, Waiting, Active, Awaited
<1>9. /\ page' = p /\ list' = {} /\ stars' = {} /\ disturbed' = {}
      /\ p = "accounts" => body' = "loading"
  BY DEF Open
<1>10. AwaitedHere'
  BY <1>8 DEF AwaitedHere
<1>11. ListsAgree'
  BY <1>3, <1>5, <1>6, <1>9 DEF ListsAgree
<1>12. StarsAwait'
  BY <1>8, <1>9, FS_EmptySet DEF StarsAwait, Finite
<1>13. ScreenTypes'
  BY <1>9 DEF Open, SInv, ScreenTypes, services, HistoryOf, PanelOf
<1>14. QED
  BY <1>4, <1>10, <1>11, <1>12, <1>13 DEF SInv

\* A push or a link.
LEMMA GoStars ==
    ASSUME IInv, SInv, NEW p \in Pages, NEW a \in Accounts \cup {None}, Go(p, a),
           UNCHANGED services
    PROVE  SInv'
<1> DEFINE present == [c \in Calls |-> Left(calls[c])]
<1>1. Leaves(present)
  BY LeftLeaves
<1>2. Open(p, a, User, present) /\ User \in Users \cup {None}
  BY HereIsTab DEF Go, IInv, Types, SessionType, User
<1> HIDE DEF present
<1>3. QED
  BY <1>1, <1>2, OpenStars

\* A load of the document.
LEMMA LoadStars ==
    ASSUME IInv, SInv, NEW p \in Pages, NEW a \in Accounts \cup {None}, Load(p, a)
    PROVE  SInv'
BY LeftLeaves, OpenStars DEF Load

\* The provider finds a user: the page fetches what it shows.
LEMMA StartStars == ASSUME IInv, SInv, IInv', Start PROVE SInv'
<1>1. /\ ~ready[Here] /\ ready'[Here] /\ user'[Here] \in Users \cup {None}
      /\ UNCHANGED <<page, account, body, list, stars, form, services, observations>>
      /\ Send(calls, Asks(page, user'[Here]))
  BY HereIsTab DEF Start, Restore, IInv, Types, SessionType
<1>2. \A c \in Calls : ~Listing(c)
  BY <1>1 DEF IInv, FreshIsEmpty
<1> DEFINE S == Asks(page, user'[Here])
<1>3. \A call \in S : Known(call) /\ call.kind = "list" /\ call.stage = "sent"
  BY DEF Asks, Known, Idle, RowWrites
<1>4. \A c \in Calls : calls'[c] = calls[c] \/ (calls'[c] \in S /\ calls[c].stage = "idle")
  BY <1>1 DEF Send, IInv, Types
<1>5. \A c, d \in Calls : calls'[c] # calls[c] /\ calls'[d] # calls[d] => c = d
  BY <1>1 DEF Send, IInv, Types
<1>6. SameToggles /\ CallsKnown'
  BY <1>3, <1>4 DEF SameToggles, CallsKnown, SInv, Awaited
<1>7. AwaitedHere' /\ StarsAwait'
  BY <1>1, <1>6, StarsStay DEF services, observations, SameFavourites
<1>8. ListsAgree'
  <2>1. SUFFICES ASSUME page = "accounts" PROVE ListsAgree'
    BY <1>1 DEF ListsAgree
  <2>2. body' = "loading"
    BY <1>1, <2>1 DEF SInv, ListsAgree
  <2>3. \A c \in Calls : Listing(c)' => calls'[c] # calls[c] /\ calls'[c].stage = "sent"
    BY <1>2, <1>3, <1>4 DEF Listing
  <2>4. QED
    BY <1>1, <1>5, <2>1, <2>2, <2>3 DEF SInv, ListsAgree
<1>9. ScreenTypes'
  BY <1>1 DEF Start, SInv, ScreenTypes, services, observations, HistoryOf, PanelOf
<1>10. QED
  BY <1>6, <1>7, <1>8, <1>9 DEF SInv

\* A sign-in arrives.
LEMMA EntryStars == ASSUME IInv, SInv, NEW c \in Calls, ReceiveEntry(c) PROVE SInv'
<1> DEFINE u == calls[c].who
<1>1. u \in Users \cup {None} /\ UNCHANGED services /\ calls[c].kind = "enter"
  BY DEF ReceiveEntry, IInv, Types, CallType
<1>2. CASE page = "overview"
  <2>1. /\ Send(Done(c), Asks(page, u))
        /\ panel' \in {0, 1}
        /\ UNCHANGED <<page, account, body, list, stars, history, form, disturbed>>
    BY <1>2 DEF ReceiveEntry
  <2>2. \A call \in Asks(page, u) : Known(call) /\ call.kind = "list"
    BY DEF Asks, Known, Idle, RowWrites
  <2>3. Known(Idle) /\ Idle.kind = "list"
    BY DEF Known, Idle
  <2>4. \A d \in Calls : \/ calls'[d] = calls[d]
                         \/ d = c /\ calls'[d] = Idle
                         \/ /\ calls'[d] \in Asks(page, u)
                            /\ calls[d].stage = "idle" \/ d = c
    BY <2>1 DEF Send, Done, IInv, Types
  <2>5. SameToggles /\ CallsKnown'
    BY <1>1, <2>2, <2>3, <2>4 DEF SameToggles, CallsKnown, SInv, Awaited
  <2>6. AwaitedHere' /\ StarsAwait'
    BY <1>1, <2>1, <2>5, StarsStay DEF services, SameFavourites
  <2>7. ListsAgree'
    BY <1>2, <2>1 DEF ListsAgree
  <2>8. ScreenTypes'
    BY <1>1, <2>1 DEF SInv, ScreenTypes, services
  <2>9. QED
    BY <2>5, <2>6, <2>7, <2>8 DEF SInv
<1>3. CASE page # "overview"
  <2> DEFINE present == [d \in Calls |-> Left(Done(c)[d])]
  <2>1. Leaves(present)
    BY LeftLeaves
  <2>2. Open("overview", None, u, present) /\ "overview" \in Pages
    BY <1>3 DEF ReceiveEntry, Pages, Dashboard
  <2> HIDE DEF present
  <2>3. QED
    BY <1>1, <2>1, <2>2, OpenStars
<1>4. QED
  BY <1>2, <1>3

\* Nothing that the stars depend on changes.
LEMMA QuietStars ==
    ASSUME IInv, SInv, UNCHANGED <<page, list, stars, favourite, calls, disturbed>>, ScreenTypes',
           ~ready'[Here] => ~ready[Here],
           body' = body \/ page # "accounts"
    PROVE  SInv'
<1>1. SameToggles /\ SameFavourites /\ CallsKnown'
  BY DEF SameToggles, SameFavourites, SInv, CallsKnown
<1>2. AwaitedHere' /\ StarsAwait'
  BY <1>1, StarsStay
<1>3. ListsAgree'
  BY <1>1, ListsStay DEF Listing
<1>4. QED
  BY <1>1, <1>2, <1>3 DEF SInv

\* One call goes on that the page waits for as no toggle, and it is no list that is answered.
LEMMA OtherCallStars ==
    ASSUME IInv, SInv, NEW c \in Calls, NEW call, Known(call), calls' = [calls EXCEPT ![c] = call],
           ~Awaited(calls[c]), ~Awaited(call),
           call.kind = "list" => \/ call.stage = "idle"
                                 \/ Listing(c) /\ call.stage # "answered",
           UNCHANGED <<page, list, stars, ready>>, ScreenTypes', SameFavourites,
           body' = body \/ page # "accounts"
    PROVE  SInv'
<1>1. calls'[c] = call /\ \A d \in Calls : d # c => calls'[d] = calls[d]
  BY DEF IInv, Types
<1>2. SameToggles /\ CallsKnown'
  BY <1>1 DEF SameToggles, SInv, CallsKnown
<1>3. AwaitedHere' /\ StarsAwait'
  BY <1>2, StarsStay
<1>4. ListsAgree'
  BY <1>1, ListsStay DEF Listing
<1>5. QED
  BY <1>2, <1>3, <1>4 DEF SInv

\* A form, or somebody elsewhere, sends a call.
LEMMA SubmitStars ==
    ASSUME IInv, SInv, NEW call, Known(call), call.kind # "list", ~Awaited(call),
           Send(calls, {call}),
           UNCHANGED <<page, body, list, stars, favourite, ready, disturbed>>, ScreenTypes'
    PROVE  SInv'
<1>1. PICK c \in Calls : calls[c].stage = "idle" /\ calls' = [calls EXCEPT ![c] = call]
  BY DEF Send
<1>2. ~Awaited(calls[c]) /\ SameFavourites
  BY <1>1 DEF Awaited, SameFavourites
<1>3. QED
  BY <1>1, <1>2, OtherCallStars

\* The user clicks a star.
LEMMA ToggleStars == ASSUME IInv, SInv, NEW a \in Accounts, Toggle(a) PROVE SInv'
<1> DEFINE call == [Idle EXCEPT !.kind = "toggle", !.stage = "sent", !.heard = "page", !.on = a]
<1>1. PICK c \in Calls : calls[c].stage = "idle" /\ calls' = [calls EXCEPT ![c] = call]
  BY DEF Toggle, Send
<1>2. /\ call.kind = "toggle" /\ call.stage = "sent" /\ call.on = a /\ Known(call) /\ Awaited(call)
  BY DEF Idle, Known, Awaited, RowWrites
<1> HIDE DEF call
<1>3. calls'[c] = call /\ \A d \in Calls : d # c => calls'[d] = calls[d]
  BY <1>1 DEF IInv, Types
<1>4. /\ page = "accounts" /\ body # "loading" /\ a \in list
      /\ stars' = Toggled(stars, a)
      /\ UNCHANGED <<page, body, list, favourite, ready, disturbed, account, history, panel, form,
                     posted>>
  BY DEF Toggle, session, services, observations
<1>5. \A b \in Accounts : /\ c \notin Toggles(b)
                           /\ Toggles(b)' = IF b = a THEN Toggles(b) \cup {c} ELSE Toggles(b)
  BY <1>1, <1>2, <1>3 DEF Toggles, Active, Awaited
<1>6. ASSUME NEW b \in Accounts
      PROVE  /\ c \notin Waiting(b)
             /\ Waiting(b)' = IF b = a THEN Waiting(b) \cup {c} ELSE Waiting(b)
  <2>1. c \notin Toggles(b) /\ \A d \in Toggles(b) : d # c /\ d \in Calls
    BY <1>5, TogglesAre
  <2>2. Toggles(b)' = IF b = a THEN Toggles(b) \cup {c} ELSE Toggles(b)
    BY <1>5
  <2>3. QED
    BY <1>2, <1>3, <2>1, <2>2 DEF Waiting
<1>7. CallsKnown'
  BY <1>2, <1>3 DEF SInv, CallsKnown
<1>8. AwaitedHere'
  BY <1>4, <1>5 DEF SInv, AwaitedHere
<1>9. ListsAgree'
  BY <1>2, <1>3, <1>4, ListsStay DEF Listing, SameFavourites
<1>10. StarsAwait'
  <2>1. /\ \A b \in Accounts : Finite(b)'
        /\ \A b \in Accounts : b = a => (Even(b)' <=> ~Even(b))
        /\ \A b \in Accounts : b # a => (Even(b)' <=> Even(b))
    BY <1>6, Parity DEF SInv, StarsAwait, Even, Finite
  <2>2. (a \in stars' <=> ~(a \in stars)) /\ \A b : b # a => (b \in stars' <=> b \in stars)
    BY <1>4 DEF Toggled
  <2>3. \A b \in list \ disturbed : b \in Accounts /\ ((b \in stars <=> b \in favourite) <=> Even(b))
    BY <1>4 DEF SInv, StarsAwait, ScreenTypes
  <2>4. \A b \in list \ disturbed : (b \in stars' <=> b \in favourite) <=> Even(b)'
    BY <2>1, <2>2, <2>3
  <2>5. QED
    BY <1>4, <2>1, <2>4 DEF StarsAwait
<1>11. ScreenTypes'
  BY <1>4 DEF SInv, ScreenTypes, Toggled
<1>12. QED
  BY <1>7, <1>8, <1>9, <1>10, <1>11 DEF SInv

\* A handler elsewhere has read the row.
LEMMA ElsewhereStars ==
    ASSUME IInv, SInv, NEW k \in RowWrites, NEW a \in Accounts, SaveElsewhere(k, a)
    PROVE  SInv'
<1> DEFINE call == [Idle EXCEPT !.kind = k, !.stage = "read", !.on = a,
                                !.starred = {a} \cap favourite]
<1>1. call.kind = k /\ ~Awaited(call) /\ Known(call)
  BY DEF Idle, Known, Awaited, RowWrites
<1>2. /\ Send(calls, {call})
      /\ UNCHANGED <<page, account, body, list, stars, history, panel, form, favourite, posted,
                     ready, disturbed>>
  BY DEF SaveElsewhere, session, screen, services, observations
<1>3. ScreenTypes'
  BY <1>2 DEF SInv, ScreenTypes
<1> HIDE DEF call
<1>4. k # "list"
  BY DEF RowWrites
<1>5. QED
  BY <1>1, <1>2, <1>3, <1>4, SubmitStars

-----------------------------------------------------------------------------
\* The service lists the accounts: from now on the page counts on what it has read.
LEMMA ServeListStars ==
    ASSUME IInv, SInv, NEW c \in Calls, Serve(c), calls[c].kind = "list"
    PROVE  SInv'
<1>1. /\ calls[c].stage = "sent" /\ Listing(c) /\ disturbed' = {}
      /\ UNCHANGED <<page, account, body, list, stars, history, panel, form, favourite, posted, ready>>
  BY DEF Serve, Listing, session, screen, services
<1>2. /\ calls'[c].kind = "list" /\ calls'[c].stage = "answered"
      /\ calls'[c].owned = Owned(calls[c].who)
      /\ calls'[c].starred = Owned(calls[c].who) \cap favourite
      /\ \A d \in Calls : d # c => calls'[d] = calls[d]
  BY DEF Serve, IInv, Types, CallType
<1>3. SameToggles
  BY <1>1, <1>2 DEF SameToggles, Awaited
<1>4. /\ \A a : Toggles(a)' = Toggles(a)
      /\ \A a : Finite(a)' <=> Finite(a)
  BY <1>3, TogglesStay
<1>5. page = "accounts" => list = {}
  BY <1>1 DEF SInv, ListsAgree
<1>6. AwaitedHere'
  BY <1>1, <1>4 DEF SInv, AwaitedHere
<1>7. StarsAwait'
  BY <1>1, <1>4, <1>5 DEF SInv, StarsAwait
<1>8. CallsKnown'
  BY <1>2 DEF SInv, CallsKnown, Known, Owned, RowWrites
<1>9. ListsAgree'
  BY <1>1, <1>2 DEF SInv, ListsAgree, Listing
<1>10. ScreenTypes'
  BY <1>1 DEF SInv, ScreenTypes
<1>11. QED
  BY <1>6, <1>7, <1>8, <1>9, <1>10 DEF SInv

\* One toggle of the page goes on, of the account a, or ends.
LEMMA ToggleMoves ==
    ASSUME IInv, NEW c \in Calls, NEW a \in Accounts, c \in Toggles(a), NEW call,
           calls' = [calls EXCEPT ![c] = call], Awaited(call) => call.on = a
    PROVE  /\ calls'[c] = call
           /\ \A d \in Calls : d # c => calls'[d] = calls[d]
           /\ \A b \in Accounts : c \in Toggles(b) => b = a
           /\ \A b \in Accounts : Toggles(b)' \subseteq Toggles(b)
           /\ Awaited(call) => Toggles(a)' = Toggles(a)
           /\ ~Awaited(call) => Toggles(a)' = Toggles(a) \ {c}
           /\ \A b \in Accounts : b # a => (Even(b)' <=> Even(b))
           /\ \A b \in Accounts : b # a => (Finite(b)' <=> Finite(b))
<1>1. calls'[c] = call /\ \A d \in Calls : d # c => calls'[d] = calls[d]
  BY DEF IInv, Types
<1>2. Awaited(calls[c]) /\ calls[c].on = a
  BY TogglesAre
<1>3. \A b \in Accounts : Toggles(b) \subseteq Calls /\ (c \in Toggles(b) <=> b = a)
  BY <1>2, TogglesAre
<1>4. \A b \in Accounts : Toggles(b)' = IF Awaited(call) THEN Toggles(b) ELSE Toggles(b) \ {c}
  BY <1>1, <1>2 DEF Toggles, Active, Awaited
<1>5. /\ \A b \in Accounts : Toggles(b)' \subseteq Toggles(b)
      /\ Awaited(call) => Toggles(a)' = Toggles(a)
      /\ ~Awaited(call) => Toggles(a)' = Toggles(a) \ {c}
  BY <1>1, <1>2 DEF Toggles, Active, Awaited
<1>6. \A b \in Accounts : b # a => Waiting(b)' = Waiting(b)
  BY <1>1, <1>3, <1>4 DEF Waiting, Toggles, Active
<1>7. /\ \A b \in Accounts : b # a => (Even(b)' <=> Even(b))
      /\ \A b \in Accounts : b # a => (Finite(b)' <=> Finite(b))
  BY <1>6 DEF Even, Finite
<1>8. QED
  BY <1>1, <1>3, <1>5, <1>7

\* A toggle of the page goes on, and with it, unless its account is disturbed, one and
\* only one of the star, the favourite and the number of toggles that wait changes twice
\* or not at all: the three still agree.
LEMMA AgreeStill ==
    ASSUME IInv, SInv, NEW c \in Calls, NEW a \in Accounts, c \in Toggles(a), NEW call,
           calls' = [calls EXCEPT ![c] = call], Known(call), Awaited(call) => call.on = a,
           call.kind = "list" => call.stage = "idle",
           UNCHANGED <<page, body, list, ready>>, ScreenTypes', disturbed \subseteq disturbed',
           \A b : b # a => (b \in favourite' <=> b \in favourite),
           \A b : b # a => (b \in stars' <=> b \in stars),
           Finite(a)',
           a \notin disturbed' =>
              (((a \in stars' <=> a \in favourite') <=> Even(a)')
                  <=> ((a \in stars <=> a \in favourite) <=> Even(a)))
    PROVE  SInv'
<1>1. /\ calls'[c] = call
      /\ \A d \in Calls : d # c => calls'[d] = calls[d]
      /\ \A b \in Accounts : Toggles(b)' \subseteq Toggles(b)
      /\ \A b \in Accounts : b # a => (Even(b)' <=> Even(b))
      /\ \A b \in Accounts : b # a => (Finite(b)' <=> Finite(b))
  BY ToggleMoves
<1>2. CallsKnown'
  BY <1>1 DEF SInv, CallsKnown
<1>3. AwaitedHere'
  BY <1>1 DEF SInv, AwaitedHere
<1>4. page = "accounts" /\ body # "loading"
  BY DEF SInv, AwaitedHere
<1>5. ListsAgree'
  <2>1. \A d \in Calls : ~Listing(d)
    BY <1>4 DEF SInv, ListsAgree
  <2>2. \A d \in Calls : ~Listing(d)'
    BY <1>1, <2>1 DEF Listing
  <2>3. QED
    BY <1>4, <2>2 DEF SInv, ListsAgree
<1>6. StarsAwait'
  <2>1. \A b \in Accounts : Finite(b)'
    <3>1. \A b \in Accounts : b # a => Finite(b)'
      BY <1>1 DEF SInv, StarsAwait
    <3>2. \A b \in Accounts : b = a => Finite(b)'
      OBVIOUS
    <3>3. QED
      BY <3>1, <3>2
  <2>2. \A b \in list \ disturbed' :
            b \in Accounts /\ ((b \in stars <=> b \in favourite) <=> Even(b))
    BY <1>4 DEF SInv, StarsAwait, ScreenTypes
  <2>3. ASSUME NEW b \in list \ disturbed', b # a
        PROVE  (b \in stars' <=> b \in favourite') <=> Even(b)'
    BY <1>1, <2>2, <2>3
  <2>4. ASSUME NEW b \in list \ disturbed', b = a
        PROVE  (b \in stars' <=> b \in favourite') <=> Even(b)'
    <3>1. (a \in stars <=> a \in favourite) <=> Even(a)
      BY <2>2, <2>4
    <3>2. (a \in stars' <=> a \in favourite') <=> Even(a)'
      BY <2>4, <3>1
    <3>3. QED
      BY <2>4, <3>2
  <2>5. QED
    BY <2>1, <2>3, <2>4 DEF StarsAwait
<1>7. QED
  BY <1>2, <1>3, <1>5, <1>6 DEF SInv

\* A toggle waits on: the service reads the row, or the toggle fails.
LEMMA WaitsOn ==
    ASSUME IInv, SInv, NEW c \in Calls, NEW a \in Accounts, c \in Toggles(a), NEW call,
           calls' = [calls EXCEPT ![c] = call], Known(call), Awaited(call), call.on = a,
           call.stage \in {"read", "failed"},
           calls[c].stage \in {"sent", "read", "failed"} \/ a \in disturbed',
           UNCHANGED <<page, body, list, stars, favourite, ready>>, ScreenTypes',
           disturbed \subseteq disturbed'
    PROVE  SInv'
<1>1. /\ calls'[c] = call
      /\ \A d \in Calls : d # c => calls'[d] = calls[d]
  BY DEF IInv, Types
<1>2. Waiting(a)' = Waiting(a) \cup {c}
  BY <1>1 DEF Waiting, Toggles, Active, Awaited
<1>3. /\ c \in Waiting(a) \/ a \in disturbed'
      /\ c \in Waiting(a) => Waiting(a)' = Waiting(a)
  BY <1>2 DEF Waiting
<1>4. Finite(a)'
  BY <1>2, FS_AddElement DEF SInv, StarsAwait, Finite
<1>5. c \in Waiting(a) => (Even(a)' <=> Even(a))
  BY <1>3 DEF Even
<1>6. call.kind # "list"
  BY DEF Awaited
<1>7. QED
  BY <1>3, <1>4, <1>5, <1>6, AgreeStill

\* A toggle that waited is put back by the page, for an error or a lost connection.
LEMMA PutBack ==
    ASSUME IInv, SInv, NEW c \in Calls, NEW a \in Accounts, c \in Waiting(a), NEW call,
           calls' = [calls EXCEPT ![c] = call], Known(call), ~Awaited(call),
           call.kind = "list" => call.stage = "idle",
           stars' = Toggled(stars, a),
           UNCHANGED <<page, account, body, list, history, panel, form, favourite, posted,
                       ready, disturbed>>
    PROVE  SInv'
<1>1. c \in Toggles(a)
  BY DEF Waiting
<1>2. /\ calls'[c] = call
      /\ \A d \in Calls : d # c => calls'[d] = calls[d]
      /\ Toggles(a)' = Toggles(a) \ {c}
  BY <1>1, ToggleMoves
<1>3. Waiting(a)' = Waiting(a) \ {c}
  BY <1>2 DEF Waiting, Toggles, Active
<1>4. Finite(a)' /\ (Even(a)' <=> ~Even(a))
  BY <1>3, Parity DEF SInv, StarsAwait
<1>5. (a \in stars' <=> ~(a \in stars)) /\ \A b : b # a => (b \in stars' <=> b \in stars)
  BY DEF Toggled
<1>6. a \in list
  BY <1>1 DEF SInv, AwaitedHere
<1>7. ScreenTypes'
  BY <1>6 DEF SInv, ScreenTypes, Toggled
<1>8. ((a \in stars' <=> a \in favourite') <=> Even(a)')
         <=> ((a \in stars <=> a \in favourite) <=> Even(a))
  BY <1>4, <1>5
<1>9. QED
  BY <1>1, <1>4, <1>5, <1>7, <1>8, AgreeStill

\* The service reads the row for a toggle.
LEMMA ServeToggleStars ==
    ASSUME IInv, SInv, NEW c \in Calls, Serve(c), calls[c].kind = "toggle"
    PROVE  SInv'
<1> DEFINE call == [calls[c] EXCEPT !.stage = "read", !.starred = {calls[c].on} \cap favourite]
<1>1. PICK a \in Accounts : a = calls[c].on
  BY DEF Serve, SInv, CallsKnown, Known, RowWrites
<1>2. /\ calls[c].stage = "sent" /\ calls' = [calls EXCEPT ![c] = call]
      /\ UNCHANGED <<page, account, body, list, stars, history, panel, form, favourite, posted,
                     ready, disturbed>>
  BY DEF Serve, session, screen, services, IInv, Types
<1>3. /\ call.kind = "toggle" /\ call.on = a /\ call.heard = calls[c].heard
      /\ call.stage = "read" /\ Known(call)
  BY <1>1 DEF IInv, Types, CallType, Known, SInv, ScreenTypes, RowWrites
<1>4. ScreenTypes' /\ SameFavourites
  BY <1>2 DEF SInv, ScreenTypes, SameFavourites
<1> HIDE DEF call
<1>5. CASE calls[c].heard = "page"
  <2>1. Awaited(call) /\ c \in Toggles(a)
    BY <1>1, <1>2, <1>3, <1>5 DEF Awaited, Toggles, Active
  <2>2. QED
    BY <1>2, <1>3, <1>4, <2>1, WaitsOn
<1>6. CASE calls[c].heard # "page"
  <2>1. ~Awaited(call) /\ ~Awaited(calls[c]) /\ call.kind # "list"
    BY <1>3, <1>6 DEF Awaited
  <2>2. QED
    BY <1>2, <1>3, <1>4, <2>1, OtherCallStars
<1>7. QED
  BY <1>5, <1>6

\* Of the other calls the service says nothing that the page could show.
LEMMA ServeStars == ASSUME IInv, SInv, NEW c \in Calls, Serve(c) PROVE SInv'
<1>1. CASE calls[c].kind \in {"list", "toggle"}
  BY <1>1, ServeListStars, ServeToggleStars
<1>2. CASE calls[c].kind \notin {"list", "toggle"}
  <2> DEFINE call == [calls[c] EXCEPT !.stage = "answered"]
  <2>1. /\ calls' = [calls EXCEPT ![c] = call] /\ calls[c].stage = "sent"
        /\ UNCHANGED <<page, account, body, list, stars, history, panel, form, favourite, posted,
                       ready, disturbed>>
    BY <1>2 DEF Serve, session, screen, services, IInv, Types
  <2>2. Known(call) /\ call.kind = calls[c].kind
    BY <1>2, <2>1 DEF IInv, Types, CallType, Known, SInv, CallsKnown
  <2>3. ScreenTypes' /\ SameFavourites
    BY <2>1 DEF SInv, ScreenTypes, SameFavourites
  <2>4. ~Awaited(calls[c]) /\ ~Awaited(call)
    BY <1>2, <2>2 DEF Awaited
  <2> HIDE DEF call
  <2>5. QED
    BY <1>2, <2>1, <2>2, <2>3, <2>4, OtherCallStars
<1>3. QED
  BY <1>1, <1>2

\* A row is saved: with a toggle of the page the favourite changes, and with nothing
\* else, or its account is disturbed.
LEMMA WriteStars == ASSUME IInv, SInv, NEW c \in Calls, Write(c) PROVE SInv'
<1> DEFINE saved == IF calls[c].kind = "toggle" THEN {calls[c].on} \ calls[c].starred
                    ELSE calls[c].starred
           hoped == IF c \in Toggles(calls[c].on) THEN {calls[c].on} \ favourite
                    ELSE {calls[c].on} \cap favourite
           call  == IF calls[c].heard = "nobody" THEN Idle
                    ELSE [calls[c] EXCEPT !.stage = "answered", !.starred = {}]
<1>1. /\ calls[c].kind \in RowWrites /\ calls[c].stage = "read"
      /\ calls[c].starred \subseteq {calls[c].on}
  BY DEF Write, SInv, CallsKnown, Known
<1>2. PICK a \in Accounts : a = calls[c].on
  BY <1>1 DEF SInv, CallsKnown, Known
<1>3. /\ calls' = [calls EXCEPT ![c] = call]
      /\ favourite' = (favourite \ {a}) \cup saved
      /\ disturbed' = disturbed \cup {b \in {a} : saved # hoped}
      /\ UNCHANGED <<page, account, body, list, stars, history, panel, form, posted, ready>>
  BY <1>2 DEF Write, session, screen, IInv, Types
<1>4. saved \subseteq {a}
  BY <1>1, <1>2
<1>5. /\ Known(call)
      /\ call.kind = "list" => call.stage = "idle"
      /\ call.heard = calls[c].heard \/ call = Idle
      /\ calls[c].heard = "page" => /\ call.heard = "page" /\ call.kind = calls[c].kind
                                    /\ call.on = a /\ call.stage = "answered"
  BY <1>1, <1>2 DEF IInv, Types, CallType, Known, Idle, RowWrites
<1>6. /\ disturbed \subseteq disturbed' /\ disturbed' \subseteq disturbed \cup {a}
      /\ a \notin disturbed' => saved = hoped
  BY <1>3
<1>7. \A b : b # a => (b \in favourite' <=> b \in favourite)
  BY <1>3, <1>4
<1>8. ScreenTypes'
  <2>1. favourite' \subseteq Accounts /\ disturbed' \subseteq Accounts
    BY <1>3, <1>4, <1>6 DEF SInv, ScreenTypes
  <2>2. QED
    BY <1>3, <2>1 DEF SInv, ScreenTypes
<1>9. CASE c \in Toggles(a)
  <2>1. a \notin disturbed' => (a \in favourite' <=> ~(a \in favourite))
    BY <1>2, <1>3, <1>6, <1>9
  <2>2. Awaited(call) /\ calls[c].stage = "read" /\ call.stage = "answered" /\ call.on = a
        /\ call.kind # "list"
    BY <1>1, <1>5, <1>9, TogglesAre DEF Awaited
  <2> HIDE DEF call, saved, hoped
  <2>3. /\ calls'[c] = call
        /\ \A d \in Calls : d # c => calls'[d] = calls[d]
    BY <1>3, <1>9, <2>2, ToggleMoves
  <2>4. c \in Waiting(a) /\ Waiting(a)' = Waiting(a) \ {c}
    BY <1>9, <2>2, <2>3 DEF Waiting, Toggles, Active
  <2>5. Finite(a)' /\ (Even(a)' <=> ~Even(a))
    BY <2>4, Parity DEF SInv, StarsAwait
  <2>6. a \notin disturbed' =>
           (((a \in stars' <=> a \in favourite') <=> Even(a)')
               <=> ((a \in stars <=> a \in favourite) <=> Even(a)))
    BY <1>3, <2>1, <2>5
  <2>7. QED
    BY <1>3, <1>5, <1>6, <1>7, <1>8, <1>9, <2>2, <2>5, <2>6, AgreeStill
<1>10. CASE c \notin Toggles(a)
  <2>1. a \notin disturbed' => (a \in favourite' <=> a \in favourite)
    BY <1>2, <1>3, <1>6, <1>10
  <2>2. SameFavourites
    BY <1>6, <1>7, <2>1 DEF SameFavourites
  <2>3. ~Awaited(calls[c])
    BY <1>2, <1>10, TogglesAre
  <2>4. ~Awaited(call)
    BY <1>1, <1>5, <2>3 DEF Awaited, Idle
  <2> HIDE DEF call, saved, hoped
  <2>5. QED
    BY <1>3, <1>5, <1>8, <2>2, <2>3, <2>4, OtherCallStars
<1>11. QED
  BY <1>9, <1>10

\* A call fails: a toggle that the service has saved disturbs its account.
LEMMA FailStars == ASSUME IInv, SInv, NEW c \in Calls, Fail(c) PROVE SInv'
<1> DEFINE call == IF calls[c].heard = "nobody" THEN Idle
                   ELSE [calls[c] EXCEPT !.stage = "failed", !.owned = {}, !.starred = {}]
<1>1. /\ calls[c].stage \in {"sent", "read", "answered"}
      /\ calls' = [calls EXCEPT ![c] = call]
      /\ disturbed' = disturbed \cup
            {a \in {calls[c].on} : c \in Toggles(a) /\ calls[c].stage = "answered"}
      /\ UNCHANGED <<page, account, body, list, stars, history, panel, form, favourite, posted, ready>>
  BY DEF Fail, session, screen, services, IInv, Types
<1>2. /\ call.stage \in {"idle", "failed"} /\ call.starred = {} /\ call.owned = {}
      /\ call.heard = calls[c].heard
      /\ call.stage # "idle" => call.kind = calls[c].kind /\ call.on = calls[c].on
      /\ calls[c].heard = "page" => call.stage = "failed"
  BY DEF IInv, Types, CallType, Idle
<1>3. Known(call)
  BY <1>1, <1>2 DEF Known, SInv, CallsKnown
<1>4. Awaited(calls[c]) => calls[c].on \in Accounts
  BY <1>1 DEF Awaited, RowWrites, SInv, CallsKnown, Known
<1>5. disturbed' \subseteq Accounts /\ SameFavourites
  BY <1>1, <1>4, TogglesAre DEF SInv, ScreenTypes, SameFavourites
<1>6. ScreenTypes'
  BY <1>1, <1>5 DEF SInv, ScreenTypes
<1> HIDE DEF call
<1>7. CASE Awaited(calls[c])
  <2>1. PICK a \in Accounts : a = calls[c].on
    BY <1>4, <1>7
  <2>2. c \in Toggles(a) /\ Awaited(call) /\ call.on = a /\ call.stage = "failed"
    BY <1>2, <1>7, <2>1, TogglesAre DEF Awaited
  <2>3. /\ calls[c].stage \in {"sent", "read", "failed"} \/ a \in disturbed'
        /\ disturbed \subseteq disturbed'
    <3>1. calls[c].stage = "answered" => a \in disturbed'
      BY <1>1, <2>1, <2>2
    <3>2. QED
      BY <1>1, <3>1
  <2>4. UNCHANGED <<page, body, list, stars, favourite, ready>>
    BY <1>1
  <2>5. QED
    BY <1>1, <1>3, <1>6, <2>2, <2>3, <2>4, WaitsOn
<1>8. CASE ~Awaited(calls[c])
  <2>1. ~Awaited(call)
    BY <1>1, <1>2, <1>8 DEF Awaited
  <2>2. call.kind = "list" => \/ call.stage = "idle"
                              \/ Listing(c) /\ call.stage # "answered"
    BY <1>1, <1>2 DEF Listing
  <2>3. QED
    BY <1>1, <1>3, <1>5, <1>6, <1>8, <2>1, <2>2, OtherCallStars
<1>9. QED
  BY <1>7, <1>8

\* The page loses a toggle and puts the star back.
LEMMA GiveUpStars == ASSUME IInv, SInv, NEW c \in Calls, GiveUp(c) PROVE SInv'
<1> DEFINE call == [calls[c] EXCEPT !.heard = "nobody"]
<1>1. /\ c \in Toggles(calls[c].on) /\ calls[c].stage \in {"sent", "read"}
      /\ calls' = [calls EXCEPT ![c] = call]
      /\ stars' = Toggled(stars, calls[c].on)
      /\ UNCHANGED <<page, account, body, list, history, panel, form, favourite, posted, ready,
                     disturbed>>
  BY DEF GiveUp, session, services, observations, IInv, Types
<1>2. PICK a \in Accounts : a = calls[c].on
  BY <1>1, TogglesAre DEF Awaited, RowWrites, SInv, CallsKnown, Known
<1>3. c \in Waiting(a)
  BY <1>1, <1>2 DEF Waiting
<1>4. Known(call) /\ ~Awaited(call) /\ call.kind # "list"
  BY <1>1, TogglesAre DEF Awaited, SInv, CallsKnown, Known, IInv, Types, CallType
<1> HIDE DEF call
<1>5. QED
  BY <1>1, <1>2, <1>3, <1>4, PutBack

\* No toggle of the page is under way when its list arrives, or an error instead of it.
LEMMA ListStars == ASSUME IInv, SInv, NEW c \in Calls, ReceiveList(c) \/ MissList(c) PROVE SInv'
<1>1. /\ Listing(c) /\ ready[Here] /\ calls' = Done(c)
      /\ UNCHANGED <<page, account, form, favourite, posted, ready, disturbed>>
      /\ body' # "loading"
  BY DEF ReceiveList, MissList, Listing, session, services, observations, IInv, FreshIsEmpty
<1>2. calls'[c] = Idle /\ \A d \in Calls : d # c => calls'[d] = calls[d]
  BY <1>1 DEF Done, IInv, Types
<1>3. Known(Idle) /\ Idle.stage = "idle"
  BY DEF Known, Idle
<1>4. SameToggles /\ CallsKnown'
  BY <1>1, <1>2, <1>3 DEF SameToggles, Listing, Awaited, SInv, CallsKnown
<1>5. /\ \A a : Toggles(a)' = Toggles(a) /\ Waiting(a)' = Waiting(a)
      /\ \A a : Even(a)' <=> Even(a)
      /\ \A a : Finite(a)' <=> Finite(a)
  BY <1>4, TogglesStay
<1>6. \A a \in Accounts : Toggles(a) = {}
  BY <1>1 DEF SInv, AwaitedHere, ListsAgree
<1>7. AwaitedHere'
  BY <1>5, <1>6 DEF AwaitedHere
<1>8. ListsAgree'
  <2>1. page = "accounts" => \A d \in Calls : ~Listing(d)'
    BY <1>1, <1>2, <1>3 DEF SInv, ListsAgree, Listing
  <2>2. QED
    BY <1>1, <2>1 DEF ListsAgree
<1>9. \A a \in Accounts \ disturbed : Waiting(a) = {}
  BY <1>6 DEF Waiting
<1>10. \A a \in Accounts \ disturbed : Even(a)
  BY <1>9, EmptyIsEven
<1>11. CASE ReceiveList(c)
  <2>1. list' = calls[c].owned /\ stars' = calls[c].starred /\ calls[c].stage = "answered"
    BY <1>11 DEF ReceiveList
  <2>2. list' \subseteq Accounts /\ stars' \subseteq list'
    BY <1>1, <2>1 DEF IInv, Types, CallType, SInv, CallsKnown, Known, Listing
  <2>3. StarsAwait'
    <3>1. page = "accounts" => \A a \in list' \ disturbed : a \in stars' <=> a \in favourite
      BY <1>1, <2>1 DEF SInv, ListsAgree
    <3>2. \A a \in list' \ disturbed : Even(a)'
      BY <1>5, <1>10, <2>2
    <3>3. \A a \in Accounts : Finite(a)'
      BY <1>5 DEF SInv, StarsAwait
    <3>4. QED
      BY <1>1, <3>1, <3>2, <3>3 DEF StarsAwait
  <2>4. ScreenTypes'
    BY <1>1, <1>11, <2>2 DEF ReceiveList, PanelStarts, SInv, ScreenTypes
  <2>5. QED
    BY <1>4, <1>7, <1>8, <2>3, <2>4 DEF SInv
<1>12. CASE MissList(c)
  <2>1. UNCHANGED <<list, stars>>
    BY <1>12 DEF MissList
  <2>2. StarsAwait'
    BY <1>1, <1>5, <2>1 DEF SInv, StarsAwait
  <2>3. ScreenTypes'
    BY <1>1, <1>12 DEF MissList, PanelStarts, SInv, ScreenTypes
  <2>4. QED
    BY <1>4, <1>7, <1>8, <2>2, <2>3 DEF SInv
<1>13. QED
  BY <1>11, <1>12

\* The page hears of its toggle, and puts the star back if it failed.
LEMMA ReceiveToggleStars == ASSUME IInv, SInv, NEW c \in Calls, ReceiveToggle(c) PROVE SInv'
<1>1. /\ calls[c].kind = "toggle" /\ calls[c].stage \in {"answered", "failed"}
      /\ calls' = [calls EXCEPT ![c] = Idle]
      /\ stars' = IF calls[c].stage = "failed" /\ c \in Toggles(calls[c].on)
                     THEN Toggled(stars, calls[c].on) ELSE stars
      /\ UNCHANGED <<page, account, body, list, history, panel, form, favourite, posted, ready, disturbed>>
  BY DEF ReceiveToggle, Done, session, services, observations
<1>2. PICK a \in Accounts : a = calls[c].on
  BY <1>1 DEF SInv, CallsKnown, Known, RowWrites
<1>3. Known(Idle) /\ Idle.stage = "idle" /\ ~Awaited(Idle)
  BY DEF Known, Idle, Awaited
<1>4. CASE c \in Toggles(a) /\ calls[c].stage = "failed"
  <2>1. c \in Waiting(a)
    BY <1>4 DEF Waiting
  <2>2. QED
    BY <1>1, <1>2, <1>3, <1>4, <2>1, PutBack
<1>5. CASE c \in Toggles(a) /\ calls[c].stage = "answered"
  <2>1. stars' = stars
    BY <1>1, <1>5
  <2>2. ScreenTypes'
    BY <1>1, <2>1 DEF SInv, ScreenTypes
  <2>3. /\ calls'[c] = Idle
        /\ \A d \in Calls : d # c => calls'[d] = calls[d]
        /\ Toggles(a)' = Toggles(a) \ {c}
    BY <1>1, <1>3, <1>5, ToggleMoves
  <2>4. Waiting(a)' = Waiting(a)
    BY <1>5, <2>3 DEF Waiting, Toggles, Active
  <2>5. Finite(a)' /\ (Even(a)' <=> Even(a))
    BY <2>4 DEF SInv, StarsAwait, Even, Finite
  <2>6. QED
    BY <1>1, <1>3, <1>5, <2>1, <2>2, <2>5, AgreeStill
<1>6. CASE c \notin Toggles(a)
  <2>1. stars' = stars /\ SameFavourites /\ ~Awaited(calls[c])
    BY <1>1, <1>2, <1>6, TogglesAre DEF SameFavourites
  <2>2. ScreenTypes'
    BY <1>1, <2>1 DEF SInv, ScreenTypes
  <2>3. QED
    BY <1>1, <1>3, <2>1, <2>2, OtherCallStars
<1>7. QED
  BY <1>1, <1>4, <1>5, <1>6

\* A form hears of its call.
LEMMA FormStars ==
    ASSUME IInv, SInv, NEW c \in Calls, ReceiveRequest(c) \/ RefuseEntry(c)
    PROVE  SInv'
<1>1. /\ calls' = [calls EXCEPT ![c] = Idle] /\ calls[c].kind # "toggle"
      /\ UNCHANGED <<page, account, body, list, stars, history, panel, favourite, posted, ready, disturbed>>
      /\ form' \in {"sent", "error"} \/ form' = form
  BY DEF ReceiveRequest, RefuseEntry, Answer, Done, session, services, observations
<1>2. Known(Idle) /\ Idle.stage = "idle" /\ ~Awaited(Idle) /\ ~Awaited(calls[c])
  BY <1>1 DEF Known, Idle, Awaited
<1>3. ScreenTypes' /\ SameFavourites
  BY <1>1 DEF SInv, ScreenTypes, SameFavourites
<1>4. QED
  BY <1>1, <1>2, <1>3, OtherCallStars

\* Every step preserves them.
LEMMA NextSInv == ASSUME IInv, SInv, [Next]_vars PROVE SInv'
<1>1. ASSUME UNCHANGED <<page, list, stars, favourite, calls, account, panel, form, posted>>,
             disturbed' = disturbed, ~ready'[Here] => ~ready[Here],
             body' = body /\ history' = history
      PROVE  SInv'
  <2>1. ScreenTypes'
    BY <1>1 DEF SInv, ScreenTypes
  <2>2. QED
    BY <1>1, <2>1, QuietStars
<1>2. CASE SignOut
  BY <1>1, <1>2 DEF SignOut, Leave, screen, services, observations
<1>3. CASE SubmitRegistration \/ SubmitRequest \/ \E u \in Users : SubmitEntry(u)
  <2>1. PICK call : /\ Send(calls, {call}) /\ call.kind # "list" /\ ~Awaited(call) /\ Known(call)
                    /\ UNCHANGED <<page, account, body, list, stars, history, panel, favourite,
                                   posted, ready, disturbed>>
                    /\ form' = "busy"
    <3>1. ASSUME NEW kind \in {"register", "request", "enter"}, NEW u
          PROVE  LET call == [Idle EXCEPT !.kind = kind, !.stage = "sent", !.heard = "page", !.who = u]
                 IN  call.kind = kind /\ ~Awaited(call) /\ Known(call)
      BY <3>1 DEF Idle, Known, Awaited, RowWrites
    <3>2. ASSUME NEW kind \in {"register", "request"}
          PROVE  LET call == [Idle EXCEPT !.kind = kind, !.stage = "sent", !.heard = "page"]
                 IN  call.kind = kind /\ ~Awaited(call) /\ Known(call)
      BY <3>2 DEF Idle, Known, Awaited, RowWrites
    <3>3. CASE SubmitRegistration
      BY <3>2, <3>3 DEF SubmitRegistration, session, services, observations
    <3>4. CASE SubmitRequest
      BY <3>2, <3>4 DEF SubmitRequest, session, services, observations
    <3>5. CASE \E u \in Users : SubmitEntry(u)
      BY <3>1, <3>5 DEF SubmitEntry, session, services, observations
    <3>6. QED
      BY <1>3, <3>3, <3>4, <3>5
  <2>2. ScreenTypes'
    BY <2>1 DEF SInv, ScreenTypes
  <2>3. QED
    BY <2>1, <2>2, SubmitStars
<1>4. CASE SubmitSupport \/ ResetSupport
  <2>1. ScreenTypes'
    BY <1>4 DEF SubmitSupport, ResetSupport, services, observations, SInv, ScreenTypes
  <2>2. QED
    BY <1>4, <2>1, QuietStars DEF SubmitSupport, ResetSupport, session, services, observations
<1>5. ASSUME NEW p \in Pages, NEW a \in Accounts \cup {None}, Load(p, a) \/ Follow(p, a)
      PROVE  SInv'
  BY <1>5, LoadStars, GoStars DEF Follow
<1>6. CASE UserActs
  BY <1>2, <1>3, <1>4, <1>5, <1>6, ToggleStars DEF UserActs
<1>7. CASE WorldActs
  <2>1. ASSUME NEW a \in Accounts, NEW u \in Users, OpenAccount(a, u) PROVE SInv'
    BY <1>1, <2>1 DEF OpenAccount, session, screen, observations
  <2>2. ASSUME NEW u, EnterElsewhere(u) PROVE SInv'
    BY <1>1, <2>2 DEF EnterElsewhere, screen, services, observations
  <2>3. QED
    BY <1>7, <2>1, <2>2, ElsewhereStars DEF WorldActs
<1>8. CASE Start
  BY <1>8, NextIInv, StartStars
<1>9. CASE Guard \/ Redirect
  <2>1. CASE UNCHANGED <<screen, calls, observations, session, services>>
    BY <1>1, <2>1 DEF screen, services, observations, session
  <2>2. ASSUME NEW p \in {"home", "login", "accounts"}, Go(p, None), UNCHANGED services
        PROVE  SInv'
    BY <2>2, GoStars DEF Pages, Dashboard
  <2>3. QED
    BY <1>9, <2>1, <2>2 DEF Guard, Redirect
<1>10. CASE PanelStep \/ DetailStep \/ HistoryStep
  <2>1. CASE Go("crashed", None)
    BY <1>10, <2>1, GoStars DEF PanelStep, DetailStep, HistoryStep, Pages, Dashboard
  <2>2. CASE UNCHANGED <<page, account, list, stars, form, calls, services, observations, session>>
             /\ (body' = body \/ page # "accounts") /\ ScreenTypes'
    BY <2>2, QuietStars DEF services, observations, session
  <2>3. CASE PanelStep
    BY <2>2, <2>3 DEF PanelStep, SInv, ScreenTypes, services, observations
  <2>4. CASE DetailStep
    BY <2>2, <2>4 DEF DetailStep, SInv, ScreenTypes, services, observations
  <2>5. CASE HistoryStep
    BY <2>1, <2>2, <2>5 DEF HistoryStep, SInv, ScreenTypes, services, observations
  <2>6. QED
    BY <1>10, <2>3, <2>4, <2>5
<1>11. ASSUME NEW c \in Calls, Serve(c) \/ Write(c) \/ Fail(c) \/ GiveUp(c) PROVE SInv'
  BY <1>11, ServeStars, WriteStars, FailStars, GiveUpStars
<1>12. ASSUME NEW c \in Calls, Receive(c) PROVE SInv'
  BY <1>12, ListStars, ReceiveToggleStars, FormStars, EntryStars DEF Receive
<1>13. CASE UNCHANGED vars
  BY <1>1, <1>13 DEF vars, session, screen, services, observations
<1>14. QED
  BY <1>4, <1>6, <1>7, <1>8, <1>9, <1>10, <1>11, <1>12, <1>13 DEF Next

-----------------------------------------------------------------------------
(***************************************************************************)
(* The timers: those that push the list of accounts, and the requests      *)
(* under way, are never more than what the user did.                       *)
(***************************************************************************)
Requests == {c \in Calls : calls[c].kind = "request" /\ calls[c].stage # "idle"}

Counted ==
    /\ acts \in 0..MaxActs
    /\ timers \in [{"push", "reset"} -> Nat]
    /\ timers.reset <= acts
    /\ IsFiniteSet(Requests)
    /\ timers.push + Cardinality(Requests) <= acts

\* No step but those of a request and of the support form makes more of them.
LEMMA CountFalls ==
    ASSUME Counted, acts' = acts \/ Act, Requests' \subseteq Requests,
           timers' \in [{"push", "reset"} -> Nat],
           timers'.push <= timers.push, timers'.reset <= acts'
    PROVE  Counted'
<1>1. acts' \in 0..MaxActs /\ acts <= acts'
  BY CustomerPagesAssumption DEF Counted, Act
<1>2. /\ IsFiniteSet(Requests') /\ Cardinality(Requests') \in Nat /\ Cardinality(Requests) \in Nat
      /\ Cardinality(Requests') <= Cardinality(Requests)
  BY FS_Subset, FS_CardinalityType DEF Counted
<1>3. timers.push \in Nat /\ timers'.push \in Nat
  BY DEF Counted
<1>4. QED
  BY <1>1, <1>2, <1>3, CustomerPagesAssumption DEF Counted

\* A request is submitted, or a message to the support is sent: one act.
LEMMA CountRises ==
    ASSUME Counted, Act, NEW c, Requests' \subseteq Requests \cup {c},
           \/ timers' = timers
           \/ timers' = [timers EXCEPT !.reset = @ + 1] /\ Requests' \subseteq Requests
    PROVE  Counted'
<1>1. acts' \in 0..MaxActs /\ acts' = acts + 1
  BY CustomerPagesAssumption DEF Counted, Act
<1>2. /\ timers' \in [{"push", "reset"} -> Nat] /\ timers'.push = timers.push
      /\ timers'.reset <= timers.reset + 1
      /\ timers.push \in Nat /\ timers.reset \in Nat
  BY DEF Counted
<1>3. /\ IsFiniteSet(Requests \cup {c}) /\ Cardinality(Requests \cup {c}) \in Nat
      /\ Cardinality(Requests \cup {c}) <= Cardinality(Requests) + 1
      /\ Cardinality(Requests) \in Nat
  <2>1. IsFiniteSet(Requests) /\ Cardinality(Requests) \in Nat
    BY FS_CardinalityType DEF Counted
  <2>2. CASE c \in Requests
    <3>1. Requests \cup {c} = Requests
      BY <2>2
    <3>2. QED
      BY <2>1, <3>1
  <2>3. CASE c \notin Requests
    <3>1. /\ IsFiniteSet(Requests \cup {c})
          /\ Cardinality(Requests \cup {c}) = Cardinality(Requests) + 1
      BY <2>1, <2>3, FS_AddElement
    <3>2. QED
      BY <2>1, <3>1
  <2>4. QED
    BY <2>2, <2>3
<1>4. /\ IsFiniteSet(Requests') /\ Cardinality(Requests') \in Nat
      /\ Cardinality(Requests') <= Cardinality(Requests \cup {c})
  BY <1>3, FS_Subset, FS_CardinalityType
<1>5. acts \in Nat /\ timers.push + Cardinality(Requests) <= acts /\ timers.reset <= acts
  BY DEF Counted
<1>6. timers'.reset <= acts'
  BY <1>1, <1>2, <1>5
<1>7. timers'.push + Cardinality(Requests') <= acts'
  BY <1>1, <1>2, <1>3, <1>4, <1>5
<1>8. QED
  BY <1>1, <1>2, <1>4, <1>6, <1>7 DEF Counted

\* A request is accepted: its timer takes the place of its call.
LEMMA CountMoves ==
    ASSUME Counted, UNCHANGED acts, NEW c, c \in Requests, Requests' = Requests \ {c},
           timers' = timers \/ timers' = [timers EXCEPT !.push = @ + 1]
    PROVE  Counted'
<1>1. /\ IsFiniteSet(Requests') /\ Cardinality(Requests') = Cardinality(Requests) - 1
      /\ Cardinality(Requests) \in Nat
  BY FS_RemoveElement, FS_CardinalityType DEF Counted
<1>2. /\ timers' \in [{"push", "reset"} -> Nat] /\ timers'.push <= timers.push + 1
      /\ timers'.push \in Nat /\ timers.push \in Nat
      /\ timers'.reset = timers.reset
  BY DEF Counted
<1>3. acts \in Nat /\ timers.push + Cardinality(Requests) <= acts
  BY DEF Counted
<1>4. timers'.push + Cardinality(Requests') <= acts'
  BY <1>1, <1>2, <1>3
<1>5. QED
  BY <1>1, <1>2, <1>4 DEF Counted

\* Nothing is counted at the start.
LEMMA InitCounted == Init => Counted
<1> SUFFICES ASSUME Init PROVE Counted
  OBVIOUS
<1>1. Requests = {}
  BY DEF Init, Requests, Idle
<1>2. IsFiniteSet(Requests) /\ Cardinality(Requests) = 0
  BY <1>1, FS_EmptySet
<1>3. timers = [push |-> 0, reset |-> 0] /\ acts = 0
  BY DEF Init
<1>4. timers \in [{"push", "reset"} -> Nat] /\ timers.push = 0 /\ timers.reset = 0
  BY <1>3
<1>5. QED
  BY <1>2, <1>3, <1>4, CustomerPagesAssumption DEF Counted

\* A page that is left, or fetches, makes no request.
LEMMA NoRequest ==
    ASSUME IInv, NEW p, NEW u, NEW present,
           \A c \in Calls : present[c].stage # "idle" /\ present[c].kind = "request" =>
                               calls[c].stage # "idle" /\ calls[c].kind = "request",
           present = [c \in Calls |-> present[c]],
           Send(present, Asks(p, u))
    PROVE  Requests' \subseteq Requests
<1>1. \A call \in Asks(p, u) : call.kind = "list"
  BY DEF Asks, Idle
<1>2. \A c \in Calls : calls'[c] = present[c] \/ calls'[c] \in Asks(p, u)
  BY DEF Send
<1>3. QED
  BY <1>1, <1>2 DEF Requests

\* A page that is mounted makes no request either.
LEMMA OpenRequests ==
    ASSUME IInv, SInv, NEW p, NEW a, NEW u, NEW present, Leaves(present), Open(p, a, u, present)
    PROVE  Requests' \subseteq Requests
<1>1. Send(present, Asks(p, u)) /\ present = [c \in Calls |-> present[c]]
  BY DEF Open, Leaves
<1>2. \A c \in Calls : present[c].stage # "idle" /\ present[c].kind = "request" =>
                          calls[c].stage # "idle" /\ calls[c].kind = "request"
  BY DEF Leaves
<1>3. QED
  BY <1>1, <1>2, NoRequest

\* Every step preserves the count.
LEMMA NextCounted == ASSUME IInv, SInv, Counted, [Next]_vars PROVE Counted'
<1>1. /\ timers \in [{"push", "reset"} -> Nat] /\ timers.push \in Nat /\ timers.reset \in Nat
      /\ timers.reset <= acts /\ acts \in Nat
  BY DEF Counted
<1>2. acts' = acts \/ Act => acts' \in Nat /\ acts <= acts'
  BY <1>1 DEF Act
<1>3. ASSUME acts' = acts \/ Act, Requests' \subseteq Requests,
             \/ timers' = timers
             \/ timers' = [push |-> 0, reset |-> 0]
             \/ timers' = [timers EXCEPT !.reset = 0]
             \/ timers.reset > 0 /\ timers' = [timers EXCEPT !.reset = @ - 1]
             \/ timers.push > 0 /\ timers' = [timers EXCEPT !.push = @ - 1]
             \/ timers.push > 0 /\ timers' = [push |-> timers.push - 1, reset |-> 0]
      PROVE  Counted'
  <2>1. timers' \in [{"push", "reset"} -> Nat] /\ timers'.push <= timers.push
        /\ timers'.reset <= timers.reset
    BY <1>1, <1>3
  <2>2. timers'.reset \in Nat
    BY <2>1
  <2>3. timers'.reset <= acts'
    BY <1>1, <1>2, <1>3, <2>1, <2>2
  <2>4. QED
    BY <1>3, <2>1, <2>3, CountFalls
<1>4. UNCHANGED calls => Requests' \subseteq Requests
  BY DEF Requests
<1>5. ASSUME NEW p, NEW a, Go(p, a) PROVE Requests' \subseteq Requests
  BY <1>5, LeftLeaves, OpenRequests DEF Go
<1>6. ASSUME NEW c \in Calls, NEW call, calls' = [calls EXCEPT ![c] = call],
             call.kind = "request" => call.stage = "idle" \/ c \in Requests
      PROVE  Requests' \subseteq Requests
  <2>1. calls'[c] = call /\ \A d \in Calls : d # c => calls'[d] = calls[d]
    BY <1>6 DEF IInv, Types
  <2>2. QED
    BY <1>6, <2>1 DEF Requests
<1>7. ASSUME NEW call, call.kind # "request", Send(calls, {call}) PROVE Requests' \subseteq Requests
  BY <1>6, <1>7 DEF Send
<1>8. CASE UserActs
  <2>1. CASE SignOut
    BY <1>3, <1>4, <2>1 DEF SignOut
  <2>2. CASE SubmitRegistration \/ (\E u \in Users : SubmitEntry(u)) \/ \E a \in Accounts : Toggle(a)
    <3>1. Act /\ timers' = timers
      BY <2>2 DEF SubmitRegistration, SubmitEntry, Toggle
    <3>2. Requests' \subseteq Requests
      <4>1. CASE SubmitRegistration
        BY <1>7, <4>1 DEF SubmitRegistration, Idle
      <4>2. CASE \E u \in Users : SubmitEntry(u)
        BY <1>7, <4>2 DEF SubmitEntry, Idle
      <4>3. CASE \E a \in Accounts : Toggle(a)
        BY <1>7, <4>3 DEF Toggle, Idle
      <4>4. QED
        BY <2>2, <4>1, <4>2, <4>3
    <3>3. QED
      BY <1>3, <3>1, <3>2
  <2>3. CASE SubmitRequest
    <3>1. PICK c \in Calls : \A d \in Calls : d # c => calls'[d] = calls[d]
      BY <2>3 DEF SubmitRequest, Send, IInv, Types
    <3>2. Requests' \subseteq Requests \cup {c}
      BY <3>1 DEF Requests
    <3>3. Act /\ timers' = timers
      BY <2>3 DEF SubmitRequest
    <3>4. QED
      BY <3>2, <3>3, CountRises
  <2>4. CASE SubmitSupport
    <3>1. Act /\ timers' = [timers EXCEPT !.reset = @ + 1] /\ Requests' \subseteq Requests
      BY <1>4, <2>4 DEF SubmitSupport
    <3>2. Requests' \subseteq Requests \cup {None}
      BY <3>1
    <3>3. QED
      BY <3>1, <3>2, CountRises
  <2>5. ASSUME NEW p, NEW a, Load(p, a) PROVE Counted'
    <3>1. Requests' \subseteq Requests
      BY <2>5, LeftLeaves, OpenRequests DEF Load
    <3>2. QED
      BY <1>3, <2>5, <3>1 DEF Load
  <2>6. ASSUME NEW p, NEW a, Follow(p, a) PROVE Counted'
    BY <1>3, <1>5, <2>6 DEF Follow
  <2>7. QED
    BY <1>8, <2>1, <2>2, <2>3, <2>4, <2>5, <2>6 DEF UserActs
<1>9. CASE WorldActs
  <2>1. ASSUME NEW k \in RowWrites, NEW a \in Accounts, SaveElsewhere(k, a) PROVE Counted'
    <3>1. Requests' \subseteq Requests
      BY <1>7, <2>1 DEF SaveElsewhere, Idle, RowWrites
    <3>2. QED
      BY <1>3, <2>1, <3>1 DEF SaveElsewhere
  <2>2. QED
    BY <1>3, <1>4, <1>9, <2>1 DEF WorldActs, OpenAccount, EnterElsewhere
<1>10. CASE Start
  <2>1. Requests' \subseteq Requests
    BY <1>10, NoRequest DEF Start, IInv, Types
  <2>2. QED
    BY <1>3, <1>10, <2>1 DEF Start
<1>11. CASE Guard
  BY <1>3, <1>5, <1>11 DEF Guard
<1>12. CASE ResetSupport
  BY <1>3, <1>4, <1>12 DEF ResetSupport
<1>13. CASE Redirect
  <2>1. Requests' \subseteq Requests
    BY <1>4, <1>5, <1>13 DEF Redirect
  <2>2. QED
    BY <1>3, <1>13, <2>1 DEF Redirect
<1>14. CASE PanelStep \/ DetailStep \/ HistoryStep
  <2>1. Requests' \subseteq Requests
    BY <1>4, <1>5, <1>14 DEF PanelStep, DetailStep, HistoryStep
  <2>2. QED
    BY <1>3, <1>14, <2>1 DEF PanelStep, DetailStep, HistoryStep
<1>15. ASSUME NEW c \in Calls, Serve(c) \/ Write(c) \/ Fail(c) \/ GiveUp(c) PROVE Counted'
  <2>1. calls[c].stage # "idle" /\ calls[c] \in CallType /\ calls = [d \in Calls |-> calls[d]]
    BY <1>15 DEF Serve, Write, Fail, GiveUp, IInv, Types
  <2>2. /\ calls'[c].kind = calls[c].kind \/ calls'[c] = Idle
        /\ \A d \in Calls : d # c => calls'[d] = calls[d]
    <3>1. CASE Serve(c)
      <4>1. CASE calls[c].kind = "list"
        BY <2>1, <3>1, <4>1 DEF Serve, CallType
      <4>2. CASE calls[c].kind = "toggle"
        BY <2>1, <3>1, <4>2 DEF Serve, CallType
      <4>3. CASE calls[c].kind \notin {"list", "toggle"}
        BY <2>1, <3>1, <4>3 DEF Serve, CallType
      <4>4. QED
        BY <4>1, <4>2, <4>3
    <3>2. CASE Write(c)
      BY <2>1, <3>2 DEF Write, CallType
    <3>3. CASE Fail(c)
      BY <2>1, <3>3 DEF Fail, CallType
    <3>4. CASE GiveUp(c)
      BY <2>1, <3>4 DEF GiveUp, CallType
    <3>5. QED
      BY <1>15, <3>1, <3>2, <3>3, <3>4
  <2>3. Requests' \subseteq Requests
    BY <2>1, <2>2 DEF Requests, Idle
  <2>4. QED
    BY <1>3, <1>15, <2>3 DEF Serve, Write, Fail, GiveUp
<1>16. ASSUME NEW c \in Calls, ReceiveList(c) \/ MissList(c) \/ ReceiveToggle(c) \/ RefuseEntry(c)
       PROVE  Counted'
  <2>1. Requests' \subseteq Requests
    BY <1>6, <1>16 DEF ReceiveList, MissList, ReceiveToggle, RefuseEntry, Done, Idle
  <2>2. QED
    BY <1>3, <1>16, <2>1 DEF ReceiveList, MissList, ReceiveToggle, RefuseEntry
<1>17. ASSUME NEW c \in Calls, ReceiveRequest(c) PROVE Counted'
  <2>1. c \in Requests
    BY <1>17 DEF ReceiveRequest, Requests
  <2>2. calls'[c] = Idle /\ \A d \in Calls : d # c => calls'[d] = calls[d]
    BY <1>17 DEF ReceiveRequest, Done, IInv, Types
  <2>3. Requests' = Requests \ {c}
    BY <2>2 DEF Requests, Idle
  <2>4. QED
    BY <1>17, <2>1, <2>3, CountMoves DEF ReceiveRequest
<1>18. ASSUME NEW c \in Calls, ReceiveEntry(c) PROVE Counted'
  <2> DEFINE u == calls[c].who
  <2>1. CASE page = "overview"
    <3>1. Send(Done(c), Asks(page, u)) /\ timers' = timers /\ acts' = acts
      BY <1>18, <2>1 DEF ReceiveEntry
    <3>2. \A d \in Calls : Done(c)[d] = calls[d] \/ Done(c)[d] = Idle
      BY DEF Done, IInv, Types
    <3>3. \A d \in Calls : Done(c)[d].stage # "idle" /\ Done(c)[d].kind = "request" =>
                              calls[d].stage # "idle" /\ calls[d].kind = "request"
      BY <3>2 DEF Idle
    <3>4. Done(c) = [d \in Calls |-> Done(c)[d]]
      BY DEF Done, IInv, Types
    <3>5. Requests' \subseteq Requests
      BY <3>1, <3>3, <3>4, NoRequest
    <3>6. QED
      BY <1>3, <3>1, <3>5
  <2>2. CASE page # "overview"
    <3>1. /\ Open("overview", None, u, [d \in Calls |-> Left(Done(c)[d])])
          /\ timers' = [timers EXCEPT !.reset = 0] /\ acts' = acts
      BY <1>18, <2>2 DEF ReceiveEntry
    <3>2. Requests' \subseteq Requests
      BY <3>1, LeftLeaves, OpenRequests
    <3>3. QED
      BY <1>3, <3>1, <3>2
  <2>3. QED
    BY <2>1, <2>2
<1>19. CASE UNCHANGED vars
  BY <1>3, <1>4, <1>19 DEF vars
<1>20. QED
  BY <1>8, <1>9, <1>10, <1>11, <1>12, <1>13, <1>14, <1>15, <1>16, <1>17, <1>18, <1>19
     DEF Next, Receive

-----------------------------------------------------------------------------
(***************************************************************************)
(* The theorems.                                                           *)
(***************************************************************************)

\* Together they hold in every state.
LEMMA PagesInvariance == Spec => [](IInv /\ SInv /\ Counted)
<1>1. Init => IInv /\ SInv /\ Counted
  BY InitIInv, InitSInv, InitCounted
<1>2. IInv /\ SInv /\ Counted /\ [Next]_vars => (IInv /\ SInv /\ Counted)'
  BY NextIInv, NextSInv, NextCounted
<1>3. QED
  BY <1>1, <1>2, PTL DEF Spec

\* The page of accounts and the overview never show the accounts of another user than
\* the one that is signed in, whatever calls are in flight when the user leaves the page,
\* loads it again, signs out or in: only a sign-in that arrives on the overview while
\* somebody else is signed in there leaves the old list until the new one comes.
THEOREM OwnAccounts == Spec => []OwnAccountsShown
<1>1. IInv => OwnAccountsShown
  BY DEF IInv, ShowsOwn, OwnAccountsShown
<1>2. QED
  BY <1>1, InitIInv, NextIInv, PTL DEF Spec

\* The tab, the page and its calls keep their types: a star marks an account of the
\* list, and the timers are never more than what the user did.
THEOREM TypeCorrect == Spec => []TypeOK
<1>1. ASSUME IInv, SInv, Counted PROVE TypeOK
  <2>1. calls \in [Calls -> Call]
    BY <1>1 DEF IInv, Types, CallType, Call, SInv, CallsKnown, Known
  <2>2. timers \in [{"push", "reset"} -> 0..MaxActs]
    <3>1. Cardinality(Requests) \in Nat /\ acts \in 0..MaxActs /\ MaxActs \in Nat
      BY <1>1, CustomerPagesAssumption, FS_CardinalityType DEF Counted
    <3>2. timers \in [{"push", "reset"} -> Nat] /\ timers.reset <= acts
          /\ timers.push + Cardinality(Requests) <= acts
      BY <1>1 DEF Counted
    <3>3. timers.push \in 0..MaxActs /\ timers.reset \in 0..MaxActs
      BY <3>1, <3>2
    <3>4. QED
      BY <3>2, <3>3
  <2>3. QED
    BY <1>1, <2>1, <2>2 DEF TypeOK, IInv, Types, SInv, ScreenTypes, Counted
<1>2. QED
  BY <1>1, PagesInvariance, PTL

\* When the page has heard of its toggles, a star is where the service has a favourite,
\* however many of them overlapped, failed, were lost or answered late, and whatever saves
\* of the row came between: unless one of these changed the favourite itself, kept a toggle
\* from changing it, or an answer was lost, the page and the service have toggled equally
\* often, or both an odd number of times.
THEOREM StarsAreFavourites == Spec => []StarsAgree
<1>1. ASSUME SInv PROVE StarsAgree
  <2>1. \A a \in Accounts : Toggles(a) = {} => Waiting(a) = {}
    BY DEF Waiting
  <2>2. \A a \in Accounts : Toggles(a) = {} => Even(a)
    BY <2>1, EmptyIsEven
  <2>3. QED
    BY <1>1, <2>2 DEF SInv, StarsAwait, ScreenTypes, StarsAgree
<1>2. QED
  BY <1>1, PagesInvariance, PTL
=============================================================================
