-------------------------- MODULE StaffPagesProofs --------------------------
(***************************************************************************)
(* What is proved of StaffPages for every number of tabs, requests and     *)
(* calls: the pages use the service as AccountRequests describes it, so    *)
(* that what is proved there holds here, and what the pages add to it.     *)
(***************************************************************************)
EXTENDS StaffPages, FiniteSetTheorems, TLAPS

P == INSTANCE AccountRequestsProofs

-----------------------------------------------------------------------------
(***************************************************************************)
(* The pages.                                                              *)
(***************************************************************************)

\* The tabs and localStorage have employees only, and every decision that was sent has
\* a request, one of the two buttons and an employee.
StaffOnly ==
    /\ user \in [Tabs -> Staff \cup {None}]
    /\ stored = [x \in Frontends |-> stored[x]]
    /\ stored["employee"] \in Staff \cup {None}

SentOK ==
    /\ sent \in [Calls -> Decision]
    /\ \A c \in Calls :
          \/ sent[c] = Unsent
          \/ /\ sent[c].form \in Forms
             /\ sent[c].to \in Buttons
             /\ sent[c].who \in Staff

\* A widget that awaits the answer to a decision shows its request as being processed,
\* and awaits no other.
AwaitsOne ==
    /\ processing \in [Tabs -> Forms \cup {None}]
    /\ \A c \in Calls : sent[c].tab # None => processing[sent[c].tab] = sent[c].form
    /\ \A c, d \in Calls : sent[c].tab # None /\ sent[c].tab = sent[d].tab => c = d

PagesInv == StaffOnly /\ SentOK /\ AwaitsOne

\* The invariant of the pages holds at the start.
LEMMA InitPages == Init => PagesInv
<1> SUFFICES ASSUME Init PROVE PagesInv
  OBVIOUS
<1>1. StaffOnly
  BY DEF Init, SessionInit, StaffOnly
<1>2. SentOK
  BY DEF Init, SentOK, Decision, Unsent
<1>3. AwaitsOne
  BY DEF Init, AwaitsOne, Unsent
<1>4. QED
  BY <1>1, <1>2, <1>3 DEF PagesInv

\* A page that is left, whoever is on the next one, awaits nothing.
LEMMA TurnStep ==
    ASSUME PagesInv, NEW t, NEW p, NEW b, Turn(t, p, b)
    PROVE  /\ SentOK' /\ AwaitsOne'
           /\ \A c \in Calls : sent'[c].form = sent[c].form /\ sent'[c].who = sent[c].who
<1>1. \A c \in Calls : sent[c] \in Decision
  BY DEF PagesInv, SentOK
<1>2. \A c \in Calls : /\ sent'[c] = [sent[c] EXCEPT !.tab = IF sent[c].tab = t THEN None ELSE sent[c].tab]
                       /\ sent'[c].tab = IF sent[c].tab = t THEN None ELSE sent[c].tab
                       /\ sent'[c].form = sent[c].form /\ sent'[c].who = sent[c].who
                       /\ sent'[c].to = sent[c].to
                       /\ sent'[c] \in Decision
                       /\ sent[c] = Unsent => sent'[c] = Unsent
  BY <1>1 DEF Turn, Decision, Unsent
<1>3. sent' \in [Calls -> Decision]
  BY <1>2 DEF Turn
<1>4. SentOK'
  BY <1>2, <1>3 DEF PagesInv, SentOK, Buttons
<1>5. /\ processing' \in [Tabs -> Forms \cup {None}]
      /\ \A u \in Tabs : u # t => processing'[u] = processing[u]
  BY DEF Turn, PagesInv, AwaitsOne
<1>6. \A c \in Calls : sent[c].tab \in Tabs \cup {None}
  BY <1>1 DEF Decision
<1>7. ASSUME NEW c \in Calls, sent'[c].tab # None
      PROVE  sent'[c].tab = sent[c].tab /\ sent[c].tab # t /\ sent[c].tab \in Tabs
  BY <1>2, <1>6, <1>7
<1>8. ASSUME NEW c \in Calls, sent'[c].tab # None
      PROVE  processing'[sent'[c].tab] = sent'[c].form
  <2>1. processing[sent[c].tab] = sent[c].form
    BY <1>7, <1>8 DEF PagesInv, AwaitsOne
  <2>2. processing'[sent[c].tab] = processing[sent[c].tab]
    BY <1>5, <1>7, <1>8
  <2>3. sent'[c].tab = sent[c].tab /\ sent'[c].form = sent[c].form
    BY <1>2, <1>7, <1>8
  <2>4. QED
    BY <2>1, <2>2, <2>3
<1>9. \A c, d \in Calls : sent'[c].tab # None /\ sent'[c].tab = sent'[d].tab => c = d
  BY <1>7 DEF PagesInv, AwaitsOne
<1>10. QED
  BY <1>2, <1>4, <1>5, <1>8, <1>9 DEF AwaitsOne

\* Whoever signs in to a tab of the employee frontend is an employee.
LEMMA EnterStep ==
    ASSUME PagesInv, NEW t, NEW u, Admits(t, u), Enter(t, u)
    PROVE  StaffOnly'
<1>1. stored' = [x \in Frontends |-> stored'[x]]
  BY DEF PagesInv, StaffOnly, Enter
<1>2. stored'["employee"] \in Staff \cup {None}
  BY DEF PagesInv, StaffOnly, Enter, Admits, Frontend, Frontends
<1>3. user' \in [Tabs -> Staff \cup {None}]
  BY StaffPagesAssumption DEF PagesInv, StaffOnly, Enter, Admits
<1>4. QED
  BY <1>1, <1>2, <1>3 DEF StaffOnly

\* A decision goes from a widget that awaits none, for the employee of its tab.
LEMMA DecideStep ==
    ASSUME PagesInv, NEW t \in Tabs, NEW f \in Forms, NEW to \in Buttons, NEW c \in Calls,
           Decide(t, f, to, c)
    PROVE  /\ PagesInv'
           /\ sent[c].form = None
           /\ sent'[c].form = f /\ sent'[c].who \in Staff
           /\ \A d \in Calls : d # c => sent'[d] = sent[d]
           /\ \A d \in Calls : sent[d].tab # t
<1>1. /\ user[t] \in Staff /\ user[t] \in Users
      /\ sent[c] = Unsent /\ processing[t] = None
      /\ UNCHANGED <<stored, user>>
  BY SessionAssumption DEF Decide, Shown, PagesInv, StaffOnly, session
<1>2. sent'[c] = [tab |-> t, form |-> f, to |-> to, who |-> user[t]]
  BY DEF Decide, PagesInv, SentOK
<1>3. \A d \in Calls : d # c => sent'[d] = sent[d]
  BY DEF Decide, PagesInv, SentOK
<1>4. sent'[c] \in Decision
  BY <1>1, <1>2 DEF Decision, Buttons
<1>5. sent' \in [Calls -> Decision]
  BY <1>4 DEF Decide, PagesInv, SentOK
<1>6. SentOK'
  BY <1>1, <1>2, <1>3, <1>5 DEF PagesInv, SentOK, Buttons
<1>7. ASSUME NEW d \in Calls PROVE sent[d].tab # t
  <2>1. SUFFICES ASSUME sent[d].tab = t PROVE FALSE
    OBVIOUS
  <2>2. t # None
    BY StaffPagesAssumption
  <2>3. sent[d].form = None
    BY <1>1, <2>1, <2>2 DEF PagesInv, AwaitsOne
  <2>4. sent[d] = Unsent
    BY <2>3, StaffPagesAssumption DEF PagesInv, SentOK
  <2>5. QED
    BY <2>1, <2>2, <2>4 DEF Unsent
<1>8. AwaitsOne'
  <2>1. /\ processing' \in [Tabs -> Forms \cup {None}]
        /\ processing'[t] = f
        /\ \A u \in Tabs : u # t => processing'[u] = processing[u]
    BY DEF Decide, PagesInv, AwaitsOne
  <2>2. \A d \in Calls : sent[d].tab \in Tabs \cup {None}
    BY DEF PagesInv, SentOK, Decision
  <2>3. sent'[c].tab = t /\ sent'[c].form = f
    BY <1>2
  <2>4. QED
    BY <1>3, <1>7, <2>1, <2>2, <2>3 DEF PagesInv, AwaitsOne
<1>9. StaffOnly'
  BY <1>1 DEF PagesInv, StaffOnly
<1>10. QED
  BY <1>1, <1>2, <1>3, <1>6, <1>7, <1>8, <1>9 DEF PagesInv, Unsent

\* A decision that ends, well or not, leaves its widget ready for the next.
LEMMA AnswerStep ==
    ASSUME PagesInv, NEW c \in Calls, Decided(c) \/ DecisionFails(c)
    PROVE  /\ PagesInv'
           /\ \A d \in Calls : sent'[d].form = sent[d].form /\ sent'[d].who = sent[d].who
<1>1. /\ sent[c].tab # None
      /\ sent' = [sent EXCEPT ![c].tab = None]
      /\ processing' = [processing EXCEPT ![sent[c].tab] = None]
      /\ UNCHANGED session
  BY DEF Decided, DecisionFails
<1>2. /\ sent[c] \in Decision
      /\ sent[c] # Unsent
      /\ sent'[c] = [sent[c] EXCEPT !.tab = None]
      /\ \A d \in Calls : d # c => sent'[d] = sent[d]
  BY <1>1 DEF PagesInv, SentOK, Unsent
<1>3. /\ sent'[c] \in Decision
      /\ sent'[c].tab = None /\ sent'[c].form = sent[c].form
      /\ sent'[c].who = sent[c].who /\ sent'[c].to = sent[c].to
  BY <1>2 DEF Decision
<1>4. SentOK'
  BY <1>1, <1>2, <1>3 DEF PagesInv, SentOK, Buttons
<1>5. /\ processing' \in [Tabs -> Forms \cup {None}]
      /\ \A u \in Tabs : u # sent[c].tab => processing'[u] = processing[u]
      /\ \A d \in Calls : sent[d].tab \in Tabs \cup {None}
  BY <1>1 DEF PagesInv, AwaitsOne, SentOK, Decision
<1>6. AwaitsOne'
  BY <1>1, <1>2, <1>3, <1>5 DEF PagesInv, AwaitsOne
<1>7. StaffOnly'
  BY <1>1 DEF PagesInv, StaffOnly, session
<1>8. QED
  BY <1>2, <1>3, <1>4, <1>6, <1>7 DEF PagesInv

\* Every step but those with the service: an act of the employee or the page, a list,
\* a login, an onboarding, or the end of a decision.
PageMove ==
    \/ \E t \in Tabs :
          \/ SignOut(t) \/ Complete(t) \/ SubmitCustomer(t) \/ Refresh(t)
          \/ \E p \in Pages : Load(t, p) \/ Follow(t, p)
          \/ \E u \in Users : SubmitEntry(t, u)
          \/ Start(t) \/ Guard(t) \/ Redirect(t)
    \/ \E s \in Fetches : ServeList(s) \/ ReceiveList(s) \/ MissList(s)
    \/ \E j \in Jobs : JobStep(j)
    \/ \E c \in Calls : Decided(c) \/ DecisionFails(c)
    \/ UNCHANGED vars

\* What was sent to the service is left alone by such a step, and so is the service.
SameSent == \A c \in Calls : sent'[c].form = sent[c].form /\ sent'[c].who = sent[c].who

\* A step of the session, other than a login, leaves employees only.
LEMMA SessionStep ==
    ASSUME PagesInv, NEW t \in Tabs, UNCHANGED session \/ Mount(t) \/ Restore(t) \/ Leave(t)
    PROVE  StaffOnly'
<1>1. CASE UNCHANGED session
  BY <1>1 DEF PagesInv, StaffOnly, session
<1>2. CASE Mount(t)
  BY <1>2 DEF PagesInv, StaffOnly, Mount
<1>3. CASE Restore(t)
  <2>1. stored[Frontend(t)] \in Staff \cup {None}
    BY StaffPagesAssumption DEF PagesInv, StaffOnly, Frontend
  <2>2. QED
    BY <1>3, <2>1 DEF PagesInv, StaffOnly, Restore
<1>4. CASE Leave(t)
  <2>1. user' \in [Tabs -> Staff \cup {None}]
    BY <1>4 DEF PagesInv, StaffOnly, Leave
  <2>2. /\ stored' = [x \in Frontends |-> stored'[x]]
        /\ stored'["employee"] \in Staff \cup {None}
    BY <1>4, StaffPagesAssumption DEF PagesInv, StaffOnly, Leave, Frontend, Frontends
  <2>3. QED
    BY <2>1, <2>2 DEF StaffOnly
<1>5. QED
  BY <1>1, <1>2, <1>3, <1>4

\* A step of a page preserves the invariant of the pages and leaves the service alone.
LEMMA PageStep ==
    ASSUME PagesInv, PageMove
    PROVE  PagesInv' /\ SameSent /\ UNCHANGED <<service, crossed>>
<1>1. ASSUME UNCHANGED <<sent, processing>>
      PROVE  SentOK' /\ AwaitsOne' /\ SameSent
  BY <1>1 DEF PagesInv, SentOK, AwaitsOne, SameSent
<1>2. ASSUME NEW t \in Tabs,
             \/ SignOut(t) \/ Guard(t) \/ Redirect(t)
             \/ \E p \in Pages : Load(t, p) \/ Follow(t, p)
      PROVE  PagesInv' /\ SameSent /\ UNCHANGED <<service, crossed>>
  <2>1. /\ UNCHANGED <<service, crossed>>
        /\ UNCHANGED session \/ Mount(t) \/ Leave(t)
    BY <1>2 DEF SignOut, Guard, Redirect, Load, Follow
  <2>2. (\E p, b : Turn(t, p, b)) \/ UNCHANGED <<sent, processing>>
    BY <1>2 DEF SignOut, Guard, Redirect, Load, Follow, widget
  <2>3. StaffOnly'
    BY <2>1, SessionStep
  <2>4. SentOK' /\ AwaitsOne' /\ SameSent
    BY <1>1, <2>2, TurnStep DEF SameSent
  <2>5. QED
    BY <2>1, <2>3, <2>4 DEF PagesInv
<1>3. ASSUME NEW t \in Tabs,
             \/ Complete(t) \/ SubmitCustomer(t) \/ Refresh(t) \/ Start(t)
             \/ \E u \in Users : SubmitEntry(t, u)
      PROVE  PagesInv' /\ SameSent /\ UNCHANGED <<service, crossed>>
  <2>1. /\ UNCHANGED <<service, crossed, sent, processing>>
        /\ UNCHANGED session \/ Restore(t)
    BY <1>3 DEF Complete, SubmitCustomer, Refresh, Start, SubmitEntry, widget
  <2>2. QED
    BY <1>1, <2>1, SessionStep DEF PagesInv
<1>4. ASSUME NEW s \in Fetches, ServeList(s) \/ ReceiveList(s) \/ MissList(s)
      PROVE  PagesInv' /\ SameSent /\ UNCHANGED <<service, crossed>>
  <2>1. UNCHANGED <<service, crossed, sent, processing, session>>
    BY <1>4 DEF ServeList, ReceiveList, MissList
  <2>2. QED
    BY <1>1, <2>1 DEF PagesInv, StaffOnly, session
<1>5. ASSUME NEW j \in Jobs, ReceiveEntry(j)
      PROVE  PagesInv' /\ SameSent /\ UNCHANGED <<service, crossed>>
  <2> DEFINE t == jobs[j].tab
             u == jobs[j].who
  <2>1. /\ Admits(t, u) /\ Enter(t, u)
        /\ UNCHANGED <<service, crossed>>
        /\ (\E p, b : Turn(t, p, b)) \/ UNCHANGED <<sent, processing>>
    BY <1>5 DEF ReceiveEntry
  <2>2. StaffOnly'
    BY <2>1, EnterStep
  <2>3. SentOK' /\ AwaitsOne' /\ SameSent
    BY <1>1, <2>1, TurnStep DEF SameSent
  <2>4. QED
    BY <2>1, <2>2, <2>3 DEF PagesInv
<1>6. ASSUME NEW j \in Jobs, RefuseEntry(j) \/ ReceiveCustomer(j)
      PROVE  PagesInv' /\ SameSent /\ UNCHANGED <<service, crossed>>
  <2>1. UNCHANGED <<service, crossed, sent, processing, session>>
    BY <1>6 DEF RefuseEntry, ReceiveCustomer, widget
  <2>2. QED
    BY <1>1, <2>1 DEF PagesInv, StaffOnly, session
<1>7. ASSUME NEW c \in Calls, Decided(c) \/ DecisionFails(c)
      PROVE  PagesInv' /\ SameSent /\ UNCHANGED <<service, crossed>>
  <2>1. UNCHANGED <<service, crossed>>
    BY <1>7 DEF Decided, DecisionFails
  <2>2. QED
    BY <1>7, <2>1, AnswerStep DEF SameSent
<1>8. CASE UNCHANGED vars
  <2>1. UNCHANGED <<service, crossed, sent, processing, session>>
    BY <1>8 DEF vars, widget
  <2>2. QED
    BY <1>1, <2>1 DEF PagesInv, StaffOnly, session
<1>9. QED
  BY <1>2, <1>3, <1>4, <1>5, <1>6, <1>7, <1>8 DEF PageMove, JobStep

\* A step is one of a page, a decision that is sent, or a step of the service.
LEMMA StepKinds ==
    ASSUME [Next]_vars
    PROVE  \/ PageMove
           \/ \E t \in Tabs, f \in Forms, to \in Buttons, c \in Calls : Decide(t, f, to, c)
           \/ \E c \in Calls : Serve(c)
           \/ \E f \in Forms : Submit(f)
BY DEF Next, EmployeeActs, PageMove

\* Every step preserves the invariant of the pages.
LEMMA NextPages == PagesInv /\ [Next]_vars => PagesInv'
<1> SUFFICES ASSUME PagesInv, [Next]_vars PROVE PagesInv'
  OBVIOUS
<1>1. ASSUME UNCHANGED <<session, sent, processing>> PROVE PagesInv'
  BY <1>1 DEF PagesInv, StaffOnly, SentOK, AwaitsOne, session
<1>2. ASSUME NEW c \in Calls, Serve(c) PROVE PagesInv'
  BY <1>1, <1>2 DEF Serve, widget
<1>3. ASSUME NEW f \in Forms, Submit(f) PROVE PagesInv'
  BY <1>1, <1>3 DEF Submit, widget
<1>4. QED
  BY <1>2, <1>3, StepKinds, PageStep, DecideStep

-----------------------------------------------------------------------------
(***************************************************************************)
(* The service.                                                            *)
(***************************************************************************)

\* The pages call the service as AccountRequests says it may be called.
LEMMA ServiceStep == PagesInv /\ [Next]_vars => [P!Next]_(P!vars)
<1> SUFFICES ASSUME PagesInv, [Next]_vars PROVE [P!Next]_(P!vars)
  OBVIOUS
<1>1. ASSUME UNCHANGED service PROVE UNCHANGED P!vars
  BY <1>1 DEF service, P!vars, P!tables, P!handlers, P!observations
<1>2. ASSUME NEW t \in Tabs, NEW f \in Forms, NEW to \in Buttons, NEW c \in Calls,
             Decide(t, f, to, c)
      PROVE  UNCHANGED service
  BY <1>2 DEF Decide
<1>3. ASSUME NEW c \in Calls, Serve(c) PROVE P!Next
  <2> DEFINE f == sent[c].form
             to == sent[c].to
  <2>1. f \in Forms /\ to \in P!Decisions
    BY <1>3 DEF Serve, PagesInv, SentOK, Buttons, P!Decisions
  <2>2. \/ R!Load(c, f, to) \/ R!RefuseProcessed(c, f)
        \/ R!LoadFails(c) \/ R!Continue(c) \/ R!Exit(c)
    BY <1>3 DEF Serve
  <2>3. R!Load(c, f, to) => P!Load(c, f, to)
    BY DEF R!Load, P!Load, R!tables, P!tables, R!observations, P!observations
  <2>4. R!RefuseProcessed(c, f) => P!RefuseProcessed(c, f)
    BY DEF R!RefuseProcessed, P!RefuseProcessed, R!Return, P!Return, R!tables, P!tables,
           R!observations, P!observations
  <2>5. R!LoadFails(c) => P!LoadFails(c)
    BY DEF R!LoadFails, P!LoadFails, R!Return, P!Return, R!tables, P!tables,
           R!observations, P!observations
  <2>6. R!Continue(c) => P!Continue(c)
    BY DEF R!Continue, P!Continue, R!SaveThenOpen, P!SaveThenOpen,
           R!SaveThenReturn, P!SaveThenReturn, R!SaveFails, P!SaveFails,
           R!SaveUnacknowledged, P!SaveUnacknowledged, R!Open, P!Open,
           R!OpenFails, P!OpenFails, R!OpenUnacknowledged, P!OpenUnacknowledged,
           R!Commit, P!Commit, R!OpenAccount, P!OpenAccount, R!Return, P!Return,
           R!tables, P!tables, R!observations, P!observations
  <2>7. R!Exit(c) => P!Exit(c)
    BY DEF R!Exit, P!Exit, R!Return, P!Return, R!tables, P!tables,
           R!observations, P!observations
  <2>8. QED
    BY <2>1, <2>2, <2>3, <2>4, <2>5, <2>6, <2>7 DEF P!Next, P!Arrive
<1>4. ASSUME NEW f \in Forms, Submit(f) PROVE P!Next
  <2>1. R!Submit(f)
    BY <1>4 DEF Submit
  <2>2. P!Submit(f)
    BY <2>1 DEF R!Submit, P!Submit, R!Unsubmitted, P!Unsubmitted,
                R!handlers, P!handlers, R!observations, P!observations
  <2>3. QED
    BY <2>2 DEF P!Next
<1>5. PageMove => UNCHANGED service
  BY PageStep
<1>6. QED
  BY <1>1, <1>2, <1>3, <1>4, <1>5, StepKinds

\* The service starts as AccountRequests does.
LEMMA ServiceInit == Init => P!Init
BY DEF Init, R!Init, P!Init, R!Unsubmitted, P!Unsubmitted, R!NoWork, P!NoWork

\* The invariants hold at the start and are preserved.
LEMMA InitBoth == Init => PagesInv /\ P!IInv
BY InitPages, ServiceInit, P!InitIInv, StaffPagesAssumption

\* Every step preserves the invariants of the pages and of the service.
LEMMA NextBoth == PagesInv /\ P!IInv /\ [Next]_vars => (PagesInv /\ P!IInv)'
BY NextPages, ServiceStep, P!NextIInv, StaffPagesAssumption

\* Seen from the service, every behaviour of the pages is one of AccountRequests: what
\* is proved there of its states holds here.
THEOREM PagesUseTheService == Spec => P!Init /\ [][P!Next]_(P!vars)
<1>1. Spec => [](PagesInv /\ P!IInv)
  BY InitBoth, NextBoth, PTL DEF Spec
<1>2. QED
  BY <1>1, ServiceInit, ServiceStep, PTL DEF Spec

-----------------------------------------------------------------------------
(***************************************************************************)
(* What the pages add: who decides, and how many decisions are under way.  *)
(***************************************************************************)

\* A call that the service has begun was sent, and is about the request it was sent for.
ServedAsSent ==
    \A c \in Calls :
        /\ stage[c] # "new" => sent[c].form # None
        /\ stage[c] \in {"save", "open"} => work[c].form = sent[c].form

\* Of a request that was not decided twice at a time, one decision is under way at most.
OneUnderWay ==
    \A f \in Forms, c, d \in Calls :
        f \notin crossed /\ c \in UnderWay(f) /\ d \in UnderWay(f) => c = d

\* Its row is the one that the decision was loaded with, when it comes to be saved.
NothingBetween ==
    \A c \in Calls :
        stage[c] = "save" /\ work[c].form \notin crossed
            => requests[work[c].form] = work[c].seen

IInv ==
    /\ PagesInv
    /\ P!IInv
    /\ ServedAsSent
    /\ OneUnderWay
    /\ NothingBetween
    /\ OnlyStaffDecide
    /\ ContestNeedsTwo

\* The invariant holds at the start.
LEMMA InitIInv == Init => IInv
<1> SUFFICES ASSUME Init PROVE IInv
  OBVIOUS
<1>1. PagesInv /\ P!IInv
  BY InitBoth
<1>2. /\ stage = [c \in Calls |-> "new"] /\ decisions = {}
      /\ contested = [f \in Forms |-> FALSE]
      /\ sent = [c \in Calls |-> Unsent]
  BY DEF Init, R!Init
<1>3. ServedAsSent /\ NothingBetween /\ OnlyStaffDecide /\ ContestNeedsTwo
  BY <1>2 DEF ServedAsSent, NothingBetween, OnlyStaffDecide, ContestNeedsTwo
<1>4. OneUnderWay
  <2>1. \A f \in Forms : UnderWay(f) = {}
    BY <1>2, StaffPagesAssumption DEF UnderWay, Unsent
  <2>2. QED
    BY <2>1 DEF OneUnderWay
<1>5. QED
  BY <1>1, <1>3, <1>4 DEF IInv

\* A step that leaves the service and what was sent to it alone preserves the invariant.
LEMMA AwayStep ==
    ASSUME IInv, PagesInv', P!IInv', SameSent, UNCHANGED <<service, crossed>>
    PROVE  IInv'
<1>1. UNCHANGED <<requests, stage, work, contested, decisions, crossed>>
  BY DEF service
<1>2. \A d \in decisions : d.by \in Calls
  BY DEF IInv, P!IInv, P!TypeOK
<1>3. ServedAsSent' /\ NothingBetween' /\ ContestNeedsTwo'
  BY <1>1 DEF IInv, SameSent, ServedAsSent, NothingBetween, ContestNeedsTwo
<1>4. OnlyStaffDecide'
  BY <1>1, <1>2 DEF IInv, SameSent, OnlyStaffDecide
<1>5. \A f \in Forms : UnderWay(f)' = UnderWay(f)
  BY <1>1 DEF SameSent, UnderWay
<1>6. OneUnderWay'
  BY <1>1, <1>5 DEF IInv, OneUnderWay
<1>7. QED
  BY <1>3, <1>4, <1>6 DEF IInv

\* A decision that is sent is the only one under way for its request, or crosses one.
LEMMA SentStep ==
    ASSUME IInv, PagesInv', P!IInv', NEW t \in Tabs, NEW f \in Forms, NEW to \in Buttons,
           NEW c \in Calls, Decide(t, f, to, c)
    PROVE  IInv'
<1>1. /\ UNCHANGED <<requests, stage, work, contested, decisions>>
      /\ crossed' = IF \E d \in UnderWay(f) : sent[d].tab # t
                       THEN crossed \cup {f} ELSE crossed
  BY DEF Decide, service
<1>2. /\ sent[c].form = None
      /\ sent'[c].form = f /\ sent'[c].who \in Staff
      /\ \A d \in Calls : d # c => sent'[d] = sent[d]
      /\ \A d \in Calls : sent[d].tab # t
  BY DecideStep DEF IInv
<1>3. f # None /\ stage[c] = "new"
  BY <1>2, StaffPagesAssumption DEF IInv, ServedAsSent
<1>4. \A d \in decisions : d.by \in Calls
  BY DEF IInv, P!IInv, P!TypeOK
<1>5. ServedAsSent'
  BY <1>1, <1>2, <1>3 DEF IInv, ServedAsSent
<1>6. OnlyStaffDecide'
  BY <1>1, <1>2, <1>4 DEF IInv, OnlyStaffDecide
<1>7. NothingBetween' /\ ContestNeedsTwo'
  BY <1>1 DEF IInv, NothingBetween, ContestNeedsTwo
<1>8. ASSUME NEW g \in Forms, NEW d \in Calls, NEW e \in Calls, g \notin crossed',
             d \in UnderWay(g)', e \in UnderWay(g)'
      PROVE  d = e
  <2>1. g \notin crossed
    BY <1>1, <1>8
  <2>2. CASE g # f
    <3>1. d \in UnderWay(g) /\ e \in UnderWay(g)
      BY <1>1, <1>2, <1>8, <2>2 DEF UnderWay
    <3>2. QED
      BY <2>1, <3>1 DEF IInv, OneUnderWay
  <2>3. CASE g = f
    <3>1. UnderWay(f) = {}
      <4>1. ~ \E h \in UnderWay(f) : sent[h].tab # t
        BY <1>1, <1>8, <2>3
      <4>2. QED
        BY <1>2, <4>1 DEF UnderWay
    <3>2. d = c /\ e = c
      BY <1>1, <1>2, <1>8, <2>3, <3>1 DEF UnderWay
    <3>3. QED
      BY <3>2
  <2>4. QED
    BY <2>2, <2>3
<1>9. OneUnderWay'
  BY <1>8 DEF OneUnderWay
<1>10. QED
  BY <1>5, <1>6, <1>7, <1>9 DEF IInv

\* A step of the service with a decision that was sent preserves the invariant.
LEMMA ServeStep ==
    ASSUME IInv, PagesInv', P!IInv', NEW c \in Calls, Serve(c)
    PROVE  IInv'
<1> DEFINE f == sent[c].form
           to == sent[c].to
<1>1. /\ UNCHANGED <<sent, crossed>>
      /\ f \in Forms /\ sent[c].who \in Staff
      /\ \/ R!Load(c, f, to) \/ R!RefuseProcessed(c, f)
         \/ R!LoadFails(c) \/ R!Continue(c) \/ R!Exit(c)
  BY DEF Serve, IInv, PagesInv, SentOK
<1>2. /\ requests \in [Forms -> P!Row]
      /\ contested \in [Forms -> BOOLEAN]
      /\ stage \in [Calls -> {"new", "save", "open", "done"}]
      /\ work \in [Calls -> P!Work]
  BY DEF IInv, P!IInv, P!TypeOK
<1>3. f # None
  BY <1>1, StaffPagesAssumption
<1>4. ASSUME stage[c] # "done",
             \A d \in Calls : d # c => stage'[d] = stage[d]
      PROVE  OneUnderWay'
  <2>1. \A g \in Forms : UnderWay(g)' \subseteq UnderWay(g)
    BY <1>1, <1>4 DEF UnderWay
  <2>2. QED
    BY <1>1, <2>1 DEF IInv, OneUnderWay
<1>5. CASE R!Load(c, f, to)
  <2>1. /\ stage[c] = "new" /\ stage'[c] = "save"
        /\ work'[c].form = f /\ work'[c].seen = requests[f]
        /\ \A d \in Calls : d # c => stage'[d] = stage[d] /\ work'[d] = work[d]
        /\ UNCHANGED <<requests, contested, decisions>>
    BY <1>2, <1>5 DEF R!Load, R!tables, R!observations
  <2>2. ServedAsSent' /\ NothingBetween'
    BY <1>1, <1>3, <2>1 DEF IInv, ServedAsSent, NothingBetween
  <2>3. OnlyStaffDecide' /\ ContestNeedsTwo'
    BY <1>1, <2>1 DEF IInv, OnlyStaffDecide, ContestNeedsTwo
  <2>4. OneUnderWay'
    BY <1>4, <2>1
  <2>5. QED
    BY <2>2, <2>3, <2>4 DEF IInv
<1>6. ASSUME stage[c] # "done", stage'[c] = "done",
             \A d \in Calls : d # c => stage'[d] = stage[d],
             UNCHANGED <<requests, work, contested, decisions>>
      PROVE  IInv'
  <2>1. ServedAsSent' /\ NothingBetween'
    BY <1>1, <1>3, <1>6 DEF IInv, ServedAsSent, NothingBetween
  <2>2. OnlyStaffDecide' /\ ContestNeedsTwo'
    BY <1>1, <1>6 DEF IInv, OnlyStaffDecide, ContestNeedsTwo
  <2>3. OneUnderWay'
    BY <1>4, <1>6
  <2>4. QED
    BY <2>1, <2>2, <2>3 DEF IInv
<1>7. CASE \/ R!RefuseProcessed(c, f) \/ R!LoadFails(c) \/ R!SaveFails(c) \/ R!Open(c)
           \/ R!OpenFails(c) \/ R!OpenUnacknowledged(c) \/ R!Exit(c)
  <2>1. /\ stage[c] \in {"new", "save", "open"}
        /\ stage' = [stage EXCEPT ![c] = "done"]
        /\ UNCHANGED <<requests, work, contested, decisions>>
    BY <1>7 DEF R!RefuseProcessed, R!LoadFails, R!SaveFails, R!Open, R!OpenFails,
                R!OpenUnacknowledged, R!Exit, R!Return, R!tables, R!observations
  <2>2. stage'[c] = "done" /\ \A d \in Calls : d # c => stage'[d] = stage[d]
    BY <1>2, <2>1
  <2>3. QED
    BY <1>6, <2>1, <2>2
<1>8. CASE R!SaveThenOpen(c) \/ R!SaveThenReturn(c) \/ R!SaveUnacknowledged(c)
  <2>1. /\ stage[c] = "save" /\ R!Commit(c) /\ UNCHANGED work
        /\ \E s \in {"open", "done"} : stage' = [stage EXCEPT ![c] = s]
    BY <1>8 DEF R!SaveThenOpen, R!SaveThenReturn, R!SaveUnacknowledged, R!Return
  <2>2. /\ stage'[c] \in {"open", "done"}
        /\ \A d \in Calls : d # c => stage'[d] = stage[d]
    BY <1>2, <2>1
  <2>3. work[c].form = f
    BY <2>1 DEF IInv, ServedAsSent
  <2>4. /\ \A g \in Forms : g # f => requests'[g] = requests[g] /\ contested'[g] = contested[g]
        /\ contested'[f] => contested[f] \/ requests[f] # work[c].seen
        /\ decisions' = decisions \cup {[form |-> f, by |-> c, to |-> work[c].to]}
    BY <1>1, <1>2, <2>1, <2>3 DEF R!Commit
  <2>5. ServedAsSent'
    BY <1>1, <1>3, <2>1, <2>2 DEF IInv, ServedAsSent
  <2>6. OnlyStaffDecide'
    <3>1. ASSUME NEW d \in decisions' PROVE sent[d.by].who \in Staff
      <4>1. CASE d \in decisions
        BY <4>1 DEF IInv, OnlyStaffDecide
      <4>2. CASE d = [form |-> f, by |-> c, to |-> work[c].to]
        BY <1>1, <4>2
      <4>3. QED
        BY <2>4, <3>1, <4>1, <4>2
    <3>2. QED
      BY <1>1, <3>1 DEF OnlyStaffDecide
  <2>7. ContestNeedsTwo'
    <3>1. contested'[f] => f \in crossed
      BY <1>1, <2>1, <2>3, <2>4 DEF IInv, NothingBetween, ContestNeedsTwo
    <3>2. QED
      BY <1>1, <2>4, <3>1 DEF IInv, ContestNeedsTwo
  <2>8. NothingBetween'
    <3>1. ASSUME NEW d \in Calls, stage'[d] = "save", work[d].form \notin crossed
          PROVE  requests'[work[d].form] = work[d].seen
      <4>1. d # c /\ stage[d] = "save"
        BY <2>2, <3>1
      <4>2. work[d].form \in Forms /\ work[d].form = sent[d].form
        BY <1>2, <4>1 DEF IInv, ServedAsSent, P!Work
      <4>3. work[d].form # f
        BY <1>1, <2>1, <3>1, <4>1, <4>2 DEF IInv, OneUnderWay, UnderWay
      <4>4. QED
        BY <2>4, <3>1, <4>1, <4>2, <4>3 DEF IInv, NothingBetween
    <3>2. QED
      BY <1>1, <2>1, <3>1 DEF NothingBetween
  <2>9. OneUnderWay'
    BY <1>4, <2>1, <2>2
  <2>10. QED
    BY <2>5, <2>6, <2>7, <2>8, <2>9 DEF IInv
<1>9. QED
  BY <1>1, <1>5, <1>7, <1>8 DEF R!Continue

\* A request that is submitted is one that no decision was loaded with.
LEMMA SubmitStep ==
    ASSUME IInv, PagesInv', P!IInv', NEW f \in Forms, Submit(f)
    PROVE  IInv'
<1>1. /\ requests[f].status = "none"
      /\ requests' = [requests EXCEPT ![f].status = "pending"]
      /\ UNCHANGED <<stage, work, contested, decisions, sent, crossed>>
  BY DEF Submit, R!Submit, R!Unsubmitted, R!handlers, R!observations
<1>2. /\ requests \in [Forms -> P!Row]
      /\ work \in [Calls -> P!Work]
      /\ \A c \in Calls : stage[c] = "save" => work[c].seen.status = "pending"
  BY DEF IInv, P!IInv, P!TypeOK, P!HandlerKnows
<1>3. \A g \in Forms : g # f => requests'[g] = requests[g]
  BY <1>1, <1>2
<1>4. ServedAsSent' /\ OnlyStaffDecide' /\ ContestNeedsTwo'
  BY <1>1 DEF IInv, ServedAsSent, OnlyStaffDecide, ContestNeedsTwo
<1>5. \A g \in Forms : UnderWay(g)' = UnderWay(g)
  BY <1>1 DEF UnderWay
<1>6. OneUnderWay'
  BY <1>1, <1>5 DEF IInv, OneUnderWay
<1>7. ASSUME NEW c \in Calls, stage[c] = "save", work[c].form \notin crossed
      PROVE  requests'[work[c].form] = work[c].seen
  <2>1. work[c].form \in Forms
    BY <1>2 DEF P!Work
  <2>2. requests[work[c].form] = work[c].seen
    BY <1>7 DEF IInv, NothingBetween
  <2>3. work[c].form # f
    BY <1>1, <1>2, <1>7, <2>2
  <2>4. QED
    BY <1>3, <2>1, <2>2, <2>3
<1>8. NothingBetween'
  BY <1>1, <1>7 DEF NothingBetween
<1>9. QED
  BY <1>4, <1>6, <1>8 DEF IInv

\* Every step preserves the invariant.
LEMMA NextIInv == IInv /\ [Next]_vars => IInv'
<1> SUFFICES ASSUME IInv, [Next]_vars PROVE IInv'
  OBVIOUS
<1>1. PagesInv' /\ P!IInv'
  BY NextBoth DEF IInv
<1>2. ASSUME PageMove PROVE IInv'
  BY <1>1, <1>2, PageStep, AwayStep DEF IInv
<1>3. QED
  BY <1>1, <1>2, StepKinds, SentStep, ServeStep, SubmitStep

\* The invariant holds in every state.
LEMMA Invariance == Spec => []IInv
BY InitIInv, NextIInv, PTL DEF Spec

\* Every decision that is committed was sent by an employee, although the service asks
\* nobody who they are: the login page and the shared localStorage let nobody else in.
THEOREM DecidedByStaff == Spec => []OnlyStaffDecide
<1>1. IInv => OnlyStaffDecide
  BY DEF IInv
<1>2. QED
  BY <1>1, Invariance, PTL

\* A decision is saved over another one only if it was sent while that one was under
\* way and not awaited by the same widget: the disabled buttons order the rest.
THEOREM ContestWasCrossed == Spec => []ContestNeedsTwo
<1>1. IInv => ContestNeedsTwo
  BY DEF IInv
<1>2. QED
  BY <1>1, Invariance, PTL

\* A request whose decisions were never sent across each other opens one account at
\* most, by the approval that its row names.
THEOREM OneAccountUnlessCrossed ==
    Spec => [](\A f \in Forms : f \notin crossed =>
                  \A a, b \in accounts : a.form = f /\ b.form = f => a = b)
<1>1. ASSUME IInv, NEW f \in Forms, f \notin crossed, NEW a \in accounts, NEW b \in accounts,
             a.form = f, b.form = f
      PROVE  a = b
  <2>1. ~contested[f]
    BY <1>1 DEF IInv, ContestNeedsTwo
  <2>2. /\ a.by \in Calls /\ a = [form |-> f, by |-> a.by]
        /\ b.by \in Calls /\ b = [form |-> f, by |-> b.by]
    BY <1>1 DEF IInv, P!IInv, P!TypeOK, P!Account
  <2>3. P!Opens(a.by, f) /\ P!Opens(b.by, f)
    BY <1>1, <2>2 DEF P!Opens
  <2>4. /\ requests[f] = [status |-> "approved", by |-> a.by]
        /\ requests[f] = [status |-> "approved", by |-> b.by]
    BY <1>1, <2>1, <2>2, <2>3 DEF IInv, P!IInv, P!OneOpener
  <2>5. [status |-> "approved", by |-> a.by] = [status |-> "approved", by |-> b.by]
    BY <2>4
  <2>6. a.by = b.by
    BY <2>5
  <2>7. QED
    BY <2>2, <2>6
<1>2. IInv => \A f \in Forms : f \notin crossed =>
                  \A a, b \in accounts : a.form = f /\ b.form = f => a = b
  BY <1>1
<1>3. QED
  BY <1>2, Invariance, PTL
-----------------------------------------------------------------------------
(***************************************************************************)
(* The types of the pages.  A list of customers is pushed once for every   *)
(* customer that an employee has submitted, so that the timers and the     *)
(* onboardings under way are never more than the acts.                     *)
(***************************************************************************)
Onboardings(t) == {j \in Jobs : jobs[j].kind = "onboard" /\ jobs[j].tab = t}

Counted(t) ==
    /\ pushes[t] \in Nat
    /\ IsFiniteSet(Onboardings(t))
    /\ pushes[t] + Cardinality(Onboardings(t)) <= acts

Counts ==
    /\ acts \in 0..MaxActs
    /\ DOMAIN pushes = Tabs /\ pushes = [t \in Tabs |-> pushes[t]]
    /\ \A t \in Tabs : Counted(t)

FormStates == {"open", "filled", "busy", "done", "error"}

ListTypes ==
    /\ rows \in [Tabs -> SUBSET Forms]
    /\ loading \in [Tabs -> BOOLEAN]
    /\ fetches \in [Fetches -> Fetch]
    /\ told \in [Tabs -> SUBSET Forms] /\ overtaken \in [Tabs -> SUBSET Forms]

PageTypes ==
    /\ SessionType
    /\ page \in [Tabs -> Pages]
    /\ form \in [Tabs -> FormStates]
    /\ ListTypes
    /\ jobs \in [Jobs -> Job]
    /\ crossed \subseteq Forms

TInv == IInv /\ PageTypes /\ Counts

\* They are the types that the runs check.
LEMMA TypesFollow == TInv => TypeOK
<1> SUFFICES ASSUME TInv PROVE TypeOK
  OBVIOUS
<1>1. R!TypeOK
  BY DEF TInv, IInv, P!IInv, P!TypeOK, R!TypeOK, P!Row, R!Row, P!Work, R!Work, P!Account,
     R!Account, P!Decisions, R!Decisions
<1>2. processing \in [Tabs -> Forms \cup {None}] /\ sent \in [Calls -> Decision]
  BY DEF TInv, IInv, PagesInv, AwaitsOne, SentOK
<1>3. pushes \in [Tabs -> 0..MaxActs]
  <2>1. ASSUME NEW t \in Tabs PROVE pushes[t] \in 0..MaxActs
    <3>1. Cardinality(Onboardings(t)) \in Nat /\ acts \in 0..MaxActs /\ MaxActs \in Nat
      BY StaffPagesAssumption, FS_CardinalityType DEF TInv, Counts, Counted
    <3>2. QED
      BY <3>1 DEF TInv, Counts, Counted
  <2>2. QED
    BY <2>1 DEF TInv, Counts
<1>4. QED
  BY <1>1, <1>2, <1>3 DEF TInv, PageTypes, ListTypes, Counts, FormStates, TypeOK

\* The session keeps its type.
LEMMA SessionTypes ==
    ASSUME SessionType, NEW t,
           \/ UNCHANGED session \/ Mount(t) \/ Restore(t) \/ Leave(t)
           \/ \E u \in Users \cup {None} : Enter(t, u)
    PROVE  SessionType'
<1>1. stored[Frontend(t)] \in Users \cup {None}
  BY DEF SessionType, Frontend, Frontends
<1>2. QED
  BY <1>1 DEF SessionType, session, Mount, Restore, Leave, Enter

\* A list more is being fetched.
LEMMA AskTypes ==
    ASSUME ListTypes, NEW t \in Tabs \cup {None}, NEW present \in [Fetches -> Fetch],
           Ask(t, present)
    PROVE  loading' \in [Tabs -> BOOLEAN] /\ fetches' \in [Fetches -> Fetch]
<1>1. [IdleFetch EXCEPT !.tab = t, !.stage = "sent"] \in Fetch
  BY DEF IdleFetch, Fetch
<1>2. QED
  BY <1>1 DEF Ask, ListTypes

\* Another page.
LEMMA TurnTypes ==
    ASSUME PageTypes, NEW t \in Tabs \cup {None}, NEW p \in Pages, NEW b, Turn(t, p, b)
    PROVE  /\ page' \in [Tabs -> Pages] /\ form' \in [Tabs -> FormStates] /\ ListTypes'
<1>1. FetchesWithout(t) \in [Fetches -> Fetch]
  BY DEF FetchesWithout, PageTypes, ListTypes, IdleFetch, Fetch
<1>2. loading' \in [Tabs -> BOOLEAN] /\ fetches' \in [Fetches -> Fetch]
  BY <1>1, AskTypes DEF Turn, PageTypes, ListTypes
<1>3. QED
  BY <1>2 DEF Turn, PageTypes, ListTypes, FormStates

\* The jobs that go on when a page is left.
LEMMA JobTypes ==
    ASSUME jobs \in [Jobs -> Job], NEW t
    PROVE  /\ JobsUnheard(t) \in [Jobs -> Job] /\ JobsWithout(t) \in [Jobs -> Job]
           /\ \A j \in Jobs : /\ JobsUnheard(t)[j].kind = jobs[j].kind
                              /\ JobsUnheard(t)[j].tab = jobs[j].tab
                              /\ \/ JobsWithout(t)[j] = jobs[j]
                                 \/ JobsWithout(t)[j].kind = "idle"
BY DEF JobsUnheard, JobsWithout, Job, IdleJob

\* No step but those of an onboarding makes more of them or of its timers.
LEMMA CountsFall ==
    ASSUME Counts, acts' \in 0..MaxActs, acts' >= acts,
           \A j \in Jobs : jobs'[j].kind = "onboard" => jobs[j].kind = "onboard"
                                                        /\ jobs'[j].tab = jobs[j].tab,
           \/ UNCHANGED pushes
           \/ \E t \in Tabs, n \in Nat : n <= pushes[t] /\ pushes' = [pushes EXCEPT ![t] = n]
    PROVE  Counts'
<1>1. ASSUME NEW t \in Tabs PROVE Counted(t)'
  <2>1. pushes'[t] \in Nat /\ pushes'[t] <= pushes[t] /\ pushes[t] \in Nat
    BY DEF Counts, Counted
  <2>2. Onboardings(t)' \subseteq Onboardings(t) /\ IsFiniteSet(Onboardings(t))
    BY DEF Onboardings, Counts, Counted
  <2>3. /\ IsFiniteSet(Onboardings(t)')
        /\ Cardinality(Onboardings(t)') <= Cardinality(Onboardings(t))
        /\ Cardinality(Onboardings(t)') \in Nat /\ Cardinality(Onboardings(t)) \in Nat
    BY <2>2, FS_Subset, FS_CardinalityType
  <2>4. pushes[t] + Cardinality(Onboardings(t)) <= acts /\ acts \in Nat /\ acts' \in Nat
    BY DEF Counts, Counted
  <2>5. QED
    BY <2>1, <2>3, <2>4 DEF Counted
<1>2. DOMAIN pushes' = Tabs /\ pushes' = [t \in Tabs |-> pushes'[t]]
  BY DEF Counts
<1>3. QED
  BY <1>1, <1>2 DEF Counts

\* A customer is submitted: one act, one onboarding.
LEMMA CountsRise ==
    ASSUME Counts, acts' \in 0..MaxActs, acts' = acts + 1, UNCHANGED pushes,
           NEW j \in Jobs, \A i \in Jobs : i # j => jobs'[i] = jobs[i]
    PROVE  Counts'
<1>1. ASSUME NEW t \in Tabs PROVE Counted(t)'
  <2>1. IsFiniteSet(Onboardings(t)) /\ Onboardings(t)' \subseteq Onboardings(t) \cup {j}
    BY DEF Onboardings, Counts, Counted
  <2>2. /\ IsFiniteSet(Onboardings(t) \cup {j})
        /\ Cardinality(Onboardings(t) \cup {j}) <= Cardinality(Onboardings(t)) + 1
    <3>1. CASE j \in Onboardings(t)
      <4>1. Onboardings(t) \cup {j} = Onboardings(t) /\ Cardinality(Onboardings(t)) \in Nat
        BY <2>1, <3>1, FS_CardinalityType
      <4>2. QED
        BY <2>1, <4>1
    <3>2. CASE j \notin Onboardings(t)
      <4>1. /\ IsFiniteSet(Onboardings(t) \cup {j})
            /\ Cardinality(Onboardings(t) \cup {j}) = Cardinality(Onboardings(t)) + 1
            /\ Cardinality(Onboardings(t)) \in Nat
        BY <2>1, <3>2, FS_AddElement, FS_CardinalityType
      <4>2. QED
        BY <4>1
    <3>3. QED
      BY <3>1, <3>2
  <2>3. /\ IsFiniteSet(Onboardings(t)')
        /\ Cardinality(Onboardings(t)') <= Cardinality(Onboardings(t)) + 1
        /\ Cardinality(Onboardings(t)') \in Nat /\ Cardinality(Onboardings(t)) \in Nat
    BY <2>1, <2>2, FS_Subset, FS_CardinalityType
  <2>4. pushes[t] + Cardinality(Onboardings(t)) <= acts /\ acts \in Nat /\ pushes[t] \in Nat
    BY DEF Counts, Counted
  <2>5. QED
    BY <2>3, <2>4 DEF Counted
<1>2. QED
  BY <1>1 DEF Counts

\* One is onboarded: its timer takes the place of its call.
LEMMA CountsMove ==
    ASSUME Counts, UNCHANGED acts, NEW j \in Jobs, jobs[j].kind = "onboard",
           jobs'[j].kind = "idle", \A i \in Jobs : i # j => jobs'[i] = jobs[i],
           pushes' = [pushes EXCEPT ![jobs[j].tab] = @ + 1]
    PROVE  Counts'
<1>1. ASSUME NEW t \in Tabs PROVE Counted(t)'
  <2>1. CASE t = jobs[j].tab
    <3>1. j \in Onboardings(t) /\ Onboardings(t)' = Onboardings(t) \ {j}
      BY <2>1 DEF Onboardings
    <3>2. IsFiniteSet(Onboardings(t)) /\ pushes[t] \in Nat /\ acts \in Nat
          /\ pushes[t] + Cardinality(Onboardings(t)) <= acts
      BY DEF Counts, Counted
    <3>3. /\ IsFiniteSet(Onboardings(t)')
          /\ Cardinality(Onboardings(t)') = Cardinality(Onboardings(t)) - 1
          /\ Cardinality(Onboardings(t)) \in Nat
      BY <3>1, <3>2, FS_RemoveElement, FS_CardinalityType
    <3>4. pushes'[t] = pushes[t] + 1
      BY <2>1 DEF Counts
    <3>5. QED
      BY <3>2, <3>3, <3>4 DEF Counted
  <2>2. CASE t # jobs[j].tab
    <3>1. Onboardings(t)' = Onboardings(t) /\ pushes'[t] = pushes[t]
      BY <2>2 DEF Onboardings, Counts
    <3>2. QED
      BY <3>1 DEF Counts, Counted
  <2>3. QED
    BY <2>1, <2>2
<1>2. DOMAIN pushes' = Tabs /\ pushes' = [t \in Tabs |-> pushes'[t]]
  BY DEF Counts
<1>3. QED
  BY <1>1, <1>2 DEF Counts

\* The types hold at the start.
LEMMA InitTInv == Init => TInv
<1> SUFFICES ASSUME Init PROVE TInv
  OBVIOUS
<1>1. PageTypes
  BY DEF Init, SessionInit, SessionType, PageTypes, ListTypes, Pages, FormStates, Fetch,
     IdleFetch, Job, IdleJob
<1>2. \A t \in Tabs : Onboardings(t) = {}
  BY DEF Init, Onboardings, IdleJob
<1>3. Counts
  <2>1. acts = 0 /\ acts \in 0..MaxActs /\ pushes = [t \in Tabs |-> 0]
    BY StaffPagesAssumption DEF Init
  <2>2. IsFiniteSet({}) /\ Cardinality({}) = 0
    BY FS_EmptySet
  <2>3. ASSUME NEW t \in Tabs PROVE Counted(t)
    <3>1. pushes[t] = 0 /\ IsFiniteSet(Onboardings(t)) /\ Cardinality(Onboardings(t)) = 0
      BY <1>2, <2>1, <2>2
    <3>2. QED
      BY <2>1, <3>1 DEF Counted
  <2>4. QED
    BY <2>1, <2>3 DEF Counts
<1>4. QED
  BY <1>1, <1>3, InitIInv DEF TInv

\* What the employee does counts.
LEMMA ActCounts ==
    ASSUME Counts, Act
    PROVE  acts' = acts + 1 /\ acts' >= acts /\ acts' \in 0..MaxActs
BY StaffPagesAssumption DEF Counts, Act

\* Every step preserves them.
LEMMA NextTypes == TInv /\ [Next]_vars => PageTypes' /\ Counts'
<1> SUFFICES ASSUME TInv, [Next]_vars PROVE PageTypes' /\ Counts'
  OBVIOUS
<1> USE DEF widget
<1>1. /\ PageTypes /\ Counts /\ acts \in 0..MaxActs /\ acts \in Nat
      /\ jobs \in [Jobs -> Job] /\ SessionType
  BY StaffPagesAssumption DEF TInv, PageTypes, Counts
<1>2. ASSUME UNCHANGED <<jobs, pushes, acts>> PROVE Counts'
  BY <1>1, <1>2, CountsFall
<1>3. ASSUME UNCHANGED <<session, page, form, jobs, pushes, acts>>,
             ListTypes', crossed' \subseteq Forms
      PROVE  PageTypes' /\ Counts'
  BY <1>1, <1>2, <1>3, SessionTypes DEF PageTypes, session, SessionType
<1>4. ASSUME NEW t \in Tabs, NEW p \in Pages, Load(t, p) PROVE PageTypes' /\ Counts'
  <2>1. page' \in [Tabs -> Pages] /\ form' \in [Tabs -> FormStates] /\ ListTypes'
    BY <1>1, <1>4, TurnTypes DEF Load
  <2>2. jobs' = JobsWithout(t) /\ pushes' = [pushes EXCEPT ![t] = 0] /\ Act /\ Mount(t)
        /\ UNCHANGED crossed
    BY <1>4 DEF Load
  <2>3. PageTypes'
    BY <1>1, <2>1, <2>2, JobTypes, SessionTypes DEF PageTypes
  <2>4. pushes[t] \in Nat /\ 0 <= pushes[t]
    BY <1>1 DEF Counts, Counted
  <2>5. Counts'
    BY <1>1, <2>2, <2>4, JobTypes, ActCounts, CountsFall
  <2>6. QED
    BY <2>3, <2>5
<1>5. ASSUME NEW t \in Tabs, NEW p \in Pages, NEW b, Turn(t, p, b), jobs' = JobsUnheard(t),
             UNCHANGED crossed, UNCHANGED session \/ Leave(t),
             Act \/ UNCHANGED acts,
             \/ UNCHANGED pushes
             \/ pushes[t] > 0 /\ pushes' = [pushes EXCEPT ![t] = @ - 1]
      PROVE  PageTypes' /\ Counts'
  <2>1. PageTypes'
    BY <1>1, <1>5, TurnTypes, JobTypes, SessionTypes DEF PageTypes
  <2>2. pushes[t] \in Nat
    BY <1>1 DEF Counts, Counted
  <2>3. acts' >= acts /\ acts' \in 0..MaxActs
    BY <1>1, <1>5, ActCounts
  <2>4. \/ UNCHANGED pushes
        \/ \E n \in Nat : n <= pushes[t] /\ pushes' = [pushes EXCEPT ![t] = n]
    BY <1>5, <2>2
  <2>5. Counts'
    BY <1>1, <1>5, <2>3, <2>4, JobTypes, CountsFall
  <2>6. QED
    BY <2>1, <2>5
<1>6. ASSUME NEW t \in Tabs, Guard(t) \/ SignOut(t) \/ \E p \in Pages : Follow(t, p)
      PROVE  PageTypes' /\ Counts'
  BY <1>5, <1>6 DEF Guard, SignOut, Follow, Pages
<1>7. ASSUME NEW t \in Tabs, Redirect(t) PROVE PageTypes' /\ Counts'
  <2>1. CASE page[t] = "customers"
    <3>1. PageTypes'
      BY <1>1, <1>7, <2>1 DEF Redirect, PageTypes, ListTypes, session, SessionType
    <3>2. pushes[t] \in Nat
      BY <1>1 DEF Counts, Counted
    <3>3. pushes[t] > 0 /\ pushes' = [pushes EXCEPT ![t] = pushes[t] - 1]
          /\ UNCHANGED <<jobs, acts>>
      BY <1>7, <2>1 DEF Redirect
    <3>4. \E n \in Nat : n <= pushes[t] /\ pushes' = [pushes EXCEPT ![t] = n]
      <4>1. pushes[t] - 1 \in Nat /\ pushes[t] - 1 <= pushes[t]
        BY <3>2, <3>3
      <4>2. QED
        BY <3>3, <4>1, Zenon
    <3>5. \A j \in Jobs : jobs'[j] = jobs[j]
      BY <3>3
    <3>6. Counts'
      <4>1. Counts /\ acts' \in 0..MaxActs /\ acts' >= acts
        BY <1>1, <3>3
      <4>2. \E u \in Tabs, n \in Nat : n <= pushes[u] /\ pushes' = [pushes EXCEPT ![u] = n]
        BY <3>4
      <4>3. \A j \in Jobs : jobs'[j].kind = "onboard" => jobs[j].kind = "onboard"
                                                         /\ jobs'[j].tab = jobs[j].tab
        BY <3>5
      <4>4. QED
        BY <4>1, <4>2, <4>3, CountsFall
    <3>7. QED
      BY <3>1, <3>6
  <2>2. CASE page[t] # "customers"
    BY <1>5, <1>7, <2>2 DEF Redirect, Pages
  <2>3. QED
    BY <2>1, <2>2
<1>8. ASSUME NEW t \in Tabs, Start(t) PROVE PageTypes' /\ Counts'
  <2>1. ListTypes'
    <3>1. CASE UNCHANGED <<fetches, loading>>
      BY <1>1, <1>8, <3>1 DEF Start, PageTypes, ListTypes
    <3>2. CASE Ask(t, fetches)
      BY <1>1, <1>8, <3>2, AskTypes DEF Start, PageTypes, ListTypes
    <3>3. QED
      BY <1>8, <3>1, <3>2 DEF Start
  <2>2. SessionType'
    BY <1>1, <1>8, SessionTypes DEF Start
  <2>3. QED
    BY <1>1, <1>2, <1>8, <2>1, <2>2 DEF Start, PageTypes
<1>9. ASSUME NEW t \in Tabs, Refresh(t) PROVE PageTypes' /\ Counts'
  <2>1. ListTypes'
    BY <1>1, <1>9, AskTypes DEF Refresh, PageTypes, ListTypes
  <2>2. SessionType'
    BY <1>1, <1>9, SessionTypes DEF Refresh
  <2>3. Counts'
    BY <1>1, <1>9, ActCounts, CountsFall DEF Refresh
  <2>4. QED
    BY <1>1, <1>9, <2>1, <2>2, <2>3 DEF Refresh, PageTypes
<1>10. ASSUME NEW t \in Tabs, Complete(t) PROVE PageTypes' /\ Counts'
  <2>1. SessionType' /\ ListTypes' /\ form' \in [Tabs -> FormStates]
    BY <1>1, <1>10, SessionTypes DEF Complete, PageTypes, ListTypes, FormStates
  <2>2. Counts'
    BY <1>1, <1>10, ActCounts, CountsFall DEF Complete
  <2>3. QED
    BY <1>1, <1>10, <2>1, <2>2 DEF Complete, PageTypes
<1>11. ASSUME NEW t \in Tabs, SubmitCustomer(t) \/ \E u \in Users : SubmitEntry(t, u)
       PROVE  PageTypes' /\ Counts'
  <2>1. SessionType' /\ ListTypes' /\ form' \in [Tabs -> FormStates]
        /\ UNCHANGED <<page, pushes, crossed>> /\ Act
    BY <1>1, <1>11, SessionTypes DEF SubmitCustomer, SubmitEntry, PageTypes, ListTypes, FormStates
  <2>2. PICK j \in Jobs, job \in Job : jobs' = [jobs EXCEPT ![j] = job]
    <3>1. CASE SubmitCustomer(t)
      <4>1. [[IdleJob EXCEPT !.kind = "onboard"] EXCEPT !.tab = t, !.heard = TRUE] \in Job
        BY DEF IdleJob, Job
      <4>2. QED
        BY <3>1, <4>1 DEF SubmitCustomer, Begin
    <3>2. ASSUME NEW u \in Users, SubmitEntry(t, u)
          PROVE  \E j \in Jobs, job \in Job : jobs' = [jobs EXCEPT ![j] = job]
      <4>1. [[IdleJob EXCEPT !.kind = "enter", !.who = u] EXCEPT !.tab = t, !.heard = TRUE] \in Job
        BY DEF IdleJob, Job
      <4>2. QED
        BY <3>2, <4>1 DEF SubmitEntry, Begin
    <3>3. QED
      BY <1>11, <3>1, <3>2
  <2>3. Counts'
    BY <1>1, <2>1, <2>2, ActCounts, CountsRise
  <2>4. QED
    BY <1>1, <2>1, <2>2, <2>3 DEF PageTypes
<1>12. ASSUME NEW s \in Fetches, ServeList(s) \/ ReceiveList(s) \/ MissList(s)
       PROVE  PageTypes' /\ Counts'
  <2>1. fetches[s] \in Fetch /\ IdleFetch \in Fetch /\ Pending \in SUBSET Forms
    BY <1>1 DEF PageTypes, ListTypes, IdleFetch, Fetch, Pending
  <2>2. fetches[s].rows \in SUBSET Forms
        /\ [fetches[s] EXCEPT !.stage = "answered", !.rows = Pending] \in Fetch
    BY <2>1 DEF Fetch
  <2>3. CASE ServeList(s)
    <3>1. fetches' = [fetches EXCEPT ![s] = [fetches[s] EXCEPT !.stage = "answered", !.rows = Pending]]
      BY <1>1, <2>3 DEF ServeList, PageTypes, ListTypes
    <3>2. ListTypes'
      BY <1>1, <2>2, <2>3, <3>1 DEF ServeList, PageTypes, ListTypes
    <3>3. QED
      BY <1>1, <1>3, <2>3, <3>2 DEF ServeList, PageTypes
  <2>4. CASE ReceiveList(s) \/ MissList(s)
    <3>1. ListTypes'
      BY <1>1, <2>1, <2>2, <2>4 DEF ReceiveList, MissList, PageTypes, ListTypes
    <3>2. QED
      BY <1>1, <1>3, <2>4, <3>1 DEF ReceiveList, MissList, PageTypes
  <2>5. QED
    BY <1>12, <2>3, <2>4
<1>13. ASSUME NEW j \in Jobs, ReceiveEntry(j) PROVE PageTypes' /\ Counts'
  <2>1. PICK t \in Tabs \cup {None}, u \in Users \cup {None} : t = jobs[j].tab /\ u = jobs[j].who
    BY <1>1 DEF Job
  <2>2. Enter(t, u) /\ UNCHANGED <<pushes, acts, crossed>> /\ SessionType'
    BY <1>1, <1>13, <2>1, SessionTypes DEF ReceiveEntry
  <2>3. CASE Shown(t)
    <3>1. /\ Ask(t, fetches) /\ jobs' = [jobs EXCEPT ![j] = IdleJob]
          /\ UNCHANGED <<page, form, rows, told, overtaken>>
      BY <1>13, <2>1, <2>3 DEF ReceiveEntry
    <3>2. ListTypes'
      BY <1>1, <3>1, AskTypes DEF PageTypes, ListTypes
    <3>3. jobs' \in [Jobs -> Job] /\ \A i \in Jobs : jobs'[i] = jobs[i] \/ jobs'[i].kind = "idle"
      BY <1>1, <3>1 DEF IdleJob, Job
    <3>4. Counts'
      BY <1>1, <2>2, <3>3, CountsFall
    <3>5. QED
      BY <1>1, <2>2, <3>1, <3>2, <3>3, <3>4 DEF PageTypes
  <2>4. CASE ~Shown(t)
    <3>1. Turn(t, "home", TRUE) /\ jobs' = [JobsUnheard(t) EXCEPT ![j] = IdleJob]
      BY <1>13, <2>1, <2>4 DEF ReceiveEntry
    <3>2. page' \in [Tabs -> Pages] /\ form' \in [Tabs -> FormStates] /\ ListTypes'
      BY <1>1, <3>1, TurnTypes DEF Pages
    <3>3. /\ jobs' \in [Jobs -> Job]
          /\ \A i \in Jobs : jobs'[i] = JobsUnheard(t)[i] \/ jobs'[i].kind = "idle"
      BY <1>1, <3>1, JobTypes DEF IdleJob, Job
    <3>4. Counts'
      BY <1>1, <2>2, <3>3, JobTypes, CountsFall
    <3>5. QED
      BY <1>1, <2>2, <3>2, <3>3, <3>4 DEF PageTypes
  <2>5. QED
    BY <2>3, <2>4
<1>14. ASSUME NEW j \in Jobs, RefuseEntry(j) \/ ReceiveCustomer(j) PROVE PageTypes' /\ Counts'
  <2>1. PICK f \in FormStates : Close(j, f)
    BY <1>14 DEF RefuseEntry, ReceiveCustomer, FormStates
  <2>2. /\ jobs' \in [Jobs -> Job] /\ form' \in [Tabs -> FormStates]
        /\ jobs'[j].kind = "idle" /\ \A i \in Jobs : i # j => jobs'[i] = jobs[i]
    BY <1>1, <2>1 DEF Close, PageTypes, IdleJob, Job
  <2>3. UNCHANGED <<session, page, rows, loading, fetches, told, overtaken, acts, crossed>>
    BY <1>14 DEF RefuseEntry, ReceiveCustomer
  <2>4. PageTypes'
    BY <1>1, <2>2, <2>3 DEF PageTypes, ListTypes, session, SessionType
  <2>5. Counts'
    <3>1. CASE UNCHANGED pushes
      BY <1>1, <2>2, <2>3, <3>1, CountsFall
    <3>2. CASE jobs[j].kind = "onboard" /\ pushes' = [pushes EXCEPT ![jobs[j].tab] = @ + 1]
      BY <1>1, <2>2, <2>3, <3>2, CountsMove
    <3>3. QED
      BY <1>14, <3>1, <3>2 DEF RefuseEntry, ReceiveCustomer
  <2>6. QED
    BY <2>4, <2>5
<1>15. ASSUME NEW t \in Tabs, NEW f \in Forms, NEW to \in Buttons, NEW c \in Calls,
              Decide(t, f, to, c)
       PROVE  PageTypes' /\ Counts'
  <2>1. SessionType' /\ ListTypes' /\ crossed' \subseteq Forms
    BY <1>1, <1>15, SessionTypes DEF Decide, PageTypes, ListTypes
  <2>2. Counts'
    BY <1>1, <1>15, ActCounts, CountsFall DEF Decide
  <2>3. QED
    BY <1>1, <1>15, <2>1, <2>2 DEF Decide, PageTypes
<1>16. ASSUME NEW c \in Calls, Decided(c) \/ DecisionFails(c) PROVE PageTypes' /\ Counts'
  <2>1. sent[c] \in Decision
    BY DEF TInv, IInv, PagesInv, SentOK
  <2>2. sent[c].form \in Forms \/ sent[c] = Unsent
    BY DEF TInv, IInv, PagesInv, SentOK
  <2>3. sent[c].tab # None => sent[c].form \in Forms
    BY <2>2 DEF Unsent
  <2>4. ListTypes'
    BY <1>1, <1>16, <2>3 DEF Decided, DecisionFails, PageTypes, ListTypes
  <2>5. QED
    BY <1>1, <1>3, <1>16, <2>4 DEF Decided, DecisionFails, PageTypes
<1>17. ASSUME NEW c \in Calls, Serve(c) PROVE PageTypes' /\ Counts'
  BY <1>1, <1>3, <1>17 DEF Serve, PageTypes, ListTypes
<1>18. ASSUME NEW f \in Forms, Submit(f) PROVE PageTypes' /\ Counts'
  BY <1>1, <1>3, <1>18 DEF Submit, PageTypes, ListTypes
<1>19. ASSUME UNCHANGED vars PROVE PageTypes' /\ Counts'
  BY <1>1, <1>3, <1>19 DEF vars, PageTypes, ListTypes
<1>20. QED
  BY <1>4, <1>6, <1>7, <1>8, <1>9, <1>10, <1>11, <1>12, <1>13, <1>14, <1>15, <1>16, <1>17,
     <1>18, <1>19 DEF Next, EmployeeActs, JobStep

\* The types hold in every state.
LEMMA TypeInvariance == Spec => []TInv
<1>1. TInv /\ [Next]_vars => TInv'
  BY NextIInv, NextTypes DEF TInv
<1>2. QED
  BY <1>1, InitTInv, PTL DEF Spec

\* The tabs, the widgets and the service keep their types; the timers that push the list
\* of customers are never more than the customers that were submitted.
THEOREM TypeCorrect == Spec => []TypeOK
BY TypeInvariance, TypesFollow, PTL
-----------------------------------------------------------------------------
(***************************************************************************)
(* A request that is decided leaves the widget.                            *)
(***************************************************************************)

\* A request is resolved by one of the buttons, and stays so.
Resolved(f) == requests[f].status \in Buttons

ResolvedStay == \A f \in Forms : Resolved(f) => Resolved(f)'

\* What the handlers know of what they were sent: they save one of the buttons, and
\* the request is resolved when they open the account or have answered with success.
HandlersResolve ==
    \A c \in Calls :
        /\ stage[c] \in {"save", "open"} => work[c].to \in Buttons
        /\ stage[c] = "open" \/ (stage[c] = "done" /\ reply[c] = "ok") => Resolved(sent[c].form)

\* What the widgets know: a request that they were told is decided is resolved, and is
\* in none of their lists, shown or in flight, but one that was in flight when they
\* were told.
WidgetsKnow ==
    /\ \A t \in Tabs : \A f \in told[t] : Resolved(f)
    /\ \A s \in Fetches, t \in Tabs :
          fetches[s].tab = t => fetches[s].rows \cap told[t] \subseteq overtaken[t]
    /\ DecidedLeaves

LInv == HandlersResolve /\ WidgetsKnow

\* They hold at the start.
LEMMA InitLInv == Init => LInv
<1> SUFFICES ASSUME Init PROVE LInv
  OBVIOUS
<1>1. /\ \A c \in Calls : stage[c] = "new"
      /\ \A t \in Tabs : rows[t] = {} /\ told[t] = {}
      /\ \A s \in Fetches : fetches[s].rows = {}
  BY DEF Init, R!Init, IdleFetch
<1>2. QED
  BY <1>1 DEF LInv, HandlersResolve, WidgetsKnow, DecidedLeaves

\* A step of the service leaves what is resolved resolved.
LEMMA ServeResolves ==
    ASSUME TInv, HandlersResolve, NEW c \in Calls, Serve(c)
    PROVE  HandlersResolve' /\ ResolvedStay
<1> DEFINE f == sent[c].form
           to == sent[c].to
<1>1. /\ UNCHANGED sent
      /\ f \in Forms /\ to \in Buttons
      /\ \/ R!Load(c, f, to) \/ R!RefuseProcessed(c, f)
         \/ R!LoadFails(c) \/ R!Continue(c) \/ R!Exit(c)
  BY DEF Serve, TInv, IInv, PagesInv, SentOK
<1>2. /\ requests \in [Forms -> P!Row]
      /\ stage \in [Calls -> {"new", "save", "open", "done"}]
      /\ work \in [Calls -> P!Work]
      /\ reply \in [Calls -> {"none", "ok", "error"}]
  BY DEF TInv, IInv, P!IInv, P!TypeOK
<1>3. \A d \in Calls : stage[d] \in {"save", "open"} => work[d].form = sent[d].form
  BY DEF TInv, IInv, ServedAsSent
<1>4. \A d \in Calls : stage[d] \in {"open", "done"} => sent[d].form # None
  BY DEF TInv, IInv, ServedAsSent
<1>5. \A d \in Calls : sent[d].form # None => sent[d].form \in Forms
  BY DEF TInv, IInv, PagesInv, SentOK, Unsent
<1>6. CASE R!Load(c, f, to)
  <2>1. /\ stage'[c] = "save" /\ work'[c].to = to
        /\ \A d \in Calls : d # c => stage'[d] = stage[d] /\ work'[d] = work[d]
        /\ UNCHANGED <<requests, reply>>
    BY <1>2, <1>6 DEF R!Load, R!tables
  <2>2. QED
    BY <1>1, <2>1 DEF HandlersResolve, Resolved, ResolvedStay
<1>7. CASE \/ R!RefuseProcessed(c, f) \/ R!LoadFails(c) \/ R!SaveFails(c)
           \/ R!OpenFails(c) \/ R!OpenUnacknowledged(c) \/ R!Exit(c) \/ R!Open(c)
  <2>1. /\ \E answer \in {"none", "ok", "error"} :
              R!Return(c, answer) /\ (answer = "ok" => stage[c] = "open")
        /\ UNCHANGED <<requests, work>>
    BY <1>7 DEF R!RefuseProcessed, R!LoadFails, R!SaveFails, R!Open, R!OpenFails,
                R!OpenUnacknowledged, R!Exit, R!tables
  <2>2. /\ stage'[c] = "done" /\ (reply'[c] = "ok" => stage[c] = "open")
        /\ \A d \in Calls : d # c => stage'[d] = stage[d] /\ reply'[d] = reply[d]
    BY <1>2, <2>1 DEF R!Return
  <2>3. QED
    BY <1>1, <2>1, <2>2 DEF HandlersResolve, Resolved, ResolvedStay
<1>8. CASE R!SaveThenOpen(c) \/ R!SaveThenReturn(c) \/ R!SaveUnacknowledged(c)
  <2>1. /\ stage[c] = "save" /\ R!Commit(c) /\ UNCHANGED work
        /\ \/ stage' = [stage EXCEPT ![c] = "open"] /\ UNCHANGED reply
           \/ \E answer \in {"ok", "error"} : R!Return(c, answer)
    BY <1>8 DEF R!SaveThenOpen, R!SaveThenReturn, R!SaveUnacknowledged
  <2>2. /\ stage'[c] \in {"open", "done"}
        /\ \A d \in Calls : d # c => stage'[d] = stage[d] /\ reply'[d] = reply[d]
    BY <1>2, <2>1 DEF R!Return
  <2>3. work[c].form = f /\ work[c].to \in Buttons
    BY <1>3, <2>1 DEF HandlersResolve
  <2>4. requests'[f].status \in Buttons /\ \A g \in Forms : g # f => requests'[g] = requests[g]
    BY <1>1, <1>2, <2>1, <2>3 DEF R!Commit
  <2>5. Resolved(f)' /\ ResolvedStay
    BY <1>1, <2>4 DEF Resolved, ResolvedStay
  <2>6. ASSUME NEW d \in Calls
        PROVE  /\ stage'[d] \in {"save", "open"} => work'[d].to \in Buttons
               /\ stage'[d] = "open" \/ (stage'[d] = "done" /\ reply'[d] = "ok")
                     => Resolved(sent[d].form)'
    <3>1. CASE d = c
      BY <1>1, <2>1, <2>3, <2>5, <3>1 DEF Resolved
    <3>2. CASE d # c
      <4>1. stage'[d] = stage[d] /\ reply'[d] = reply[d] /\ work'[d] = work[d]
        BY <2>1, <2>2, <3>2
      <4>2. stage[d] \in {"open", "done"} => sent[d].form \in Forms
        BY <1>4, <1>5
      <4>3. stage[d] = "open" \/ (stage[d] = "done" /\ reply[d] = "ok") => Resolved(sent[d].form)'
        BY <1>1, <2>5, <4>2 DEF HandlersResolve, ResolvedStay, Resolved
      <4>4. QED
        BY <4>1, <4>3 DEF HandlersResolve
    <3>3. QED
      BY <3>1, <3>2
  <2>7. QED
    BY <1>1, <2>5, <2>6 DEF HandlersResolve, Resolved
<1>9. QED
  BY <1>1, <1>6, <1>7, <1>8 DEF R!Continue

\* A page that is left, or mounted again, has a widget that was told nothing.
LEMMA TurnKnows ==
    ASSUME TInv, WidgetsKnow, NEW t \in Tabs \cup {None}, NEW p, NEW b, Turn(t, p, b), UNCHANGED service
    PROVE  WidgetsKnow'
<1>1. /\ \A u \in Tabs : u # t => UNCHANGED <<rows[u], told[u], overtaken[u]>>
      /\ \A u \in Tabs : u = t => told'[u] = {}
      /\ UNCHANGED requests
  BY DEF Turn, TInv, PageTypes, ListTypes, service
<1>2. \A s \in Fetches : fetches'[s] = fetches[s] \/ fetches'[s].rows = {}
  <2>1. \A s \in Fetches : \/ FetchesWithout(t)[s] = fetches[s]
                           \/ FetchesWithout(t)[s].rows = {}
    BY DEF FetchesWithout, IdleFetch
  <2>2. CASE fetches' = FetchesWithout(t)
    BY <2>1, <2>2
  <2>3. CASE Ask(t, FetchesWithout(t))
    BY <2>1, <2>3 DEF Ask, FetchesWithout, IdleFetch
  <2>4. QED
    BY <2>2, <2>3 DEF Turn
<1>3. QED
  BY <1>1, <1>2 DEF WidgetsKnow, DecidedLeaves, Resolved

\* So has a page that fetches once more: its list is of what is pending when it is served.
LEMMA AskKnows ==
    ASSUME TInv, WidgetsKnow, NEW t \in Tabs \cup {None}, Ask(t, fetches),
           UNCHANGED <<service, rows, told, overtaken>>
    PROVE  WidgetsKnow'
<1>1. \A s \in Fetches : fetches'[s] = fetches[s] \/ fetches'[s].rows = {}
  BY DEF Ask, TInv, PageTypes, ListTypes, IdleFetch
<1>2. UNCHANGED requests
  BY DEF service
<1>3. QED
  BY <1>1, <1>2 DEF WidgetsKnow, DecidedLeaves, Resolved

\* Every step preserves them.
LEMMA NextLInv == TInv /\ LInv /\ [Next]_vars => LInv'
<1> SUFFICES ASSUME TInv, LInv, [Next]_vars PROVE LInv'
  OBVIOUS
<1> USE DEF widget
<1>1. /\ HandlersResolve /\ WidgetsKnow
      /\ requests \in [Forms -> P!Row]
      /\ rows \in [Tabs -> SUBSET Forms] /\ fetches \in [Fetches -> Fetch]
      /\ told \in [Tabs -> SUBSET Forms] /\ overtaken \in [Tabs -> SUBSET Forms]
      /\ jobs \in [Jobs -> Job] /\ sent \in [Calls -> Decision]
  BY DEF LInv, TInv, IInv, P!IInv, P!TypeOK, PageTypes, ListTypes, PagesInv, SentOK
<1>2. ASSUME UNCHANGED service, SameSent PROVE HandlersResolve'
  BY <1>1, <1>2 DEF service, SameSent, HandlersResolve, Resolved
<1>3. ASSUME PageMove PROVE HandlersResolve' /\ UNCHANGED service
  BY <1>2, <1>3, PageStep DEF TInv, IInv
<1>4. ASSUME ResolvedStay, UNCHANGED <<rows, told, overtaken, fetches>> PROVE WidgetsKnow'
  BY <1>1, <1>4 DEF WidgetsKnow, DecidedLeaves, ResolvedStay
<1>5. ASSUME NEW t \in Tabs,
             \/ SignOut(t) \/ Guard(t) \/ Redirect(t)
             \/ \E p \in Pages : Load(t, p) \/ Follow(t, p)
      PROVE  LInv'
  <2>1. PageMove
    BY <1>5 DEF PageMove
  <2>2. (\E p, b : Turn(t, p, b)) \/ UNCHANGED <<rows, told, overtaken, fetches>>
    BY <1>5 DEF SignOut, Guard, Redirect, Load, Follow
  <2>3. UNCHANGED service /\ ResolvedStay
    BY <1>3, <2>1 DEF ResolvedStay, Resolved, service
  <2>4. WidgetsKnow'
    BY <1>1, <1>4, <2>2, <2>3, TurnKnows
  <2>5. QED
    BY <1>3, <2>1, <2>4 DEF LInv
<1>6. ASSUME NEW t \in Tabs,
             \/ Complete(t) \/ SubmitCustomer(t) \/ Refresh(t) \/ Start(t)
             \/ \E u \in Users : SubmitEntry(t, u)
      PROVE  LInv'
  <2>1. PageMove
    BY <1>6 DEF PageMove
  <2>2. Ask(t, fetches) \/ UNCHANGED fetches
    BY <1>6 DEF Complete, SubmitCustomer, Refresh, Start, SubmitEntry
  <2>3. UNCHANGED <<rows, told, overtaken>>
    BY <1>6 DEF Complete, SubmitCustomer, Refresh, Start, SubmitEntry
  <2>4. UNCHANGED service /\ ResolvedStay
    BY <1>3, <2>1 DEF ResolvedStay, Resolved, service
  <2>5. WidgetsKnow'
    BY <1>1, <1>4, <2>2, <2>3, <2>4, AskKnows
  <2>6. QED
    BY <1>3, <2>1, <2>5 DEF LInv
<1>7. ASSUME NEW s \in Fetches, ServeList(s) \/ ReceiveList(s) \/ MissList(s) PROVE LInv'
  <2>1. PageMove
    BY <1>7 DEF PageMove
  <2>2. HandlersResolve' /\ UNCHANGED <<service, requests, told, overtaken>>
    BY <1>3, <1>7, <2>1 DEF service, ServeList, ReceiveList, MissList
  <2>3. \A u \in Fetches : u # s => fetches'[u] = fetches[u]
    BY <1>1, <1>7 DEF ServeList, ReceiveList, MissList
  <2>4. CASE ServeList(s)
    <3>1. fetches'[s].rows = Pending /\ fetches'[s].tab = fetches[s].tab /\ UNCHANGED rows
      BY <1>1, <2>4 DEF ServeList, Fetch
    <3>2. \A t \in Tabs : Pending \cap told[t] = {}
      BY <1>1 DEF Pending, WidgetsKnow, Resolved, Buttons
    <3>3. QED
      BY <1>1, <2>2, <2>3, <3>1, <3>2 DEF LInv, WidgetsKnow, DecidedLeaves, Resolved
  <2>5. CASE ReceiveList(s) \/ MissList(s)
    <3>1. fetches'[s].rows = {}
      BY <1>1, <2>5 DEF ReceiveList, MissList, IdleFetch
    <3>2. \A t \in Tabs : \/ rows'[t] = rows[t]
                          \/ t = fetches[s].tab /\ rows'[t] = fetches[s].rows
      BY <1>1, <2>5 DEF ReceiveList, MissList
    <3>3. QED
      BY <1>1, <2>2, <2>3, <3>1, <3>2 DEF LInv, WidgetsKnow, DecidedLeaves, Resolved
  <2>6. QED
    BY <1>7, <2>4, <2>5
<1>8. ASSUME NEW j \in Jobs, JobStep(j) PROVE LInv'
  <2>1. PageMove
    BY <1>8 DEF PageMove
  <2>2. PICK t \in Tabs \cup {None} : t = jobs[j].tab
    BY <1>1 DEF Job
  <2>3. UNCHANGED service /\ ResolvedStay
    BY <1>3, <2>1 DEF ResolvedStay, Resolved, service
  <2>4. \/ \E p, b : Turn(t, p, b)
        \/ Ask(t, fetches) /\ UNCHANGED <<rows, told, overtaken>>
        \/ UNCHANGED <<rows, told, overtaken, fetches>>
    BY <1>8, <2>2 DEF JobStep, ReceiveEntry, RefuseEntry, ReceiveCustomer
  <2>5. WidgetsKnow'
    BY <1>1, <1>4, <2>3, <2>4, TurnKnows, AskKnows
  <2>6. QED
    BY <1>3, <2>1, <2>5 DEF LInv
<1>9. ASSUME NEW c \in Calls, Decided(c) PROVE LInv'
  <2>1. PageMove
    BY <1>9 DEF PageMove
  <2>2. PICK t \in Tabs : t = sent[c].tab
    BY <1>1, <1>9 DEF Decided, Decision
  <2>3. PICK f : f = sent[c].form
    OBVIOUS
  <2>4. Resolved(f)
    BY <1>1, <1>9, <2>3 DEF Decided, HandlersResolve
  <2>5. HandlersResolve' /\ UNCHANGED <<service, requests>>
    BY <1>3, <2>1 DEF service
  <2>6. /\ UNCHANGED fetches
        /\ rows'[t] = rows[t] \ {f} /\ told'[t] = told[t] \cup {f}
        /\ \A u \in Tabs : u # t => rows'[u] = rows[u] /\ told'[u] = told[u]
                                    /\ overtaken'[u] = overtaken[u]
    BY <1>1, <1>9, <2>2, <2>3 DEF Decided
  <2>7. /\ overtaken[t] \subseteq overtaken'[t]
        /\ \A s \in Fetches : fetches[s].tab = t => f \in overtaken'[t]
    BY <1>1, <1>9, <2>2, <2>3 DEF Decided
  <2>8. (\A u \in Tabs : \A g \in told[u] : Resolved(g))'
    BY <1>1, <2>4, <2>5, <2>6 DEF WidgetsKnow, Resolved
  <2>9. ASSUME NEW s \in Fetches, NEW u \in Tabs, fetches[s].tab = u
        PROVE  fetches[s].rows \cap told'[u] \subseteq overtaken'[u]
    <3>1. fetches[s].rows \cap told[u] \subseteq overtaken[u]
      BY <1>1, <2>9 DEF WidgetsKnow
    <3>2. QED
      BY <2>6, <2>7, <2>9, <3>1
  <2>10. DecidedLeaves'
    BY <1>1, <2>6, <2>7 DEF WidgetsKnow, DecidedLeaves
  <2>11. QED
    BY <2>5, <2>6, <2>8, <2>9, <2>10 DEF LInv, WidgetsKnow
<1>10. ASSUME NEW c \in Calls, DecisionFails(c) PROVE LInv'
  <2>1. PageMove
    BY <1>10 DEF PageMove
  <2>2. UNCHANGED service /\ ResolvedStay
    BY <1>3, <2>1 DEF ResolvedStay, Resolved, service
  <2>3. QED
    BY <1>3, <1>4, <1>10, <2>1, <2>2 DEF DecisionFails, LInv
<1>11. ASSUME NEW t \in Tabs, NEW f \in Forms, NEW to \in Buttons, NEW c \in Calls,
              Decide(t, f, to, c)
       PROVE  LInv'
  <2>1. /\ UNCHANGED <<service, rows, told, overtaken, fetches>> /\ ResolvedStay
    BY <1>11 DEF Decide, service, ResolvedStay, Resolved
  <2>2. /\ sent[c].form = None /\ \A d \in Calls : d # c => sent'[d] = sent[d]
    BY <1>11, DecideStep DEF TInv, IInv
  <2>3. stage[c] = "new"
    BY <2>2 DEF TInv, IInv, ServedAsSent
  <2>4. HandlersResolve'
    BY <1>1, <2>1, <2>2, <2>3 DEF HandlersResolve, Resolved, service
  <2>5. QED
    BY <1>4, <2>1, <2>4 DEF LInv
<1>12. ASSUME NEW c \in Calls, Serve(c) PROVE LInv'
  BY <1>1, <1>4, <1>12, ServeResolves DEF Serve, LInv
<1>13. ASSUME NEW f \in Forms, Submit(f) PROVE LInv'
  <2>1. /\ requests[f].status = "none"
        /\ requests' = [requests EXCEPT ![f].status = "pending"]
        /\ UNCHANGED <<stage, work, reply, sent>>
        /\ UNCHANGED <<rows, told, overtaken, fetches>>
    BY <1>13 DEF Submit, R!Submit, R!Unsubmitted, R!handlers
  <2>2. \A g : Resolved(g) => g # f
    BY <2>1 DEF Resolved, Buttons
  <2>3. ResolvedStay
    BY <1>1, <2>1, <2>2 DEF Resolved, ResolvedStay
  <2>4. ASSUME NEW d \in Calls, stage[d] \in {"open", "done"} PROVE sent[d].form \in Forms
    BY <2>4 DEF TInv, IInv, ServedAsSent, PagesInv, SentOK, Unsent
  <2>5. \A d \in Calls : stage[d] \in {"open", "done"} /\ Resolved(sent[d].form)
                            => Resolved(sent[d].form)'
    BY <2>1, <2>3, <2>4 DEF ResolvedStay, Resolved
  <2>6. HandlersResolve'
    BY <1>1, <2>1, <2>5 DEF HandlersResolve, Resolved
  <2>7. QED
    BY <1>4, <2>1, <2>3, <2>6 DEF LInv
<1>14. CASE UNCHANGED vars
  <2>1. PageMove
    BY <1>14 DEF PageMove
  <2>2. UNCHANGED <<rows, told, overtaken, fetches>> /\ ResolvedStay
    BY <1>14 DEF vars, service, Resolved, ResolvedStay
  <2>3. QED
    BY <1>3, <1>4, <2>1, <2>2 DEF LInv
<1>15. QED
  BY <1>5, <1>6, <1>7, <1>8, <1>9, <1>10, <1>11, <1>12, <1>13, <1>14 DEF Next, EmployeeActs

\* A request that the widget was told is decided does not come back, unless a list was
\* in flight at that moment: what is resolved stays resolved, and the service lists
\* what is pending when it answers.
THEOREM DecidedStaysAway == Spec => []DecidedLeaves
<1>1. TInv /\ LInv /\ [Next]_vars => (TInv /\ LInv)'
  BY NextIInv, NextTypes, NextLInv DEF TInv
<1>2. Init => TInv /\ LInv
  BY InitTInv, InitLInv
<1>3. LInv => DecidedLeaves
  BY DEF LInv, WidgetsKnow
<1>4. QED
  BY <1>1, <1>2, <1>3, PTL DEF Spec
============================================================================
