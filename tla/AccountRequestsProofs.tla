----------------------- MODULE AccountRequestsProofs -----------------------
(***************************************************************************)
(* What is proved of AccountRequests for every number of requests and of   *)
(* calls, whatever races, fails or exits.                                  *)
(***************************************************************************)
EXTENDS AccountRequests, TLAPS

Stages  == {"new", "save", "open", "done"}
Answers == {"none", "ok", "error"}

-----------------------------------------------------------------------------
(***************************************************************************)
(* Type correctness.                                                       *)
(***************************************************************************)

\* A call that ends changes its own stage and answer only.
LEMMA ReturnStep ==
    ASSUME TypeOK, NEW c \in Calls, NEW answer \in Answers, Return(c, answer)
    PROVE  /\ stage' \in [Calls -> Stages]
           /\ reply' \in [Calls -> Answers]
           /\ stage'[c] = "done" /\ reply'[c] = answer
           /\ \A d \in Calls : d # c => stage'[d] = stage[d] /\ reply'[d] = reply[d]
BY DEF TypeOK, Return, Stages, Answers

\* A decision that is saved replaces the row of its request, and no other.
LEMMA CommitStep ==
    ASSUME TypeOK, NEW c \in Calls, Commit(c)
    PROVE  /\ requests' \in [Forms -> Row]
           /\ contested' \in [Forms -> BOOLEAN]
           /\ decisions' \in SUBSET [form : Forms, by : Calls, to : Decisions]
           /\ work[c].form \in Forms
           /\ requests'[work[c].form] = [status |-> work[c].to, by |-> c]
           /\ ~contested'[work[c].form] =>
                ~contested[work[c].form] /\ requests[work[c].form] = work[c].seen
           /\ \A f \in Forms : f # work[c].form =>
                requests'[f] = requests[f] /\ contested'[f] = contested[f]
           /\ [form |-> work[c].form, by |-> c, to |-> work[c].to] \in decisions'
           /\ decisions \subseteq decisions'
<1>1. work[c] \in Work
  BY DEF TypeOK
<1>2. work[c].form \in Forms /\ work[c].to \in Decisions
  BY <1>1 DEF Work
<1>3. [status |-> work[c].to, by |-> c] \in Row
  BY <1>2 DEF Row
<1>4. requests' \in [Forms -> Row]
  BY <1>2, <1>3 DEF TypeOK, Commit
<1>5. contested' \in [Forms -> BOOLEAN]
  BY <1>2 DEF TypeOK, Commit
<1>6. decisions' \in SUBSET [form : Forms, by : Calls, to : Decisions]
  BY <1>2 DEF TypeOK, Commit
<1>7. QED
  BY <1>2, <1>4, <1>5, <1>6 DEF TypeOK, Commit

\* The types hold at the start.
LEMMA InitTypeOK == Init => TypeOK
<1> SUFFICES ASSUME Init PROVE TypeOK
  OBVIOUS
<1>1. Unsubmitted \in Row
  BY DEF Unsubmitted, Row
<1>2. NoWork \in Work
  BY <1>1, RequestsAssumption DEF NoWork, Work, Decisions
<1>3. QED
  BY <1>1, <1>2 DEF Init, TypeOK

\* Every step preserves the types.
LEMMA NextTypeOK == TypeOK /\ [Next]_vars => TypeOK'
<1> SUFFICES ASSUME TypeOK, [Next]_vars
             PROVE  TypeOK'
  OBVIOUS
<1> USE DEF tables, handlers, observations
<1>1. ASSUME NEW f \in Forms, Submit(f) PROVE TypeOK'
  <2>1. requests' \in [Forms -> Row]
    BY <1>1 DEF Submit, TypeOK, Row, Decisions
  <2>2. QED
    BY <1>1, <2>1 DEF Submit, TypeOK
<1>2. ASSUME NEW c \in Calls, NEW f \in Forms, NEW to \in Decisions, Load(c, f, to)
      PROVE  TypeOK'
  <2>1. [form |-> f, to |-> to, seen |-> requests[f]] \in Work
    BY DEF TypeOK, Work
  <2>2. work' \in [Calls -> Work]
    BY <1>2, <2>1 DEF Load, TypeOK
  <2>3. QED
    BY <1>2, <2>2 DEF Load, TypeOK
<1>3. ASSUME NEW c \in Calls,
             \/ \E f \in Forms : RefuseProcessed(c, f)
             \/ LoadFails(c) \/ SaveFails(c) \/ OpenFails(c) \/ Exit(c)
      PROVE  TypeOK'
  <2>1. /\ \E answer \in Answers : Return(c, answer)
        /\ UNCHANGED <<tables, work, observations>>
    BY <1>3 DEF RefuseProcessed, LoadFails, SaveFails, OpenFails, Exit, Answers
  <2>2. stage' \in [Calls -> Stages] /\ reply' \in [Calls -> Answers]
    BY <2>1, ReturnStep
  <2>3. QED
    BY <2>1, <2>2 DEF TypeOK, Stages, Answers
<1>4. ASSUME NEW c \in Calls, SaveThenOpen(c) PROVE TypeOK'
  <2>1. stage' \in [Calls -> Stages] /\ UNCHANGED <<accounts, work, reply>>
    BY <1>4 DEF SaveThenOpen, TypeOK, Stages
  <2>2. Commit(c)
    BY <1>4 DEF SaveThenOpen
  <2>3. QED
    BY <2>1, <2>2, CommitStep DEF TypeOK, Stages
<1>5. ASSUME NEW c \in Calls, SaveThenReturn(c) \/ SaveUnacknowledged(c) PROVE TypeOK'
  <2>1. /\ Commit(c) /\ UNCHANGED <<accounts, work>>
        /\ \E answer \in Answers : Return(c, answer)
    BY <1>5 DEF SaveThenReturn, SaveUnacknowledged, Answers
  <2>2. stage' \in [Calls -> Stages] /\ reply' \in [Calls -> Answers]
    BY <2>1, ReturnStep
  <2>3. QED
    BY <2>1, <2>2, CommitStep DEF TypeOK, Stages, Answers
<1>6. ASSUME NEW c \in Calls, Open(c) \/ OpenUnacknowledged(c) PROVE TypeOK'
  <2>1. /\ OpenAccount(c) /\ UNCHANGED <<requests, work, observations>>
        /\ \E answer \in Answers : Return(c, answer)
    BY <1>6 DEF Open, OpenUnacknowledged, Answers
  <2>2. stage' \in [Calls -> Stages] /\ reply' \in [Calls -> Answers]
    BY <2>1, ReturnStep
  <2>3. accounts' \in SUBSET Account
    BY <2>1 DEF OpenAccount, TypeOK, Account, Work
  <2>4. QED
    BY <2>1, <2>2, <2>3 DEF TypeOK, Stages, Answers
<1>7. CASE UNCHANGED vars
  BY <1>7 DEF vars, TypeOK
<1>8. QED
  BY <1>1, <1>2, <1>3, <1>4, <1>5, <1>6, <1>7 DEF Next, Arrive, Continue

\* The rows, the accounts and the handlers keep their types.
THEOREM TypeCorrect == Spec => []TypeOK
BY InitTypeOK, NextTypeOK, PTL DEF Spec

-----------------------------------------------------------------------------
(***************************************************************************)
(* The invariant.                                                          *)
(***************************************************************************)

\* What a handler knows: it saves a decision on a request that was pending when
\* it was loaded, it opens an account once its approval is saved, and it answers
\* when it is done.
HandlerKnows ==
    \A c \in Calls :
        /\ stage[c] = "save" => work[c].seen.status = "pending"
        /\ stage[c] = "open" =>
              /\ work[c].to = "approved"
              /\ [form |-> work[c].form, by |-> c, to |-> "approved"] \in decisions
        /\ stage[c] # "done" => reply[c] = "none"

\* An account of f exists, or is about to, by the call c.
Opens(c, f) ==
    \/ [form |-> f, by |-> c] \in accounts
    \/ stage[c] = "open" /\ work[c].form = f

\* Only the call that the row of an uncontested request names, as the one that
\* approved it, has opened an account or will.
OneOpener ==
    \A f \in Forms, c \in Calls :
        ~contested[f] /\ Opens(c, f) => requests[f] = [status |-> "approved", by |-> c]

IInv ==
    /\ TypeOK
    /\ HandlerKnows
    /\ AccountNeedsApproval
    /\ OkIsDone
    /\ OneOpener

\* The invariant holds at the start.
LEMMA InitIInv == Init => IInv
<1> SUFFICES ASSUME Init PROVE IInv
  OBVIOUS
<1>1. TypeOK
  BY InitTypeOK
<1>2. HandlerKnows /\ AccountNeedsApproval /\ OkIsDone /\ OneOpener
  BY DEF Init, HandlerKnows, AccountNeedsApproval, OkIsDone, OneOpener, Opens
<1>3. QED
  BY <1>1, <1>2 DEF IInv

\* A handler that ends without having changed a table preserves the invariant, unless it
\* answers "ok".
LEMMA GiveUpStep ==
    ASSUME IInv, TypeOK', NEW c \in Calls, NEW answer \in {"none", "error"},
           Return(c, answer), UNCHANGED <<tables, work, observations>>
    PROVE  IInv'
<1> USE DEF tables, observations, IInv
<1>1. /\ stage'[c] = "done" /\ reply'[c] = answer
      /\ \A d \in Calls : d # c => stage'[d] = stage[d] /\ reply'[d] = reply[d]
  BY ReturnStep DEF Answers
<1>2. HandlerKnows'
  BY <1>1 DEF HandlerKnows
<1>3. AccountNeedsApproval'
  BY DEF AccountNeedsApproval
<1>4. OkIsDone'
  BY <1>1 DEF OkIsDone
<1>5. OneOpener'
  BY <1>1 DEF OneOpener, Opens
<1>6. QED
  BY <1>2, <1>3, <1>4, <1>5

\* A decision that is saved preserves the invariant, whether its handler goes on to open
\* an account or ends.
LEMMA SaveStep ==
    ASSUME IInv, TypeOK', NEW c \in Calls, stage[c] = "save", Commit(c),
           UNCHANGED <<accounts, work>>,
           \A d \in Calls : d # c => stage'[d] = stage[d] /\ reply'[d] = reply[d],
           \/ stage'[c] = "open" /\ reply'[c] = "none" /\ work[c].to = "approved"
           \/ stage'[c] = "done" /\ reply'[c] = "ok" /\ work[c].to # "approved"
           \/ stage'[c] = "done" /\ reply'[c] = "error"
    PROVE  IInv'
<1> USE DEF IInv
<1> DEFINE f == work[c].form
<1>1. /\ f \in Forms
      /\ requests'[f] = [status |-> work[c].to, by |-> c]
      /\ ~contested'[f] => ~contested[f] /\ requests[f] = work[c].seen
      /\ \A g \in Forms : g # f => requests'[g] = requests[g] /\ contested'[g] = contested[g]
      /\ [form |-> f, by |-> c, to |-> work[c].to] \in decisions'
      /\ decisions \subseteq decisions'
  BY CommitStep
<1>2. HandlerKnows'
  BY <1>1 DEF HandlerKnows
<1>3. AccountNeedsApproval'
  BY <1>1 DEF AccountNeedsApproval
<1>4. OkIsDone'
  BY <1>1 DEF OkIsDone
<1>5. ASSUME NEW g \in Forms, NEW d \in Calls, ~contested'[g], Opens(d, g)'
      PROVE  requests'[g] = [status |-> "approved", by |-> d]
  <2>1. CASE g # f
    <3>1. ~contested[g] /\ requests'[g] = requests[g]
      BY <1>1, <1>5, <2>1
    <3>2. Opens(d, g)
      BY <1>5, <2>1 DEF Opens
    <3>3. QED
      BY <3>1, <3>2 DEF OneOpener
  <2>2. CASE g = f
    <3>1. ~contested[f] /\ requests[f].status # "approved"
      BY <1>1, <1>5, <2>2 DEF HandlerKnows
    <3>2. ~Opens(d, f)
      <4>1. requests[f] # [status |-> "approved", by |-> d]
        BY <3>1
      <4>2. QED
        BY <1>1, <3>1, <4>1 DEF OneOpener
    <3>3. d = c /\ work[c].to = "approved"
      BY <1>5, <2>2, <3>2 DEF Opens
    <3>4. QED
      BY <1>1, <2>2, <3>3
  <2>3. QED
    BY <2>1, <2>2
<1>6. OneOpener'
  BY <1>5 DEF OneOpener
<1>7. QED
  BY <1>2, <1>3, <1>4, <1>6

\* An account that is opened preserves the invariant, whatever its handler answers.
LEMMA OpenStep ==
    ASSUME IInv, TypeOK', NEW c \in Calls, NEW answer \in Answers,
           stage[c] = "open", OpenAccount(c), Return(c, answer),
           UNCHANGED <<requests, work, observations>>
    PROVE  IInv'
<1> USE DEF observations, IInv
<1> DEFINE f == work[c].form
<1>1. /\ stage'[c] = "done" /\ reply'[c] = answer
      /\ \A d \in Calls : d # c => stage'[d] = stage[d] /\ reply'[d] = reply[d]
  BY ReturnStep
<1>2. /\ f \in Forms
      /\ work[c].to = "approved"
      /\ [form |-> f, by |-> c, to |-> "approved"] \in decisions
      /\ accounts' = accounts \cup {[form |-> f, by |-> c]}
  BY DEF HandlerKnows, OpenAccount, TypeOK, Work
<1>3. HandlerKnows'
  BY <1>1 DEF HandlerKnows
<1>4. ASSUME NEW a \in accounts'
      PROVE  [form |-> a.form, by |-> a.by, to |-> "approved"] \in decisions'
  <2>1. CASE a \in accounts
    BY <2>1 DEF AccountNeedsApproval
  <2>2. CASE a = [form |-> f, by |-> c]
    BY <1>2, <2>2
  <2>3. QED
    BY <1>2, <1>4, <2>1, <2>2
<1>5. OkIsDone'
  BY <1>1, <1>2 DEF OkIsDone
<1>6. ASSUME NEW g \in Forms, NEW d \in Calls, Opens(d, g)'
      PROVE  Opens(d, g)
  BY <1>1, <1>2, <1>6 DEF Opens
<1>7. OneOpener'
  BY <1>6 DEF OneOpener
<1>8. QED
  BY <1>3, <1>4, <1>5, <1>7 DEF AccountNeedsApproval

\* Every step preserves the invariant.
LEMMA NextIInv == IInv /\ [Next]_vars => IInv'
<1> SUFFICES ASSUME IInv, [Next]_vars
             PROVE  IInv'
  OBVIOUS
<1>1. TypeOK /\ TypeOK'
  BY NextTypeOK DEF IInv
<1> USE DEF tables, handlers, observations
<1>2. ASSUME NEW f \in Forms, Submit(f) PROVE IInv'
  <2>1. /\ requests[f].status = "none"
        /\ \A g \in Forms : g # f => requests'[g] = requests[g]
        /\ UNCHANGED <<accounts, stage, work, reply, contested, decisions>>
    BY <1>1, <1>2 DEF Submit, Unsubmitted, TypeOK
  <2>2. OneOpener'
    BY <2>1 DEF IInv, OneOpener, Opens
  <2>3. HandlerKnows' /\ AccountNeedsApproval' /\ OkIsDone'
    BY <2>1 DEF IInv, HandlerKnows, AccountNeedsApproval, OkIsDone
  <2>4. QED
    BY <1>1, <2>2, <2>3 DEF IInv
<1>3. ASSUME NEW c \in Calls, NEW f \in Forms, NEW to \in Decisions, Load(c, f, to)
      PROVE  IInv'
  <2>1. /\ stage[c] = "new" /\ stage'[c] = "save"
        /\ work'[c].seen.status = "pending"
        /\ \A d \in Calls : d # c => stage'[d] = stage[d] /\ work'[d] = work[d]
        /\ UNCHANGED <<requests, accounts, reply, contested, decisions>>
    BY <1>1, <1>3 DEF Load, TypeOK
  <2>2. HandlerKnows'
    BY <2>1 DEF IInv, HandlerKnows
  <2>3. OkIsDone'
    BY <2>1 DEF IInv, OkIsDone, HandlerKnows
  <2>4. OneOpener'
    BY <2>1 DEF IInv, OneOpener, Opens
  <2>5. AccountNeedsApproval'
    BY <2>1 DEF IInv, AccountNeedsApproval
  <2>6. QED
    BY <1>1, <2>2, <2>3, <2>4, <2>5 DEF IInv
<1>4. ASSUME NEW c \in Calls,
             \/ \E f \in Forms : RefuseProcessed(c, f)
             \/ LoadFails(c) \/ SaveFails(c) \/ OpenFails(c) \/ Exit(c)
      PROVE  IInv'
  <2>1. /\ \E answer \in {"none", "error"} : Return(c, answer)
        /\ UNCHANGED <<tables, work, observations>>
    BY <1>4 DEF RefuseProcessed, LoadFails, SaveFails, OpenFails, Exit
  <2>2. QED
    BY <1>1, <2>1, GiveUpStep
<1>5. ASSUME NEW c \in Calls, SaveThenOpen(c) PROVE IInv'
  <2>1. /\ stage[c] = "save" /\ Commit(c) /\ UNCHANGED <<accounts, work>>
        /\ work[c].to = "approved"
        /\ \A d \in Calls : d # c => stage'[d] = stage[d] /\ reply'[d] = reply[d]
        /\ stage'[c] = "open" /\ reply'[c] = "none"
    BY <1>1, <1>5 DEF SaveThenOpen, IInv, HandlerKnows, TypeOK
  <2>2. QED
    BY <1>1, <2>1, SaveStep
<1>6. ASSUME NEW c \in Calls, SaveThenReturn(c) \/ SaveUnacknowledged(c) PROVE IInv'
  <2>1. /\ stage[c] = "save" /\ Commit(c) /\ UNCHANGED <<accounts, work>>
        /\ (Return(c, "ok") /\ work[c].to # "approved") \/ Return(c, "error")
    BY <1>6 DEF SaveThenReturn, SaveUnacknowledged
  <2>2. /\ \A d \in Calls : d # c => stage'[d] = stage[d] /\ reply'[d] = reply[d]
        /\ stage'[c] = "done"
        /\ (reply'[c] = "ok" /\ work[c].to # "approved") \/ reply'[c] = "error"
    BY <1>1, <2>1, ReturnStep DEF Answers
  <2>3. QED
    BY <1>1, <2>1, <2>2, SaveStep
<1>7. ASSUME NEW c \in Calls, Open(c) \/ OpenUnacknowledged(c) PROVE IInv'
  <2>1. /\ stage[c] = "open" /\ OpenAccount(c) /\ UNCHANGED <<requests, work, observations>>
        /\ \E answer \in Answers : Return(c, answer)
    BY <1>7 DEF Open, OpenUnacknowledged, Answers
  <2>2. QED
    BY <1>1, <2>1, OpenStep
<1>8. CASE UNCHANGED vars
  BY <1>1, <1>8 DEF vars, IInv, HandlerKnows, AccountNeedsApproval, OkIsDone, OneOpener, Opens
<1>9. QED
  BY <1>2, <1>3, <1>4, <1>5, <1>6, <1>7, <1>8 DEF Next, Arrive, Continue

\* The invariant holds in every state.
LEMMA Invariance == Spec => []IInv
BY InitIInv, NextIInv, PTL DEF Spec

-----------------------------------------------------------------------------
(***************************************************************************)
(* What follows from it.                                                   *)
(***************************************************************************)

\* No account is opened without an approval of its request, by the handler that
\* opened it, that was committed before.
THEOREM OpenedByApproval == Spec => []AccountNeedsApproval
<1>1. IInv => AccountNeedsApproval
  BY DEF IInv
<1>2. QED
  BY <1>1, Invariance, PTL

\* An employee who was told of a success has the decision and the account.
THEOREM SuccessIsKept == Spec => []OkIsDone
<1>1. IInv => OkIsDone
  BY DEF IInv
<1>2. QED
  BY <1>1, Invariance, PTL

\* A request whose decisions were all saved over the row that was loaded has one
\* account at most, opened by the approval that its row names.
THEOREM OneAccountUnlessContested == Spec => []UncontestedIsConsistent
<1>1. ASSUME IInv, NEW f \in Forms, ~contested[f], AccountsOf(f) # {}
      PROVE  \E c \in Calls : /\ AccountsOf(f) = {[form |-> f, by |-> c]}
                              /\ requests[f] = [status |-> "approved", by |-> c]
  <2>1. \A a \in AccountsOf(f) : a.by \in Calls /\ a = [form |-> f, by |-> a.by]
    BY <1>1 DEF AccountsOf, IInv, TypeOK, Account
  <2>2. ASSUME NEW a \in AccountsOf(f)
        PROVE  requests[f] = [status |-> "approved", by |-> a.by]
    <3>1. Opens(a.by, f)
      BY <2>1 DEF AccountsOf, Opens
    <3>2. QED
      BY <1>1, <2>1, <3>1 DEF IInv, OneOpener
  <2>3. PICK a \in AccountsOf(f) : TRUE
    BY <1>1
  <2>4. ASSUME NEW b \in AccountsOf(f) PROVE b = a
    <3>1. [status |-> "approved", by |-> a.by] = [status |-> "approved", by |-> b.by]
      BY <2>2, <2>3, <2>4
    <3>2. a.by = b.by
      BY <3>1
    <3>3. QED
      BY <2>1, <2>3, <2>4, <3>2
  <2>5. QED
    BY <2>1, <2>2, <2>3, <2>4
<1>2. IInv => UncontestedIsConsistent
  BY <1>1 DEF UncontestedIsConsistent
<1>3. QED
  BY <1>2, Invariance, PTL
============================================================================
