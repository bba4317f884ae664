--------------------------- MODULE TransferProofs ---------------------------
(***************************************************************************)
(* What is proved of Transfer for every number of calls, keys and orders,  *)
(* whatever is lost, late, cancelled or restarted.                         *)
(***************************************************************************)
EXTENDS Transfer, FiniteSetTheorems, TLAPS

Stages == Steps \cup {"new", "insert", "complete", "fail", "done"}

\* Between the insert and the return, the handler owns the row of its key.
Owning == Steps \cup {"complete", "fail"}

-----------------------------------------------------------------------------
(***************************************************************************)
(* The inductive invariant.                                                *)
(***************************************************************************)

\* The step was not asked for, or at least it left no trace.
Unasked(k, s) == applied[k][s] = 0 /\ \A m \in wire : m.key = k => m.step # s

Balanced(k) == applied[k]["debit"] = applied[k]["credit"] + applied[k]["rollback"]

\* What a handler that owns a row knows of it.
HandlerOK(c) ==
    LET k == call[c].key
        s == stage[c]
    IN  /\ s \in Owning => /\ txs[k].status = "pending"
                           /\ \A d \in Calls : stage[d] \in Owning /\ call[d].key = k => d = c
        /\ s \in Steps /\ answer[c] = "ok" => applied[k][s] = 1
        /\ s \in Steps /\ answer[c] # "ok" /\ ~unheard[k] => applied[k][s] = 0
        /\ s = "debit" => Unasked(k, "credit")
        /\ s \in {"debit", "credit", "complete"} => Unasked(k, "rollback")
        /\ s \in {"credit", "rollback", "complete"} => applied[k]["debit"] = 1
        /\ s = "complete" => applied[k]["credit"] = 1
        /\ s = "fail" /\ ~unheard[k] /\ ~unrefunded[k] => Balanced(k)
        /\ reply[c] = "completed" => s = "done" /\ txs[k].status = "completed"

\* A message is asked for once, by the one handler that ever owned the row.
MessageOK(m) ==
    /\ stage[m.from] \notin {"new", "insert"}
    /\ m = Adjustment(m.from, call[m.from], m.step)
    /\ txs[m.key].status # "none"
    /\ applied[m.key][m.step] = 0
    /\ m.step # "debit" => applied[m.key]["debit"] = 1
    /\ \A c \in Calls : stage[c] \in Owning /\ call[c].key = m.key => c = m.from
    /\ \A n \in wire : n.key = m.key => n.from = m.from

\* What the row of a key says of its adjustments.
KeyOK(k) ==
    /\ \A s \in Steps : applied[k][s] \in {0, 1}
    /\ txs[k].status = "none" => \A s \in Steps : Unasked(k, s)
    /\ \A s \in Steps : applied[k][s] = 1 => applied[k]["debit"] = 1
    /\ ~unheard[k] /\ applied[k]["credit"] = 1 => Unasked(k, "rollback")
    /\ txs[k].status = "completed" => Moved(k) /\ Unasked(k, "rollback")
    /\ txs[k].status = "failed" /\ ~unheard[k] /\ ~unrefunded[k] => Balanced(k)

Handlers == \A c \in Calls : HandlerOK(c)
Messages == \A m \in wire : MessageOK(m)
Rows     == \A k \in Keys : KeyOK(k)

\* A row is held for a message that is under way.
Copies   == \A w \in work : w.msg \in wire

IInv == TypeOK /\ Handlers /\ Messages /\ Rows /\ Copies

-----------------------------------------------------------------------------
(***************************************************************************)
(* Type correctness.                                                       *)
(***************************************************************************)
\* The order of a call that has not come yet is an order.
LEMMA AnyOrderType == AnyOrder \in Order
BY OrdersAssumption DEF AnyOrder

\* A step of an order is a message.
LEMMA AdjustmentType ==
    ASSUME NEW c \in Calls, NEW o \in Order, NEW s \in Steps
    PROVE  Adjustment(c, o, s) \in Message
<1>1. o.amount \in Int /\ -o.amount \in Int
  BY MaxIntAssumption DEF Order
<1>2. QED
  BY <1>1 DEF Adjustment, Message, Order

\* A handler that asks for a step keeps the types.
LEMMA AskType ==
    ASSUME TypeOK, NEW c \in Calls, NEW s \in Steps, Ask(c, s)
    PROVE  /\ stage' \in [Calls -> Stages] /\ answer' \in [Calls -> {"none", "ok", "error"}]
           /\ wire' \in SUBSET Message
           /\ UNCHANGED <<call, cancelled, reply>>
<1>1. Adjustment(c, call[c], s) \in Message
  BY AdjustmentType DEF TypeOK
<1>2. /\ stage \in [Calls -> Stages] /\ answer \in [Calls -> {"none", "ok", "error"}]
      /\ wire \in SUBSET Message
  BY DEF TypeOK, Stages
<1>3. QED
  BY <1>1, <1>2 DEF Ask, SetStage, Stages

\* An insert keeps the types of the rows.
LEMMA InsertRowType ==
    ASSUME TypeOK, NEW c \in Calls, InsertRow(c)
    PROVE  txs' \in [Keys -> Tx]
<1>1. call[c].amount \in Int /\ call[c] \in Order
  BY MaxIntAssumption DEF TypeOK, Order
<1>2. QED
  BY <1>1 DEF TypeOK, InsertRow, Tx, TxStatuses, Order

\* So does an update of a status.
LEMMA SetStatusType ==
    ASSUME TypeOK, NEW c \in Calls, NEW s \in TxStatuses, SetStatus(c, s)
    PROVE  txs' \in [Keys -> Tx]
<1>1. call[c].key \in Keys
  BY DEF TypeOK, Order
<1>2. QED
  BY <1>1 DEF TypeOK, SetStatus, Tx

\* Init has the types.
LEMMA InitType == Init => TypeOK
<1> SUFFICES ASSUME Init PROVE TypeOK
  OBVIOUS
<1>1. AnyOrder \in Order /\ AnyOrder.amount \in Int
  BY AnyOrderType, MaxIntAssumption DEF Order
<1>2. txs \in [Keys -> Tx]
  BY <1>1 DEF Init, Tx, TxStatuses, Order
<1>3. applied \in [Keys -> [Steps -> Nat]]
  BY DEF Init
<1>4. edit \in [Edits -> Edit]
  BY MaxIntAssumption DEF Init, Idle, Edit
<1>5. QED
  BY <1>1, <1>2, <1>3, <1>4, OpeningAssumption DEF Init, TypeOK

\* Every step keeps the types.
LEMMA NextType == TypeOK /\ [Next]_vars => TypeOK'
<1> SUFFICES ASSUME TypeOK, [Next]_vars PROVE TypeOK'
  OBVIOUS
<1> USE DEF accountVars, handlerVars, observations
<1>1. ASSUME NEW c \in Calls, NEW o \in Orders, LookupFinds(c, o) \/ LookupErrs(c, o)
      PROVE  TypeOK'
  <2>1. o \in Order /\ txs[o.key].status \in TxStatuses
    BY OrdersAssumption DEF TypeOK, Order, Tx
  <2>2. call' \in [Calls -> Order] /\ stage' \in [Calls -> Stages]
    BY <1>1, <2>1 DEF TypeOK, LookupFinds, LookupErrs, SetStage, Stages
  <2>3. reply' \in [Calls -> {"none", "error", "pending", "completed", "failed"}]
    BY <1>1, <2>1 DEF TypeOK, LookupFinds, LookupErrs, TxStatuses
  <2>4. QED
    BY <1>1, <2>2, <2>3 DEF TypeOK, LookupFinds, LookupErrs, Stages
<1>2. ASSUME NEW c \in Calls, Insert(c) \/ InsertUnacknowledged(c) PROVE TypeOK'
  <2>1. txs' \in [Keys -> Tx]
    BY <1>2, InsertRowType DEF Insert, InsertUnacknowledged
  <2>2. CASE Insert(c)
    <3>1. Ask(c, "debit") /\ "debit" \in Steps
      BY <2>2 DEF Insert, Steps
    <3>2. QED
      BY <2>1, <2>2, <3>1, AskType DEF TypeOK, Insert, Stages
  <2>3. CASE InsertUnacknowledged(c)
    BY <2>1, <2>3 DEF TypeOK, InsertUnacknowledged, Return, SetStage
  <2>4. QED
    BY <1>2, <2>2, <2>3
<1>3. ASSUME NEW c \in Calls, DebitMade(c) \/ CreditFailed(c) PROVE TypeOK'
  <2>1. PICK s \in Steps : Ask(c, s)
    BY <1>3 DEF DebitMade, CreditFailed, Steps
  <2>2. QED
    BY <1>3, <2>1, AskType DEF TypeOK, DebitMade, CreditFailed, Stages
<1>4. ASSUME NEW c \in Calls, DebitFailed(c) \/ CreditMade(c) \/ RollbackAnswered(c) PROVE TypeOK'
  BY <1>4 DEF TypeOK, DebitFailed, CreditMade, RollbackAnswered, GoOn, SetStage
<1>5. ASSUME NEW c \in Calls, InsertFails(c) \/ MarkFailedFails(c) \/ Exit(c) PROVE TypeOK'
  BY <1>5 DEF TypeOK, InsertFails, MarkFailedFails, Exit, Return, SetStage
<1>6. ASSUME NEW c \in Calls, MarkFailed(c) \/ MarkCompleted(c) \/ MarkCompletedFails(c)
      PROVE  TypeOK'
  <2>1. txs' \in [Keys -> Tx]
    BY <1>6, SetStatusType DEF MarkFailed, MarkCompleted, MarkCompletedFails, TxStatuses, TypeOK
  <2>2. QED
    BY <1>6, <2>1 DEF TypeOK, MarkFailed, MarkCompleted, MarkCompletedFails, Return, SetStage
<1>7. ASSUME NEW c \in Calls, GiveUp(c) \/ Cancel(c) PROVE TypeOK'
  BY <1>7 DEF TypeOK, GiveUp, Cancel
<1>8. ASSUME NEW m \in wire, Load(m) \/ AdjustFails(m) PROVE TypeOK'
  <2>1. m \in Message /\ m.from \in Calls /\ m.account \in Accounts
    BY DEF TypeOK, Message
  <2>2. CASE Load(m)
    <3>1. [msg |-> m, balance |-> balance[m.account]] \in Copy
      BY <2>1, <2>2 DEF TypeOK, Load, Adjustable, Copy
    <3>2. QED
      BY <2>2, <3>1 DEF TypeOK, Load
  <2>3. CASE AdjustFails(m)
    BY <2>1, <2>3 DEF TypeOK, AdjustFails, Answer
  <2>4. QED
    BY <1>8, <2>2, <2>3
<1>9. ASSUME NEW w \in work, Save(w) \/ SaveUnacknowledged(w) PROVE TypeOK'
  <2>1. w \in Copy /\ w.msg \in Message
    BY DEF TypeOK, Copy
  <2> PICK m \in Message : m = w.msg
    BY <2>1
  <2>2. /\ m.from \in Calls /\ m.key \in Keys /\ m.step \in Steps /\ m.account \in Accounts
        /\ w.balance + m.delta \in 0 .. MaxInt
    BY <2>1 DEF Message, Copy
  <2>3. /\ answer' \in [Calls -> {"none", "ok", "error"}]
        /\ wire' \in SUBSET Message /\ work' \in SUBSET Copy
        /\ UNCHANGED <<stage, call, cancelled, reply>>
    BY <1>9, <2>2 DEF TypeOK, Save, SaveUnacknowledged, Answer
  <2>4. /\ balance' \in [Accounts -> 0 .. MaxInt] /\ active' \in [Accounts -> BOOLEAN]
        /\ overwritten' \in [Accounts -> BOOLEAN]
    BY <1>9, <2>2 DEF TypeOK, Save, SaveUnacknowledged, Apply, WriteRow
  <2>5. applied' \in [Keys -> [Steps -> Nat]]
    <3>1. applied[m.key] \in [Steps -> Nat] /\ applied[m.key][m.step] + 1 \in Nat
      BY <2>2 DEF TypeOK
    <3>2. applied' = [applied EXCEPT ![m.key] =
                                [applied[m.key] EXCEPT ![m.step] = applied[m.key][m.step] + 1]]
      BY <1>9 DEF Save, SaveUnacknowledged, Apply
    <3>3. [applied[m.key] EXCEPT ![m.step] = applied[m.key][m.step] + 1] \in [Steps -> Nat]
      BY <2>2, <3>1
    <3>4. QED
      BY <2>2, <3>2, <3>3 DEF TypeOK
  <2>6. unheard' \in [Keys -> BOOLEAN]
    BY <1>9, <2>2 DEF TypeOK, Save, SaveUnacknowledged
  <2>7. QED
    BY <1>9, <2>3, <2>4, <2>5, <2>6 DEF TypeOK, Save, SaveUnacknowledged
<1>10. ASSUME NEW e \in Edits, LoadEdit(e) \/ SaveEdit(e) \/ EditFails(e) PROVE TypeOK'
  <2>1. /\ Edited[e] \in Accounts /\ edit[e] \in Edit /\ Idle \in Edit
        /\ edit[e].balance \in 0 .. MaxInt /\ edit[e].active \in BOOLEAN
    BY EditedAssumption, MaxIntAssumption DEF TypeOK, Edit, Idle
  <2>2. edit' \in [Edits -> Edit]
    <3>1. edit \in [Edits -> Edit] /\ balance[Edited[e]] \in 0 .. MaxInt
      BY <2>1 DEF TypeOK
    <3>2. \A b \in BOOLEAN : [busy |-> TRUE, balance |-> balance[Edited[e]], active |-> b] \in Edit
      BY <3>1 DEF Edit
    <3>3. CASE LoadEdit(e)
      BY <3>1, <3>2, <3>3 DEF LoadEdit
    <3>4. CASE EndEdit(e)
      BY <2>1, <3>1, <3>4 DEF EndEdit
    <3>5. QED
      BY <1>10, <3>3, <3>4 DEF SaveEdit, EditFails
  <2>3. /\ balance' \in [Accounts -> 0 .. MaxInt] /\ active' \in [Accounts -> BOOLEAN]
        /\ overwritten' \in [Accounts -> BOOLEAN]
    BY <1>10, <2>1 DEF TypeOK, LoadEdit, SaveEdit, EditFails, WriteRow
  <2>4. QED
    BY <1>10, <2>2, <2>3 DEF TypeOK, LoadEdit, SaveEdit, EditFails, EndEdit
<1>11. CASE UNCHANGED vars
  BY <1>11 DEF TypeOK, vars
<1>12. QED
  BY <1>1, <1>2, <1>3, <1>4, <1>5, <1>6, <1>7, <1>8, <1>9, <1>10, <1>11 DEF Next, Handle, Serve

\* Balances stay in the int64, and every variable keeps its type.
THEOREM TypeCorrect == Spec => []TypeOK
BY InitType, NextType, PTL DEF Spec

-----------------------------------------------------------------------------
(***************************************************************************)
(* The steps of the handlers.                                              *)
(***************************************************************************)

\* What a step of handler c leaves alone in the others.
OnlyCall(c) ==
    \A d \in Calls : d # c => /\ stage'[d] = stage[d] /\ call'[d] = call[d]
                              /\ answer'[d] = answer[d] /\ reply'[d] = reply[d]

\* A handler that owns no row may get another order; one that owned a row keeps it.
CallKept(c) ==
    /\ stage'[c] \in Owning => stage[c] \in Owning /\ call'[c] = call[c]
    /\ stage[c] \notin {"new", "insert"} =>
          stage'[c] \notin {"new", "insert"} /\ call'[c] = call[c]

\* The invariant holds at the start.
LEMMA InitIInv == Init => IInv
<1> SUFFICES ASSUME Init PROVE IInv
  OBVIOUS
<1>1. TypeOK
  BY InitType
<1>2. \A c \in Calls : stage[c] = "new" /\ reply[c] = "none"
  BY DEF Init
<1>3. Handlers
  BY <1>2 DEF Handlers, HandlerOK, Owning, Steps
<1>4. Messages
  BY DEF Init, Messages
<1>5. Rows
  <2>1. \A k \in Keys : txs[k].status = "none" /\ \A s \in Steps : applied[k][s] = 0
    BY DEF Init
  <2>2. "debit" \in Steps /\ "credit" \in Steps /\ "rollback" \in Steps /\ wire = {}
    BY DEF Init, Steps
  <2>3. QED
    BY <2>1, <2>2 DEF Rows, KeyOK, Unasked
<1>6. Copies
  BY DEF Init, Copies
<1>7. QED
  BY <1>1, <1>3, <1>4, <1>5, <1>6 DEF IInv

\* A handler goes on, and neither row nor message changes.
LEMMA QuietStep ==
    ASSUME IInv, TypeOK', NEW c \in Calls, OnlyCall(c), CallKept(c),
           UNCHANGED <<work, wire, txs, applied, unheard>>,
           \A k \in Keys : unrefunded[k] => unrefunded'[k],
           HandlerOK(c)'
    PROVE  IInv'
<1>1. \A d \in Calls : call[d].key \in Keys /\ call'[d].key \in Keys
  BY DEF IInv, TypeOK, Order
<1>2. \A m \in wire : m.from \in Calls /\ m.key \in Keys
  BY DEF IInv, TypeOK, Message
<1>3. \A d \in Calls : stage'[d] \in Owning => stage[d] \in Owning /\ call'[d] = call[d]
  BY DEF OnlyCall, CallKept
<1>4. \A k \in Keys, s \in Steps : Unasked(k, s)' <=> Unasked(k, s)
  BY DEF Unasked
<1>5. Handlers'
  <2>1. ASSUME NEW d \in Calls, d # c PROVE HandlerOK(d)'
    <3>1. HandlerOK(d)
      BY DEF IInv, Handlers
    <3>2. PICK k \in Keys : k = call[d].key
      BY <1>1
    <3>3. QED
      BY <1>3, <2>1, <3>1, <3>2 DEF HandlerOK, OnlyCall, Unasked, Balanced
  <2>2. QED
    BY <2>1 DEF Handlers
<1>6. Messages'
  <2>1. ASSUME NEW m \in wire PROVE MessageOK(m)'
    <3>1. MessageOK(m)
      BY DEF IInv, Messages
    <3>2. stage'[m.from] \notin {"new", "insert"} /\ call'[m.from] = call[m.from]
      BY <1>2, <3>1 DEF MessageOK, OnlyCall, CallKept
    <3>3. QED
      BY <1>3, <3>1, <3>2 DEF MessageOK, Adjustment
  <2>2. QED
    BY <2>1 DEF Messages
<1>7. Rows'
  BY DEF IInv, Rows, KeyOK, Unasked, Balanced, Moved
<1>8. Copies'
  BY DEF IInv, Copies
<1>9. QED
  BY <1>5, <1>6, <1>7, <1>8 DEF IInv

\* A handler returns and sets the status of its row, or of a new one.
LEMMA RowStep ==
    ASSUME IInv, TypeOK', NEW c \in Calls, NEW k \in Keys, k = call[c].key,
           OnlyCall(c), call' = call,
           UNCHANGED <<work, wire, applied, unheard, unrefunded>>,
           stage[c] # "new", stage'[c] = "done",
           txs[k].status \in {"none", "pending"},
           txs[k].status = "none" \/ stage[c] \in Owning,
           txs'[k].status # "none",
           \A l \in Keys : l # k => txs'[l] = txs[l],
           KeyOK(k)',
           HandlerOK(c)'
    PROVE  IInv'
<1>1. \A d \in Calls : call[d].key \in Keys
  BY DEF IInv, TypeOK, Order
<1>2. \A m \in wire : m.from \in Calls /\ m.key \in Keys
  BY DEF IInv, TypeOK, Message
<1>3. \A d \in Calls : stage'[d] \in Owning => stage[d] \in Owning /\ d # c
  BY DEF OnlyCall, Owning, Steps
<1>4. ASSUME NEW d \in Calls, d # c, stage[d] \in Owning PROVE call[d].key # k
  BY <1>1, <1>4 DEF IInv, Handlers, HandlerOK
<1>5. Handlers'
  <2>1. ASSUME NEW d \in Calls, d # c PROVE HandlerOK(d)'
    <3>1. HandlerOK(d)
      BY DEF IInv, Handlers
    <3>2. stage'[d] = stage[d] /\ call'[d] = call[d] /\ answer'[d] = answer[d]
          /\ reply'[d] = reply[d]
      BY <2>1 DEF OnlyCall
    <3>3. CASE call[d].key = k
      <4>1. stage[d] \notin Owning /\ reply[d] # "completed"
        BY <1>4, <2>1, <3>1, <3>3 DEF HandlerOK
      <4>2. QED
        BY <3>2, <4>1 DEF HandlerOK, Owning, Steps
    <3>4. CASE call[d].key # k
      <4>1. PICK l \in Keys : l = call[d].key /\ l # k
        BY <1>1, <3>4
      <4>2. QED
        BY <1>3, <3>1, <3>2, <4>1 DEF HandlerOK, Unasked, Balanced
    <3>5. QED
      BY <3>3, <3>4
  <2>2. QED
    BY <2>1 DEF Handlers
<1>6. Messages'
  <2>1. ASSUME NEW m \in wire PROVE MessageOK(m)'
    <3>1. MessageOK(m)
      BY DEF IInv, Messages
    <3>2. stage'[m.from] \notin {"new", "insert"}
      BY <1>2, <3>1 DEF MessageOK, OnlyCall
    <3>3. txs'[m.key].status # "none"
      BY <1>2, <3>1 DEF MessageOK
    <3>4. QED
      BY <1>3, <3>1, <3>2, <3>3 DEF MessageOK, Adjustment
  <2>2. QED
    BY <2>1 DEF Messages
<1>7. Rows'
  <2>1. ASSUME NEW l \in Keys, l # k PROVE KeyOK(l)'
    <3>1. txs'[l] = txs[l] /\ KeyOK(l)
      BY <2>1 DEF IInv, Rows
    <3>2. QED
      BY <3>1 DEF KeyOK, Unasked, Balanced, Moved
  <2>2. QED
    BY <2>1 DEF Rows
<1>8. Copies'
  BY DEF IInv, Copies
<1>9. QED
  BY <1>5, <1>6, <1>7, <1>8 DEF IInv

\* A handler that owns a row, or is about to, asks for a step.
LEMMA AskStep ==
    ASSUME IInv, TypeOK', NEW c \in Calls, NEW s \in Steps, Ask(c, s),
           NEW k \in Keys, k = call[c].key,
           UNCHANGED <<work, applied, unheard, unrefunded>>,
           stage[c] # "new", reply[c] # "completed",
           txs[k].status \in {"none", "pending"},
           txs'[k].status = "pending",
           \A l \in Keys : l # k => txs'[l] = txs[l],
           \A d \in Calls : stage[d] \in Owning /\ call[d].key = k => d = c,
           \A m \in wire : m.key = k => m.from = c,
           Unasked(k, s),
           s # "debit" => applied[k]["debit"] = 1,
           s = "debit" => Unasked(k, "credit"),
           s # "rollback" => Unasked(k, "rollback"),
           s = "rollback" /\ ~unheard[k] => applied[k]["credit"] = 0
    PROVE  IInv'
<1> PICK new : new = Adjustment(c, call[c], s)
  OBVIOUS
<1>1. \A d \in Calls : call[d].key \in Keys
  BY DEF IInv, TypeOK, Order
<1>2. \A m \in wire : m.from \in Calls /\ m.key \in Keys /\ m.step \in Steps
  BY DEF IInv, TypeOK, Message
<1>3. new.key = k /\ new.from = c /\ new.step = s
  BY DEF Adjustment
<1>4. /\ stage'[c] = s /\ answer'[c] # "ok"
      /\ \A d \in Calls : d # c => stage'[d] = stage[d] /\ answer'[d] = answer[d]
      /\ UNCHANGED <<call, reply>>
  BY DEF Ask, SetStage, IInv, TypeOK
<1>5. wire \subseteq wire' /\ wire' \subseteq wire \cup {new}
  BY DEF Ask
<1>6. \A l \in Keys, t \in Steps : (l # k \/ t # s) /\ Unasked(l, t) => Unasked(l, t)'
  BY <1>3, <1>5 DEF Unasked
<1>7. \A d \in Calls : stage'[d] \in Owning => d = c \/ (stage[d] \in Owning /\ call[d].key # k)
  BY <1>4
<1>8. "debit" \in Steps /\ "credit" \in Steps /\ "rollback" \in Steps
  BY DEF Steps
<1>9. Handlers'
  <2>1. HandlerOK(c)'
    BY <1>1, <1>4, <1>6, <1>7, <1>8 DEF HandlerOK, Unasked, Owning, Steps
  <2>2. ASSUME NEW d \in Calls, d # c PROVE HandlerOK(d)'
    <3>1. HandlerOK(d) /\ stage'[d] = stage[d] /\ answer'[d] = answer[d]
          /\ call'[d] = call[d] /\ reply'[d] = reply[d]
      BY <1>4, <2>2 DEF IInv, Handlers
    <3>2. CASE call[d].key = k
      <4>1. stage[d] \notin Owning /\ reply[d] # "completed"
        BY <2>2, <3>1, <3>2 DEF HandlerOK
      <4>2. QED
        BY <3>1, <4>1 DEF HandlerOK, Owning, Steps
    <3>3. CASE call[d].key # k
      <4>1. PICK l \in Keys : l = call[d].key /\ l # k
        BY <1>1, <3>3
      <4>2. txs'[l] = txs[l] /\ \A t \in Steps : Unasked(l, t) => Unasked(l, t)'
        BY <1>6, <4>1
      <4>3. stage'[d] \in Owning => \A e \in Calls : stage'[e] \in Owning /\ call'[e].key = l => e = d
        BY <1>4, <1>7, <3>1, <4>1 DEF HandlerOK
      <4>4. stage'[d] = "debit" => Unasked(l, "credit")'
        BY <1>8, <3>1, <4>1, <4>2 DEF HandlerOK
      <4>5. stage'[d] \in {"debit", "credit", "complete"} => Unasked(l, "rollback")'
        BY <1>8, <3>1, <4>1, <4>2 DEF HandlerOK
      <4>6. QED
        BY <3>1, <4>1, <4>2, <4>3, <4>4, <4>5 DEF HandlerOK, Balanced, Unasked
    <3>4. QED
      BY <3>2, <3>3
  <2>3. QED
    BY <2>1, <2>2 DEF Handlers
<1>10. Messages'
  <2>1. ASSUME NEW m \in wire PROVE MessageOK(m)'
    <3>1. MessageOK(m)
      BY DEF IInv, Messages
    <3>2. stage'[m.from] \notin {"new", "insert"}
      BY <1>2, <1>4, <3>1 DEF MessageOK, Steps
    <3>3. txs'[m.key].status # "none"
      BY <1>2, <3>1 DEF MessageOK
    <3>4. \A d \in Calls : stage'[d] \in Owning /\ call[d].key = m.key => d = m.from
      BY <1>2, <1>4, <1>7, <3>1 DEF MessageOK
    <3>5. \A n \in wire' : n.key = m.key => n.from = m.from
      BY <1>3, <1>5, <3>1 DEF MessageOK
    <3>6. QED
      BY <1>4, <3>1, <3>2, <3>3, <3>4, <3>5 DEF MessageOK, Adjustment
  <2>2. MessageOK(new)'
    <3>1. new = Adjustment(new.from, call'[new.from], new.step)
      BY <1>3, <1>4
    <3>2. stage'[new.from] \notin {"new", "insert"}
      BY <1>3, <1>4 DEF Steps
    <3>3. applied'[new.key][new.step] = 0 /\ (new.step # "debit" => applied'[new.key]["debit"] = 1)
      BY <1>3 DEF Unasked
    <3>4. \A d \in Calls : stage'[d] \in Owning /\ call'[d].key = new.key => d = new.from
      BY <1>3, <1>4, <1>7
    <3>5. \A n \in wire' : n.key = new.key => n.from = new.from
      BY <1>3, <1>5
    <3>6. QED
      BY <1>3, <3>1, <3>2, <3>3, <3>4, <3>5 DEF MessageOK, Adjustment
  <2>3. QED
    BY <1>5, <2>1, <2>2 DEF Messages
<1>11. Rows'
  <2>1. ASSUME NEW l \in Keys PROVE KeyOK(l)'
    <3>1. KeyOK(l)
      BY DEF IInv, Rows
    <3>2. CASE l = k
      <4>1. ~unheard[k] /\ applied[k]["credit"] = 1 => s # "rollback" /\ Unasked(k, "rollback")
        OBVIOUS
      <4>2. ~unheard[k] /\ applied[k]["credit"] = 1 => Unasked(k, "rollback")'
        BY <1>6, <1>8, <4>1
      <4>3. QED
        BY <3>1, <3>2, <4>2 DEF KeyOK
    <3>3. CASE l # k
      <4>1. \A t \in Steps : Unasked(l, t) => Unasked(l, t)'
        BY <1>6, <3>3
      <4>2. txs'[l] = txs[l]
        BY <3>3
      <4>3. QED
        BY <1>8, <3>1, <4>1, <4>2 DEF KeyOK, Balanced, Moved
    <3>4. QED
      BY <3>2, <3>3
  <2>2. QED
    BY <2>1 DEF Rows
<1>12. Copies'
  BY <1>5 DEF IInv, Copies
<1>13. QED
  BY <1>9, <1>10, <1>11, <1>12 DEF IInv

-----------------------------------------------------------------------------
(***************************************************************************)
(* The steps of the account service.                                       *)
(***************************************************************************)

\* A message that leaves the wire, and the handler that may hear of it.
LEMMA RefuseStep ==
    ASSUME IInv, TypeOK', NEW m \in wire, AdjustFails(m)
    PROVE  IInv'
<1> USE DEF accountVars, observations
<1>1. \A d \in Calls : call[d].key \in Keys
  BY DEF IInv, TypeOK, Order
<1>2. /\ UNCHANGED <<stage, call, reply, txs, applied, unheard, unrefunded>>
      /\ wire' \subseteq wire
      /\ \A d \in Calls : answer'[d] = "ok" <=> answer[d] = "ok"
  BY DEF AdjustFails, Answer, Heard, IInv, TypeOK, Message
<1>3. \A k \in Keys, s \in Steps : Unasked(k, s) => Unasked(k, s)'
  BY <1>2 DEF Unasked
<1>4. "debit" \in Steps /\ "credit" \in Steps /\ "rollback" \in Steps
  BY DEF Steps
<1>5. Handlers'
  <2>1. ASSUME NEW d \in Calls PROVE HandlerOK(d)'
    <3>1. HandlerOK(d)
      BY DEF IInv, Handlers
    <3>2. PICK k \in Keys : k = call[d].key
      BY <1>1
    <3>3. QED
      BY <1>2, <1>3, <1>4, <3>1, <3>2 DEF HandlerOK, Balanced, Unasked
  <2>2. QED
    BY <2>1 DEF Handlers
<1>6. Messages'
  BY <1>2 DEF IInv, Messages, MessageOK, Adjustment
<1>7. Rows'
  <2>1. ASSUME NEW k \in Keys PROVE KeyOK(k)'
    <3>1. KeyOK(k)
      BY DEF IInv, Rows
    <3>2. QED
      BY <1>2, <1>3, <1>4, <3>1 DEF KeyOK, Balanced, Moved
  <2>2. QED
    BY <2>1 DEF Rows
<1>8. Copies'
  BY DEF IInv, Copies, AdjustFails, Answer
<1>9. QED
  BY <1>5, <1>6, <1>7, <1>8 DEF IInv

\* What a save counts.
LEMMA AppliedChanges ==
    ASSUME TypeOK, NEW w, NEW m, m = w.msg, m.key \in Keys, Apply(w)
    PROVE  /\ applied'[m.key] = [applied[m.key] EXCEPT ![m.step] = applied[m.key][m.step] + 1]
           /\ \A l \in Keys : l # m.key => applied'[l] = applied[l]
<1>1. applied' = [applied EXCEPT ![m.key][m.step] = @ + 1]
  BY DEF Apply
<1>2. DOMAIN applied = Keys
  BY DEF TypeOK
<1>3. QED
  BY <1>1, <1>2

\* An adjustment takes effect, and its handler hears of it, or of a failure, or of
\* nothing.
LEMMA EffectStep ==
    ASSUME IInv, TypeOK', NEW w \in work, Save(w) \/ SaveUnacknowledged(w)
    PROVE  IInv'
<1> PICK m \in wire : m = w.msg
  BY DEF IInv, Copies
<1> PICK k \in Keys : k = m.key
  BY DEF IInv, TypeOK, Message
<1>1. /\ \A d \in Calls : call[d].key \in Keys
      /\ \A n \in wire : n.key \in Keys /\ n.from \in Calls /\ n.step \in Steps
  BY DEF IInv, TypeOK, Order, Message
<1>2. /\ UNCHANGED <<stage, call, reply, txs, unrefunded>>
      /\ wire' = wire \ {m}
      /\ \A d \in Calls : answer[d] = "ok" => answer'[d] = "ok"
  BY DEF Save, SaveUnacknowledged, Answer, Heard, IInv, TypeOK
<1>3. \A d \in Calls : answer[d] # "ok" /\ answer'[d] = "ok" => d = m.from /\ stage[d] = m.step
  BY <1>1 DEF Save, SaveUnacknowledged, Answer, Heard, IInv, TypeOK
<1>4. /\ unheard'[k] \/ (stage[m.from] = m.step /\ answer'[m.from] = "ok" /\ ~unheard[k])
      /\ \A l \in Keys : l # k => unheard'[l] = unheard[l]
  BY <1>1 DEF Save, SaveUnacknowledged, Answer, Heard, IInv, TypeOK
<1>5. /\ applied'[k][m.step] = applied[k][m.step] + 1
      /\ \A l \in Keys, s \in Steps : l # k \/ s # m.step => applied'[l][s] = applied[l][s]
  <2>1. /\ applied'[k] = [applied[k] EXCEPT ![m.step] = applied[k][m.step] + 1]
        /\ \A l \in Keys : l # k => applied'[l] = applied[l]
    BY AppliedChanges DEF Save, SaveUnacknowledged, IInv
  <2>2. applied[k] \in [Steps -> Nat]
    BY DEF IInv, TypeOK
  <2>3. QED
    BY <1>1, <2>1, <2>2
<1>6. MessageOK(m)
  BY DEF IInv, Messages
<1>7. /\ applied[k][m.step] = 0 /\ applied'[k][m.step] = 1
      /\ m.step # "debit" => applied[k]["debit"] = 1
      /\ call[m.from].key = k
      /\ \A d \in Calls : stage[d] \in Owning /\ call[d].key = k => d = m.from
  BY <1>5, <1>6 DEF MessageOK, Adjustment
<1>8. "debit" \in Steps /\ "credit" \in Steps /\ "rollback" \in Steps
  BY DEF Steps
<1>9. \A l \in Keys, s \in Steps : Unasked(l, s) => (l # k \/ s # m.step) /\ Unasked(l, s)'
  BY <1>2, <1>5 DEF Unasked
<1>10. ~unheard'[k] =>
          /\ stage[m.from] \in Steps /\ stage[m.from] = m.step
          /\ HandlerOK(m.from) /\ txs[k].status = "pending"
  BY <1>1, <1>4, <1>7 DEF IInv, Handlers, HandlerOK, Owning
<1>11. /\ applied'[k]["debit"] = 1
       /\ \A s \in Steps : applied[k][s] = 1 => applied'[k][s] = 1
  BY <1>5, <1>7, <1>8
<1>12. Handlers'
  <2>1. ASSUME NEW d \in Calls PROVE HandlerOK(d)'
    <3>1. HandlerOK(d)
      BY DEF IInv, Handlers
    <3>2. PICK l \in Keys : l = call[d].key
      BY <1>1
    <3>3. stage[d] = "debit" => Unasked(l, "credit")'
      BY <1>8, <1>9, <3>1, <3>2 DEF HandlerOK
    <3>4. stage[d] \in {"debit", "credit", "complete"} => Unasked(l, "rollback")'
      BY <1>8, <1>9, <3>1, <3>2 DEF HandlerOK
    <3>5. CASE l = k
      <4>1. stage[d] \in Owning => d = m.from
        BY <1>7, <3>2, <3>5
      <4>2. stage[d] \in Steps /\ answer'[d] = "ok" => applied'[k][stage[d]] = 1
        BY <1>3, <1>7, <1>11, <3>1, <3>2, <3>5 DEF HandlerOK
      <4>3. stage[d] \in Steps /\ answer'[d] # "ok" => unheard'[k]
        BY <1>4, <4>1 DEF Owning
      <4>4. stage[d] = "fail" => unheard'[k]
        BY <1>10, <4>1 DEF Owning, Steps
      <4>5. stage[d] = "complete" => applied'[k]["credit"] = 1
        BY <1>8, <1>11, <3>1, <3>2, <3>5 DEF HandlerOK
      <4>6. QED
        BY <1>2, <1>11, <3>1, <3>2, <3>3, <3>4, <3>5, <4>2, <4>3, <4>4, <4>5 DEF HandlerOK, Unasked
    <3>6. CASE l # k
      <4>1. \A s \in Steps : applied'[l][s] = applied[l][s]
        BY <1>5, <3>6
      <4>2. unheard'[l] = unheard[l] /\ (answer'[d] = "ok" <=> answer[d] = "ok")
        BY <1>2, <1>3, <1>4, <1>7, <3>2, <3>6
      <4>3. QED
        BY <1>2, <1>8, <3>1, <3>2, <3>3, <3>4, <4>1, <4>2 DEF HandlerOK, Balanced, Unasked
    <3>7. QED
      BY <3>5, <3>6
  <2>2. QED
    BY <2>1 DEF Handlers
<1>13. Messages'
  <2>1. ASSUME NEW n \in wire, n # m PROVE MessageOK(n)'
    <3>1. MessageOK(n)
      BY DEF IInv, Messages
    <3>2. n.key # k \/ n.step # m.step
      BY <1>6, <2>1, <3>1 DEF MessageOK
    <3>3. applied'[n.key][n.step] = applied[n.key][n.step]
      BY <1>1, <1>5, <3>2
    <3>4. n.step # "debit" => applied'[n.key]["debit"] = 1
      BY <1>1, <1>5, <1>8, <1>11, <3>1 DEF MessageOK
    <3>5. QED
      BY <1>2, <3>1, <3>3, <3>4 DEF MessageOK, Adjustment
  <2>2. QED
    BY <1>2, <2>1 DEF Messages
<1>14. Rows'
  <2>1. ASSUME NEW l \in Keys, l # k PROVE KeyOK(l)'
    <3>1. KeyOK(l)
      BY DEF IInv, Rows
    <3>2. \A s \in Steps : applied'[l][s] = applied[l][s]
      BY <1>5, <2>1
    <3>3. \A s \in Steps : Unasked(l, s) => Unasked(l, s)'
      BY <1>9
    <3>4. txs'[l] = txs[l] /\ unheard'[l] = unheard[l] /\ unrefunded'[l] = unrefunded[l]
      BY <1>2, <1>4, <2>1
    <3>5. Moved(l) => Moved(l)'
      BY <1>1, <1>2, <1>5, <2>1 DEF Moved, Save, SaveUnacknowledged, Apply, IInv, TypeOK
    <3>6. QED
      BY <1>8, <3>1, <3>2, <3>3, <3>4, <3>5 DEF KeyOK, Balanced
  <2>2. KeyOK(k)'
    <3>1. KeyOK(k)
      BY DEF IInv, Rows
    <3>2. \A s \in Steps : applied'[k][s] \in {0, 1}
      BY <1>5, <1>7, <3>1 DEF KeyOK
    <3>3. txs'[k].status # "none"
      BY <1>2, <1>6 DEF MessageOK
    <3>4. ~unheard'[k] /\ applied'[k]["credit"] = 1 => Unasked(k, "rollback")'
      <4>1. SUFFICES ASSUME ~unheard'[k], applied'[k]["credit"] = 1 PROVE Unasked(k, "rollback")'
        OBVIOUS
      <4>2. ~unheard[k] /\ HandlerOK(m.from) /\ stage[m.from] = m.step
        BY <1>4, <1>10, <4>1
      <4>3. CASE m.step \in {"debit", "credit"}
        BY <1>7, <1>8, <1>9, <4>2, <4>3 DEF HandlerOK
      <4>4. CASE m.step = "rollback"
        <5>1. applied[k]["credit"] = 1
          BY <1>5, <1>8, <4>1, <4>4
        <5>2. Unasked(k, "rollback")
          BY <3>1, <4>2, <5>1 DEF KeyOK
        <5>3. QED
          BY <1>8, <1>9, <5>2
      <4>5. QED
        BY <1>1, <4>3, <4>4 DEF Steps
    <3>5. txs'[k].status # "completed"
      <4>1. SUFFICES ASSUME txs[k].status = "completed" PROVE FALSE
        BY <1>2
      <4>2. Moved(k) /\ Unasked(k, "rollback")
        BY <3>1, <4>1 DEF KeyOK
      <4>3. m.step = "rollback"
        BY <1>1, <1>7, <4>2 DEF Moved
      <4>4. QED
        BY <4>2, <4>3 DEF Unasked
    <3>6. txs'[k].status = "failed" => unheard'[k]
      BY <1>2, <1>10
    <3>7. QED
      BY <1>11, <3>2, <3>3, <3>4, <3>5, <3>6 DEF KeyOK
  <2>3. QED
    BY <2>1, <2>2 DEF Rows
<1>15. Copies'
  BY DEF IInv, Copies, Save, SaveUnacknowledged, Answer
<1>16. QED
  BY <1>12, <1>13, <1>14, <1>15 DEF IInv

-----------------------------------------------------------------------------
(***************************************************************************)
(* Every step keeps the invariant.                                         *)
(***************************************************************************)

\* A handler that returns without having written its row.
LEMMA ReturnStep ==
    ASSUME IInv, TypeOK', NEW c \in Calls, NEW r \in {"none", "error"}, Return(c, r),
           UNCHANGED <<accountVars, wire, txs, observations>>
    PROVE  IInv'
<1>1. /\ stage'[c] = "done" /\ reply'[c] = r /\ call' = call
      /\ OnlyCall(c)
  BY DEF Return, SetStage, OnlyCall, IInv, TypeOK
<1>2. CallKept(c) /\ HandlerOK(c)'
  BY <1>1 DEF CallKept, HandlerOK, Owning, Steps
<1>3. QED
  BY <1>1, <1>2, QuietStep DEF accountVars, observations

\* The look-up of the key.
LEMMA LookupStep ==
    ASSUME IInv, TypeOK', NEW c \in Calls, NEW o \in Orders,
           LookupFinds(c, o) \/ LookupErrs(c, o)
    PROVE  IInv'
<1> USE DEF accountVars, observations
<1>1. /\ stage[c] = "new" /\ stage'[c] \in {"done", "insert"} /\ call'[c] = o
      /\ OnlyCall(c)
      /\ UNCHANGED <<work, wire, txs, applied, unheard, unrefunded>>
  BY DEF LookupFinds, LookupErrs, SetStage, OnlyCall, IInv, TypeOK
<1>2. CallKept(c)
  BY <1>1 DEF CallKept, Owning, Steps
<1>3. reply'[c] = "completed" => stage'[c] = "done" /\ txs'[o.key].status = "completed"
  <2>1. HandlerOK(c)
    BY DEF IInv, Handlers
  <2>2. CASE LookupFinds(c, o)
    BY <2>2 DEF LookupFinds, SetStage, IInv, TypeOK
  <2>3. CASE LookupErrs(c, o)
    BY <1>1, <2>1, <2>3 DEF LookupErrs, HandlerOK
  <2>4. QED
    BY <2>2, <2>3
<1>4. HandlerOK(c)'
  BY <1>1, <1>3 DEF HandlerOK, Owning, Steps
<1>5. QED
  BY <1>1, <1>2, <1>4, QuietStep

\* The insert of the row, and the debit that follows it.
LEMMA InsertStep ==
    ASSUME IInv, TypeOK', NEW c \in Calls, Insert(c) \/ InsertUnacknowledged(c)
    PROVE  IInv'
<1> USE DEF accountVars, observations
<1> PICK k \in Keys : k = call[c].key
  BY DEF IInv, TypeOK, Order
<1>1. /\ stage[c] = "insert" /\ txs[k].status = "none"
      /\ txs'[k].status = "pending"
      /\ \A l \in Keys : l # k => txs'[l] = txs[l]
      /\ UNCHANGED <<work, applied, unheard, unrefunded>>
  BY DEF Insert, InsertUnacknowledged, InsertRow, IInv, TypeOK
<1>2. KeyOK(k) /\ HandlerOK(c)
  BY DEF IInv, Rows, Handlers
<1>3. "debit" \in Steps /\ "credit" \in Steps /\ "rollback" \in Steps
  BY DEF Steps
<1>4. \A s \in Steps : Unasked(k, s)
  BY <1>1, <1>2 DEF KeyOK
<1>5. CASE Insert(c)
  <2>1. \A d \in Calls : stage[d] \in Owning /\ call[d].key = k => d = c
    BY <1>1 DEF IInv, Handlers, HandlerOK
  <2>2. \A m \in wire : m.key = k => m.from = c
    BY <1>1 DEF IInv, Messages, MessageOK
  <2>3. reply[c] # "completed"
    BY <1>1, <1>2 DEF HandlerOK
  <2>4. QED
    BY <1>1, <1>3, <1>4, <1>5, <2>1, <2>2, <2>3, AskStep DEF Insert
<1>6. CASE InsertUnacknowledged(c)
  <2>1. /\ stage'[c] = "done" /\ reply'[c] = "error" /\ call' = call /\ wire' = wire
        /\ OnlyCall(c)
    BY <1>6 DEF InsertUnacknowledged, Return, SetStage, OnlyCall, IInv, TypeOK
  <2>2. HandlerOK(c)'
    BY <2>1 DEF HandlerOK, Owning, Steps
  <2>3. KeyOK(k)'
    BY <1>1, <1>2, <1>3, <1>4, <2>1 DEF KeyOK, Unasked
  <2>4. QED
    BY <1>1, <2>1, <2>2, <2>3, RowStep
<1>7. QED
  BY <1>5, <1>6

\* The credit after the debit, and the rollback after a credit that failed.
LEMMA NextAskStep ==
    ASSUME IInv, TypeOK', NEW c \in Calls, DebitMade(c) \/ CreditFailed(c)
    PROVE  IInv'
<1> USE DEF accountVars, observations
<1> PICK k \in Keys : k = call[c].key
  BY DEF IInv, TypeOK, Order
<1>1. HandlerOK(c) /\ KeyOK(k)
  BY DEF IInv, Handlers, Rows
<1>2. stage[c] \in {"debit", "credit"} /\ stage[c] \in Owning /\ stage[c] \in Steps
  BY DEF DebitMade, CreditFailed, Owning, Steps
<1>3. /\ txs[k].status = "pending" /\ Unasked(k, "rollback") /\ applied[k]["debit"] = 1
      /\ reply[c] # "completed"
      /\ \A d \in Calls : stage[d] \in Owning /\ call[d].key = k => d = c
  <2>1. stage[c] = "credit" \/ (answer[c] = "ok" /\ stage[c] = "debit")
    BY DEF DebitMade, CreditFailed
  <2>2. applied[k]["debit"] = 1
    BY <1>1, <1>2, <2>1 DEF HandlerOK
  <2>3. QED
    BY <1>1, <1>2, <2>2 DEF HandlerOK
<1>4. \A m \in wire : m.key = k => m.from = c
  BY <1>2 DEF IInv, Messages, MessageOK
<1>5. UNCHANGED <<work, txs, applied, unheard, unrefunded>>
  BY DEF DebitMade, CreditFailed
<1>6. CASE DebitMade(c)
  <2>1. Unasked(k, "credit") /\ "credit" \in Steps /\ Ask(c, "credit")
    BY <1>1, <1>6 DEF HandlerOK, DebitMade, Steps
  <2>2. QED
    BY <1>2, <1>3, <1>4, <1>5, <2>1, AskStep
<1>7. CASE CreditFailed(c)
  <2>1. "rollback" \in Steps /\ Ask(c, "rollback")
    BY <1>7 DEF CreditFailed, Steps
  <2>2. ~unheard[k] => applied[k]["credit"] = 0
    BY <1>1, <1>2, <1>7 DEF HandlerOK, CreditFailed
  <2>3. QED
    BY <1>2, <1>3, <1>4, <1>5, <2>1, <2>2, AskStep
<1>8. QED
  BY <1>6, <1>7

\* The answer that ends the handler's calls.
LEMMA AnsweredStep ==
    ASSUME IInv, TypeOK', NEW c \in Calls,
           DebitFailed(c) \/ CreditMade(c) \/ RollbackAnswered(c)
    PROVE  IInv'
<1> USE DEF accountVars, observations
<1> PICK k \in Keys : k = call[c].key
  BY DEF IInv, TypeOK, Order
<1>1. HandlerOK(c) /\ KeyOK(k)
  BY DEF IInv, Handlers, Rows
<1>2. /\ stage[c] \in Steps /\ stage[c] \in Owning /\ stage'[c] \in {"complete", "fail"}
      /\ OnlyCall(c) /\ UNCHANGED <<call, reply, work, wire, txs, applied, unheard>>
  BY DEF DebitFailed, CreditMade, RollbackAnswered, GoOn, SetStage, OnlyCall, Owning, Steps,
         IInv, TypeOK
<1>3. CallKept(c)
  BY <1>2 DEF CallKept, Owning
<1>4. \A l \in Keys : unrefunded[l] => unrefunded'[l]
  BY DEF DebitFailed, CreditMade, RollbackAnswered, IInv, TypeOK
<1>5. "debit" \in Steps /\ "credit" \in Steps /\ "rollback" \in Steps
  BY DEF Steps
<1>6. \A s \in Steps : applied[k][s] \in {0, 1}
  BY <1>1 DEF KeyOK
<1>7. /\ txs[k].status = "pending" /\ reply[c] # "completed"
      /\ \A d \in Calls : stage'[d] \in Owning /\ call[d].key = k => d = c
  <2>1. stage[c] # "done"
    BY <1>2 DEF Steps
  <2>2. QED
    BY <1>1, <1>2, <2>1 DEF HandlerOK, OnlyCall
<1>8. CASE DebitFailed(c)
  <2>1. stage[c] = "debit" /\ stage'[c] = "fail"
    BY <1>8 DEF DebitFailed, GoOn, SetStage, IInv, TypeOK
  <2>2. /\ applied[k]["credit"] = 0 /\ applied[k]["rollback"] = 0
        /\ ~unheard[k] => applied[k]["debit"] = 0
    BY <1>1, <1>2, <1>8, <2>1 DEF HandlerOK, DebitFailed, Unasked
  <2>3. HandlerOK(c)'
    BY <1>2, <1>7, <2>1, <2>2 DEF HandlerOK, Balanced, Steps
  <2>4. QED
    BY <1>2, <1>3, <1>4, <2>3, QuietStep
<1>9. CASE CreditMade(c)
  <2>1. stage[c] = "credit" /\ stage'[c] = "complete" /\ answer[c] = "ok"
    BY <1>9 DEF CreditMade, GoOn, SetStage, IInv, TypeOK
  <2>2. applied[k]["credit"] = 1 /\ applied[k]["debit"] = 1 /\ Unasked(k, "rollback")
    BY <1>1, <1>2, <2>1 DEF HandlerOK
  <2>3. HandlerOK(c)'
    BY <1>2, <1>7, <2>1, <2>2 DEF HandlerOK, Unasked, Steps
  <2>4. QED
    BY <1>2, <1>3, <1>4, <2>3, QuietStep
<1>10. CASE RollbackAnswered(c)
  <2>1. stage[c] = "rollback" /\ stage'[c] = "fail" /\ answer[c] \in {"ok", "error"}
    BY <1>10 DEF RollbackAnswered, GoOn, SetStage, IInv, TypeOK
  <2>2. ~unrefunded'[k] => answer[c] = "ok"
    BY <1>10, <2>1 DEF RollbackAnswered, IInv, TypeOK
  <2>3. ~unheard[k] /\ ~unrefunded'[k] => Balanced(k)
    <3>1. SUFFICES ASSUME ~unheard[k], ~unrefunded'[k] PROVE Balanced(k)
      OBVIOUS
    <3>2. applied[k]["rollback"] = 1 /\ applied[k]["debit"] = 1
      BY <1>1, <1>2, <2>1, <2>2, <3>1 DEF HandlerOK
    <3>3. applied[k]["credit"] = 0
      BY <1>1, <1>5, <1>6, <3>1, <3>2 DEF KeyOK, Unasked
    <3>4. QED
      BY <3>2, <3>3 DEF Balanced
  <2>4. HandlerOK(c)'
    BY <1>2, <1>7, <2>1, <2>3 DEF HandlerOK, Balanced, Steps
  <2>5. QED
    BY <1>2, <1>3, <1>4, <2>4, QuietStep
<1>11. QED
  BY <1>8, <1>9, <1>10

\* The final status of the row.
LEMMA MarkStep ==
    ASSUME IInv, TypeOK', NEW c \in Calls,
           MarkFailed(c) \/ MarkFailedFails(c) \/ MarkCompleted(c) \/ MarkCompletedFails(c)
    PROVE  IInv'
<1> USE DEF accountVars, observations
<1> PICK k \in Keys : k = call[c].key
  BY DEF IInv, TypeOK, Order
<1>1. HandlerOK(c) /\ KeyOK(k)
  BY DEF IInv, Handlers, Rows
<1>2. /\ stage[c] \in {"complete", "fail"} /\ stage[c] \in Owning /\ stage'[c] = "done"
      /\ OnlyCall(c) /\ UNCHANGED <<call, work, wire, applied, unheard, unrefunded>>
      /\ reply'[c] \in {"error", "completed"}
  BY DEF MarkFailed, MarkFailedFails, MarkCompleted, MarkCompletedFails, Return, SetStage,
         OnlyCall, Owning, IInv, TypeOK
<1>3. txs[k].status = "pending"
  BY <1>1, <1>2 DEF HandlerOK
<1>4. CASE txs' = txs /\ reply'[c] = "error"
  BY <1>2, <1>4, QuietStep DEF CallKept, HandlerOK, Owning, Steps
<1>5. CASE SetStatus(c, "failed") /\ stage[c] = "fail" /\ reply'[c] = "error"
  <2>1. /\ txs'[k].status = "failed"
        /\ \A l \in Keys : l # k => txs'[l] = txs[l]
    BY <1>5 DEF SetStatus, IInv, TypeOK, Tx
  <2>2. ~unheard[k] /\ ~unrefunded[k] => Balanced(k)
    BY <1>1, <1>5 DEF HandlerOK
  <2>3. KeyOK(k)'
    BY <1>1, <1>2, <2>1, <2>2 DEF KeyOK, Unasked, Balanced
  <2>4. HandlerOK(c)'
    BY <1>2, <1>5 DEF HandlerOK, Owning, Steps
  <2>5. QED
    BY <1>2, <1>3, <2>1, <2>3, <2>4, RowStep
<1>6. CASE SetStatus(c, "completed") /\ stage[c] = "complete"
  <2>1. /\ txs'[k].status = "completed"
        /\ \A l \in Keys : l # k => txs'[l] = txs[l]
    BY <1>6 DEF SetStatus, IInv, TypeOK, Tx
  <2>2. Unasked(k, "rollback") /\ applied[k]["debit"] = 1 /\ applied[k]["credit"] = 1
    BY <1>1, <1>6 DEF HandlerOK
  <2>3. Moved(k)
    BY <2>2 DEF Moved, Unasked, Steps, IInv, TypeOK
  <2>4. KeyOK(k)'
    BY <1>1, <1>2, <2>1, <2>2, <2>3 DEF KeyOK, Unasked, Moved
  <2>5. HandlerOK(c)'
    BY <1>2, <2>1 DEF HandlerOK, Owning, Steps
  <2>6. QED
    BY <1>2, <1>3, <2>1, <2>4, <2>5, RowStep
<1>7. QED
  <2>1. \/ txs' = txs /\ reply'[c] = "error"
        \/ SetStatus(c, "failed") /\ stage[c] = "fail" /\ reply'[c] = "error"
        \/ SetStatus(c, "completed") /\ stage[c] = "complete"
    BY DEF MarkFailed, MarkFailedFails, MarkCompleted, MarkCompletedFails, Return, IInv, TypeOK
  <2>2. QED
    BY <1>4, <1>5, <1>6, <2>1

\* An error that a handler hears of a call that is under way.
LEMMA LostStep ==
    ASSUME IInv, TypeOK', NEW c \in Calls, GiveUp(c) \/ Cancel(c)
    PROVE  IInv'
<1> USE DEF accountVars, observations
<1> PICK k \in Keys : k = call[c].key
  BY DEF IInv, TypeOK, Order
<1>1. /\ UNCHANGED <<stage, call, reply, work, wire, txs, applied, unheard, unrefunded>>
      /\ answer'[c] = "ok" <=> answer[c] = "ok"
      /\ OnlyCall(c)
  BY DEF GiveUp, Cancel, OnlyCall, IInv, TypeOK
<1>2. CallKept(c)
  BY <1>1 DEF CallKept
<1>3. HandlerOK(c)'
  BY <1>1 DEF IInv, Handlers, HandlerOK, Unasked, Balanced
<1>4. QED
  BY <1>1, <1>2, <1>3, QuietStep

\* Every step keeps the invariant.
LEMMA NextIInv == IInv /\ [Next]_vars => IInv'
<1> SUFFICES ASSUME IInv, [Next]_vars PROVE IInv'
  OBVIOUS
<1>1. TypeOK'
  BY NextType DEF IInv
<1>2. ASSUME NEW c \in Calls, InsertFails(c) \/ Exit(c) PROVE IInv'
  <2>1. PICK r \in {"none", "error"} : Return(c, r)
    BY <1>2 DEF InsertFails, Exit
  <2>2. QED
    BY <1>1, <1>2, <2>1, ReturnStep DEF InsertFails, Exit
<1>3. ASSUME UNCHANGED <<wire, txs, handlerVars, applied, unheard, unrefunded>>,
             \A w \in work' : w \in work \/ w.msg \in wire
      PROVE  IInv'
  BY <1>1, <1>3 DEF handlerVars, IInv, Handlers, HandlerOK, Messages, MessageOK, Rows, KeyOK,
     Unasked, Balanced, Moved, Adjustment, Copies
<1>4. ASSUME \/ UNCHANGED vars
             \/ \E m \in wire : Load(m)
             \/ \E e \in Edits : LoadEdit(e) \/ SaveEdit(e) \/ EditFails(e)
      PROVE  IInv'
  BY <1>3, <1>4 DEF vars, accountVars, observations, Load, LoadEdit, SaveEdit, EditFails, EndEdit
<1>5. QED
  BY <1>1, <1>2, <1>4, LookupStep, InsertStep, NextAskStep, AnsweredStep, MarkStep,
     LostStep, RefuseStep, EffectStep DEF Next, Handle, Serve

\* The invariant holds in every state.
LEMMA Invariance == Spec => []IInv
BY InitIInv, NextIInv, PTL DEF Spec

-----------------------------------------------------------------------------
(***************************************************************************)
(* What follows from it.                                                   *)
(***************************************************************************)

\* Each step of a transfer takes effect at most once, however many calls come with
\* its key and whatever is delivered late.
THEOREM AppliedOnce == Spec => []OncePerKey
<1>1. IInv => OncePerKey
  <2> SUFFICES ASSUME IInv, NEW k \in Keys, NEW s \in Steps PROVE applied[k][s] <= 1
    BY DEF OncePerKey
  <2>1. applied[k][s] \in {0, 1}
    BY DEF IInv, Rows, KeyOK
  <2>2. QED
    BY <2>1
<1>2. QED
  BY <1>1, Invariance, PTL

\* The money of a transfer that is completed, or that a client was told is completed,
\* has moved.
THEOREM CompletedMoved == Spec => []CompletedIsMoved
<1>1. IInv => CompletedIsMoved
  <2> SUFFICES ASSUME IInv PROVE CompletedIsMoved
    OBVIOUS
  <2>1. \A k \in Keys : txs[k].status = "completed" => Moved(k)
    BY DEF IInv, Rows, KeyOK
  <2>2. ASSUME NEW c \in Calls, reply[c] = "completed" PROVE Moved(call[c].key)
    <3>1. txs[call[c].key].status = "completed" /\ call[c].key \in Keys
      BY <2>2 DEF IInv, Handlers, HandlerOK, TypeOK, Order
    <3>2. QED
      BY <2>1, <3>1
  <2>3. QED
    BY <2>1, <2>2 DEF CompletedIsMoved
<1>2. QED
  BY <1>1, Invariance, PTL

\* Only an effect that its handler did not hear of can pay out more than was taken.
THEOREM NothingCreated == Spec => []NoMoneyCreated
<1>1. IInv => NoMoneyCreated
  <2> SUFFICES ASSUME IInv, NEW k \in Keys, ~unheard[k]
               PROVE  applied[k]["credit"] + applied[k]["rollback"] <= applied[k]["debit"]
    BY DEF NoMoneyCreated
  <2>1. KeyOK(k)
    BY DEF IInv, Rows
  <2>2. /\ applied[k]["debit"] \in {0, 1} /\ applied[k]["credit"] \in {0, 1}
        /\ applied[k]["rollback"] \in {0, 1}
        /\ applied[k]["credit"] = 1 \/ applied[k]["rollback"] = 1 => applied[k]["debit"] = 1
    BY <2>1 DEF KeyOK, Steps
  <2>3. applied[k]["credit"] = 1 => applied[k]["rollback"] = 0
    BY <2>1 DEF KeyOK, Unasked
  <2>4. QED
    BY <2>2, <2>3
<1>2. QED
  BY <1>1, Invariance, PTL

\* A transfer with a final status took what it paid out, unless an effect went unheard
\* or the rollback was answered with an error.
THEOREM SettledBalanced == Spec => []SettledIsBalanced
<1>1. IInv => SettledIsBalanced
  <2> SUFFICES ASSUME IInv, NEW k \in Keys, txs[k].status \in {"completed", "failed"},
                      ~unheard[k], ~unrefunded[k]
               PROVE  applied[k]["debit"] = applied[k]["credit"] + applied[k]["rollback"]
    BY DEF SettledIsBalanced
  <2>1. KeyOK(k)
    BY DEF IInv, Rows
  <2>2. CASE txs[k].status = "completed"
    BY <2>1, <2>2 DEF KeyOK, Moved, Steps
  <2>3. CASE txs[k].status = "failed"
    BY <2>1, <2>3 DEF KeyOK, Balanced
  <2>4. QED
    BY <2>2, <2>3
<1>2. QED
  BY <1>1, Invariance, PTL

-----------------------------------------------------------------------------
(***************************************************************************)
(* Sums over a finite set.                                                 *)
(***************************************************************************)

\* A set of naturals that has 0 and the successor of every member has them all.
LEMMA NatIsLeast ==
    ASSUME NEW P \in SUBSET Nat, 0 \in P, \A n \in P : n + 1 \in P
    PROVE  P = Nat
<1> DEFINE T == Nat \ P
<1>1. SUFFICES ASSUME T # {} PROVE FALSE
  OBVIOUS
<1>2. PICK m \in T : \A n \in T : <<n, m>> \notin OpToRel(<, Nat)
  BY <1>1, NatLessThanWellFounded, WFMin
<1>3. m \in Nat /\ m # 0 /\ m - 1 \in Nat /\ m - 1 < m
  OBVIOUS
<1>4. <<m - 1, m>> \in OpToRel(<, Nat)
  BY <1>3 DEF OpToRel
<1>5. m - 1 \in P
  BY <1>2, <1>3, <1>4
<1>6. (m - 1) + 1 \in P /\ (m - 1) + 1 = m
  BY <1>3, <1>5
<1>7. QED
  BY <1>2, <1>6

\* The recursive function behind SumFunction, of the subsets of S in R.
Pick(s) == CHOOSE x \in s : TRUE

Sums(g, R, iter) ==
    iter = [s \in R |-> IF s = {} THEN 0 ELSE g[Pick(s)] + iter[s \ {Pick(s)}]]

\* It takes a member of the set.
LEMMA PickType == \A s : s # {} => Pick(s) \in s
BY DEF Pick

\* What SumFunction stands for.
LEMMA SumIsIter ==
    ASSUME NEW g
    PROVE  SumFunction(g) = (CHOOSE iter : Sums(g, SUBSET DOMAIN g, iter))[DOMAIN g]
BY DEF SumFunction, SumFunctionOnSet, FoldFunctionOnSet, MapThenFoldSet, Sums, Pick

\* There is such a function, by its approximations on sets of at most n elements.
LEMMA SumsExist ==
    ASSUME NEW S, IsFiniteSet(S), NEW g
    PROVE  \E iter : Sums(g, SUBSET S, iter)
<1> DEFINE Upto(n) == {s \in SUBSET S : Cardinality(s) <= n}
           P == {n \in Nat : \E iter : Sums(g, Upto(n), iter)}
<1>1. \A s \in SUBSET S : IsFiniteSet(s) /\ Cardinality(s) \in Nat /\ Cardinality(s) <= Cardinality(S)
  BY FS_Subset, FS_CardinalityType
<1>2. \A s \in SUBSET S : s # {} => s \ {Pick(s)} \in SUBSET S /\ Cardinality(s \ {Pick(s)}) = Cardinality(s) - 1
  BY <1>1, PickType, FS_RemoveElement
<1>3. 0 \in P
  <2>1. \A s \in Upto(0) : s = {}
    BY <1>1, FS_EmptySet
  <2>2. Sums(g, Upto(0), [s \in Upto(0) |-> 0])
    BY <2>1 DEF Sums
  <2>3. QED
    BY <2>2
<1>4. ASSUME NEW n \in P PROVE n + 1 \in P
  <2>1. PICK f : Sums(g, Upto(n), f)
    OBVIOUS
  <2> DEFINE h == [s \in Upto(n + 1) |-> IF s = {} THEN 0 ELSE g[Pick(s)] + f[s \ {Pick(s)}]]
  <2>2. \A s \in Upto(n) : s \in Upto(n + 1) /\ h[s] = f[s]
    <3>1. \A s \in Upto(n) : s \in Upto(n + 1)
      BY <1>1
    <3> HIDE DEF Upto
    <3>2. QED
      BY <2>1, <3>1 DEF Sums
  <2>3. \A s \in Upto(n + 1) : s # {} => s \ {Pick(s)} \in Upto(n)
    BY <1>1, <1>2
  <2>4. Sums(g, Upto(n + 1), h)
    <3> HIDE DEF Upto
    <3>1. \A s \in Upto(n + 1) : s # {} => h[s \ {Pick(s)}] = f[s \ {Pick(s)}]
      BY <2>2, <2>3
    <3>2. QED
      BY <3>1 DEF Sums
  <2> HIDE DEF h, Upto
  <2>5. QED
    BY <2>4
<1>5. Cardinality(S) \in P
  <2> HIDE DEF P
  <2>1. P \in SUBSET Nat
    BY DEF P
  <2>2. QED
    BY <1>1, <1>3, <1>4, <2>1, NatIsLeast
<1>6. Upto(Cardinality(S)) = SUBSET S
  BY <1>1
<1>7. QED
  BY <1>5, <1>6

\* The sum is such a function's value of the whole domain.
LEMMA SumOf ==
    ASSUME NEW S, IsFiniteSet(S), NEW g, DOMAIN g = S
    PROVE  \E iter : Sums(g, SUBSET S, iter) /\ SumFunction(g) = iter[S]
BY SumsExist, SumIsIter

\* A sum changes as one of its terms does.
LEMMA SumChanges ==
    ASSUME NEW S, IsFiniteSet(S), NEW g \in [S -> Int], NEW h \in [S -> Int], NEW k \in S,
           \A j \in S \ {k} : h[j] = g[j]
    PROVE  /\ SumFunction(g) \in Int
           /\ SumFunction(h) = SumFunction(g) + (h[k] - g[k])
<1>1. PICK G : Sums(g, SUBSET S, G) /\ SumFunction(g) = G[S]
  BY SumOf
<1>2. PICK H : Sums(h, SUBSET S, H) /\ SumFunction(h) = H[S]
  BY SumOf
<1> DEFINE Right(s) == /\ G[s] \in Int
                       /\ H[s] = G[s] + (IF k \in s THEN h[k] - g[k] ELSE 0)
           P == {n \in Nat : \A s \in SUBSET S : Cardinality(s) = n => Right(s)}
<1>3. \A s \in SUBSET S : IsFiniteSet(s) /\ Cardinality(s) \in Nat
  BY FS_Subset, FS_CardinalityType
<1>4. Right({})
  BY <1>1, <1>2 DEF Sums
<1>5. 0 \in P
  BY <1>3, <1>4, FS_EmptySet
<1>6. ASSUME NEW n \in P PROVE n + 1 \in P
  <2>1. SUFFICES ASSUME NEW s \in SUBSET S, Cardinality(s) = n + 1 PROVE Right(s)
    OBVIOUS
  <2>2. s # {}
    BY <1>3, <2>1, FS_EmptySet
  <2> DEFINE x == Pick(s)
             r == s \ {x}
  <2>3. x \in s /\ x \in S /\ r \in SUBSET S
    BY <2>2, PickType
  <2>4. Cardinality(r) = n
    <3> HIDE DEF x
    <3>1. IsFiniteSet(s) /\ Cardinality(s) = n + 1 /\ n \in Nat
      BY <1>3, <2>1
    <3>2. Cardinality(s \ {x}) = Cardinality(s) - 1
      BY <2>3, <3>1, FS_RemoveElement
    <3>3. QED
      BY <3>1, <3>2
  <2>5. Right(r)
    BY <2>3, <2>4
  <2>6. G[s] = g[x] + G[r] /\ H[s] = h[x] + H[r]
    BY <1>1, <1>2, <2>2 DEF Sums
  <2>7. g[x] \in Int /\ h[x] \in Int /\ g[k] \in Int /\ h[k] \in Int
    BY <2>3
  <2> HIDE DEF x
  <2>8. CASE x = k
    BY <2>3, <2>5, <2>6, <2>7, <2>8
  <2>9. CASE x # k
    BY <2>3, <2>5, <2>6, <2>7, <2>9
  <2>10. QED
    BY <2>8, <2>9
<1>7. Right(S)
  <2> HIDE DEF Right
  <2>1. P \in SUBSET Nat
    OBVIOUS
  <2>2. P = Nat
    <3> HIDE DEF P
    <3> QED BY <1>5, <1>6, <2>1, NatIsLeast
  <2>3. QED
    BY <1>3, <2>2
<1>8. QED
  BY <1>1, <1>2, <1>7

\* A sum of zeros is zero.
LEMMA SumOfZeros ==
    ASSUME NEW S, IsFiniteSet(S)
    PROVE  SumFunction([k \in S |-> 0]) = 0
<1> DEFINE g == [k \in S |-> 0]
<1>1. PICK G : Sums(g, SUBSET S, G) /\ SumFunction(g) = G[S]
  BY SumOf
<1> DEFINE P == {n \in Nat : \A s \in SUBSET S : Cardinality(s) = n => G[s] = 0}
<1>2. \A s \in SUBSET S : IsFiniteSet(s) /\ Cardinality(s) \in Nat
  BY FS_Subset, FS_CardinalityType
<1>3. 0 \in P
  BY <1>1, <1>2, FS_EmptySet DEF Sums
<1>4. ASSUME NEW n \in P PROVE n + 1 \in P
  <2>1. SUFFICES ASSUME NEW s \in SUBSET S, Cardinality(s) = n + 1 PROVE G[s] = 0
    OBVIOUS
  <2>2. s # {} /\ Pick(s) \in s
    BY <1>2, <2>1, FS_EmptySet, PickType
  <2>3. Cardinality(s \ {Pick(s)}) = n
    BY <1>2, <2>1, <2>2, FS_RemoveElement
  <2>4. G[s] = g[Pick(s)] + G[s \ {Pick(s)}]
    BY <1>1, <2>2 DEF Sums
  <2>5. QED
    BY <2>2, <2>3, <2>4
<1>5. P \in SUBSET Nat
  OBVIOUS
<1>6. P = Nat
  <2> HIDE DEF P
  <2> QED BY <1>3, <1>4, <1>5, NatIsLeast
<1>7. QED
  BY <1>1, <1>2, <1>6

-----------------------------------------------------------------------------
(***************************************************************************)
(* The books.                                                              *)
(***************************************************************************)

\* The row of a call's key says what the call asks for.
RowOf(c) ==
    LET tx == txs[call[c].key]
    IN  /\ tx.src = call[c].src
        /\ tx.dst = call[c].dst
        /\ tx.amount = call[c].amount

\* So it does of a handler that owns its row, and of one with a message under way.
Owners  == \A c \in Calls : stage[c] \in Owning => RowOf(c)
Senders == \A m \in wire : RowOf(m.from)

BooksInv == IInv /\ Owners /\ Senders /\ BooksMatch

\* A new status leaves the order of a row alone.
LEMMA SetStatusKeeps ==
    ASSUME TypeOK, NEW c \in Calls, NEW s, txs' = txs \/ SetStatus(c, s), NEW k \in Keys
    PROVE  /\ txs'[k].src = txs[k].src
           /\ txs'[k].dst = txs[k].dst
           /\ txs'[k].amount = txs[k].amount
<1>1. txs[k] \in Tx /\ call[c].key \in Keys /\ DOMAIN txs = Keys
  BY DEF TypeOK, Order
<1>2. QED
  BY <1>1 DEF SetStatus, Tx

\* A step that inserts no row.
LEMMA KeepsOrders ==
    ASSUME IInv, Owners, Senders,
           \A c \in Calls : /\ stage'[c] \in Owning => stage[c] \in Owning
                            /\ stage[c] # "new" => call'[c] = call[c],
           \A m \in wire' : \/ m \in wire
                            \/ m.from \in Calls /\ stage[m.from] \in Owning,
           \A k \in Keys : /\ txs'[k].src = txs[k].src
                           /\ txs'[k].dst = txs[k].dst
                           /\ txs'[k].amount = txs[k].amount
    PROVE  Owners' /\ Senders'
<1>1. \A c \in Calls : call[c].key \in Keys
  BY DEF IInv, TypeOK, Order
<1>2. \A c \in Calls : stage[c] # "new" /\ RowOf(c) => RowOf(c)'
  BY <1>1 DEF RowOf
<1>3. "new" \notin Owning
  BY DEF Owning, Steps
<1>4. Owners'
  BY <1>2, <1>3 DEF Owners
<1>5. \A m \in wire : m.from \in Calls /\ stage[m.from] # "new"
  BY DEF IInv, TypeOK, Message, Messages, MessageOK
<1>6. Senders'
  BY <1>2, <1>3, <1>5 DEF Owners, Senders
<1>7. QED
  BY <1>4, <1>6

\* A row is inserted for a key that no handler owned and no message was of.
LEMMA InsertsOrder ==
    ASSUME IInv, Owners, Senders, NEW c \in Calls, Insert(c) \/ InsertUnacknowledged(c)
    PROVE  Owners' /\ Senders'
<1> PICK k \in Keys : k = call[c].key
  BY DEF IInv, TypeOK, Order
<1>1. /\ InsertRow(c) /\ call' = call /\ txs[k].status = "none"
      /\ \A d \in Calls : stage'[d] = stage[d] \/ d = c
      /\ \A m \in wire' : m \in wire \/ m.from = c
  BY DEF Insert, InsertUnacknowledged, Ask, Return, SetStage, Adjustment, IInv, TypeOK
<1>2. /\ \A j \in Keys : j # k => txs'[j] = txs[j]
      /\ RowOf(c)'
  BY <1>1 DEF InsertRow, RowOf, IInv, TypeOK
<1>3. \A d \in Calls : call[d].key \in Keys
  BY DEF IInv, TypeOK, Order
<1>4. ASSUME NEW d \in Calls, RowOf(d), txs[call[d].key].status # "none"
      PROVE  RowOf(d)'
  BY <1>1, <1>2, <1>3, <1>4 DEF RowOf
<1>5. Owners'
  <2> SUFFICES ASSUME NEW d \in Calls, stage'[d] \in Owning PROVE RowOf(d)'
    BY DEF Owners
  <2>1. CASE d = c
    BY <1>2, <2>1
  <2>2. CASE d # c
    <3>1. stage[d] \in Owning /\ RowOf(d)
      BY <1>1, <2>2 DEF Owners
    <3>2. txs[call[d].key].status = "pending"
      BY <3>1 DEF IInv, Handlers, HandlerOK
    <3>3. QED
      BY <1>4, <3>1, <3>2
  <2>3. QED
    BY <2>1, <2>2
<1>6. Senders'
  <2> SUFFICES ASSUME NEW m \in wire', m.from # c PROVE RowOf(m.from)'
    BY <1>2 DEF Senders
  <2>1. m \in wire /\ m.from \in Calls /\ RowOf(m.from) /\ MessageOK(m)
    BY <1>1 DEF Senders, IInv, TypeOK, Message, Messages
  <2>2. m.key = call[m.from].key /\ txs[m.key].status # "none"
    <3> DEFINE a == Adjustment(m.from, call[m.from], m.step)
    <3>1. m = a /\ a.key = call[m.from].key
      BY <2>1 DEF MessageOK, Adjustment
    <3>2. QED
      BY <2>1, <3>1 DEF MessageOK
  <2>3. QED
    BY <1>4, <2>1, <2>2
<1>7. QED
  BY <1>5, <1>6

\* Every step keeps the rows as their handlers know them.
LEMMA NextOrders == IInv /\ Owners /\ Senders /\ [Next]_vars => Owners' /\ Senders'
<1> SUFFICES ASSUME IInv, Owners, Senders, [Next]_vars PROVE Owners' /\ Senders'
  OBVIOUS
<1> USE DEF accountVars, handlerVars, observations
<1>1. ASSUME NEW c \in Calls, NEW o \in Orders, LookupFinds(c, o) \/ LookupErrs(c, o)
      PROVE  Owners' /\ Senders'
  BY <1>1, KeepsOrders DEF LookupFinds, LookupErrs, SetStage, IInv, TypeOK, Owning, Steps
<1>2. ASSUME NEW c \in Calls,
             \/ InsertFails(c) \/ DebitFailed(c) \/ CreditMade(c) \/ RollbackAnswered(c)
             \/ MarkFailedFails(c) \/ GiveUp(c) \/ Cancel(c) \/ Exit(c)
      PROVE  Owners' /\ Senders'
  <2>1. /\ UNCHANGED <<wire, txs, call>>
        /\ \A d \in Calls : stage'[d] \in Owning => stage[d] \in Owning
    BY <1>2 DEF InsertFails, DebitFailed, CreditMade, RollbackAnswered, MarkFailedFails,
       GiveUp, Cancel, Exit, Return, GoOn, SetStage, IInv, TypeOK, Owning, Steps
  <2>2. QED
    BY <2>1, KeepsOrders
<1>3. ASSUME NEW c \in Calls, DebitMade(c) \/ CreditFailed(c) PROVE Owners' /\ Senders'
  <2>1. /\ UNCHANGED <<txs, call>> /\ stage[c] \in Owning
        /\ \A d \in Calls : d # c => stage'[d] = stage[d]
        /\ \A m \in wire' : m \in wire \/ m.from = c
    BY <1>3 DEF DebitMade, CreditFailed, Ask, SetStage, Adjustment, IInv, TypeOK, Owning, Steps
  <2>2. QED
    BY <2>1, KeepsOrders
<1>4. ASSUME NEW c \in Calls, MarkFailed(c) \/ MarkCompleted(c) \/ MarkCompletedFails(c)
      PROVE  Owners' /\ Senders'
  <2>1. /\ UNCHANGED <<wire, call>>
        /\ \A d \in Calls : stage'[d] \in Owning => stage[d] \in Owning
    BY <1>4 DEF MarkFailed, MarkCompleted, MarkCompletedFails, Return, SetStage, IInv, TypeOK,
       Owning, Steps
  <2>2. txs' = txs \/ \E s \in TxStatuses : SetStatus(c, s)
    BY <1>4 DEF MarkFailed, MarkCompleted, MarkCompletedFails, TxStatuses
  <2>3. \A k \in Keys : txs'[k].src = txs[k].src /\ txs'[k].dst = txs[k].dst
                        /\ txs'[k].amount = txs[k].amount
    BY <2>2, SetStatusKeeps DEF IInv
  <2>4. QED
    BY <2>1, <2>3, KeepsOrders
<1>5. ASSUME NEW m \in wire, Serve(m) PROVE Owners' /\ Senders'
  BY <1>5, KeepsOrders DEF Serve, Load, Save, SaveUnacknowledged, AdjustFails, Answer
<1>6. ASSUME NEW e \in Edits, LoadEdit(e) \/ SaveEdit(e) \/ EditFails(e)
      PROVE  Owners' /\ Senders'
  BY <1>6, KeepsOrders DEF LoadEdit, SaveEdit, EditFails, EndEdit
<1>7. CASE UNCHANGED vars
  BY <1>7, KeepsOrders DEF vars
<1>8. QED
  BY <1>1, <1>2, <1>3, <1>4, <1>5, <1>6, <1>7, InsertsOrder DEF Next, Handle

\* Effects are integers.
LEMMA EffectType ==
    ASSUME TypeOK, NEW k \in Keys, NEW a
    PROVE  /\ txs[k].amount \in Int
           /\ \A s \in Steps : applied[k][s] \in Nat
           /\ Effect(k, a) \in Int
<1>1. txs[k].amount \in Int /\ \A s \in Steps : applied[k][s] \in Nat
  BY DEF TypeOK, Tx
<1>2. \A x, y \in Int : x * y \in Int
  OBVIOUS
<1>3. "debit" \in Steps /\ "credit" \in Steps /\ "rollback" \in Steps
  BY DEF Steps
<1>4. /\ txs[k].amount * (applied[k]["rollback"] - applied[k]["debit"]) \in Int
      /\ txs[k].amount * applied[k]["credit"] \in Int
  BY <1>1, <1>2, <1>3
<1>5. QED
  BY <1>1, <1>4 DEF Effect

\* A transfer of which no adjustment took effect did nothing.
LEMMA NoEffect ==
    ASSUME TypeOK, NEW k \in Keys, NEW a, \A s \in Steps : applied[k][s] = 0
    PROVE  Effect(k, a) = 0
<1>1. txs[k].amount \in Int
  BY EffectType
<1>2. \A x \in Int : x * 0 = 0 /\ x * (0 - 0) = 0
  OBVIOUS
<1>3. QED
  BY <1>1, <1>2 DEF Effect, Steps

\* An adjustment that takes effect adds what it changes the account by to the effect
\* of its transfer on that account, and changes no other.
LEMMA EffectChanges ==
    ASSUME IInv, TypeOK', Senders, NEW w \in work, NEW m \in wire, m = w.msg, Apply(w),
           txs' = txs,
           NEW k \in Keys, NEW a \in Accounts
    PROVE  Effect(k, a)' = Effect(k, a) + (IF k = m.key /\ a = m.account THEN m.delta ELSE 0)
<1>1. MessageOK(m) /\ RowOf(m.from) /\ m.key \in Keys /\ m.step \in Steps
  BY DEF IInv, Messages, Senders, TypeOK, Message
<1>2. PICK tx : tx = txs[k]
  OBVIOUS
<1>3. PICK x \in [Steps -> Nat] : x = applied[k]
  BY DEF IInv, TypeOK
<1>4. CASE k # m.key
  <2>1. applied'[k] = applied[k] /\ txs'[k] = txs[k]
    BY <1>1, <1>4, AppliedChanges DEF IInv
  <2>2. Effect(k, a)' = Effect(k, a) /\ Effect(k, a) \in Int
    BY <2>1, EffectType DEF Effect, IInv
  <2>3. QED
    BY <1>4, <2>2
<1>5. CASE k = m.key
  <2>1. applied'[k] = [x EXCEPT ![m.step] = x[m.step] + 1]
    BY <1>1, <1>3, <1>5, AppliedChanges DEF IInv
  <2>2. tx.amount \in Int
    BY <1>2, EffectType DEF IInv
  <2>3. /\ m.account = IF m.step = "credit" THEN tx.dst ELSE tx.src
        /\ m.delta = IF m.step = "debit" THEN -tx.amount ELSE tx.amount
    <3> DEFINE n == Adjustment(m.from, call[m.from], m.step)
    <3>1. m = n
      BY <1>1 DEF MessageOK
    <3>2. /\ n.key = call[m.from].key
          /\ n.account = IF m.step = "credit" THEN call[m.from].dst ELSE call[m.from].src
          /\ n.delta = IF m.step = "debit" THEN -call[m.from].amount ELSE call[m.from].amount
      BY DEF Adjustment
    <3> HIDE DEF n
    <3>3. k = call[m.from].key
      BY <1>5, <3>1, <3>2
    <3>4. tx.src = call[m.from].src /\ tx.dst = call[m.from].dst /\ tx.amount = call[m.from].amount
      BY <1>1, <1>2, <3>3 DEF RowOf
    <3>5. m.account = n.account /\ m.delta = n.delta
      BY <3>1
    <3>6. QED
      BY <3>2, <3>4, <3>5
  <2> DEFINE E(y) == (IF tx.src = a THEN tx.amount * (y["rollback"] - y["debit"]) ELSE 0)
                   + (IF tx.dst = a THEN tx.amount * y["credit"] ELSE 0)
             y == [x EXCEPT ![m.step] = x[m.step] + 1]
  <2>4. Effect(k, a) = E(x) /\ Effect(k, a)' = E(y)
    BY <1>2, <1>3, <2>1 DEF Effect
  <2>5. x["rollback"] \in Int /\ x["debit"] \in Int /\ x["credit"] \in Int
    BY DEF Steps
  <2>6. \A p, q, r \in Int : /\ p * (q - (r + 1)) = p * (q - r) - p
                             /\ p * ((q + 1) - r) = p * (q - r) + p
                             /\ p * (q + 1) = p * q + p
                             /\ p * (q - r) \in Int /\ p * q \in Int
    OBVIOUS
  <2> DEFINE s == tx.amount * (x["rollback"] - x["debit"])
             d == tx.amount * x["credit"]
  <2>7. s \in Int /\ d \in Int
    BY <2>2, <2>5, <2>6
  <2>8. CASE m.step = "debit"
    <3>1. y["debit"] = x["debit"] + 1 /\ y["credit"] = x["credit"] /\ y["rollback"] = x["rollback"]
      BY <2>8 DEF Steps
    <3>2. tx.amount * (y["rollback"] - y["debit"]) = s - tx.amount /\ tx.amount * y["credit"] = d
      <4> HIDE DEF y
      <4>1. QED
        BY <2>2, <2>5, <2>6, <3>1
    <3> HIDE DEF s, d, y
    <3>3. E(x) = (IF tx.src = a THEN s ELSE 0) + (IF tx.dst = a THEN d ELSE 0)
      BY DEF s, d
    <3>4. E(y) = (IF tx.src = a THEN s - tx.amount ELSE 0) + (IF tx.dst = a THEN d ELSE 0)
      BY <3>2
    <3> HIDE DEF E
    <3>5. QED
      BY <1>5, <2>2, <2>3, <2>4, <2>7, <2>8, <3>3, <3>4
  <2>9. CASE m.step = "credit"
    <3>1. y["debit"] = x["debit"] /\ y["credit"] = x["credit"] + 1 /\ y["rollback"] = x["rollback"]
      BY <2>9 DEF Steps
    <3>2. tx.amount * (y["rollback"] - y["debit"]) = s /\ tx.amount * y["credit"] = d + tx.amount
      <4> HIDE DEF y
      <4>1. tx.amount * (x["credit"] + 1) = tx.amount * x["credit"] + tx.amount
        BY <2>2, <2>5, <2>6
      <4>2. QED
        BY <3>1, <4>1
    <3> HIDE DEF s, d, y
    <3>3. E(x) = (IF tx.src = a THEN s ELSE 0) + (IF tx.dst = a THEN d ELSE 0)
      BY DEF s, d
    <3>4. E(y) = (IF tx.src = a THEN s ELSE 0) + (IF tx.dst = a THEN d + tx.amount ELSE 0)
      BY <3>2
    <3> HIDE DEF E
    <3>5. QED
      BY <1>5, <2>2, <2>3, <2>4, <2>7, <2>9, <3>3, <3>4
  <2>10. CASE m.step = "rollback"
    <3>1. y["debit"] = x["debit"] /\ y["credit"] = x["credit"] /\ y["rollback"] = x["rollback"] + 1
      BY <2>10 DEF Steps
    <3>2. tx.amount * (y["rollback"] - y["debit"]) = s + tx.amount /\ tx.amount * y["credit"] = d
      <4> HIDE DEF y
      <4>1. tx.amount * ((x["rollback"] + 1) - x["debit"])
              = tx.amount * (x["rollback"] - x["debit"]) + tx.amount
        BY <2>2, <2>5, <2>6
      <4>2. QED
        BY <3>1, <4>1
    <3> HIDE DEF s, d, y
    <3>3. E(x) = (IF tx.src = a THEN s ELSE 0) + (IF tx.dst = a THEN d ELSE 0)
      BY DEF s, d
    <3>4. E(y) = (IF tx.src = a THEN s + tx.amount ELSE 0) + (IF tx.dst = a THEN d ELSE 0)
      BY <3>2
    <3> HIDE DEF E
    <3>5. QED
      BY <1>5, <2>2, <2>3, <2>4, <2>7, <2>10, <3>3, <3>4
  <2>11. QED
    BY <1>1, <2>8, <2>9, <2>10 DEF Steps
<1>6. QED
  BY <1>4, <1>5

\* The books match at the start: nothing took effect.
LEMMA InitBooks ==
    ASSUME IsFiniteSet(Keys)
    PROVE  Init => BooksInv
<1> SUFFICES ASSUME Init PROVE BooksInv
  OBVIOUS
<1>1. IInv
  BY InitIInv
<1>2. Owners /\ Senders
  BY DEF Init, Owners, Senders, Owning, Steps
<1>3. ASSUME NEW a \in Accounts PROVE balance[a] = Opening[a] + SumFunction(Effects(a))
  <2>1. \A k \in Keys : Effect(k, a) = 0
    BY <1>1, NoEffect DEF Init, IInv
  <2>2. Effects(a) = [k \in Keys |-> 0]
    BY <2>1 DEF Effects
  <2>3. SumFunction(Effects(a)) = 0
    BY <2>2, SumOfZeros
  <2>4. balance[a] = Opening[a] /\ Opening[a] \in Int
    BY OpeningAssumption, MaxIntAssumption DEF Init
  <2>5. QED
    BY <2>3, <2>4
<1>4. QED
  BY <1>1, <1>2, <1>3 DEF BooksInv, BooksMatch

\* No balance and no effect changes: a row is only written for a transfer of which
\* nothing took effect.
LEMMA BooksKept ==
    ASSUME BooksInv, TypeOK', applied' = applied,
           \A a \in Accounts :
              ~overwritten'[a] => ~overwritten[a] /\ balance'[a] = balance[a],
           \A k \in Keys : \/ txs[k].status = "none"
                           \/ /\ txs'[k].src = txs[k].src
                              /\ txs'[k].dst = txs[k].dst
                              /\ txs'[k].amount = txs[k].amount
    PROVE  BooksMatch'
<1>1. ASSUME NEW a \in Accounts, NEW k \in Keys PROVE Effect(k, a)' = Effect(k, a)
  <2>1. CASE txs[k].status = "none"
    <3>1. \A s \in Steps : applied[k][s] = 0 /\ applied'[k][s] = 0
      BY <2>1 DEF BooksInv, IInv, Rows, KeyOK, Unasked
    <3>2. Effect(k, a) = 0
      BY <3>1, NoEffect DEF BooksInv, IInv
    <3>3. Effect(k, a)' = 0
      <4>1. txs'[k].amount \in Int
        BY DEF TypeOK, Tx
      <4>2. \A x \in Int : x * 0 = 0 /\ x * (0 - 0) = 0
        OBVIOUS
      <4>3. QED
        BY <3>1, <4>1, <4>2 DEF Effect, Steps
    <3>4. QED
      BY <3>2, <3>3
  <2>2. CASE txs[k].status # "none"
    BY <2>2 DEF Effect
  <2>3. QED
    BY <2>1, <2>2
<1>2. \A a \in Accounts : Effects(a)' = Effects(a)
  BY <1>1 DEF Effects
<1>3. QED
  BY <1>2 DEF BooksInv, BooksMatch

\* An adjustment takes effect on the balance and on the sum alike.
LEMMA BooksMove ==
    ASSUME IsFiniteSet(Keys), BooksInv, TypeOK', NEW w \in work, Apply(w), txs' = txs
    PROVE  BooksMatch'
<1> PICK m \in wire : m = w.msg
  BY DEF BooksInv, IInv, Copies
<1>1. m.key \in Keys /\ m.account \in Accounts /\ m.delta \in Int
  BY DEF BooksInv, IInv, TypeOK, Message
<1>2. \A k \in Keys, a \in Accounts :
         /\ Effect(k, a) \in Int
         /\ Effect(k, a)' = Effect(k, a) + (IF k = m.key /\ a = m.account THEN m.delta ELSE 0)
  <2>1. IInv /\ TypeOK /\ Senders
    BY DEF BooksInv, IInv
  <2>2. QED
    BY <2>1, EffectType, EffectChanges
<1> SUFFICES ASSUME NEW a \in Accounts, ~overwritten'[a]
             PROVE  balance'[a] = Opening[a] + SumFunction(Effects(a)')
  BY DEF BooksMatch
<1>3. PICK g \in [Keys -> Int] : g = Effects(a)
  BY <1>2 DEF Effects
<1>4. PICK h \in [Keys -> Int] : h = Effects(a)'
  <2>1. \A k \in Keys : Effect(k, a)' \in Int
    BY <1>1, <1>2
  <2>2. QED
    BY <2>1 DEF Effects
<1>5. PICK k \in Keys : k = m.key
  BY <1>1
<1>6. \A j \in Keys : h[j] = g[j] + (IF j = k /\ a = m.account THEN m.delta ELSE 0)
  BY <1>2, <1>3, <1>4, <1>5 DEF Effects
<1>7. /\ \A j \in Keys \ {k} : h[j] = g[j]
      /\ h[k] - g[k] = IF a = m.account THEN m.delta ELSE 0
  BY <1>1, <1>6
<1>8. SumFunction(g) \in Int /\ SumFunction(h) = SumFunction(g) + (h[k] - g[k])
  BY <1>7, SumChanges
<1>9. balance[a] = Opening[a] + SumFunction(g) /\ Opening[a] \in Int
  <2>1. ~overwritten[a]
    BY <1>1 DEF Apply, WriteRow, BooksInv, IInv, TypeOK
  <2>2. QED
    BY <1>3, <2>1, OpeningAssumption, MaxIntAssumption DEF BooksInv, BooksMatch
<1>10. balance'[a] = balance[a] + (IF a = m.account THEN m.delta ELSE 0)
  <2>1. /\ balance \in [Accounts -> 0 .. MaxInt] /\ overwritten \in [Accounts -> BOOLEAN]
        /\ balance[a] \in Int
    BY MaxIntAssumption DEF BooksInv, IInv, TypeOK
  <2>2. /\ balance' = [balance EXCEPT ![m.account] = w.balance + m.delta]
        /\ overwritten' = [overwritten EXCEPT ![m.account] = @ \/ balance[m.account] # w.balance]
    BY DEF Apply, WriteRow
  <2>3. a = m.account => balance[a] = w.balance
    BY <2>1, <2>2
  <2>4. QED
    BY <1>1, <2>1, <2>2, <2>3
<1>11. QED
  BY <1>1, <1>4, <1>7, <1>8, <1>9, <1>10

\* Every step keeps the books.
LEMMA NextBooks ==
    ASSUME IsFiniteSet(Keys)
    PROVE  BooksInv /\ [Next]_vars => BooksInv'
<1> SUFFICES ASSUME BooksInv, [Next]_vars PROVE BooksInv'
  OBVIOUS
<1> USE DEF accountVars, handlerVars, observations
<1>1. IInv' /\ TypeOK' /\ Owners' /\ Senders'
  BY NextIInv, NextOrders DEF BooksInv, IInv
<1>2. ASSUME NEW c \in Calls, Insert(c) \/ InsertUnacknowledged(c) PROVE BooksMatch'
  <2>1. UNCHANGED <<balance, overwritten, applied>> /\ InsertRow(c)
        /\ txs[call[c].key].status = "none"
    BY <1>2 DEF Insert, InsertUnacknowledged
  <2>2. \A k \in Keys : k # call[c].key => txs'[k] = txs[k]
    BY <2>1 DEF InsertRow, BooksInv, IInv, TypeOK
  <2>3. QED
    BY <1>1, <2>1, <2>2, BooksKept
<1>3. ASSUME NEW c \in Calls, MarkFailed(c) \/ MarkCompleted(c) \/ MarkCompletedFails(c)
      PROVE  BooksMatch'
  <2>1. UNCHANGED <<balance, overwritten, applied>>
    BY <1>3 DEF MarkFailed, MarkCompleted, MarkCompletedFails
  <2>2. txs' = txs \/ \E s \in TxStatuses : SetStatus(c, s)
    BY <1>3 DEF MarkFailed, MarkCompleted, MarkCompletedFails, TxStatuses
  <2>3. \A k \in Keys : txs'[k].src = txs[k].src /\ txs'[k].dst = txs[k].dst
                        /\ txs'[k].amount = txs[k].amount
    BY <2>2, SetStatusKeeps DEF BooksInv, IInv
  <2>4. QED
    BY <1>1, <2>1, <2>3, BooksKept
<1>4. ASSUME NEW w \in work, Save(w) \/ SaveUnacknowledged(w) PROVE BooksMatch'
  BY <1>1, <1>4, BooksMove DEF Save, SaveUnacknowledged
<1>5. ASSUME UNCHANGED <<balance, overwritten, applied, txs>> PROVE BooksMatch'
  BY <1>1, <1>5, BooksKept
<1>6. ASSUME NEW c \in Calls, NEW o \in Orders, LookupFinds(c, o) \/ LookupErrs(c, o)
      PROVE  BooksMatch'
  BY <1>5, <1>6 DEF LookupFinds, LookupErrs
<1>7. ASSUME NEW c \in Calls,
             \/ InsertFails(c) \/ DebitMade(c) \/ DebitFailed(c) \/ CreditMade(c)
             \/ CreditFailed(c) \/ RollbackAnswered(c) \/ MarkFailedFails(c)
             \/ GiveUp(c) \/ Cancel(c) \/ Exit(c)
      PROVE  BooksMatch'
  BY <1>5, <1>7 DEF InsertFails, DebitMade, DebitFailed, CreditMade, CreditFailed,
     RollbackAnswered, MarkFailedFails, GiveUp, Cancel, Exit
<1>8. ASSUME NEW m \in wire, Load(m) \/ AdjustFails(m) PROVE BooksMatch'
  BY <1>5, <1>8 DEF Load, AdjustFails
<1>9. ASSUME NEW e \in Edits, LoadEdit(e) \/ SaveEdit(e) \/ EditFails(e) PROVE BooksMatch'
  <2>1. CASE SaveEdit(e)
    <3>1. Edited[e] \in Accounts
      BY EditedAssumption
    <3>2. \A a \in Accounts :
             ~overwritten'[a] => ~overwritten[a] /\ balance'[a] = balance[a]
      BY <2>1, <3>1 DEF SaveEdit, WriteRow, BooksInv, IInv, TypeOK
    <3>3. QED
      BY <1>1, <2>1, <3>2, BooksKept DEF SaveEdit, EndEdit
  <2>2. CASE LoadEdit(e) \/ EditFails(e)
    BY <1>5, <2>2 DEF LoadEdit, EditFails, EndEdit
  <2>3. QED
    BY <1>9, <2>1, <2>2
<1>10. ASSUME UNCHANGED vars PROVE BooksMatch'
  BY <1>5, <1>10 DEF vars
<1>11. BooksMatch'
  BY <1>2, <1>3, <1>4, <1>6, <1>7, <1>8, <1>9, <1>10 DEF Next, Handle, Serve
<1>12. QED
  BY <1>1, <1>11 DEF BooksInv

\* The rows of the transaction service account for the balance of an account that no
\* operation wrote over, whatever was lost, delivered late or compensated. The set of keys is finite: of infinitely
\* many there is no sum.
THEOREM BooksAgree ==
    ASSUME IsFiniteSet(Keys)
    PROVE  Spec => []BooksMatch
<1>1. BooksInv => BooksMatch
  BY DEF BooksInv
<1>2. QED
  BY <1>1, InitBooks, NextBooks, PTL DEF Spec

-----------------------------------------------------------------------------
(***************************************************************************)
(* The refinement.                                                         *)
(***************************************************************************)
Status == [k \in Keys |-> txs[k].status]

\* No status and no effect: a stuttering step of the abstract transfer.
LEMMA Stutter == txs' = txs /\ applied' = applied => UNCHANGED Abstract!vars
BY DEF Abstract!vars

\* A row gets a status: the abstract transfer is accepted, completed or failed.
LEMMA StatusStep ==
    ASSUME IInv, NEW c \in Calls, NEW k \in Keys, k = call[c].key, applied' = applied,
           \/ InsertRow(c) /\ txs[k].status = "none"
           \/ SetStatus(c, "completed") /\ stage[c] = "complete"
           \/ SetStatus(c, "failed") /\ stage[c] = "fail"
    PROVE  Abstract!Next
<1>1. HandlerOK(c) /\ applied[k] \in [Steps -> Nat]
  BY DEF IInv, Handlers, TypeOK
<1>2. CASE InsertRow(c) /\ txs[k].status = "none"
  <2>1. Status' = [Status EXCEPT ![k] = "pending"] /\ Status[k] = "none"
    BY <1>2 DEF InsertRow, Status, IInv, TypeOK
  <2>2. QED
    BY <2>1 DEF Abstract!Next, Abstract!Accept, Status
<1>3. CASE SetStatus(c, "completed") /\ stage[c] = "complete"
  <2>1. Status' = [Status EXCEPT ![k] = "completed"]
    BY <1>3 DEF SetStatus, Status, IInv, TypeOK, Tx
  <2>2. Status[k] = "pending"
    BY <1>1, <1>3 DEF HandlerOK, Owning, Status
  <2>3. Abstract!Moved(k)
    <3>1. applied[k]["debit"] = 1 /\ applied[k]["credit"] = 1 /\ applied[k]["rollback"] = 0
      BY <1>1, <1>3 DEF HandlerOK, Unasked
    <3>2. QED
      BY <1>1, <3>1 DEF Abstract!Moved, Steps
  <2>4. QED
    BY <2>1, <2>2, <2>3 DEF Abstract!Next, Abstract!Complete, Status
<1>4. CASE SetStatus(c, "failed") /\ stage[c] = "fail"
  <2>1. Status' = [Status EXCEPT ![k] = "failed"]
    BY <1>4 DEF SetStatus, Status, IInv, TypeOK, Tx
  <2>2. Status[k] = "pending"
    BY <1>1, <1>4 DEF HandlerOK, Owning, Status
  <2>3. QED
    BY <2>1, <2>2 DEF Abstract!Next, Abstract!Fail, Status
<1>5. QED
  BY <1>2, <1>3, <1>4

\* An adjustment takes effect: one of the three steps of the abstract transfer.
LEMMA DoStep ==
    ASSUME IInv, NEW w \in work, Apply(w), txs' = txs
    PROVE  Abstract!Next
<1> PICK m \in wire : m = w.msg
  BY DEF IInv, Copies
<1> PICK k \in Keys, s \in Steps : k = m.key /\ s = m.step
  BY DEF IInv, TypeOK, Message
<1>1. MessageOK(m) /\ KeyOK(k) /\ txs[k].status \in TxStatuses
  BY DEF IInv, Messages, Rows, TypeOK, Tx
<1>2. applied[k][s] = 0 /\ txs[k].status # "none" /\ (s # "debit" => applied[k]["debit"] = 1)
  BY <1>1 DEF MessageOK
<1>3. txs[k].status # "completed"
  BY <1>1, <1>2 DEF KeyOK, Moved, Unasked
<1>4. applied' = [applied EXCEPT ![k][s] = 1]
  BY <1>2 DEF Apply
<1>5. Status[k] \in {"pending", "failed"} /\ Status' = Status
  BY <1>1, <1>2, <1>3 DEF Status, TxStatuses
<1>6. Abstract!Do(k, s)
  BY <1>2, <1>4, <1>5 DEF Abstract!Do, Status
<1>7. QED
  BY <1>6 DEF Abstract!Next, Steps

\* Every step is one of the abstract transfer, or none.
LEMMA Simulation == IInv /\ [Next]_vars => [Abstract!Next]_(Abstract!vars)
<1> SUFFICES ASSUME IInv, [Next]_vars PROVE [Abstract!Next]_(Abstract!vars)
  OBVIOUS
<1> USE DEF accountVars, handlerVars, observations
<1>1. \A d \in Calls : call[d].key \in Keys
  BY DEF IInv, TypeOK, Order
<1>2. ASSUME NEW c \in Calls, Insert(c) \/ InsertUnacknowledged(c) PROVE Abstract!Next
  BY <1>1, <1>2, StatusStep DEF Insert, InsertUnacknowledged
<1>3. ASSUME NEW c \in Calls, MarkFailed(c) \/ MarkCompleted(c) \/ MarkCompletedFails(c)
      PROVE  Abstract!Next \/ (txs' = txs /\ applied' = applied)
  BY <1>1, <1>3, StatusStep DEF MarkFailed, MarkCompleted, MarkCompletedFails
<1>4. ASSUME NEW w \in work, Save(w) \/ SaveUnacknowledged(w) PROVE Abstract!Next
  BY <1>4, DoStep DEF Save, SaveUnacknowledged
<1>5. ASSUME NEW c \in Calls, NEW o \in Orders, LookupFinds(c, o) \/ LookupErrs(c, o)
      PROVE  txs' = txs /\ applied' = applied
  BY <1>5 DEF LookupFinds, LookupErrs
<1>6. ASSUME NEW c \in Calls,
             \/ InsertFails(c) \/ DebitMade(c) \/ DebitFailed(c) \/ CreditMade(c)
             \/ CreditFailed(c) \/ RollbackAnswered(c) \/ MarkFailedFails(c)
             \/ GiveUp(c) \/ Cancel(c) \/ Exit(c)
      PROVE  txs' = txs /\ applied' = applied
  BY <1>6 DEF InsertFails, DebitMade, DebitFailed, CreditMade, CreditFailed, RollbackAnswered,
     MarkFailedFails, GiveUp, Cancel, Exit
<1>7. ASSUME NEW m \in wire, Load(m) \/ AdjustFails(m) PROVE txs' = txs /\ applied' = applied
  BY <1>7 DEF Load, AdjustFails
<1>8. ASSUME NEW e \in Edits, LoadEdit(e) \/ SaveEdit(e) \/ EditFails(e)
      PROVE  txs' = txs /\ applied' = applied
  BY <1>8 DEF LoadEdit, SaveEdit, EditFails, EndEdit
<1>9. CASE UNCHANGED vars
  BY <1>9, Stutter DEF vars
<1>10. QED
  BY <1>2, <1>3, <1>4, <1>5, <1>6, <1>7, <1>8, <1>9, Stutter DEF Next, Handle, Serve

\* The handlers, messages and failures implement the transfer that TransferSpec states.
THEOREM TransferImplemented == Spec => ImplementsTransfer
<1>1. Init => Abstract!Init
  BY DEF Init, Abstract!Init, Steps
<1>2. QED
  BY <1>1, Simulation, Invariance, PTL DEF Spec, ImplementsTransfer, Abstract!Spec
=============================================================================
