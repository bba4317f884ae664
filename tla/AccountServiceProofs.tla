------------------------ MODULE AccountServiceProofs ------------------------
(***************************************************************************)
(* What is proved of AccountService for every set of accounts and of       *)
(* requests, every width of the integers and every opening balance.        *)
(***************************************************************************)
EXTENDS AccountService, FiniteSetTheorems, SequenceTheorems, TLAPS

-----------------------------------------------------------------------------
(***************************************************************************)
(* The operations on rows.                                                 *)
(***************************************************************************)

\* Go's addition of two int64 values is an int64.
LEMMA Plus64Type ==
    ASSUME NEW x \in Int64, NEW y \in Int64
    PROVE  Plus64(x, y) \in Int64
BY MaxIntAssumption DEF Plus64, Int64

\* What a handler computes from a row is a row.
LEMMA RowTypes ==
    /\ \A row \in Row, adj \in Int64 : Adjusted(row, adj) \in Row
    /\ \A row \in Row, status \in Statuses : Restatused(row, status) \in Row
    /\ \A row \in Row : Toggled(row) \in Row
    /\ \A b \in Int64 : NewRow(b) \in Row
<1>1. ASSUME NEW row \in Row, NEW adj \in Int64 PROVE Adjusted(row, adj) \in Row
  <2>1. Plus64(row.balance, adj) \in Int64 /\ Plus64(row.available, adj) \in Int64
    BY Plus64Type DEF Row, RowOver
  <2>2. QED
    BY <2>1 DEF Adjusted, Row, RowOver
<1>2. 0 \in Int64
  BY MaxIntAssumption DEF Int64
<1>3. QED
  BY <1>1, <1>2 DEF Restatused, Toggled, NewRow, Row, RowOver, Statuses

\* The operation of a handler keeps a row a row over the integers.
LEMMA AppliedType ==
    ASSUME NEW w \in Work, NEW row \in RowOver(Int)
    PROVE  Applied(w, row) \in RowOver(Int)
<1>1. w.amount \in Int
  BY MaxIntAssumption DEF Work, Int64
<1>2. w.copy.status \in Statuses
  BY DEF Work, Row, RowOver
<1>3. CASE w.kind = "adjust"
  <2>1. Applied(w, row) = [row EXCEPT !.balance   = @ + w.amount,
                                      !.available = @ + w.amount]
    BY <1>3 DEF Applied
  <2>2. row.balance + w.amount \in Int /\ row.available + w.amount \in Int
    BY <1>1 DEF RowOver
  <2>3. QED
    BY <2>1, <2>2 DEF RowOver
<1>4. CASE w.kind = "status"
  BY <1>2, <1>4 DEF Applied, Restatused, RowOver
<1>5. CASE w.kind = "favorite"
  BY <1>5 DEF Applied, Toggled, RowOver
<1>6. CASE w.kind = "create"
  BY <1>6 DEF Applied, NewRow, RowOver, Statuses
<1>7. QED
  BY <1>3, <1>4, <1>5, <1>6 DEF Work

\* The entry of a handler is a ledger entry.
LEMMA EntryType ==
    ASSUME TypeOK, NEW r \in Requests
    PROVE  EntryOf(r) \in Entry
BY DEF TypeOK, EntryOf, Entry, Work, Row, RowOver

-----------------------------------------------------------------------------
(***************************************************************************)
(* Type correctness.                                                       *)
(***************************************************************************)

\* The locals of a request that has not arrived have their type.
LEMMA NoWorkType == NoWork \in Work
<1>1. (CHOOSE a \in Accounts : TRUE) \in Accounts
  BY AccountsAssumption
<1>2. 0 \in Int64
  BY MaxIntAssumption DEF Int64
<1>3. NewRow(0) \in Row
  BY <1>2, RowTypes
<1>4. QED
  BY <1>1, <1>2, <1>3 DEF NoWork, Work

\* The accounts of Opening have int64 balances.
LEMMA InitTypeOK == Init => TypeOK
<1> SUFFICES ASSUME Init PROVE TypeOK
  OBVIOUS
<1>1. \A a \in Accounts : OpeningOf(a) \in Int64
  BY OpeningAssumption, MaxIntAssumption DEF OpeningOf, Int64
<1>2. rows \in [Accounts -> Row]
  BY <1>1, RowTypes DEF Init
<1>3. Row \subseteq RowOver(Int)
  BY MaxIntAssumption DEF Row, RowOver, Int64
<1>4. serial \in [Accounts -> RowOver(Int)]
  BY <1>2, <1>3 DEF Init
<1>5. QED
  BY <1>2, <1>4, NoWorkType, OpeningAssumption DEF Init, TypeOK

\* One case for each action that a request can take.
LEMMA NextTypeOK == TypeOK /\ [Next]_vars => TypeOK'
<1> SUFFICES ASSUME TypeOK, [Next]_vars PROVE TypeOK'
  OBVIOUS
<1>1. ASSUME NEW r \in Requests, NEW w \in Work, Begin(r, w) PROVE TypeOK'
  BY <1>1 DEF TypeOK, Begin, tables, observations
<1>2. ASSUME NEW r \in Requests, NEW answer \in {"none", "ok", "error"}, Return(r, answer)
      PROVE  /\ stage' \in [Requests -> {"new", "save", "ledger", "done"}]
             /\ work' \in [Requests -> Work]
             /\ reply' \in [Requests -> {"none", "ok", "error"}]
  BY <1>2, NoWorkType DEF TypeOK, Return
<1>3. ASSUME NEW r \in Requests, Commit(r)
      PROVE  /\ opened' \in SUBSET Accounts
             /\ rows' \in [Accounts -> Row]
             /\ ledger' \in SUBSET Entry
             /\ serial' \in [Accounts -> RowOver(Int)]
             /\ overwritten' \in [Accounts -> BOOLEAN]
  <2> DEFINE a == work[r].target
  <2>1. work[r] \in Work /\ a \in Accounts /\ work[r].copy \in Row
    BY DEF TypeOK, Work
  <2>2. Applied(work[r], serial[a]) \in RowOver(Int)
    BY <2>1, AppliedType DEF TypeOK
  <2>3. QED
    BY <1>3, <2>1, <2>2 DEF TypeOK, Commit
<1>4. ASSUME NEW r \in Requests, LeaveUnlogged(r)
      PROVE  unlogged' \in SUBSET Entry
  BY <1>4, EntryType DEF TypeOK, LeaveUnlogged
<1>5. ASSUME NEW r \in Requests, Arrive(r) PROVE TypeOK'
  <2>1. \A a \in Accounts : rows[a] \in Row
    BY DEF TypeOK
  <2>2. 0 \in Int64
    BY MaxIntAssumption DEF Int64
  <2>3. ASSUME NEW a \in Accounts, NEW adj \in Adjustments, LoadForAdjust(r, a, adj)
        PROVE  TypeOK'
    <3>1. [kind |-> "adjust", target |-> a, amount |-> adj,
           seen |-> rows[a], copy |-> Adjusted(rows[a], adj)] \in Work
      BY <2>1, RowTypes, AdjustmentsAssumption DEF Work
    <3>2. QED
      BY <1>1, <2>3, <3>1 DEF LoadForAdjust
  <2>4. ASSUME NEW a \in Accounts, NEW status \in Statuses, LoadForStatus(r, a, status)
        PROVE  TypeOK'
    <3>1. [kind |-> "status", target |-> a, amount |-> 0,
           seen |-> rows[a], copy |-> Restatused(rows[a], status)] \in Work
      BY <2>1, <2>2, RowTypes DEF Work
    <3>2. QED
      BY <1>1, <2>4, <3>1 DEF LoadForStatus
  <2>5. ASSUME NEW a \in Accounts, LoadForFavorite(r, a) PROVE TypeOK'
    <3>1. [kind |-> "favorite", target |-> a, amount |-> 0,
           seen |-> rows[a], copy |-> Toggled(rows[a])] \in Work
      BY <2>1, <2>2, RowTypes DEF Work
    <3>2. QED
      BY <1>1, <2>5, <3>1 DEF LoadForFavorite
  <2>6. ASSUME NEW a \in Accounts, StartCreate(r, a) PROVE TypeOK'
    <3>1. [kind |-> "create", target |-> a, amount |-> 0,
           seen |-> NewRow(0), copy |-> NewRow(0)] \in Work
      BY <2>2, RowTypes DEF Work
    <3>2. QED
      BY <1>1, <2>6, <3>1 DEF StartCreate
  <2>7. ASSUME Return(r, "error"), UNCHANGED <<tables, observations>> PROVE TypeOK'
    BY <1>2, <2>7 DEF TypeOK, tables, observations
  <2>8. QED
    BY <1>5, <2>3, <2>4, <2>5, <2>6, <2>7 DEF Arrive, RefuseAdjust, LoadFails
<1>6. ASSUME NEW r \in Requests, Continue(r) PROVE TypeOK'
  <2>1. CASE SaveThenLog(r)
    BY <1>3, <2>1 DEF SaveThenLog, TypeOK
  <2>2. CASE SaveThenReturn(r)
    BY <1>2, <1>3, <2>2 DEF SaveThenReturn, TypeOK
  <2>3. CASE SaveFails(r)
    BY <1>2, <2>3 DEF SaveFails, TypeOK, tables, observations
  <2>4. CASE SaveUnacknowledged(r)
    BY <1>2, <1>3, <1>4, <2>4 DEF SaveUnacknowledged, TypeOK
  <2>5. CASE InsertEntry(r)
    BY <1>2, <2>5, EntryType DEF InsertEntry, TypeOK, observations
  <2>6. CASE InsertEntryFails(r)
    BY <1>2, <1>4, <2>6 DEF InsertEntryFails, TypeOK, tables
  <2>7. QED
    BY <1>6, <2>1, <2>2, <2>3, <2>4, <2>5, <2>6 DEF Continue
<1>7. ASSUME NEW r \in Requests, Exit(r) PROVE TypeOK'
  <2>1. unlogged' \in SUBSET Entry
    BY <1>4, <1>7 DEF Exit, TypeOK
  <2>2. QED
    BY <1>2, <1>7, <2>1 DEF Exit, TypeOK, tables
<1>8. CASE UNCHANGED vars
  BY <1>8 DEF TypeOK, vars, tables, handlers, observations
<1>9. QED
  BY <1>5, <1>6, <1>7, <1>8 DEF Next

\* Every variable keeps its type: in particular the balances that AdjustBalance
\* saves are int64 values whatever is added.
THEOREM TypeCorrect == Spec => []TypeOK
<1>1. QED
  BY InitTypeOK, NextTypeOK, PTL DEF Spec

-----------------------------------------------------------------------------
(***************************************************************************)
(* The inductive invariant.  The safety properties speak of the rows only, *)
(* but a row is replaced by what a handler computed from an older row; the *)
(* invariant therefore says the same of every copy that a handler holds,   *)
(* and that the copy is its operation applied, without a wrap-around, to   *)
(* the row it loaded.                                                      *)
(***************************************************************************)
RowSound(row) ==
    /\ row.balance >= 0
    /\ row.available = row.balance
    /\ row.reserved = 0
    /\ row.status = "closed" => row.dated

WorkSound(w) ==
    /\ RowSound(w.seen)
    /\ RowSound(w.copy)
    /\ w.copy = Applied(w, w.seen)
    /\ w.kind = "adjust" => w.seen.status = "active"
    /\ w.kind = "create" => w.seen = NewRow(0)

IInv ==
    /\ \A a \in Accounts : RowSound(rows[a])
    /\ \A r \in Requests : WorkSound(work[r])
    /\ \A a \in Accounts : ~overwritten[a] => rows[a] = serial[a]

\* An adjustment that is not refused does not wrap around: balance and
\* available balance are equal, so a sum that wraps is found negative and
\* refused, and what is saved is the exact sum.
LEMMA AdjustedExact ==
    ASSUME NEW row \in Row, RowSound(row), NEW adj \in Int64, ~Refused(row, adj)
    PROVE  /\ Adjusted(row, adj) = [row EXCEPT !.balance   = @ + adj,
                                               !.available = @ + adj]
           /\ RowSound(Adjusted(row, adj))
           /\ row.status = "active"
<1>1. row.balance \in 0 .. MaxInt /\ row.available = row.balance
  BY DEF RowSound, Row, RowOver, Int64
<1>2. Adjusted(row, adj).available = Plus64(row.balance, adj)
  BY <1>1 DEF Adjusted, Row, RowOver
<1>3. Plus64(row.balance, adj) >= 0
  <2>1. Plus64(row.balance, adj) \in Int
    BY <1>1, MaxIntAssumption DEF Plus64, Int64
  <2>2. QED
    BY <1>2, <2>1 DEF Refused
<1>4. Plus64(row.balance, adj) = row.balance + adj
  BY <1>1, <1>3, MaxIntAssumption DEF Plus64, Int64
<1>5. Adjusted(row, adj) = [row EXCEPT !.balance = @ + adj, !.available = @ + adj]
  BY <1>1, <1>4 DEF Adjusted
<1>6. RowSound(Adjusted(row, adj))
  BY <1>1, <1>3, <1>4, <1>5 DEF RowSound, Row, RowOver
<1>7. QED
  BY <1>5, <1>6 DEF Refused

\* A new row is sound if it is not overdrawn.
LEMMA NewRowSound == \A b \in Nat : RowSound(NewRow(b))
BY DEF NewRow, RowSound

\* The handler of a new account, and the locals of no handler, are sound.
LEMMA CreateSound ==
    ASSUME NEW w \in Work, w.kind = "create", w.seen = NewRow(0), w.copy = NewRow(0)
    PROVE  WorkSound(w)
<1>1. Applied(w, w.seen) = NewRow(0)
  BY DEF Applied
<1>2. QED
  BY <1>1, NewRowSound DEF WorkSound

\* A request that has not arrived is about to save nothing unsound.
LEMMA NoWorkSound == WorkSound(NoWork)
BY CreateSound, NoWorkType DEF NoWork

\* The accounts of Opening are not overdrawn, and nothing was overwritten yet.
LEMMA InitIInv == Init => IInv
<1> SUFFICES ASSUME Init PROVE IInv
  OBVIOUS
<1>1. \A a \in Accounts : OpeningOf(a) \in Nat
  BY OpeningAssumption, MaxIntAssumption DEF OpeningOf
<1>2. QED
  BY <1>1, NewRowSound, NoWorkSound DEF Init, IInv

\* The first call leaves a sound copy behind.
LEMMA BeginIInv ==
    ASSUME TypeOK, IInv, NEW r \in Requests, NEW w \in Work, WorkSound(w), Begin(r, w)
    PROVE  IInv'
BY DEF TypeOK, IInv, Begin, tables, observations

\* A handler that returns leaves no copy behind.
LEMMA ReturnSound ==
    ASSUME TypeOK, IInv, NEW r \in Requests, NEW answer, Return(r, answer)
    PROVE  \A q \in Requests : WorkSound(work'[q])
BY NoWorkSound DEF TypeOK, IInv, Return

\* A save puts a sound row in place of a sound row, and if it replaces the row
\* that was loaded it does what the operation does.
LEMMA CommitSound ==
    ASSUME TypeOK, IInv, NEW r \in Requests, Commit(r)
    PROVE  /\ \A a \in Accounts : RowSound(rows'[a])
           /\ \A a \in Accounts : ~overwritten'[a] => rows'[a] = serial'[a]
<1> DEFINE w == work[r]
           t == work[r].target
<1>1. w \in Work /\ t \in Accounts /\ WorkSound(w)
  BY DEF TypeOK, IInv, Work
<1>2. rows'[t] = w.copy /\ serial'[t] = Applied(w, serial[t])
  BY <1>1 DEF TypeOK, Commit
<1>3. \A a \in Accounts \ {t} : /\ rows'[a] = rows[a]
                                /\ serial'[a] = serial[a]
                                /\ overwritten'[a] = overwritten[a]
  BY <1>1 DEF TypeOK, Commit
<1>4. ASSUME ~overwritten'[t] PROVE rows'[t] = serial'[t]
  <2>1. ~overwritten[t] /\ rows[t] = w.seen
    BY <1>1, <1>4 DEF TypeOK, Commit
  <2>2. serial[t] = w.seen
    BY <1>1, <2>1 DEF IInv
  <2>3. QED
    BY <1>1, <1>2, <2>2 DEF WorkSound
<1>5. RowSound(rows'[t])
  BY <1>1, <1>2 DEF WorkSound
<1>6. QED
  BY <1>3, <1>4, <1>5 DEF IInv

\* The invariant survives the first repository call of a request: what a
\* handler computes from a sound row is sound, whether it goes on or refuses.
LEMMA ArriveIInv ==
    ASSUME TypeOK, IInv, NEW r \in Requests, Arrive(r)
    PROVE  IInv'
<1>1. \A a \in Accounts : rows[a] \in Row /\ RowSound(rows[a])
  BY DEF TypeOK, IInv
<1>2. 0 \in Int64
  BY MaxIntAssumption DEF Int64
<1>3. ASSUME NEW a \in Accounts, NEW adj \in Adjustments, LoadForAdjust(r, a, adj)
      PROVE  IInv'
  <2> DEFINE w == [kind |-> "adjust", target |-> a, amount |-> adj,
                   seen |-> rows[a], copy |-> Adjusted(rows[a], adj)]
  <2>1. adj \in Int64 /\ w \in Work
    BY <1>1, RowTypes, AdjustmentsAssumption DEF Work
  <2>2. w.copy = [w.seen EXCEPT !.balance = @ + w.amount, !.available = @ + w.amount]
    BY <1>1, <1>3, <2>1, AdjustedExact DEF LoadForAdjust
  <2>3. w.copy = Applied(w, w.seen)
    <3>1. w.kind = "adjust"
      OBVIOUS
    <3>2. Applied(w, w.seen) = [w.seen EXCEPT !.balance   = @ + w.amount,
                                              !.available = @ + w.amount]
      <4> HIDE DEF w
      <4> QED BY <3>1 DEF Applied
    <3>3. QED
      BY <2>2, <3>2
  <2>4. RowSound(w.seen) /\ RowSound(w.copy) /\ w.seen.status = "active"
    BY <1>1, <1>3, <2>1, AdjustedExact DEF LoadForAdjust
  <2>5. WorkSound(w)
    BY <2>3, <2>4 DEF WorkSound
  <2>6. Begin(r, w)
    BY <1>3 DEF LoadForAdjust
  <2>7. QED
    BY <2>1, <2>5, <2>6, BeginIInv
<1>4. ASSUME NEW a \in Accounts, NEW status \in Statuses, LoadForStatus(r, a, status)
      PROVE  IInv'
  <2> DEFINE w == [kind |-> "status", target |-> a, amount |-> 0,
                   seen |-> rows[a], copy |-> Restatused(rows[a], status)]
  <2>1. w \in Work
    BY <1>1, <1>2, RowTypes DEF Work
  <2>2. w.copy.status = status
    BY <1>1 DEF Restatused, Row, RowOver
  <2>3. w.copy = Applied(w, w.seen)
    <3>1. Applied(w, w.seen) = Restatused(w.seen, w.copy.status)
      BY DEF Applied
    <3>2. QED
      BY <2>2, <3>1
  <2>4. RowSound(w.copy)
    BY <1>1 DEF RowSound, Restatused, Row, RowOver
  <2>5. WorkSound(w)
    BY <1>1, <2>3, <2>4 DEF WorkSound
  <2>6. QED
    BY <1>4, <2>1, <2>5, BeginIInv DEF LoadForStatus
<1>5. ASSUME NEW a \in Accounts, LoadForFavorite(r, a) PROVE IInv'
  <2> DEFINE w == [kind |-> "favorite", target |-> a, amount |-> 0,
                   seen |-> rows[a], copy |-> Toggled(rows[a])]
  <2>1. w \in Work
    BY <1>1, <1>2, RowTypes DEF Work
  <2>2. w.copy = Applied(w, w.seen)
    BY DEF Applied
  <2>3. RowSound(w.copy)
    BY <1>1 DEF RowSound, Toggled, Row, RowOver
  <2>4. WorkSound(w)
    BY <1>1, <2>2, <2>3 DEF WorkSound
  <2>5. QED
    BY <1>5, <2>1, <2>4, BeginIInv DEF LoadForFavorite
<1>6. ASSUME NEW a \in Accounts, StartCreate(r, a) PROVE IInv'
  <2> DEFINE w == [kind |-> "create", target |-> a, amount |-> 0,
                   seen |-> NewRow(0), copy |-> NewRow(0)]
  <2>1. w \in Work
    BY <1>2, RowTypes DEF Work
  <2>2. WorkSound(w)
    BY <2>1, CreateSound
  <2>3. QED
    BY <1>6, <2>1, <2>2, BeginIInv DEF StartCreate
<1>7. ASSUME Return(r, "error"), UNCHANGED <<tables, observations>> PROVE IInv'
  BY <1>7, ReturnSound DEF IInv, tables, observations
<1>8. QED
  BY <1>3, <1>4, <1>5, <1>6, <1>7 DEF Arrive, RefuseAdjust, LoadFails

\* The invariant survives every later repository call: what is saved is sound.
LEMMA ContinueIInv ==
    ASSUME TypeOK, IInv, NEW r \in Requests, Continue(r) \/ Exit(r)
    PROVE  IInv'
<1>1. CASE SaveThenLog(r)
  BY <1>1, CommitSound DEF SaveThenLog, IInv
<1>2. CASE SaveThenReturn(r)
  BY <1>2, CommitSound, ReturnSound DEF SaveThenReturn, IInv
<1>3. CASE SaveFails(r)
  BY <1>3, ReturnSound DEF SaveFails, IInv, tables, observations
<1>4. CASE SaveUnacknowledged(r)
  BY <1>4, CommitSound, ReturnSound DEF SaveUnacknowledged, IInv
<1>5. CASE InsertEntry(r)
  BY <1>5, ReturnSound DEF InsertEntry, IInv, observations
<1>6. CASE InsertEntryFails(r)
  BY <1>6, ReturnSound DEF InsertEntryFails, IInv, tables
<1>7. CASE Exit(r)
  BY <1>7, ReturnSound DEF Exit, IInv, tables
<1>8. QED
  BY <1>1, <1>2, <1>3, <1>4, <1>5, <1>6, <1>7 DEF Continue

\* The invariant survives every step.
LEMMA NextIInv == TypeOK /\ IInv /\ [Next]_vars => IInv'
<1> SUFFICES ASSUME TypeOK, IInv, [Next]_vars PROVE IInv'
  OBVIOUS
<1>1. CASE UNCHANGED vars
  BY <1>1 DEF IInv, vars, tables, handlers, observations
<1>2. QED
  BY <1>1, ArriveIInv, ContinueIInv DEF Next

\* Rows, and the copies that handlers are about to save, are sound in every state:
\* the invariant from which the safety properties of the rows follow.
THEOREM Inductive == Spec => [](TypeOK /\ IInv)
<1>1. Spec => []IInv
  BY InitIInv, NextIInv, TypeCorrect, PTL DEF Spec
<1>2. QED
  BY <1>1, TypeCorrect, PTL

-----------------------------------------------------------------------------
(***************************************************************************)
(* The safety properties.                                                  *)
(***************************************************************************)

\* No account is ever overdrawn and its balances agree, however the handlers
\* interleave and whatever int64 they are asked to add.
THEOREM NeverOverdrawn == Spec => []BalanceChecks
<1>1. TypeOK /\ IInv => BalanceChecks
  <2> SUFFICES ASSUME TypeOK, IInv, NEW a \in opened
               PROVE  /\ rows[a].balance >= 0
                      /\ rows[a].available >= 0
                      /\ rows[a].available = rows[a].balance - rows[a].reserved
    BY DEF BalanceChecks
  <2>1. rows[a] \in Row /\ RowSound(rows[a])
    BY DEF TypeOK, IInv
  <2>2. rows[a].balance \in Int
    BY <2>1, MaxIntAssumption DEF Row, RowOver, Int64
  <2>3. QED
    BY <2>1, <2>2 DEF RowSound
<1>2. QED
  BY <1>1, Inductive, PTL

\* No stale save separates the status "closed" from the date of the closing.
THEOREM ClosedStaysDated == Spec => []ClosedIsDated
<1>1. TypeOK /\ IInv => ClosedIsDated
  BY DEF TypeOK, IInv, RowSound, ClosedIsDated
<1>2. QED
  BY <1>1, Inductive, PTL

\* Saving over a row that was not loaded is the only way to lose a committed
\* operation.
THEOREM SerialRows == Spec => []SerialUnlessOverwritten
<1>1. TypeOK /\ IInv => SerialUnlessOverwritten
  BY DEF TypeOK, IInv, SerialUnlessOverwritten
<1>2. QED
  BY <1>1, Inductive, PTL

\* A commit that changes the balance of an account that is not active is a
\* commit over a row that the handler did not load: its copy differs from the
\* row it loaded in the balance only if it loaded an active row.
LEMMA CommitInactive ==
    ASSUME TypeOK, IInv, NEW r \in Requests, Commit(r), NEW a \in opened,
           rows[a].status # "active", rows'[a].balance # rows[a].balance
    PROVE  overwritten'[a]
<1> DEFINE w == work[r]
<1>1. w \in Work /\ WorkSound(w) /\ w.target \in Accounts /\ a \in Accounts
  BY DEF TypeOK, IInv, Work
<1>2. a = w.target
  BY <1>1 DEF TypeOK, Commit
<1>3. rows'[a] = w.copy
  BY <1>1, <1>2 DEF TypeOK, Commit
<1>4. overwritten'[a] = (overwritten[a] \/ rows[a] # w.seen)
  BY <1>1, <1>2 DEF TypeOK, Commit
<1>5. SUFFICES ASSUME rows[a] = w.seen PROVE FALSE
  BY <1>4
<1>6. w.kind \in {"status", "favorite", "create"}
  BY <1>1, <1>5 DEF WorkSound, Work
<1>7. w.copy = Applied(w, w.seen) /\ w.seen \in Row
  BY <1>1 DEF WorkSound, Work
<1>8. CASE w.kind = "status"
  <2>1. w.copy = Restatused(w.seen, w.copy.status)
    BY <1>7, <1>8 DEF Applied
  <2>2. Restatused(w.seen, w.copy.status).balance = w.seen.balance
    BY <1>7 DEF Restatused, Row, RowOver
  <2>3. QED
    BY <1>3, <1>5, <2>1, <2>2
<1>9. CASE w.kind = "favorite"
  <2>1. w.copy = Toggled(w.seen)
    BY <1>7, <1>9 DEF Applied
  <2>2. Toggled(w.seen).balance = w.seen.balance
    BY <1>7 DEF Toggled, Row, RowOver
  <2>3. QED
    BY <1>3, <1>5, <2>1, <2>2
<1>10. CASE w.kind = "create"
  <2>1. w.copy = NewRow(0) /\ w.seen = NewRow(0)
    BY <1>1, <1>7, <1>10 DEF Applied, WorkSound
  <2>2. QED
    BY <1>3, <1>5, <2>1
<1>11. QED
  BY <1>6, <1>8, <1>9, <1>10

\* The rows change by a commit only.
LEMMA RowsChange ==
    ASSUME [Next]_vars, rows' # rows
    PROVE  \E r \in Requests : Commit(r)
<1>1. PICK r \in Requests : Arrive(r) \/ Continue(r) \/ Exit(r)
  BY DEF Next, vars, tables
<1>2. ~Arrive(r)
  BY DEF Arrive, LoadForAdjust, RefuseAdjust, LoadForStatus, LoadForFavorite,
         StartCreate, LoadFails, Begin, tables
<1>3. ~Exit(r)
  BY DEF Exit, tables
<1>4. QED
  BY <1>1, <1>2, <1>3 DEF Continue, SaveThenLog, SaveThenReturn, SaveFails,
     SaveUnacknowledged, InsertEntry, InsertEntryFails, tables

\* A frozen, closed or dormant account keeps its balance unless a handler that
\* loaded it before overwrites it.
THEOREM InactiveUntouched == Spec => InactiveIsUntouched
<1> DEFINE Kept == \A a \in opened :
                      rows[a].status # "active" /\ rows'[a].balance # rows[a].balance
                         => overwritten'[a]
<1>1. TypeOK /\ IInv /\ [Next]_vars => Kept
  BY RowsChange, CommitInactive
<1>2. TypeOK /\ IInv /\ [Next]_vars => [Kept]_vars
  BY <1>1
<1> HIDE DEF Kept
<1>3. Spec => [][Kept]_vars
  BY <1>2, Inductive, PTL DEF Spec
<1>4. QED
  BY <1>3 DEF Kept, InactiveIsUntouched

-----------------------------------------------------------------------------
(***************************************************************************)
(* The origin of a balance.  The invariant adds what a handler that writes *)
(* no entry is about to save, and that only a handler with an entry calls  *)
(* the ledger.                                                             *)
(***************************************************************************)
OriginInv ==
    /\ \A a \in Accounts : HasOrigin(a, rows[a].balance)
    /\ \A r \in Requests :
          stage[r] = "save" /\ ~HasEntry(work[r])
             => HasOrigin(work[r].target, work[r].copy.balance)
    /\ \A r \in Requests : stage[r] = "ledger" => HasEntry(work[r])

\* An operation that is not an adjustment saves the balance it loaded.
LEMMA BalanceCarried ==
    /\ \A row \in Row, status \in Statuses : Restatused(row, status).balance = row.balance
    /\ \A row \in Row : Toggled(row).balance = row.balance
BY DEF Restatused, Toggled, Row, RowOver

\* A step of one request leaves the entries of the others in the account.
LEMMA EntriesKept ==
    ASSUME TypeOK, OriginInv, [Next]_vars, NEW a \in Accounts
    PROVE  Entries(a) \subseteq Entries(a)'
<1>1. ASSUME NEW r \in Requests, stage[r] = "new" \/ stage[r] = "save",
             \A q \in Requests \ {r} : stage'[q] = stage[q] /\ work'[q] = work[q]
      PROVE  Pending \subseteq Pending'
  BY <1>1 DEF Pending, EntryOf
<1>2. CASE UNCHANGED vars
  BY <1>2 DEF Entries, Pending, EntryOf, vars, tables, handlers, observations
<1>3. ASSUME NEW r \in Requests, Arrive(r)
      PROVE  Entries(a) \subseteq Entries(a)'
  <2>1. /\ stage[r] = "new"
        /\ \A q \in Requests \ {r} : stage'[q] = stage[q] /\ work'[q] = work[q]
        /\ UNCHANGED <<ledger, unlogged>>
    BY <1>3 DEF TypeOK, Arrive, LoadForAdjust, RefuseAdjust, LoadForStatus,
       LoadForFavorite, StartCreate, LoadFails, Begin, Return, tables, observations
  <2>2. QED
    BY <1>1, <2>1 DEF Entries
<1>4. ASSUME NEW r \in Requests, Continue(r) \/ Exit(r), stage[r] = "save"
      PROVE  Entries(a) \subseteq Entries(a)'
  <2>1. /\ \A q \in Requests \ {r} : stage'[q] = stage[q] /\ work'[q] = work[q]
        /\ ledger' = ledger
        /\ unlogged \subseteq unlogged'
    BY <1>4 DEF TypeOK, Continue, SaveThenLog, SaveThenReturn, SaveFails,
       SaveUnacknowledged, InsertEntry, InsertEntryFails, Exit, Commit, Return,
       LeaveUnlogged, tables, observations
  <2>2. QED
    BY <1>1, <1>4, <2>1 DEF Entries
<1>5. ASSUME NEW r \in Requests, Continue(r) \/ Exit(r), stage[r] = "ledger"
      PROVE  Entries(a) \subseteq Entries(a)'
  <2>1. /\ \A q \in Requests \ {r} : stage'[q] = stage[q] /\ work'[q] = work[q]
        /\ ledger \subseteq ledger'
        /\ unlogged \subseteq unlogged'
    BY <1>5 DEF TypeOK, Continue, SaveThenLog, SaveThenReturn, SaveFails,
       SaveUnacknowledged, InsertEntry, InsertEntryFails, Exit, Commit, Return,
       LeaveUnlogged, tables, observations
  <2>2. EntryOf(r) \in ledger' \cup unlogged'
    BY <1>5 DEF OriginInv, Continue, SaveThenLog, SaveThenReturn, SaveFails,
       SaveUnacknowledged, InsertEntry, InsertEntryFails, Exit, LeaveUnlogged
  <2>3. Pending \subseteq Pending' \cup {EntryOf(r)}
    BY <2>1 DEF Pending, EntryOf
  <2>4. QED
    BY <2>1, <2>2, <2>3 DEF Entries
<1>6. ASSUME NEW r \in Requests, Continue(r) \/ Exit(r)
      PROVE  stage[r] = "save" \/ stage[r] = "ledger"
  BY <1>6 DEF Continue, SaveThenLog, SaveThenReturn, SaveFails,
     SaveUnacknowledged, InsertEntry, InsertEntryFails, Exit
<1>7. QED
  BY <1>2, <1>3, <1>4, <1>5, <1>6 DEF Next

\* What had an origin keeps it.
LEMMA OriginKept ==
    ASSUME TypeOK, OriginInv, [Next]_vars
    PROVE  \A a \in Accounts, b \in Int : HasOrigin(a, b) => HasOrigin(a, b)'
BY EntriesKept DEF HasOrigin

\* The opening balances are their own origin.
LEMMA InitOrigin == Init => OriginInv
BY DEF Init, OriginInv, HasOrigin, NewRow

\* No step saves a balance that neither the opening nor an operation explains.
LEMMA NextOrigin == TypeOK /\ OriginInv /\ [Next]_vars => OriginInv'
<1> SUFFICES ASSUME TypeOK, OriginInv, [Next]_vars PROVE OriginInv'
  OBVIOUS
<1>1. /\ \A a \in Accounts : rows[a] \in Row /\ rows[a].balance \in Int
      /\ \A r \in Requests : /\ work[r] \in Work /\ work[r].target \in Accounts
                             /\ work[r].copy.balance \in Int
  BY MaxIntAssumption DEF TypeOK, Work, Row, RowOver, Int64
<1>2. CASE UNCHANGED vars
  <2>1. UNCHANGED <<rows, stage, work, ledger, unlogged>>
    BY <1>2 DEF vars, tables, handlers, observations
  <2>2. QED
    BY <2>1 DEF OriginInv, HasOrigin, HasEntry, Entries, Pending, EntryOf
<1>3. ASSUME NEW r \in Requests, Arrive(r) PROVE OriginInv'
  <2>1. rows' = rows
    BY <1>3 DEF Arrive, LoadForAdjust, RefuseAdjust, LoadForStatus, LoadForFavorite,
       StartCreate, LoadFails, Begin, tables
  <2>2. \A q \in Requests \ {r} : stage'[q] = stage[q] /\ work'[q] = work[q]
    BY <1>3 DEF TypeOK, Arrive, LoadForAdjust, RefuseAdjust, LoadForStatus,
       LoadForFavorite, StartCreate, LoadFails, Begin, Return
  <2>3. stage'[r] \in {"save", "done"}
    BY <1>3 DEF TypeOK, Arrive, LoadForAdjust, RefuseAdjust, LoadForStatus,
       LoadForFavorite, StartCreate, LoadFails, Begin, Return
  <2>4. ASSUME stage'[r] = "save", ~HasEntry(work'[r])
        PROVE  /\ work'[r].target \in Accounts
               /\ work'[r].copy.balance = rows[work'[r].target].balance
    BY <1>1, <1>3, <2>4, BalanceCarried DEF TypeOK, HasEntry, Arrive, LoadForAdjust,
       RefuseAdjust, LoadForStatus, LoadForFavorite, StartCreate, LoadFails,
       Begin, Return
  <2>5. \A a \in Accounts : HasOrigin(a, rows[a].balance)'
    BY <1>1, <2>1, OriginKept DEF OriginInv, HasOrigin
  <2>6. ASSUME NEW q \in Requests, stage'[q] = "save", ~HasEntry(work'[q])
        PROVE  HasOrigin(work[q].target, work[q].copy.balance)'
    <3>1. CASE q = r
      BY <2>1, <2>4, <2>5, <2>6, <3>1 DEF HasOrigin
    <3>2. CASE q # r
      BY <1>1, <2>2, <2>6, <3>2, OriginKept DEF OriginInv, HasOrigin, Entries
    <3>3. QED
      BY <3>1, <3>2
  <2>7. QED
    BY <2>2, <2>3, <2>5, <2>6 DEF OriginInv, HasEntry
<1>4. ASSUME NEW r \in Requests, Continue(r) \/ Exit(r) PROVE OriginInv'
  <2>1. /\ \A q \in Requests \ {r} : stage'[q] = stage[q] /\ work'[q] = work[q]
        /\ stage'[r] # "save"
        /\ stage'[r] = "ledger" => work'[r] = work[r] /\ HasEntry(work[r])
    BY <1>4 DEF TypeOK, Continue, SaveThenLog, SaveThenReturn, SaveFails,
       SaveUnacknowledged, InsertEntry, InsertEntryFails, Exit, Return
  <2>2. ASSUME rows' # rows
        PROVE  /\ Commit(r)
               /\ stage[r] = "save"
               /\ HasEntry(work[r]) => EntryOf(r) \in unlogged' \cup Pending'
    BY <1>4, <2>2 DEF TypeOK, Continue, SaveThenLog, SaveThenReturn, SaveFails,
       SaveUnacknowledged, InsertEntry, InsertEntryFails, Exit, LeaveUnlogged,
       Pending, EntryOf, tables
  <2>3. ASSUME rows' # rows, NEW a \in Accounts, a = work[r].target
        PROVE  HasOrigin(a, rows[a].balance)'
    <3>1. rows'[a] = work[r].copy
      BY <2>2, <2>3 DEF TypeOK, Commit
    <3>2. CASE HasEntry(work[r])
      <4>1. EntryOf(r) \in Entries(a)'
        BY <2>2, <2>3, <3>2 DEF Entries, EntryOf
      <4>2. EntryOf(r).after = rows'[a].balance
        BY <3>1 DEF EntryOf
      <4>3. QED
        BY <4>1, <4>2 DEF HasOrigin
    <3>3. CASE ~HasEntry(work[r])
      <4>1. HasOrigin(a, work[r].copy.balance)
        BY <2>2, <2>3, <3>3 DEF OriginInv
      <4>2. QED
        BY <1>1, <3>1, <4>1, OriginKept DEF HasOrigin
    <3>4. QED
      BY <3>2, <3>3
  <2>4. ASSUME NEW a \in Accounts PROVE HasOrigin(a, rows[a].balance)'
    <3>1. CASE rows' # rows /\ a = work[r].target
      BY <2>3, <3>1
    <3>2. CASE rows' = rows \/ a # work[r].target
      <4>1. rows'[a] = rows[a]
        BY <1>1, <2>2, <3>2 DEF TypeOK, Commit
      <4>2. QED
        BY <1>1, <4>1, OriginKept DEF OriginInv, HasOrigin
    <3>3. QED
      BY <3>1, <3>2
  <2>5. ASSUME NEW q \in Requests, stage'[q] = "save", ~HasEntry(work'[q])
        PROVE  HasOrigin(work[q].target, work[q].copy.balance)'
    BY <1>1, <2>1, <2>5, OriginKept DEF OriginInv, HasOrigin, Entries
  <2>6. QED
    BY <2>1, <2>4, <2>5 DEF OriginInv, HasEntry
<1>5. QED
  BY <1>2, <1>3, <1>4 DEF Next

\* No interleaving invents a balance: every balance is the opening balance or
\* what some operation on the account computed and has, or had, to log.
THEOREM NoInventedBalance == Spec => []BalanceHasOrigin
<1>1. TypeOK /\ OriginInv => BalanceHasOrigin
  BY DEF TypeOK, OriginInv, BalanceHasOrigin
<1>2. Spec => []OriginInv
  BY InitOrigin, NextOrigin, TypeCorrect, PTL DEF Spec
<1>3. QED
  BY <1>1, <1>2, TypeCorrect, PTL

-----------------------------------------------------------------------------
(***************************************************************************)
(* The chain of the ledger.  Its entries are a set, and a handler inserts  *)
(* its own late or never; but a commit over the row that was loaded gives  *)
(* the chain one more entry where it ends, and nothing else gives it any.  *)
(***************************************************************************)
\* A chain that is given one more entry, from where it ends.
LEMMA ChainGrows ==
    ASSUME NEW S, IsFiniteSet(S), NEW s \in SetToSeqs(S), NEW from, NEW e, e \notin S,
           IsChain(s, from, e.before)
    PROVE  \E t \in SetToSeqs(S \cup {e}) : IsChain(t, from, e.after)
<1> DEFINE n == Cardinality(S)
           t == Append(s, e)
<1>1. n \in Nat /\ Cardinality(S \cup {e}) = n + 1
  BY FS_CardinalityType, FS_AddElement
<1>2. s \in [1..n -> S] /\ \A i, j \in 1..n : i # j => s[i] # s[j]
  BY DEF SetToSeqs
<1>3. s \in Seq(S) /\ Len(s) = n
  BY <1>1, <1>2
<1>4. s \in Seq(S \cup {e})
  BY <1>3, SeqMonotonic
<1>5. /\ t \in Seq(S \cup {e}) /\ Len(t) = n + 1 /\ t # <<>>
      /\ \A i \in 1..n : t[i] = s[i]
      /\ t[n + 1] = e
  <2>1. e \in S \cup {e}
    OBVIOUS
  <2>2. /\ t \in Seq(S \cup {e}) /\ Len(t) = Len(s) + 1 /\ t # <<>>
        /\ \A i \in 1..Len(s) : t[i] = s[i]
        /\ t[Len(s) + 1] = e
    BY <1>4, <2>1, AppendProperties
  <2>3. QED
    BY <1>3, <2>2
<1>6. t \in [1..(n + 1) -> S \cup {e}]
  BY <1>5, LenProperties
<1> HIDE DEF n, t
<1>7. \A i, j \in 1..(n + 1) : i # j => t[i] # t[j]
  BY <1>1, <1>2, <1>5
<1>8. t \in SetToSeqs(S \cup {e})
  BY <1>1, <1>6, <1>7 DEF SetToSeqs
<1>9. IsChain(t, from, e.after)
  <2>1. CASE n = 0
    <3>1. s = <<>>
      BY <1>3, <2>1, EmptySeq
    <3>2. from = e.before
      BY <3>1 DEF IsChain
    <3>3. t[1] = e /\ t[Len(t)] = e
      BY <1>5, <2>1
    <3>4. QED
      BY <1>5, <2>1, <3>2, <3>3 DEF IsChain
  <2>2. CASE n # 0
    <3>1. n \in Nat \ {0} /\ s # <<>>
      BY <1>1, <1>3, <2>2, EmptySeq
    <3>2. /\ s[1].before = from /\ s[n].after = e.before
          /\ \A i \in 1..(n - 1) : s[i].after = s[i + 1].before
      BY <1>3, <3>1 DEF IsChain
    <3>3. ASSUME NEW i \in 1..n PROVE t[i].after = t[i + 1].before
      <4>1. CASE i = n
        BY <1>5, <3>1, <3>2, <4>1
      <4>2. CASE i # n
        BY <1>5, <3>1, <3>2, <4>2
      <4>3. QED
        BY <4>1, <4>2
    <3>4. t[1].before = from /\ t[n + 1].after = e.after
      BY <1>5, <3>1, <3>2
    <3>5. QED
      BY <1>5, <3>1, <3>3, <3>4 DEF IsChain
  <2>3. QED
    BY <2>1, <2>2
<1>10. QED
  BY <1>8, <1>9

\* An entry that was inserted, or lost, is of a request that is over.
LoggedAreDone == \A e \in ledger \cup unlogged : stage[e.reference] = "done"

Chained(a) == \E s \in SetToSeqs(Entries(a)) : IsChain(s, OpeningOf(a), rows[a].balance)

ChainInv ==
    /\ LoggedAreDone
    /\ \A a \in Accounts : IsFiniteSet(Entries(a))
    /\ \A a \in Accounts : ~overwritten[a] => Chained(a)

\* There are no entries yet, and the empty chain leads from the opening balances to
\* themselves.
LEMMA InitChain == Init => ChainInv
<1> SUFFICES ASSUME Init PROVE ChainInv
  OBVIOUS
<1>1. \A a \in Accounts : Entries(a) = {}
  BY DEF Init, Entries, Pending
<1>2. <<>> \in SetToSeqs({}) /\ IsFiniteSet({})
  <2>1. <<>> \in [1..0 -> {}]
    BY EmptySeq, LenProperties
  <2>2. Cardinality({}) = 0 /\ IsFiniteSet({})
    BY FS_EmptySet
  <2>3. QED
    BY <2>1, <2>2 DEF SetToSeqs
<1>3. \A a \in Accounts : rows[a].balance = OpeningOf(a)
  BY DEF Init, NewRow
<1>4. \A b : IsChain(<<>>, b, b)
  BY EmptySeq DEF IsChain
<1>5. \A a \in Accounts : Chained(a)
  BY <1>1, <1>2, <1>3, <1>4 DEF Chained
<1>6. QED
  BY <1>1, <1>2, <1>5 DEF Init, ChainInv, LoggedAreDone

\* r commits and has an entry to log.
Logs(r) == HasEntry(work[r]) /\ (SaveThenLog(r) \/ SaveUnacknowledged(r))

\* What a step adds to the entries: the entry of a commit, that no request had before.
LEMMA EntriesStep ==
    ASSUME TypeOK, IInv, OriginInv, ChainInv, [Next]_vars
    PROVE  \/ /\ \A a \in Accounts : Entries(a)' = Entries(a)
              /\ \A a \in Accounts : ~overwritten'[a] =>
                    ~overwritten[a] /\ rows'[a].balance = rows[a].balance
           \/ \E r \in Requests :
                 /\ Commit(r)
                 /\ \A a \in Accounts : EntryOf(r) \notin Entries(a)
                 /\ \A a \in Accounts : Entries(a)' =
                   IF a = work[r].target THEN Entries(a) \cup {EntryOf(r)} ELSE Entries(a)
<1>1. CASE UNCHANGED vars
  BY <1>1 DEF Entries, Pending, EntryOf, vars, tables, handlers, observations
<1>2. ASSUME NEW r \in Requests, Arrive(r)
      PROVE  UNCHANGED <<rows, overwritten>> /\ \A a \in Accounts : Entries(a)' = Entries(a)
  <2>1. /\ stage[r] = "new" /\ stage'[r] \in {"save", "done"}
        /\ \A q \in Requests \ {r} : stage'[q] = stage[q] /\ work'[q] = work[q]
        /\ UNCHANGED <<rows, overwritten, ledger, unlogged>>
    BY <1>2 DEF TypeOK, Arrive, LoadForAdjust, RefuseAdjust, LoadForStatus,
       LoadForFavorite, StartCreate, LoadFails, Begin, Return, tables, observations
  <2>2. Pending' = Pending
    BY <2>1 DEF Pending, EntryOf
  <2>3. QED
    BY <2>1, <2>2 DEF Entries
<1>3. ASSUME NEW r \in Requests, Continue(r) \/ Exit(r)
      PROVE  /\ \A q \in Requests \ {r} : stage'[q] = stage[q] /\ work'[q] = work[q]
             /\ stage[r] \in {"save", "ledger"}
             /\ stage'[r] = "ledger" => stage[r] = "save" /\ Commit(r) /\ HasEntry(work[r])
                                       /\ work'[r] = work[r]
             /\ stage'[r] \in {"ledger", "done"}
  BY <1>3 DEF TypeOK, Continue, SaveThenLog, SaveThenReturn, SaveFails,
     SaveUnacknowledged, InsertEntry, InsertEntryFails, Exit, Return
<1>4. ASSUME NEW r \in Requests, Commit(r), ~HasEntry(work[r]), NEW a \in Accounts, ~overwritten'[a]
      PROVE  ~overwritten[a] /\ rows'[a].balance = rows[a].balance
  <2> DEFINE w == work[r]
  <2>1. w \in Work /\ WorkSound(w) /\ w.target \in Accounts
    BY DEF TypeOK, IInv, Work
  <2>2. CASE a # w.target
    BY <1>4, <2>1, <2>2 DEF TypeOK, Commit
  <2>3. CASE a = w.target
    <3>1. ~overwritten[a] /\ rows[a] = w.seen /\ rows'[a] = w.copy
      BY <1>4, <2>1, <2>3 DEF TypeOK, Commit
    <3>2. w.kind \in {"status", "favorite"} /\ w.copy = Applied(w, w.seen) /\ w.seen \in Row
      BY <1>4, <2>1 DEF HasEntry, WorkSound, Work
    <3>3. w.copy.status \in Statuses
      BY <2>1 DEF Work, Row, RowOver
    <3>4. w.copy.balance = w.seen.balance
      <4>1. CASE w.kind = "status"
        <5>1. w.copy = Restatused(w.seen, w.copy.status)
          BY <3>2, <4>1 DEF Applied
        <5>2. QED
          BY <3>2, <3>3, <5>1, BalanceCarried
      <4>2. CASE w.kind = "favorite"
        <5>1. w.copy = Toggled(w.seen)
          BY <3>2, <4>2 DEF Applied
        <5>2. QED
          BY <3>2, <5>1, BalanceCarried
      <4>3. QED
        BY <3>2, <4>1, <4>2
    <3>5. QED
      BY <3>1, <3>4
  <2>4. QED
    BY <2>2, <2>3
<1>5. ASSUME NEW r \in Requests, Continue(r) \/ Exit(r), stage[r] = "ledger"
      PROVE  UNCHANGED <<rows, overwritten>> /\ \A a \in Accounts : Entries(a)' = Entries(a)
  <2>1. /\ UNCHANGED <<rows, overwritten>> /\ HasEntry(work[r])
        /\ stage'[r] = "done"
        /\ ledger' \cup unlogged' = ledger \cup unlogged \cup {EntryOf(r)}
    BY <1>5 DEF OriginInv, TypeOK, Continue, SaveThenLog, SaveThenReturn, SaveFails,
       SaveUnacknowledged, InsertEntry, InsertEntryFails, Exit, LeaveUnlogged, Return,
       tables, observations
  <2>2. Pending = Pending' \cup {EntryOf(r)}
    BY <1>3, <1>5, <2>1 DEF Pending, EntryOf
  <2>3. ledger' \cup unlogged' \cup Pending' = ledger \cup unlogged \cup Pending
    BY <2>1, <2>2
  <2>4. QED
    BY <2>1, <2>3 DEF Entries
<1>6. ASSUME NEW r \in Requests, Logs(r)
      PROVE  /\ \A a \in Accounts : EntryOf(r) \notin Entries(a)
             /\ \A a \in Accounts : Entries(a)' =
                   IF a = work[r].target THEN Entries(a) \cup {EntryOf(r)} ELSE Entries(a)
  <2>1. EntryOf(r).reference = r /\ stage[r] = "save" /\ Continue(r)
    BY <1>6 DEF EntryOf, Logs, SaveThenLog, SaveUnacknowledged, Continue
  <2>2. EntryOf(r) \notin ledger \cup unlogged
    BY <2>1 DEF ChainInv, LoggedAreDone
  <2>3. EntryOf(r) \notin Pending
    BY <2>1 DEF Pending, EntryOf
  <2>4. \/ /\ stage'[r] = "ledger" /\ work'[r] = work[r]
           /\ UNCHANGED <<ledger, unlogged>>
        \/ /\ stage'[r] = "done"
           /\ ledger' = ledger /\ unlogged' = unlogged \cup {EntryOf(r)}
    BY <1>6 DEF TypeOK, Logs, SaveThenLog, SaveUnacknowledged, LeaveUnlogged, Return, Commit
  <2>5. Pending' = Pending \cup (IF stage'[r] = "ledger" THEN {EntryOf(r)} ELSE {})
    BY <1>3, <2>1, <2>4 DEF Pending, EntryOf
  <2>6. ledger' \cup unlogged' \cup Pending' = ledger \cup unlogged \cup Pending \cup {EntryOf(r)}
    BY <2>4, <2>5
  <2>7. EntryOf(r).account = work[r].target
    BY DEF EntryOf
  <2>8. QED
    BY <2>2, <2>3, <2>6, <2>7 DEF Entries
<1>7. ASSUME NEW r \in Requests, Continue(r) \/ Exit(r), stage[r] = "save", ~Logs(r)
      PROVE  /\ \A a \in Accounts : Entries(a)' = Entries(a)
             /\ (Commit(r) /\ ~HasEntry(work[r])) \/ UNCHANGED <<rows, overwritten>>
  <2>1. /\ (Commit(r) /\ ~HasEntry(work[r])) \/ UNCHANGED <<rows, overwritten>>
        /\ UNCHANGED <<ledger, unlogged>> /\ stage'[r] = "done"
    BY <1>7 DEF Logs, TypeOK, Continue, SaveThenLog, SaveThenReturn, SaveFails,
       SaveUnacknowledged, InsertEntry, InsertEntryFails, Exit, LeaveUnlogged, Return,
       Commit, tables, observations
  <2>2. Pending' = Pending
    BY <1>3, <1>7, <2>1 DEF Pending, EntryOf
  <2>3. QED
    BY <2>1, <2>2 DEF Entries
<1>8. ASSUME NEW r \in Requests, Logs(r) PROVE Commit(r)
  BY <1>8 DEF Logs, SaveThenLog, SaveUnacknowledged
<1>9. ASSUME NEW r \in Requests, Arrive(r) \/ Continue(r) \/ Exit(r), ~Logs(r)
      PROVE  /\ \A a \in Accounts : Entries(a)' = Entries(a)
             /\ (Commit(r) /\ ~HasEntry(work[r])) \/ UNCHANGED <<rows, overwritten>>
  BY <1>2, <1>3, <1>5, <1>7, <1>9
<1>10. QED
  <2>1. ASSUME NEW r \in Requests, Arrive(r) \/ Continue(r) \/ Exit(r), ~Logs(r),
               NEW a \in Accounts, ~overwritten'[a]
        PROVE  ~overwritten[a] /\ rows'[a].balance = rows[a].balance
    <3>1. CASE UNCHANGED <<rows, overwritten>>
      BY <2>1, <3>1
    <3>2. CASE Commit(r) /\ ~HasEntry(work[r])
      BY <1>4, <2>1, <3>2
    <3>3. QED
      BY <1>9, <2>1, <3>1, <3>2
  <2>2. CASE UNCHANGED vars
    BY <1>1, <2>2 DEF vars, tables, observations
  <2>3. CASE \E r \in Requests : Logs(r)
    BY <1>6, <1>8, <2>3
  <2>4. CASE \E r \in Requests : (Arrive(r) \/ Continue(r) \/ Exit(r)) /\ ~Logs(r)
    BY <1>9, <2>1, <2>4
  <2>5. QED
    BY <2>2, <2>3, <2>4 DEF Next

\* What was logged or lost stays so, and its request stays answered.
LEMMA LoggedStep ==
    ASSUME TypeOK, IInv, OriginInv, ChainInv, [Next]_vars
    PROVE  LoggedAreDone'
<1>1. CASE UNCHANGED vars
  BY <1>1 DEF ChainInv, LoggedAreDone, vars, tables, handlers, observations
<1>2. ASSUME NEW r \in Requests, Arrive(r) \/ Continue(r) \/ Exit(r)
      PROVE  /\ \A q \in Requests \ {r} : stage'[q] = stage[q]
             /\ stage[r] # "done"
             /\ \/ UNCHANGED <<ledger, unlogged>>
                \/ /\ stage'[r] = "done"
                   /\ ledger' \cup unlogged' \subseteq ledger \cup unlogged \cup {EntryOf(r)}
  <2>1. CASE Arrive(r)
    BY <2>1 DEF TypeOK, Arrive, LoadForAdjust, RefuseAdjust, LoadForStatus,
       LoadForFavorite, StartCreate, LoadFails, Begin, Return, tables, observations
  <2>2. CASE Continue(r) \/ Exit(r)
    BY <2>2 DEF TypeOK, Continue, SaveThenLog, SaveThenReturn, SaveFails,
       SaveUnacknowledged, InsertEntry, InsertEntryFails, Exit, LeaveUnlogged, Return,
       Commit, tables, observations
  <2>3. QED
    BY <1>2, <2>1, <2>2
<1>3. \A e \in ledger \cup unlogged : e.reference \in Requests
  BY DEF TypeOK, Entry
<1>4. ASSUME NEW r \in Requests, Arrive(r) \/ Continue(r) \/ Exit(r) PROVE LoggedAreDone'
  <2>1. EntryOf(r).reference = r
    BY DEF EntryOf
  <2>2. \A e \in ledger \cup unlogged : e.reference # r
    BY <1>2, <1>4 DEF ChainInv, LoggedAreDone
  <2>3. ASSUME NEW e \in ledger' \cup unlogged' PROVE stage'[e.reference] = "done"
    <3>1. CASE e \in ledger \cup unlogged
      BY <1>2, <1>3, <1>4, <2>2, <3>1 DEF ChainInv, LoggedAreDone
    <3>2. CASE e \notin ledger \cup unlogged
      BY <1>2, <1>4, <2>1, <2>3, <3>2
    <3>3. QED
      BY <3>1, <3>2
  <2>4. QED
    BY <2>3 DEF LoggedAreDone
<1>5. QED
  BY <1>1, <1>4 DEF Next

\* A commit to a row that was loaded extends the chain of its account by its entry.
LEMMA NextChain == TypeOK /\ IInv /\ OriginInv /\ ChainInv /\ [Next]_vars => ChainInv'
<1> SUFFICES ASSUME TypeOK, IInv, OriginInv, ChainInv, [Next]_vars PROVE ChainInv'
  OBVIOUS
<1>1. CASE /\ \A a \in Accounts : Entries(a)' = Entries(a)
           /\ \A a \in Accounts : ~overwritten'[a] =>
                 ~overwritten[a] /\ rows'[a].balance = rows[a].balance
  <2>1. \A a \in Accounts : IsFiniteSet(Entries(a)')
    BY <1>1 DEF ChainInv
  <2>2. ASSUME NEW a \in Accounts, ~overwritten'[a] PROVE Chained(a)'
    BY <1>1, <2>2 DEF ChainInv, Chained
  <2>3. QED
    BY <2>1, <2>2, LoggedStep DEF ChainInv
<1>2. ASSUME NEW r \in Requests, Commit(r),
             \A a \in Accounts : EntryOf(r) \notin Entries(a),
             \A a \in Accounts : Entries(a)' =
                   IF a = work[r].target THEN Entries(a) \cup {EntryOf(r)} ELSE Entries(a)
      PROVE  ChainInv'
  <2> PICK t \in Accounts : t = work[r].target
    BY DEF TypeOK, Work
  <2> PICK e : e = EntryOf(r)
    OBVIOUS
  <2>1. e.before = work[r].seen.balance /\ e.after = work[r].copy.balance
    BY DEF EntryOf
  <2>2. /\ Entries(t)' = Entries(t) \cup {e}
        /\ \A a \in Accounts \ {t} : Entries(a)' = Entries(a)
    BY <1>2
  <2>3. \A a \in Accounts : IsFiniteSet(Entries(a)')
    <3>1. IsFiniteSet(Entries(t) \cup {e})
      BY <2>1, FS_AddElement DEF ChainInv
    <3>2. QED
      BY <2>2, <3>1 DEF ChainInv
  <2>4. ASSUME NEW a \in Accounts \ {t}, ~overwritten'[a] PROVE Chained(a)'
    <3>1. rows'[a] = rows[a] /\ ~overwritten[a]
      BY <1>2, <2>1, <2>4 DEF TypeOK, Commit
    <3>2. QED
      BY <2>2, <3>1 DEF ChainInv, Chained
  <2>5. ASSUME ~overwritten'[t] PROVE Chained(t)'
    <3>1. ~overwritten[t] /\ rows[t] = work[r].seen /\ rows'[t] = work[r].copy
      BY <1>2, <2>1, <2>5 DEF TypeOK, Commit
    <3>2. PICK s \in SetToSeqs(Entries(t)) : IsChain(s, OpeningOf(t), e.before)
      BY <2>1, <3>1 DEF ChainInv, Chained
    <3>3. IsFiniteSet(Entries(t)) /\ e \notin Entries(t)
      BY <1>2, <2>1 DEF ChainInv
    <3>4. PICK u \in SetToSeqs(Entries(t) \cup {e}) : IsChain(u, OpeningOf(t), e.after)
      BY <3>2, <3>3, ChainGrows
    <3>5. QED
      BY <2>1, <2>2, <3>1, <3>4 DEF Chained
  <2>6. QED
    BY <2>3, <2>4, <2>5, LoggedStep DEF ChainInv
<1>3. QED
  BY <1>1, <1>2, EntriesStep

\* Whatever is inserted late, lost or never inserted: the entries of an account that no
\* handler overwrote lead in some order from its opening balance to its balance.
THEOREM LedgerExplains == Spec => []LedgerChain
<1>1. TypeOK /\ ChainInv => LedgerChain
  BY DEF TypeOK, ChainInv, Chained, LedgerChain
<1>2. Spec => []OriginInv
  BY InitOrigin, NextOrigin, TypeCorrect, PTL DEF Spec
<1>3. Spec => []ChainInv
  BY <1>2, InitChain, NextChain, Inductive, PTL DEF Spec
<1>4. QED
  BY <1>1, <1>3, TypeCorrect, PTL
=============================================================================
