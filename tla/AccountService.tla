--------------------------- MODULE AccountService ---------------------------
(***************************************************************************)
(* The account service: the rows of account.accounts, the entries of       *)
(* account.account_ledger and the requests the service is working on.      *)
(*                                                                         *)
(* Every HTTP or gRPC request runs in a goroutine of its own and nothing   *)
(* in the service orders two of them: no mutex, no SELECT ... FOR UPDATE,  *)
(* no version column and no transaction around more than one statement.    *)
(* A handler is therefore split at its repository calls.  It loads the     *)
(* whole row (GetByID), computes on its own copy, writes the whole copy    *)
(* back (gorm's Save), and AdjustBalance and CreateAccount then insert a   *)
(* ledger entry whose error they drop.                                     *)
(*                                                                         *)
(* A call to the database succeeds, fails, or fails although the statement *)
(* was committed (the acknowledgement was lost, or the caller's context    *)
(* was cancelled while it was in flight).  A handler may stop at any point *)
(* because its process exits: main() returns without draining requests.    *)
(***************************************************************************)
EXTENDS Integers, SequencesExt

CONSTANTS
    Accounts,        \* the ids that accounts may receive
    Requests,        \* the requests that may ever arrive, one goroutine each
    Adjustments,     \* the amounts AdjustBalance may be asked for
    MaxInt,          \* the largest int64
    Opening          \* the accounts that exist at the start -> their balances

\* Two's complement 64-bit integers, and how Go adds them.
Int64 == -(MaxInt + 1) .. MaxInt

\* Mutant: a sum that does not wrap around.
Plus64_NoWrap(x, y) == x + y

Plus64(x, y) ==
    LET sum  == x + y
        span == 2 * (MaxInt + 1)
    IN  IF sum > MaxInt THEN sum - span
        ELSE IF sum < -(MaxInt + 1) THEN sum + span
        ELSE sum

ASSUME AccountsAssumption == Accounts # {}

ASSUME MaxIntAssumption == MaxInt \in Nat

\* AmountAdjustment is an int64 and the gRPC layer passes on any of them.
ASSUME AdjustmentsAssumption == Adjustments \subseteq Int64

ASSUME OpeningAssumption ==
    /\ DOMAIN Opening \subseteq Accounts
    /\ \A a \in DOMAIN Opening : Opening[a] \in 0 .. MaxInt

Statuses == {"active", "frozen", "closed", "dormant"}

\* A row of account.accounts, over the integers of set Money: the columns that
\* a handler reads or changes.  "dated" says that closed_at is set.
RowOver(Money) == [status : Statuses, balance : Money, available : Money,
                   reserved : Money, favorite : BOOLEAN, dated : BOOLEAN]

Row == RowOver(Int64)

NewRow(balance) == [status    |-> "active",
                    balance   |-> balance,
                    available |-> balance,
                    reserved  |-> 0,
                    favorite  |-> FALSE,
                    dated     |-> FALSE]

Entry == [account : Accounts, reference : Requests, type : {"debit", "credit"},
          amount : Int64, before : Int64, after : Int64]

VARIABLES
    opened,      \* the accounts that have a row
    rows,        \* account -> its row
    ledger,      \* the ledger entries
    stage,       \* request -> the repository call it makes next
    work,        \* request -> the local variables of its handler
    reply,       \* request -> what the caller was told
    (***********************************************************************)
    (* Observations: no guard reads them.                                  *)
    (***********************************************************************)
    serial,      \* account -> the row, had every committed operation been atomic
    overwritten, \* account -> some handler saved over a row it had not loaded
    unlogged     \* the entries of committed operations that were never inserted

tables       == <<opened, rows, ledger>>
handlers     == <<stage, work, reply>>
observations == <<serial, overwritten, unlogged>>
vars         == <<tables, handlers, observations>>

\* The locals of a handler: what it was asked, the row as it loaded it (seen)
\* and its copy of the row, changed and ready to be saved.
Work == [kind : {"create", "adjust", "status", "favorite"}, target : Accounts,
         amount : Int64, seen : Row, copy : Row]

NoWork == [kind |-> "create", target |-> CHOOSE a \in Accounts : TRUE,
           amount |-> 0, seen |-> NewRow(0), copy |-> NewRow(0)]

-----------------------------------------------------------------------------
(***************************************************************************)
(* What the operations do to a row.                                        *)
(***************************************************************************)
Adjusted(row, adj) == [row EXCEPT !.balance   = Plus64(@, adj),
                                  !.available = Plus64(@, adj)]

\* Mutants: the funds are not checked; are checked for debits only; the status is
\* not checked.
Refused_NoFundsCheck(row, adj) == row.status # "active"

Refused_DebitsOnly(row, adj) ==
    \/ row.status # "active"
    \/ adj < 0 /\ Adjusted(row, adj).available < 0

Refused_AnyStatus(row, adj) == Adjusted(row, adj).available < 0

\* AdjustBalance turns the request down: the account is not active, or there
\* are insufficient funds.
Refused(row, adj) ==
    \/ row.status # "active"
    \/ Adjusted(row, adj).available < 0

Restatused(row, status) == [row EXCEPT !.status = status,
                                       !.dated  = @ \/ status = "closed"]

Toggled(row) == [row EXCEPT !.favorite = ~@]

\* The operation of w on a row, in exact arithmetic.
Applied(w, row) ==
    CASE w.kind = "adjust"   -> [row EXCEPT !.balance   = @ + w.amount,
                                            !.available = @ + w.amount]
      [] w.kind = "status"   -> Restatused(row, w.copy.status)
      [] w.kind = "favorite" -> Toggled(row)
      [] w.kind = "create"   -> NewRow(0)

-----------------------------------------------------------------------------
(***************************************************************************)
(* Initially the accounts of Opening exist, created and funded by requests *)
(* that are over; their ledger entries are left out.  The code never       *)
(* reserves funds: reserved_amount is 0 when a row is created and is only  *)
(* ever written back.                                                      *)
(***************************************************************************)
OpeningOf(a) == IF a \in DOMAIN Opening THEN Opening[a] ELSE 0

Init ==
    /\ opened = DOMAIN Opening
    /\ rows = [a \in Accounts |-> NewRow(OpeningOf(a))]
    /\ ledger = {}
    /\ stage = [r \in Requests |-> "new"]
    /\ work = [r \in Requests |-> NoWork]
    /\ reply = [r \in Requests |-> "none"]
    /\ serial = rows
    /\ overwritten = [a \in Accounts |-> FALSE]
    /\ unlogged = {}

\* The handler of r has loaded its row and goes on to save its copy.
Begin(r, w) ==
    /\ stage' = [stage EXCEPT ![r] = "save"]
    /\ work' = [work EXCEPT ![r] = w]
    /\ UNCHANGED <<reply, tables, observations>>

\* The handler of r returns and its locals are gone.
Return(r, answer) ==
    /\ stage' = [stage EXCEPT ![r] = "done"]
    /\ work' = [work EXCEPT ![r] = NoWork]
    /\ reply' = [reply EXCEPT ![r] = answer]

\* The Save or Create of r takes effect in the database.
Commit(r) ==
    LET w == work[r]
        a == w.target
    IN  /\ opened' = opened \cup {a}
        /\ rows' = [rows EXCEPT ![a] = w.copy]
        /\ serial' = [serial EXCEPT ![a] = Applied(w, @)]
        /\ overwritten' = [overwritten EXCEPT ![a] = @ \/ rows[a] # w.seen]
        /\ UNCHANGED ledger

\* AdjustBalance and CreateAccount write this entry to the ledger.  The amount
\* keeps the sign of the adjustment.
HasEntry(w) == w.kind \in {"create", "adjust"}

\* Mutants: balance_after is computed as for a debit; balance_before is taken
\* from the copy, which is already adjusted.
EntryOf_AsDebit(r) ==
    LET w == work[r]
    IN  [account   |-> w.target,
         reference |-> r,
         type      |-> IF w.amount < 0 THEN "debit" ELSE "credit",
         amount    |-> w.amount,
         before    |-> w.seen.balance,
         after     |-> w.seen.balance - w.amount]

EntryOf_BeforeFromCopy(r) ==
    LET w == work[r]
    IN  [account   |-> w.target,
         reference |-> r,
         type      |-> IF w.amount < 0 THEN "debit" ELSE "credit",
         amount    |-> w.amount,
         before    |-> w.copy.balance,
         after     |-> w.copy.balance]

EntryOf(r) ==
    LET w == work[r]
    IN  [account   |-> w.target,
         reference |-> r,
         type      |-> IF w.amount < 0 THEN "debit" ELSE "credit",
         amount    |-> w.amount,
         before    |-> w.seen.balance,
         after     |-> w.copy.balance]

\* r is committed and its entry will never be in the ledger.
LeaveUnlogged(r) ==
    unlogged' = IF HasEntry(work[r]) THEN unlogged \cup {EntryOf(r)} ELSE unlogged

-----------------------------------------------------------------------------
(***************************************************************************)
(* The first repository call: GetByID, and what the handler computes from  *)
(* the row before its next call.                                           *)
(***************************************************************************)
LoadForAdjust(r, a, adj) ==
    /\ stage[r] = "new"
    /\ a \in opened
    /\ ~Refused(rows[a], adj)
    /\ Begin(r, [kind |-> "adjust", target |-> a, amount |-> adj,
                 seen |-> rows[a], copy |-> Adjusted(rows[a], adj)])

RefuseAdjust(r, a, adj) ==
    /\ stage[r] = "new"
    /\ a \in opened
    /\ Refused(rows[a], adj)
    /\ Return(r, "error")
    /\ UNCHANGED <<tables, observations>>

\* UpdateStatus accepts every status, whatever the present one.
LoadForStatus(r, a, status) ==
    /\ stage[r] = "new"
    /\ a \in opened
    /\ Begin(r, [kind |-> "status", target |-> a, amount |-> 0,
                 seen |-> rows[a], copy |-> Restatused(rows[a], status)])

LoadForFavorite(r, a) ==
    /\ stage[r] = "new"
    /\ a \in opened
    /\ Begin(r, [kind |-> "favorite", target |-> a, amount |-> 0,
                 seen |-> rows[a], copy |-> Toggled(rows[a])])

\* CreateAccount loads nothing.  Its id comes from uuid_generate_v4(), so no
\* other handler has it before the insert commits.
StartCreate(r, a) ==
    /\ stage[r] = "new"
    /\ a \notin opened
    /\ \A q \in Requests : stage[q] = "save" => work[q].target # a
    /\ Begin(r, [kind |-> "create", target |-> a, amount |-> 0,
                 seen |-> NewRow(0), copy |-> NewRow(0)])

\* The account does not exist or the database returns an error.
LoadFails(r) ==
    /\ stage[r] = "new"
    /\ Return(r, "error")
    /\ UNCHANGED <<tables, observations>>

-----------------------------------------------------------------------------
(***************************************************************************)
(* The second call: Save, or the insert of CreateAccount.                  *)
(***************************************************************************)
\* It commits and AdjustBalance and CreateAccount go on to the ledger.
SaveThenLog(r) ==
    /\ stage[r] = "save"
    /\ HasEntry(work[r])
    /\ Commit(r)
    /\ stage' = [stage EXCEPT ![r] = "ledger"]
    /\ UNCHANGED <<work, reply, unlogged>>

\* It commits and UpdateStatus and ToggleFavorite return.
SaveThenReturn(r) ==
    /\ stage[r] = "save"
    /\ ~HasEntry(work[r])
    /\ Commit(r)
    /\ Return(r, "ok")
    /\ UNCHANGED unlogged

SaveFails(r) ==
    /\ stage[r] = "save"
    /\ Return(r, "error")
    /\ UNCHANGED <<tables, observations>>

\* It commits, the handler receives an error and returns it: there will be no
\* ledger entry.
SaveUnacknowledged(r) ==
    /\ stage[r] = "save"
    /\ Commit(r)
    /\ LeaveUnlogged(r)
    /\ Return(r, "error")

-----------------------------------------------------------------------------
(***************************************************************************)
(* The third call: CreateLedgerEntry, of AdjustBalance and CreateAccount.  *)
(***************************************************************************)
InsertEntry(r) ==
    /\ stage[r] = "ledger"
    /\ ledger' = ledger \cup {EntryOf(r)}
    /\ Return(r, "ok")
    /\ UNCHANGED <<opened, rows, observations>>

\* The error of the insert is dropped and the caller is told of a success.
InsertEntryFails(r) ==
    /\ stage[r] = "ledger"
    /\ LeaveUnlogged(r)
    /\ Return(r, "ok")
    /\ UNCHANGED <<tables, serial, overwritten>>

\* The process exits.  What is committed stays, the rest of the handler never
\* runs and the caller gets no answer.
Exit(r) ==
    /\ stage[r] \in {"save", "ledger"}
    /\ IF stage[r] = "ledger" THEN LeaveUnlogged(r) ELSE UNCHANGED unlogged
    /\ Return(r, "none")
    /\ UNCHANGED <<tables, serial, overwritten>>

-----------------------------------------------------------------------------
Arrive(r) ==
    \/ \E a \in Accounts :
          \/ \E adj \in Adjustments : LoadForAdjust(r, a, adj) \/ RefuseAdjust(r, a, adj)
          \/ \E status \in Statuses : LoadForStatus(r, a, status)
          \/ LoadForFavorite(r, a)
          \/ StartCreate(r, a)
    \/ LoadFails(r)

Continue(r) ==
    \/ SaveThenLog(r) \/ SaveThenReturn(r) \/ SaveFails(r) \/ SaveUnacknowledged(r)
    \/ InsertEntry(r) \/ InsertEntryFails(r)

Next == \E r \in Requests : Arrive(r) \/ Continue(r) \/ Exit(r)

\* A handler that waits for the database gets an answer in the end: a
\* goroutine is always scheduled again and gorm's calls return.
Fairness == \A r \in Requests : WF_vars(Continue(r))

Spec == Init /\ [][Next]_vars /\ Fairness

-----------------------------------------------------------------------------
TypeOK ==
    /\ opened \in SUBSET Accounts
    /\ rows \in [Accounts -> Row]
    /\ ledger \in SUBSET Entry
    /\ stage \in [Requests -> {"new", "save", "ledger", "done"}]
    /\ work \in [Requests -> Work]
    /\ reply \in [Requests -> {"none", "ok", "error"}]
    /\ serial \in [Accounts -> RowOver(Int)]
    /\ overwritten \in [Accounts -> BOOLEAN]
    /\ unlogged \in SUBSET Entry

\* The CHECK constraints positive_balance and valid_available_balance of the
\* accounts table, which the deployed schema does not have, and the available
\* balance itself: no account is overdrawn, even when handlers overwrite each
\* other's rows and although the sums of AdjustBalance may wrap around.
BalanceChecks ==
    \A a \in opened :
        /\ rows[a].balance >= 0
        /\ rows[a].available >= 0
        /\ rows[a].available = rows[a].balance - rows[a].reserved

\* A closed account carries the date of its closing, also after a stale copy
\* was saved over it.
ClosedIsDated ==
    \A a \in opened : rows[a].status = "closed" => rows[a].dated

\* An account whose handlers always saved over the row they had loaded is what
\* the same operations make of it one at a time, in exact arithmetic: the
\* interleaving of load and save is the only way to lose a committed operation.
SerialUnlessOverwritten ==
    \A a \in opened : ~overwritten[a] => rows[a] = serial[a]

\* All that the committed operations on a had, have or should have had to log.
Pending == {EntryOf(r) : r \in {q \in Requests : stage[q] = "ledger"}}
Entries(a) == {e \in ledger \cup unlogged \cup Pending : e.account = a}

\* Even a lost update leaves an account with a balance it had before: whatever
\* is saved back, the opening balance or the balance_after of an operation.
HasOrigin(a, balance) ==
    \/ balance = OpeningOf(a)
    \/ \E e \in Entries(a) : e.after = balance

BalanceHasOrigin == \A a \in opened : HasOrigin(a, rows[a].balance)

\* The entries of s lead from one balance to another without a gap.
IsChain(s, from, to) ==
    /\ \A i \in 1 .. Len(s) - 1 : s[i].after = s[i + 1].before
    /\ IF s = <<>> THEN from = to
       ELSE s[1].before = from /\ s[Len(s)].after = to

\* Handlers insert their entries in any order, later than they save and perhaps
\* never.  Still the entries of an account that was not overwritten, with those
\* that were lost, can be put in an order that explains its balance.
LedgerChain ==
    \A a \in opened :
        ~overwritten[a] =>
            \E s \in SetToSeqs(Entries(a)) : IsChain(s, OpeningOf(a), rows[a].balance)

\* The balance of an account that is not active moves only when a handler that
\* loaded the row before it was frozen or closed overwrites it.
InactiveIsUntouched ==
    [][\A a \in opened :
          rows[a].status # "active" /\ rows'[a].balance # rows[a].balance
             => overwritten'[a]]_vars

-----------------------------------------------------------------------------
(***************************************************************************)
(* What the repository says of the service and the code does not keep.     *)
(***************************************************************************)

\* docs/adr/0003:10, "The database must ensure high data integrity and support
\* ACID transactions": no committed operation on an account is undone by
\* another that ran at the same time.
NoLostUpdate == \A a \in opened : rows[a] = serial[a]
=============================================================================
