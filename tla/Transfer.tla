------------------------------ MODULE Transfer ------------------------------
(***************************************************************************)
(* The transaction service moving money between two accounts.              *)
(*                                                                         *)
(* CreateTransfer looks its idempotency key up, inserts a pending row,     *)
(* asks the account service over gRPC to debit the source and to credit    *)
(* the destination, and sets the status of the row.  There is no           *)
(* transaction around these steps and nothing resumes a transfer that      *)
(* stopped half-way; a credit that fails is compensated by a third call.   *)
(* All calls use the context of the incoming request: when the client goes *)
(* away, every later call of the handler fails at once.                    *)
(*                                                                         *)
(* A call of AdjustBalance is a message under way.  The handler may give   *)
(* up on it (connection lost, context cancelled) while it stays under way  *)
(* and takes effect later.  The account service loads the row, checks it   *)
(* and saves all of it, and so does a change of the status or of the       *)
(* favourite: a row is written from a copy that may be old by then.  The   *)
(* ledger and the reserved amount are the subject of AccountService.       *)
(***************************************************************************)
EXTENDS Integers, FiniteSetsExt

CONSTANTS
    Accounts,  \* the accounts
    Keys,      \* idempotency keys
    Calls,     \* the calls of CreateTransfer that may ever arrive
    Orders,    \* what they may ask for
    Edits,     \* the calls of UpdateStatus and ToggleFavorite at a time
    Edited,    \* such a call -> the account it is for
    MaxInt,    \* the largest int64
    Opening    \* account -> its balance at the start

ASSUME MaxIntAssumption == MaxInt \in Nat

\* What CreateTransfer is asked for.  The HTTP handler requires a positive
\* amount, the gRPC handler passes on any int64; neither compares the accounts.
Order == [key : Keys, src : Accounts, dst : Accounts,
          amount : -(MaxInt + 1) .. MaxInt]

ASSUME OrdersAssumption == Orders \subseteq Order /\ Orders # {}

ASSUME EditedAssumption == Edited \in [Edits -> Accounts]

ASSUME OpeningAssumption == Opening \in [Accounts -> 0 .. MaxInt]

Steps == {"debit", "credit", "rollback"}

TxStatuses == {"none", "pending", "completed", "failed"}

VARIABLES
    balance,   \* account -> its balance
    active,    \* account -> it is active, not frozen or closed
    work,      \* the rows that AdjustBalance has loaded and not saved yet
    edit,      \* call of UpdateStatus or ToggleFavorite -> the row it will save
    wire,      \* the adjustments asked for and neither made nor refused yet
    txs,       \* key -> its row in transaction.transactions
    stage,     \* call -> what its handler does next, or waits for
    call,      \* call -> what it asks for
    cancelled, \* call -> its context is cancelled
    answer,    \* call -> the answer to the adjustment it waits for
    reply,     \* call -> what the client was told
    (***********************************************************************)
    (* Observations: no guard reads them.                                  *)
    (***********************************************************************)
    applied,    \* key -> step -> how often that adjustment took effect
    unheard,    \* key -> an adjustment took effect and the handler heard it failed
    unrefunded, \* key -> the rollback was answered with an error
    overwritten \* account -> a balance was written over by a row loaded before it

accountVars  == <<balance, active, work, edit>>
handlerVars  == <<stage, call, cancelled, answer, reply>>
observations == <<applied, unheard, unrefunded, overwritten>>
vars == <<accountVars, wire, txs, handlerVars, observations>>

\* status "none": there is no row with this key.
Tx == [status : TxStatuses, src : Accounts, dst : Accounts, amount : Int]

Message == [from : Calls, key : Keys, step : Steps, account : Accounts, delta : Int]

\* A row that AdjustBalance loaded for a message, of an account that is active: the
\* adjusted balance passed the check.
Copy == {w \in [msg : Message, balance : 0 .. MaxInt] :
            w.balance + w.msg.delta \in 0 .. MaxInt}

\* A row that another operation will save.
Edit == [busy : BOOLEAN, balance : 0 .. MaxInt, active : BOOLEAN]

\* What a row that does not exist and a call that has not arrived hold.
AnyOrder == CHOOSE o \in Orders : TRUE

Idle == [busy |-> FALSE, balance |-> 0, active |-> TRUE]

Init ==
    /\ balance = Opening
    /\ active = [a \in Accounts |-> TRUE]
    /\ work = {}
    /\ edit = [e \in Edits |-> Idle]
    /\ wire = {}
    /\ txs = [k \in Keys |-> [status |-> "none", src |-> AnyOrder.src,
                              dst |-> AnyOrder.dst, amount |-> AnyOrder.amount]]
    /\ stage = [c \in Calls |-> "new"]
    /\ call = [c \in Calls |-> AnyOrder]
    /\ cancelled = [c \in Calls |-> FALSE]
    /\ answer = [c \in Calls |-> "none"]
    /\ reply = [c \in Calls |-> "none"]
    /\ applied = [k \in Keys |-> [s \in Steps |-> 0]]
    /\ unheard = [k \in Keys |-> FALSE]
    /\ unrefunded = [k \in Keys |-> FALSE]
    /\ overwritten = [a \in Accounts |-> FALSE]

-----------------------------------------------------------------------------
(***************************************************************************)
(* What the handlers are made of.                                          *)
(***************************************************************************)
SetStage(c, s) == stage' = [stage EXCEPT ![c] = s]

\* The handler returns, its context ends with it.
Return(c, r) ==
    /\ SetStage(c, "done")
    /\ reply' = [reply EXCEPT ![c] = r]
    /\ cancelled' = [cancelled EXCEPT ![c] = FALSE]
    /\ answer' = [answer EXCEPT ![c] = "none"]
    /\ UNCHANGED call

\* Mutant: the rollback goes to the account that the credit failed for.
Adjustment_RollbackToDestination(c, o, step) ==
    [from    |-> c,
     key     |-> o.key,
     step    |-> step,
     account |-> IF step = "debit" THEN o.src ELSE o.dst,
     delta   |-> IF step = "debit" THEN -o.amount ELSE o.amount]

\* The adjustment that a step of an order asks for.
Adjustment(c, o, step) ==
    [from    |-> c,
     key     |-> o.key,
     step    |-> step,
     account |-> IF step = "credit" THEN o.dst ELSE o.src,
     delta   |-> IF step = "debit" THEN -o.amount ELSE o.amount]

\* The handler asks for an adjustment and waits.  With a cancelled context the
\* client library returns an error and sends nothing.
Ask(c, step) ==
    /\ SetStage(c, step)
    /\ IF cancelled[c]
       THEN /\ answer' = [answer EXCEPT ![c] = "error"]
            /\ wire' = wire
       ELSE /\ answer' = [answer EXCEPT ![c] = "none"]
            /\ wire' = wire \cup {Adjustment(c, call[c], step)}
    /\ UNCHANGED <<call, cancelled, reply>>

\* The handler has its answer and turns to the row.
GoOn(c, s) ==
    /\ SetStage(c, s)
    /\ answer' = [answer EXCEPT ![c] = "none"]
    /\ UNCHANGED <<call, cancelled, reply>>

InsertRow(c) ==
    txs' = [txs EXCEPT ![call[c].key] =
              [status |-> "pending", src |-> call[c].src, dst |-> call[c].dst,
               amount |-> call[c].amount]]

\* A single-column UPDATE.
SetStatus(c, s) == txs' = [txs EXCEPT ![call[c].key].status = s]

-----------------------------------------------------------------------------
(***************************************************************************)
(* The handler, up to the pending row.                                     *)
(***************************************************************************)

\* The key is known: the call returns the row as it is now, whatever its status
\* and whatever transfer it is of.
LookupFinds(c, o) ==
    /\ stage[c] = "new"
    /\ txs[o.key].status # "none"
    /\ SetStage(c, "done")
    /\ call' = [call EXCEPT ![c] = o]
    /\ reply' = [reply EXCEPT ![c] = txs[o.key].status]
    /\ UNCHANGED <<accountVars, wire, txs, cancelled, answer, observations>>

\* The lookup returns an error: there is no row with the key, or the query
\* failed.  The code does not tell the two apart.
LookupErrs(c, o) ==
    /\ stage[c] = "new"
    /\ SetStage(c, "insert")
    /\ call' = [call EXCEPT ![c] = o]
    /\ UNCHANGED <<accountVars, wire, txs, cancelled, answer, reply, observations>>

\* Mutant: no unique index on the key, the later row replaces the earlier.
Insert_NoUniqueIndex(c) ==
    /\ stage[c] = "insert"
    /\ ~cancelled[c]
    /\ InsertRow(c)
    /\ Ask(c, "debit")
    /\ UNCHANGED <<accountVars, observations>>

Insert(c) ==
    /\ stage[c] = "insert"
    /\ ~cancelled[c]
    /\ txs[call[c].key].status = "none"
    /\ InsertRow(c)
    /\ Ask(c, "debit")
    /\ UNCHANGED <<accountVars, observations>>

\* The unique index on the key or a failing database rejects the insert.
InsertFails(c) ==
    /\ stage[c] = "insert"
    /\ Return(c, "error")
    /\ UNCHANGED <<accountVars, wire, txs, observations>>

\* The insert commits and the handler receives an error.
InsertUnacknowledged(c) ==
    /\ stage[c] = "insert"
    /\ txs[call[c].key].status = "none"
    /\ InsertRow(c)
    /\ Return(c, "error")
    /\ UNCHANGED <<accountVars, wire, observations>>

-----------------------------------------------------------------------------
(***************************************************************************)
(* The handler, from the debit on.                                         *)
(***************************************************************************)
DebitMade(c) ==
    /\ stage[c] = "debit"
    /\ answer[c] = "ok"
    /\ Ask(c, "credit")
    /\ UNCHANGED <<accountVars, txs, observations>>

\* Mutant: the source is re-credited after a failed debit too.
DebitFailed_Refunds(c) ==
    /\ stage[c] = "debit"
    /\ answer[c] = "error"
    /\ Ask(c, "rollback")
    /\ UNCHANGED <<accountVars, txs, observations>>

DebitFailed(c) ==
    /\ stage[c] = "debit"
    /\ answer[c] = "error"
    /\ GoOn(c, "fail")
    /\ UNCHANGED <<accountVars, wire, txs, observations>>

CreditMade(c) ==
    /\ stage[c] = "credit"
    /\ answer[c] = "ok"
    /\ GoOn(c, "complete")
    /\ UNCHANGED <<accountVars, wire, txs, observations>>

\* Mutants: no rollback; the error is ignored; the credit is tried again.
CreditFailed_NoRollback(c) ==
    /\ stage[c] = "credit"
    /\ answer[c] = "error"
    /\ GoOn(c, "fail")
    /\ UNCHANGED <<accountVars, wire, txs, observations>>

CreditFailed_Ignored(c) ==
    /\ stage[c] = "credit"
    /\ answer[c] = "error"
    /\ GoOn(c, "complete")
    /\ UNCHANGED <<accountVars, wire, txs, observations>>

CreditFailed_Retries(c) ==
    /\ stage[c] = "credit"
    /\ answer[c] = "error"
    /\ Ask(c, "credit")
    /\ UNCHANGED <<accountVars, txs, observations>>

CreditFailed(c) ==
    /\ stage[c] = "credit"
    /\ answer[c] = "error"
    /\ Ask(c, "rollback")
    /\ UNCHANGED <<accountVars, txs, observations>>

\* Made or not, the transfer is marked as failed next.
RollbackAnswered(c) ==
    /\ stage[c] = "rollback"
    /\ answer[c] # "none"
    /\ GoOn(c, "fail")
    /\ unrefunded' = [unrefunded EXCEPT ![call[c].key] = @ \/ answer[c] = "error"]
    /\ UNCHANGED <<accountVars, wire, txs, applied, unheard, overwritten>>

MarkFailed(c) ==
    /\ stage[c] = "fail"
    /\ ~cancelled[c]
    /\ SetStatus(c, "failed")
    /\ Return(c, "error")
    /\ UNCHANGED <<accountVars, wire, observations>>

\* The error of the update is dropped: the row stays pending.
MarkFailedFails(c) ==
    /\ stage[c] = "fail"
    /\ Return(c, "error")
    /\ UNCHANGED <<accountVars, wire, txs, observations>>

MarkCompleted(c) ==
    /\ stage[c] = "complete"
    /\ ~cancelled[c]
    /\ SetStatus(c, "completed")
    /\ Return(c, "completed")
    /\ UNCHANGED <<accountVars, wire, observations>>

\* The client is told of an error although the money has moved.
MarkCompletedFails(c) ==
    /\ stage[c] = "complete"
    /\ \/ txs' = txs
       \/ ~cancelled[c] /\ SetStatus(c, "completed")
    /\ Return(c, "error")
    /\ UNCHANGED <<accountVars, wire, observations>>

-----------------------------------------------------------------------------
(***************************************************************************)
(* What may happen to a handler.                                           *)
(***************************************************************************)

\* The call of AdjustBalance returns an error; the message is still under way.
GiveUp(c) ==
    /\ stage[c] \in Steps
    /\ answer[c] = "none"
    /\ answer' = [answer EXCEPT ![c] = "error"]
    /\ UNCHANGED <<accountVars, wire, txs, stage, call, cancelled, reply, observations>>

\* The client closes its connection, or its deadline passes.
Cancel(c) ==
    /\ stage[c] \notin {"new", "done"}
    /\ ~cancelled[c]
    /\ cancelled' = [cancelled EXCEPT ![c] = TRUE]
    /\ answer' = [answer EXCEPT ![c] = IF stage[c] \in Steps /\ @ = "none"
                                         THEN "error" ELSE @]
    /\ UNCHANGED <<accountVars, wire, txs, stage, call, reply, observations>>

\* The process of the transaction service exits.
Exit(c) ==
    /\ stage[c] \notin {"new", "done"}
    /\ Return(c, "none")
    /\ UNCHANGED <<accountVars, wire, txs, observations>>

-----------------------------------------------------------------------------
(***************************************************************************)
(* The account service.                                                    *)
(***************************************************************************)

\* Mutant: the funds are not checked.
Adjustable_NoFundsCheck(m) == active[m.account]

\* AdjustBalance refuses an account that is not active, a debit that is not
\* covered, and a credit whose sum wraps around: that sum is negative.
Adjustable(m) ==
    /\ active[m.account]
    /\ balance[m.account] + m.delta \in 0 .. MaxInt

Heard(m) == stage[m.from] = m.step /\ answer[m.from] = "none"

Answer(m, a) ==
    /\ answer' = [answer EXCEPT ![m.from] = IF Heard(m) THEN a ELSE @]
    /\ wire' = wire \ {m}
    /\ work' = {w \in work : w.msg # m}
    /\ UNCHANGED <<stage, call, cancelled, reply>>

\* The row is loaded and passes the checks.
Load(m) ==
    /\ m \in wire
    /\ Adjustable(m)
    /\ \A w \in work : w.msg # m
    /\ work' = work \cup {[msg |-> m, balance |-> balance[m.account]]}
    /\ UNCHANGED <<balance, active, edit, wire, txs, handlerVars, observations>>

\* An UPDATE of every column, from a copy of the row.
WriteRow(a, copied, saved, isActive) ==
    /\ balance' = [balance EXCEPT ![a] = saved]
    /\ active' = [active EXCEPT ![a] = isActive]
    /\ overwritten' = [overwritten EXCEPT ![a] = @ \/ balance[a] # copied]

Apply(w) ==
    /\ WriteRow(w.msg.account, w.balance, w.balance + w.msg.delta, TRUE)
    /\ applied' = [applied EXCEPT ![w.msg.key][w.msg.step] = @ + 1]

Save(w) ==
    /\ w \in work
    /\ Apply(w)
    /\ Answer(w.msg, "ok")
    /\ unheard' = [unheard EXCEPT ![w.msg.key] = @ \/ ~Heard(w.msg)]
    /\ UNCHANGED <<edit, txs, unrefunded>>

\* The row is saved and AdjustBalance returns an error all the same.
SaveUnacknowledged(w) ==
    /\ w \in work
    /\ Apply(w)
    /\ Answer(w.msg, "error")
    /\ unheard' = [unheard EXCEPT ![w.msg.key] = TRUE]
    /\ UNCHANGED <<edit, txs, unrefunded>>

\* AdjustBalance refuses, or the database or the account service fails.
AdjustFails(m) ==
    /\ m \in wire
    /\ Answer(m, "error")
    /\ UNCHANGED <<balance, active, edit, txs, observations>>

\* An employee freezes, closes or unfreezes an account, or its customer toggles the
\* favourite: the row is loaded, and its balance will be written back.
LoadEdit(e) ==
    /\ ~edit[e].busy
    /\ \E isActive \in BOOLEAN :
          edit' = [edit EXCEPT ![e] = [busy |-> TRUE, balance |-> balance[Edited[e]],
                                       active |-> isActive]]
    /\ UNCHANGED <<balance, active, work, wire, txs, handlerVars, observations>>

EndEdit(e) ==
    /\ edit[e].busy
    /\ edit' = [edit EXCEPT ![e] = Idle]
    /\ UNCHANGED <<work, wire, txs, handlerVars, applied, unheard, unrefunded>>

SaveEdit(e) ==
    /\ EndEdit(e)
    /\ WriteRow(Edited[e], edit[e].balance, edit[e].balance, edit[e].active)

EditFails(e) ==
    /\ EndEdit(e)
    /\ UNCHANGED <<balance, active, overwritten>>

-----------------------------------------------------------------------------
Handle(c) ==
    \/ Insert(c) \/ InsertFails(c) \/ InsertUnacknowledged(c)
    \/ DebitMade(c) \/ DebitFailed(c)
    \/ CreditMade(c) \/ CreditFailed(c) \/ RollbackAnswered(c)
    \/ MarkFailed(c) \/ MarkFailedFails(c)
    \/ MarkCompleted(c) \/ MarkCompletedFails(c)

Serve(m) ==
    \/ Load(m) \/ AdjustFails(m)
    \/ \E w \in work : w.msg = m /\ (Save(w) \/ SaveUnacknowledged(w))

Next ==
    \/ \E c \in Calls :
          \/ \E o \in Orders : LookupFinds(c, o) \/ LookupErrs(c, o)
          \/ Handle(c)
          \/ GiveUp(c) \/ Cancel(c) \/ Exit(c)
    \/ \E m \in wire : Serve(m)
    \/ \E e \in Edits : LoadEdit(e) \/ SaveEdit(e) \/ EditFails(e)

\* Goroutines are scheduled and database calls return.  A call of AdjustBalance
\* returns: the account service answers what it receives, and a connection that
\* breaks is noticed.
Fairness ==
    \A c \in Calls :
        /\ WF_vars(Handle(c))
        /\ WF_vars(GiveUp(c) \/ \E m \in wire : m.from = c /\ Heard(m) /\ Serve(m))

Spec == Init /\ [][Next]_vars /\ Fairness

-----------------------------------------------------------------------------
TypeOK ==
    /\ balance \in [Accounts -> 0 .. MaxInt]
    /\ active \in [Accounts -> BOOLEAN]
    /\ work \in SUBSET Copy
    /\ edit \in [Edits -> Edit]
    /\ wire \in SUBSET Message
    /\ txs \in [Keys -> Tx]
    /\ stage \in [Calls -> Steps \cup {"new", "insert", "complete", "fail", "done"}]
    /\ call \in [Calls -> Order]
    /\ cancelled \in [Calls -> BOOLEAN]
    /\ answer \in [Calls -> {"none", "ok", "error"}]
    /\ reply \in [Calls -> {"none", "error", "pending", "completed", "failed"}]
    /\ applied \in [Keys -> [Steps -> Nat]]
    /\ unheard \in [Keys -> BOOLEAN]
    /\ unrefunded \in [Keys -> BOOLEAN]
    /\ overwritten \in [Accounts -> BOOLEAN]

\* However often a key is used, and however its calls interleave, each of the
\* steps of its transfer takes effect at most once.
OncePerKey == \A k \in Keys, s \in Steps : applied[k][s] <= 1

\* A completed transfer has debited, has credited and was not rolled back,
\* whatever was lost or delayed; and no client is told "completed" of another.
Moved(k) == applied[k] = [s \in Steps |-> IF s = "rollback" THEN 0 ELSE 1]

CompletedIsMoved ==
    /\ \A k \in Keys : txs[k].status = "completed" => Moved(k)
    /\ \A c \in Calls : reply[c] = "completed" => Moved(call[c].key)

\* More is paid out than was taken only by a transfer of which an adjustment
\* took effect that its handler was told, or believed, had failed.
NoMoneyCreated ==
    \A k \in Keys :
        ~unheard[k] => applied[k]["credit"] + applied[k]["rollback"] <= applied[k]["debit"]

\* A transfer that reached its final status took exactly what it paid out,
\* unless an effect went unheard or the rollback failed.
SettledIsBalanced ==
    \A k \in Keys :
        txs[k].status \in {"completed", "failed"} /\ ~unheard[k] /\ ~unrefunded[k]
           => applied[k]["debit"] = applied[k]["credit"] + applied[k]["rollback"]

\* What the transfer of key k did to account a.
Effect(k, a) ==
    LET tx == txs[k]
    IN  (IF tx.src = a THEN tx.amount * (applied[k]["rollback"] - applied[k]["debit"])
                       ELSE 0)
      + (IF tx.dst = a THEN tx.amount * applied[k]["credit"] ELSE 0)

Effects(a) == [k \in Keys |-> Effect(k, a)]

\* The rows of the transaction service account for the balance of an account, until
\* two operations on it overlap and one writes over the balance of the other.
BooksMatch ==
    \A a \in Accounts :
        ~overwritten[a] => balance[a] = Opening[a] + SumFunction(Effects(a))

\* The handlers, messages and failures implement the abstract transfer.
Abstract == INSTANCE TransferSpec WITH status <- [k \in Keys |-> txs[k].status]

ImplementsTransfer == Abstract!Spec

-----------------------------------------------------------------------------
\* internal/transaction/application/service.go:74, "Compensation: Re-credit
\* Source": a failed transfer whose handler heard of every effect, with nothing
\* of it under way, took no money that it did not give back.
FailedIsCompensated ==
    \A k \in Keys :
        txs[k].status = "failed" /\ ~unheard[k] /\ (\A m \in wire : m.key # k)
           => applied[k]["debit"] <= applied[k]["rollback"]
=============================================================================
