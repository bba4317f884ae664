-------------------------- MODULE AccountRequests --------------------------
(***************************************************************************)
(* Requests for a new account: a customer submits one, an employee         *)
(* approves or rejects it, and an approval opens the account.              *)
(*                                                                         *)
(* UpdateRequestStatus makes three calls to the database that nothing ties *)
(* together: it loads the request, writes the whole row back (gorm's Save) *)
(* and, when the new status is "approved", inserts an account.  The check  *)
(* that the request is still pending is made on the loaded copy.           *)
(*                                                                         *)
(* The insert of the account and its first ledger entry are one step here; *)
(* AccountService has them apart.                                          *)
(***************************************************************************)

CONSTANTS
    Forms,   \* the ids that submitted requests may receive
    Calls,   \* the calls of UpdateRequestStatus that may ever arrive
    Nobody   \* the processed_by of a request that nobody has processed

ASSUME RequestsAssumption == Forms # {} /\ Nobody \notin Calls

\* The handler takes any string for a status.  "other" is one that the code has
\* no name for.
Decisions == {"pending", "approved", "rejected", "other"}

\* A row of account.account_requests; status "none": there is no such row.  "by"
\* is the call that wrote it last, as processed_by and processed_at record it.
Row == [status : Decisions \cup {"none"}, by : Calls \cup {Nobody}]

VARIABLES
    requests,  \* form -> its row
    accounts,  \* the accounts opened, each with the request and the call behind it
    stage,     \* call -> the repository call it makes next
    work,      \* call -> the local variables of its handler
    reply,     \* call -> what the employee was told
    (***********************************************************************)
    (* Observations: no guard reads them.                                  *)
    (***********************************************************************)
    contested, \* form -> a decision was saved over a row its handler had not loaded
    decisions  \* the decisions that were committed

tables       == <<requests, accounts>>
handlers     == <<stage, work, reply>>
observations == <<contested, decisions>>
vars         == <<tables, handlers, observations>>

Account == [form : Forms, by : Calls]

\* The locals of a handler: the request, the decision and the row as loaded.
Work == [form : Forms, to : Decisions, seen : Row]

Unsubmitted == [status |-> "none", by |-> Nobody]

NoWork == [form |-> CHOOSE f \in Forms : TRUE, to |-> "pending", seen |-> Unsubmitted]

Init ==
    /\ requests = [f \in Forms |-> Unsubmitted]
    /\ accounts = {}
    /\ stage = [c \in Calls |-> "new"]
    /\ work = [c \in Calls |-> NoWork]
    /\ reply = [c \in Calls |-> "none"]
    /\ contested = [f \in Forms |-> FALSE]
    /\ decisions = {}

Return(c, answer) ==
    /\ stage' = [stage EXCEPT ![c] = "done"]
    /\ reply' = [reply EXCEPT ![c] = answer]

-----------------------------------------------------------------------------
\* A customer submits a request, or submits it again after an error.
Submit(f) ==
    /\ requests[f] = Unsubmitted
    /\ requests' = [requests EXCEPT ![f].status = "pending"]
    /\ UNCHANGED <<accounts, handlers, observations>>

\* Mutant: whether the request is still pending is not checked.
Load_Processed(c, f, to) ==
    /\ stage[c] = "new"
    /\ requests[f].status # "none"
    /\ stage' = [stage EXCEPT ![c] = "save"]
    /\ work' = [work EXCEPT ![c] = [form |-> f, to |-> to, seen |-> requests[f]]]
    /\ UNCHANGED <<tables, reply, observations>>

\* The request is loaded and is pending.
Load(c, f, to) ==
    /\ stage[c] = "new"
    /\ requests[f].status = "pending"
    /\ stage' = [stage EXCEPT ![c] = "save"]
    /\ work' = [work EXCEPT ![c] = [form |-> f, to |-> to, seen |-> requests[f]]]
    /\ UNCHANGED <<tables, reply, observations>>

\* "request is already processed".
RefuseProcessed(c, f) ==
    /\ stage[c] = "new"
    /\ requests[f].status \notin {"none", "pending"}
    /\ Return(c, "error")
    /\ UNCHANGED <<tables, work, observations>>

LoadFails(c) ==
    /\ stage[c] = "new"
    /\ Return(c, "error")
    /\ UNCHANGED <<tables, work, observations>>

-----------------------------------------------------------------------------
\* Mutant: processed_by gets the wrong one of the two ids.
Commit_WrongId(c) ==
    LET w == work[c]
    IN  /\ requests' = [requests EXCEPT ![w.form] = [status |-> w.to, by |-> w.form]]
        /\ contested' = [contested EXCEPT ![w.form] = @ \/ requests[w.form] # w.seen]
        /\ decisions' = decisions \cup {[form |-> w.form, by |-> c, to |-> w.to]}

\* The Save of c takes effect.
Commit(c) ==
    LET w == work[c]
    IN  /\ requests' = [requests EXCEPT ![w.form] = [status |-> w.to, by |-> c]]
        /\ contested' = [contested EXCEPT ![w.form] = @ \/ requests[w.form] # w.seen]
        /\ decisions' = decisions \cup {[form |-> w.form, by |-> c, to |-> w.to]}

SaveThenOpen(c) ==
    /\ stage[c] = "save"
    /\ work[c].to = "approved"
    /\ Commit(c)
    /\ stage' = [stage EXCEPT ![c] = "open"]
    /\ UNCHANGED <<accounts, work, reply>>

SaveThenReturn(c) ==
    /\ stage[c] = "save"
    /\ work[c].to # "approved"
    /\ Commit(c)
    /\ Return(c, "ok")
    /\ UNCHANGED <<accounts, work>>

\* Mutant: the account is opened although the approval was not saved.
SaveFails_OpensAnyway(c) ==
    /\ stage[c] = "save"
    /\ stage' = [stage EXCEPT ![c] = "open"]
    /\ UNCHANGED <<tables, work, reply, observations>>

SaveFails(c) ==
    /\ stage[c] = "save"
    /\ Return(c, "error")
    /\ UNCHANGED <<tables, work, observations>>

\* The decision is saved, the handler receives an error and opens no account.
SaveUnacknowledged(c) ==
    /\ stage[c] = "save"
    /\ Commit(c)
    /\ Return(c, "error")
    /\ UNCHANGED <<accounts, work>>

-----------------------------------------------------------------------------
OpenAccount(c) == accounts' = accounts \cup {[form |-> work[c].form, by |-> c]}

Open(c) ==
    /\ stage[c] = "open"
    /\ OpenAccount(c)
    /\ Return(c, "ok")
    /\ UNCHANGED <<requests, work, observations>>

\* Mutant: the error is dropped, as that of the ledger entry is.
OpenFails_Dropped(c) ==
    /\ stage[c] = "open"
    /\ Return(c, "ok")
    /\ UNCHANGED <<tables, work, observations>>

\* The insert fails, because the account number is taken or the requested type
\* does not exist, for example.  The request stays approved.
OpenFails(c) ==
    /\ stage[c] = "open"
    /\ Return(c, "error")
    /\ UNCHANGED <<tables, work, observations>>

OpenUnacknowledged(c) ==
    /\ stage[c] = "open"
    /\ OpenAccount(c)
    /\ Return(c, "error")
    /\ UNCHANGED <<requests, work, observations>>

\* The process exits.
Exit(c) ==
    /\ stage[c] \in {"save", "open"}
    /\ Return(c, "none")
    /\ UNCHANGED <<tables, work, observations>>

-----------------------------------------------------------------------------
Arrive(c) ==
    \/ \E f \in Forms :
          \/ \E to \in Decisions : Load(c, f, to)
          \/ RefuseProcessed(c, f)
    \/ LoadFails(c)

Continue(c) ==
    \/ SaveThenOpen(c) \/ SaveThenReturn(c) \/ SaveFails(c) \/ SaveUnacknowledged(c)
    \/ Open(c) \/ OpenFails(c) \/ OpenUnacknowledged(c)

Next ==
    \/ \E f \in Forms : Submit(f)
    \/ \E c \in Calls : Arrive(c) \/ Continue(c) \/ Exit(c)

\* Goroutines are scheduled and database calls return.
Fairness == \A c \in Calls : WF_vars(Continue(c))

Spec == Init /\ [][Next]_vars /\ Fairness

-----------------------------------------------------------------------------
TypeOK ==
    /\ requests \in [Forms -> Row]
    /\ accounts \in SUBSET Account
    /\ stage \in [Calls -> {"new", "save", "open", "done"}]
    /\ work \in [Calls -> Work]
    /\ reply \in [Calls -> {"none", "ok", "error"}]
    /\ contested \in [Forms -> BOOLEAN]
    /\ decisions \in SUBSET [form : Forms, by : Calls, to : Decisions]

\* Whatever raced or failed, behind every account there is an approval of its
\* request that was committed, by the handler that opened the account.
AccountNeedsApproval ==
    \A a \in accounts : [form |-> a.form, by |-> a.by, to |-> "approved"] \in decisions

AccountsOf(f) == {a \in accounts : a.form = f}

\* A request whose decisions were all saved over the row that had been loaded
\* opens one account at most, was approved if it did, and names the employee
\* whose decision opened it.
UncontestedIsConsistent ==
    \A f \in Forms :
        ~contested[f] /\ AccountsOf(f) # {}
           => \E c \in Calls : /\ AccountsOf(f) = {[form |-> f, by |-> c]}
                               /\ requests[f] = [status |-> "approved", by |-> c]

\* An employee who is told of a success has the decision recorded and, if it was
\* an approval, the account opened.
OkIsDone ==
    \A c \in Calls :
        reply[c] = "ok" =>
            LET w == work[c]
            IN  /\ [form |-> w.form, by |-> c, to |-> w.to] \in decisions
                /\ w.to = "approved" => [form |-> w.form, by |-> c] \in accounts

-----------------------------------------------------------------------------
\* internal/account/application/service.go:175, "request is already processed":
\* a request is decided once; nobody else is told of a success with it, except
\* for those who leave it pending.
DecidedOnce ==
    \A c, d \in {e \in Calls : reply[e] = "ok" /\ work[e].to # "pending"} :
        work[c].form = work[d].form => c = d
============================================================================
