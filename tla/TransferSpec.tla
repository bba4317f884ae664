---------------------------- MODULE TransferSpec ----------------------------
(***************************************************************************)
(* What a transfer promises, without handlers, messages and failures.  A   *)
(* key is accepted once.  Its transfer debits, credits and rolls back at   *)
(* most once each and only after the debit; it is completed only when the  *)
(* money has moved, and then nothing moves any more.  A transfer that is   *)
(* not completed promises less: its steps may still happen after it was    *)
(* marked as failed.                                                       *)
(***************************************************************************)
EXTENDS Integers

CONSTANT Keys

VARIABLES status, applied

vars == <<status, applied>>

Init ==
    /\ status = [k \in Keys |-> "none"]
    /\ applied = [k \in Keys |-> [s \in {"debit", "credit", "rollback"} |-> 0]]

Moved(k) == applied[k] = [debit |-> 1, credit |-> 1, rollback |-> 0]

Accept(k) ==
    /\ status[k] = "none"
    /\ status' = [status EXCEPT ![k] = "pending"]
    /\ UNCHANGED applied

\* One of the three steps takes effect.
Do(k, step) ==
    /\ status[k] \in {"pending", "failed"}
    /\ applied[k][step] = 0
    /\ step # "debit" => applied[k]["debit"] = 1
    /\ applied' = [applied EXCEPT ![k][step] = 1]
    /\ UNCHANGED status

Complete(k) ==
    /\ status[k] = "pending"
    /\ Moved(k)
    /\ status' = [status EXCEPT ![k] = "completed"]
    /\ UNCHANGED applied

Fail(k) ==
    /\ status[k] = "pending"
    /\ status' = [status EXCEPT ![k] = "failed"]
    /\ UNCHANGED applied

Next ==
    \E k \in Keys :
        \/ Accept(k) \/ Complete(k) \/ Fail(k)
        \/ \E step \in {"debit", "credit", "rollback"} : Do(k, step)

Spec == Init /\ [][Next]_vars
=============================================================================
