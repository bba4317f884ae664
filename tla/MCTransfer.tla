----------------------------- MODULE MCTransfer -----------------------------
(* Small instances of Transfer for TLC. *)
EXTENDS Transfer, TLC

CONSTANTS a1, a2, k1, k2, e1

\* a1 can pay one transfer of 1 but not two, and a2 none.
MCOpening == (a1 :> 1) @@ (a2 :> 0)

MCEdited == (e1 :> a1)

From(key, src, dst, amount) ==
    [key |-> key, src |-> src, dst |-> dst, amount |-> amount]

\* A transfer that a1 can pay, and one with another key that competes for its funds.
\* With the same key, one of an account to itself whose negative amount only the gRPC
\* handler lets through: its debit adds to the balance and its credit takes from it.
MCOrders == {From(k1, a1, a2, 1), From(k2, a1, a2, 1), From(k1, a1, a1, -1)}

\* One transfer that a1 can pay.
MCOneOrder == {From(k1, a1, a2, 1)}

Symmetry == Permutations(Calls)
=============================================================================
