-------------------------- MODULE MCAccountService --------------------------
(* Small instances of AccountService for TLC. *)
EXTENDS AccountService, TLC

CONSTANTS a1, a2

\* a1 exists and is funded; a2 does not exist yet.
MCOpening == (a1 :> 2)

\* The smallest and the largest int64, whose sums with a balance are negative or
\* wrap around, and a withdrawal that two requests cannot both make.
MCAdjustments == {-4, -2, 3}

=============================================================================
