---------------------------- MODULE MCOnboarding ----------------------------
(* Small instances of Onboarding for TLC. *)
EXTENDS Onboarding, TLC

Symmetry == Permutations(Forms) \cup Permutations(Emails)
=============================================================================
