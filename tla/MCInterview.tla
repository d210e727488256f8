----------------------------- MODULE MCInterview -----------------------------
(* Small instances of Interview for TLC. *)
EXTENDS Interview, TLC

CONSTANTS d1, d2

Perms == Permutations(Dev)

=============================================================================
