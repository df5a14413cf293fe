--------------------------- MODULE MCPlayAccounts ---------------------------
(* Small instances of PlayAccounts for TLC. *)
EXTENDS PlayAccounts, TLC

CONSTANTS w1, w2, w3, p1, p2, e1, e2, s1

Symmetry == Permutations(Worker) \cup Permutations(Platform) \cup Permutations(Email)

=============================================================================
