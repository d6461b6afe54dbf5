----------------------------- MODULE MCAccounts -----------------------------
(* Small instances of Accounts for TLC.                                    *)
EXTENDS Accounts, TLC

CONSTANTS x1, x2, q1, q2, p1, p2

Symmetry == Permutations(Admins) \cup Permutations(Requests)
              \cup Permutations(Passwords)
=============================================================================
