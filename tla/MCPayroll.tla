------------------------------ MODULE MCPayroll ------------------------------
(* Small instances of Payroll for TLC.                                     *)
EXTENDS Payroll, TLC

CONSTANTS a1, a2, q1, q2

Symmetry == Permutations(Agents) \cup Permutations(Requests)
=============================================================================
