------------------------- MODULE MCBookingRequests -------------------------
(* Small instances of BookingRequests for TLC.                             *)
EXTENDS BookingRequests, TLC

CONSTANTS b1, b2, a1, a2, q1, q2, s1, s2

Symmetry == Permutations(Agents) \cup Permutations(Requests)
=============================================================================
