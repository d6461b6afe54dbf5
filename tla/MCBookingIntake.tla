-------------------------- MODULE MCBookingIntake --------------------------
(* Small instances of BookingIntake for TLC.                               *)
EXTENDS BookingIntake, TLC

CONSTANTS b1, b2, b3, q1, q2, n1, n2, n3

\* Twenty minutes at 29.75 an hour come to 9.916..., which is rounded.  The
\* first offer is worth more than that, the second one is capped.
MCLines  == {[pricePerHour |-> 2975, minutes |-> 20, quantity |-> 1]}
MCPlans  == {[cook |-> TRUE, people |-> 2, rate |-> 1250, percent |-> 1000,
              cleaning |-> 100]}
MCOffers == {[type |-> "FLAT", value |-> 5000, cap |-> NoCap],
             [type |-> "PERCENT", value |-> 5000, cap |-> 500]}

Symmetry == Permutations(Bookings) \cup Permutations(Requests)
              \cup Permutations(Numbers)
=============================================================================
