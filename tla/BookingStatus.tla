--------------------------- MODULE BookingStatus ---------------------------
(***************************************************************************)
(* The booking state machine every app consults:                           *)
(* src/common/booking/booking-status.ts.  Pure operators, no state.        *)
(***************************************************************************)

Status == {"finding", "paid", "accepted", "arriving", "ongoing",
           "completed", "cancelled"}

\* BOOKING_TRANSITIONS: the statuses a booking may move to from each one.
Transitions ==
  [finding   |-> {"paid", "cancelled"},
   paid      |-> {"accepted", "cancelled"},
   accepted  |-> {"arriving", "ongoing", "cancelled"},
   arriving  |-> {"ongoing", "cancelled"},
   ongoing   |-> {"completed"},
   completed |-> {},
   cancelled |-> {}]

\* Mutant: the up-front check of a handler is forgotten.
AnyTransition(from, to) == from \in Status /\ to \in Status

CanTransition(from, to) == to \in Transitions[from]

\* Statuses in which the customer may still move the slot.
Reschedulable == {"finding", "paid", "accepted", "arriving"}

\* Statuses in which an admin may assign an agent.
Assignable == {"finding", "paid", "accepted"}

\* Statuses that occupy an agent's calendar (CLASH_STATUSES).
ActiveStatus == {"paid", "accepted", "arriving", "ongoing"}

\* Mutant: the completed job is forgotten in that list.
PastReleaseButCompleted == {"ongoing", "cancelled"}

\* Statuses from which neither reject nor reassign-agent is possible.
PastRelease == {"ongoing", "completed", "cancelled"}

\* payments.payment_status and its mirror bookings.payment_status.
PayStatus == {"PENDING", "PAID", "FAILED", "REFUNDED", "VOIDED"}
=============================================================================
