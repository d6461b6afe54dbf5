-------------------------- MODULE BookingLifecycle -------------------------
(***************************************************************************)
(* What the API promises about a booking's status and agent, one step per  *)
(* request: the status machine, plus the release that brings a job back    *)
(* into the open pool.                                                     *)
(***************************************************************************)
EXTENDS BookingStatus

CONSTANTS Bookings, Agents, NoAgent

VARIABLE job   \* status and agent of each booking

Init == job = [b \in Bookings |-> [status |-> "finding", agent |-> NoAgent]]

\* The booking moves along BOOKING_TRANSITIONS; work starts with an agent.
Move(b, next) ==
  /\ CanTransition(job[b].status, next)
  /\ next = "accepted" => job[b].agent # NoAgent
  /\ job' = [job EXCEPT ![b].status = next]

\* An agent claims a job of the open pool.
Claim(b, a) ==
  /\ job[b] = [status |-> "paid", agent |-> NoAgent]
  /\ job' = [job EXCEPT ![b].agent = a]

\* An admin puts an agent on a booking; that accepts a paid one.
Assign(b, a) ==
  /\ job[b].status \in Assignable
  /\ job' = [job EXCEPT ![b] =
       [status |-> IF @.status = "paid" THEN "accepted" ELSE @.status,
        agent  |-> a]]

\* An admin moves a job that has not started from one agent to another.
Reassign(b, a) ==
  /\ job[b].status \notin PastRelease
  /\ job[b].agent # NoAgent
  /\ job' = [job EXCEPT ![b].agent = a]

\* The agent gives the job back to the open pool before starting it.
Release(b) ==
  /\ job[b].status \notin PastRelease
  /\ job[b].agent # NoAgent
  /\ job' = [job EXCEPT ![b] = [status |-> "paid", agent |-> NoAgent]]

Next ==
  \E b \in Bookings :
    \/ \E s \in Status : Move(b, s)
    \/ \E a \in Agents : Claim(b, a) \/ Assign(b, a) \/ Reassign(b, a)
    \/ Release(b)

Spec == Init /\ [][Next]_job
=============================================================================
