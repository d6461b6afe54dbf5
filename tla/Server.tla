------------------------------- MODULE Server -------------------------------
(***************************************************************************)
(* Requests the API has in flight.  A handler is a sequence of steps, each *)
(* of them at most one statement; req[q] says at which step request q is   *)
(* and what it has in its memory.  Between two steps of one request any    *)
(* step of another one may come, and the process may die.                  *)
(***************************************************************************)
EXTENDS Naturals

CONSTANTS
  Requests,     \* requests in flight at a time
  MaxOverlaps,  \* bound: how often a request starts while another is in flight
  MaxDeaths     \* bound: how often a request dies half way

ASSUME ServerAssumption == MaxOverlaps \in Nat /\ MaxDeaths \in Nat

VARIABLES
  req,       \* the requests in flight
  overlaps,  \* how often a request has started while another was in flight
  deaths     \* how often a request has died

server == <<req, overlaps, deaths>>

Idle == [at |-> "idle"]

InFlight(q) == req[q].at # "idle"
At(q, step) == req[q].at = step
Quiet       == \A q \in Requests : ~InFlight(q)

\* A request arrives; r is what its handler has after its first step.
Start(q, r) ==
  /\ ~InFlight(q)
  /\ req' = [req EXCEPT ![q] = r]
  /\ overlaps' = IF Quiet THEN overlaps ELSE overlaps + 1
  /\ overlaps' <= MaxOverlaps
  /\ UNCHANGED deaths

\* The handler goes on to its next step, or is done or throws.
Go(q, r)  == req' = [req EXCEPT ![q] = r] /\ UNCHANGED <<overlaps, deaths>>
Answer(q) == Go(q, Idle)

\* The request is lost between two steps; what it has written stays.
Die(q) ==
  /\ InFlight(q)
  /\ req' = [req EXCEPT ![q] = Idle]
  /\ deaths < MaxDeaths /\ deaths' = deaths + 1
  /\ UNCHANGED overlaps

ServerInit == req = [q \in Requests |-> Idle] /\ overlaps = 0 /\ deaths = 0
=============================================================================
