-------------------------- MODULE BookingRequests --------------------------
(***************************************************************************)
(* The life of a booking as the API server really executes it.  No handler *)
(* uses a database transaction: each one loads entities, checks and        *)
(* changes them in memory, and then issues its statements one `await` at a *)
(* time.  Any two requests interleave between two statements, on one       *)
(* Node.js process as well as on several.                                  *)
(*                                                                         *)
(* A handler is therefore one action that loads, checks and changes the    *)
(* entity in memory and leaves the statements it still has `todo`; each    *)
(* statement is an action of its own.  The statements of all handlers      *)
(* respect one order, Rank, so a set of statements is a program.           *)
(***************************************************************************)
EXTENDS BookingStatus, Naturals, FiniteSets

CONSTANTS
  Bookings,   \* bookings already created, each with its PENDING payment row
  Agents,     \* agents that pass requireApprovedAgent / requireAssignableAgent
  Slots,      \* a booking's date and start time; two jobs clash iff equal
  Requests,   \* requests the servers have in flight at a time
  NoAgent,    \* bookings.agent_id IS NULL
  MaxUpsets   \* bound: how often a request overlaps another one, or dies

ASSUME ConstantsAssumption ==
  /\ NoAgent \notin Agents
  /\ MaxUpsets \in Nat

VARIABLES
  booking,   \* the bookings table
  payment,   \* payments.payment_status of the booking's payment row
  txns,      \* payment_transactions: the statuses of the booking's rows
  logged,    \* booking_status_history: the statuses recorded
  earnings,  \* agent_earnings: how many rows each agent has for the booking
  gateway,   \* what happened at the payment gateway (external)
  hooks,     \* webhook events the gateway will redeliver until answered 200
  req,       \* the requests in flight
  seen,      \* history variable: statuses the row has had
  otpShown,  \* history variable: bookings whose start OTP an agent presented
  died,      \* history variable: bookings a request of which died half way
  vouched,   \* history variable: bookings that another order's ids settled
  upsets     \* how often a request has overlapped another one, or has died

db   == <<booking, payment, txns, logged, earnings>>
env  == <<gateway, hooks>>
hist == <<seen, otpShown, died, vouched>>
vars == <<db, env, req, hist, upsets>>

-----------------------------------------------------------------------------
Columns == {"status", "agent", "pay", "slot"}
Row     == [status: Status, agent: Agents \cup {NoAgent},
            pay: PayStatus, slot: Slots]
TxnKind == {"created", "captured", "failed"}
Event   == {"captured", "failed"}

\* Mutant: the earning is written before the booking is saved as completed.
RankPayoutFirst ==
  [clash |-> 1, readPayment |-> 2, reread |-> 3, payment |-> 4,
   txn |-> 5, save |-> 8, update |-> 9, record |-> 10, refund |-> 11,
   findEarning |-> 6, insertEarning |-> 7, ack |-> 12]

\* Every statement a handler can still have to execute, in execution order.
Rank == [clash |-> 1, readPayment |-> 2, reread |-> 3, payment |-> 4,
         txn |-> 5, save |-> 6, update |-> 7, record |-> 8, refund |-> 9,
         findEarning |-> 10, insertEarning |-> 11, ack |-> 12]
Statement == DOMAIN Rank

\* A request in flight: the booking and payment entities in its memory, the
\* kind of transaction row it writes, and the statements it has left.
Request == [b: Bookings, row: Row, pay: PayStatus, txn: TxnKind,
            dirty: SUBSET Columns, todo: (SUBSET Statement) \ {{}}]
NoRequest == [todo |-> {}]

TypeOK ==
  /\ booking  \in [Bookings -> Row]
  /\ payment  \in [Bookings -> PayStatus]
  /\ txns     \in [Bookings -> SUBSET TxnKind]
  /\ logged   \in [Bookings -> SUBSET Status]
  /\ earnings \in [Bookings -> [Agents -> Nat]]
  /\ gateway  \in [Bookings -> SUBSET Event]
  /\ hooks    \in [Bookings -> SUBSET Event]
  /\ req      \in [Requests -> Request \cup {NoRequest}]
  /\ seen     \in [Bookings -> SUBSET Status]
  /\ otpShown \subseteq Bookings
  /\ died     \subseteq Bookings
  /\ vouched  \subseteq Bookings
  /\ upsets   \in 0..MaxUpsets

\* A booking just created: `finding`, unassigned, payment PENDING, one
\* history row.
Init ==
  /\ booking \in [Bookings -> [status: {"finding"}, agent: {NoAgent},
                               pay: {"PENDING"}, slot: Slots]]
  /\ payment  = [b \in Bookings |-> "PENDING"]
  /\ txns     = [b \in Bookings |-> {}]
  /\ logged   = [b \in Bookings |-> {"finding"}]
  /\ earnings = [b \in Bookings |-> [a \in Agents |-> 0]]
  /\ gateway  = [b \in Bookings |-> {}]
  /\ hooks    = [b \in Bookings |-> {}]
  /\ req      = [q \in Requests |-> NoRequest]
  /\ seen     = [b \in Bookings |-> {"finding"}]
  /\ otpShown = {}
  /\ died     = {}
  /\ vouched  = {}
  /\ upsets   = 0

-----------------------------------------------------------------------------
(* Requests and their statements.                                          *)

InFlight(q)  == req[q].todo # {}
Holds(q, b)  == InFlight(q) /\ req[q].b = b
Quiet(b)     == \A q \in Requests : ~Holds(q, b)

\* The behaviour uses up one of its upsets.
Upset == upsets < MaxUpsets /\ upsets' = upsets + 1

\* A handler has loaded its entities, passed its checks, and changed them in
\* memory; `todo` is what it still awaits.
Begin(q, b, row, pay, txn, todo) ==
  /\ ~InFlight(q)
  /\ req' = [req EXCEPT ![q] = [b |-> b, row |-> row, pay |-> pay, txn |-> txn,
                                dirty |-> {}, todo |-> todo]]
  /\ IF \A p \in Requests : ~InFlight(p)
     THEN UNCHANGED upsets
     ELSE Upset

\* It is statement s's turn in request q.
Turn(q, s) ==
  /\ s \in req[q].todo
  /\ \A t \in req[q].todo : Rank[s] <= Rank[t]

\* The request goes on as r, or is answered when r has nothing left to do.
Continue(q, r) ==
  req' = [req EXCEPT ![q] = IF r.todo = {} THEN NoRequest ELSE r]

Done(q, s) == Continue(q, [req[q] EXCEPT !.todo = @ \ {s}])

\* The handler throws: what it has already written stays written.
Abort(q) == req' = [req EXCEPT ![q] = NoRequest]

\* TypeORM save(entity), first half: SELECT the row, and find the columns in
\* which the entity in memory differs from it.
Differing(mem, row) == {c \in Columns : mem[c] # row[c]}

SelectForSave(q) ==
  /\ Turn(q, "save")
  /\ LET diff == Differing(req[q].row, booking[req[q].b])
     IN  Continue(q, [req[q] EXCEPT
           !.dirty = diff,
           !.todo  = (@ \ {"save"}) \cup (IF diff = {} THEN {} ELSE {"update"})])
  /\ UNCHANGED <<db, env, hist>>

\* TypeORM save(entity), second half: UPDATE exactly those columns, whatever
\* the row holds by now.
Overwrite(row, mem, cols) ==
  [status |-> IF "status" \in cols THEN mem.status ELSE row.status,
   agent  |-> IF "agent"  \in cols THEN mem.agent  ELSE row.agent,
   pay    |-> IF "pay"    \in cols THEN mem.pay    ELSE row.pay,
   slot   |-> IF "slot"   \in cols THEN mem.slot   ELSE row.slot]

UpdateRow(q) ==
  /\ Turn(q, "update")
  /\ LET b   == req[q].b
         new == Overwrite(booking[b], req[q].row, req[q].dirty)
     IN  /\ booking' = [booking EXCEPT ![b] = new]
         /\ seen'    = [seen EXCEPT ![b] = @ \cup {new.status}]
  /\ Done(q, "update")
  /\ UNCHANGED <<payment, txns, logged, earnings, env, otpShown, died, vouched>>

\* paymentRepo.save(payment): one column, so SELECT and UPDATE are one step.
\* "refund" is the same statement where the handler issues it last.
SavePayment(q) ==
  /\ \E s \in {"payment", "refund"} : Turn(q, s) /\ Done(q, s)
  /\ payment' = [payment EXCEPT ![req[q].b] = req[q].pay]
  /\ UNCHANGED <<booking, txns, logged, earnings, env, hist>>

InsertTxn(q) ==
  /\ Turn(q, "txn")
  /\ txns' = [txns EXCEPT ![req[q].b] = @ \cup {req[q].txn}]
  /\ Done(q, "txn")
  /\ UNCHANGED <<booking, payment, logged, earnings, env, hist>>

\* BookingHistoryService.record, always with the status in memory.
Record(q) ==
  /\ Turn(q, "record")
  /\ logged' = [logged EXCEPT ![req[q].b] = @ \cup {req[q].row.status}]
  /\ Done(q, "record")
  /\ UNCHANGED <<booking, payment, txns, earnings, env, hist>>

\* A request dies between two statements (process crash, failed await).
Crash(q) ==
  /\ InFlight(q)
  /\ Upset
  /\ died'    = died \cup {req[q].b}
  /\ Abort(q)
  /\ UNCHANGED <<db, env, seen, otpShown, vouched>>

-----------------------------------------------------------------------------
(* The customer app: payments.                                             *)

\* createOrder: refused once paid, whatever the booking's status.  The
\* payment row is saved only when the caller names a payment method.
CreateOrder(q, b, namesMethod) ==
  /\ booking[b].pay # "PAID"
  /\ payment[b] # "PAID"
  /\ Begin(q, b, booking[b], payment[b], "created",
           {"txn"} \cup (IF namesMethod THEN {"payment"} ELSE {}))
  /\ UNCHANGED <<db, env, hist>>

\* Mutant: settleBooking moves the status and forgets the mirror.
SettledStatusOnly(row) ==
  [row EXCEPT !.status = IF @ = "finding" THEN "paid" ELSE @]

\* settleBooking on the entity in memory: mirror the payment, and move a
\* `finding` booking to `paid`.
Settled(row) ==
  [row EXCEPT !.pay = "PAID",
              !.status = IF @ = "finding" THEN "paid" ELSE @]

\* Mutant: markPaid no longer inserts its transaction row.
SettleUnlogged(q, b, todo) ==
  Begin(q, b, Settled(booking[b]), "PAID", "captured",
        {"payment", "save"} \cup todo
          \cup (IF booking[b].status = "finding" THEN {"record"} ELSE {}))

\* markPaid followed by settleBooking; only a transition is recorded.
Settle(q, b, todo) ==
  Begin(q, b, Settled(booking[b]), "PAID", "captured",
        {"payment", "txn", "save"} \cup todo
          \cup (IF booking[b].status = "finding" THEN {"record"} ELSE {}))

\* verify: the app hands in a booking, and the gateway's signature of the ids
\* of an order and its payment.  The signature is checked, but not that the
\* order is the booking's: without a capture for the booking, the ids are those
\* of another payment, as of one for an earlier booking.  Nor are the booking's
\* and the payment's statuses looked at.
Verify(q, b) ==
  /\ Settle(q, b, {})
  /\ vouched' = vouched \cup (IF "captured" \in gateway[b] THEN {} ELSE {b})
  /\ UNCHANGED <<db, env, seen, otpShown, died>>

\* handleWebhook, `payment.captured`: delivered at least once, in any order.
WebhookCaptured(q, b) ==
  /\ "captured" \in gateway[b]
  /\ "created" \in txns[b]
  /\ Settle(q, b, {"ack"})
  /\ UNCHANGED <<db, env, hist>>

\* handleWebhook, `payment.failed`: an attempt on the order failed.
WebhookFailed(q, b) ==
  /\ "failed" \in gateway[b]
  /\ "created" \in txns[b]
  /\ Begin(q, b, [booking[b] EXCEPT !.pay = "FAILED"], "FAILED", "failed",
           {"payment", "txn", "save", "ack"})
  /\ UNCHANGED <<db, env, hist>>

\* Mutant: the event is acknowledged before it has been applied.
AckEarly(q) ==
  /\ "ack" \in req[q].todo
  /\ hooks' = [hooks EXCEPT ![req[q].b] = @ \ {req[q].txn}]
  /\ Done(q, "ack")
  /\ UNCHANGED <<db, gateway, hist>>

\* The handler answers 200 and the gateway stops redelivering the event.
Acknowledge(q) ==
  /\ Turn(q, "ack")
  /\ hooks' = [hooks EXCEPT ![req[q].b] = @ \ {req[q].txn}]
  /\ Done(q, "ack")
  /\ UNCHANGED <<db, gateway, hist>>

\* External: on an order, attempts may fail until one is captured.
GatewayOutcome(b, e) ==
  /\ "created" \in txns[b]
  /\ gateway[b] \cap {e, "captured"} = {}
  /\ gateway' = [gateway EXCEPT ![b] = @ \cup {e}]
  /\ hooks'   = [hooks EXCEPT ![b] = @ \cup {e}]
  /\ UNCHANGED <<db, req, hist, upsets>>

-----------------------------------------------------------------------------
(* Cancelling and rescheduling.                                            *)

\* Mutant: cancelling refunds without looking at what was collected.
AlwaysRefund(collected) == IF collected \in BOOLEAN THEN "REFUNDED" ELSE "VOIDED"

RefundOrVoid(collected) == IF collected THEN "REFUNDED" ELSE "VOIDED"

\* The customer's cancel: the payment is saved first, then the booking.
CancelByCustomer(q, b) ==
  LET pay == RefundOrVoid(payment[b] = "PAID")
  IN  /\ CanTransition(booking[b].status, "cancelled")
      /\ Begin(q, b, [booking[b] EXCEPT !.pay = pay, !.status = "cancelled"],
               pay, "created", {"payment", "save", "record"})
      /\ UNCHANGED <<db, env, hist>>

\* The admin's cancel: the booking is loaded, then the payment; the booking
\* is saved first.  The assertion of `transition` is about the loaded status.
CancelByAdmin(q, b) ==
  /\ CanTransition(booking[b].status, "cancelled")
  /\ Begin(q, b, booking[b], payment[b], "created",
           {"readPayment", "save", "record", "refund"})
  /\ UNCHANGED <<db, env, hist>>

ReadPayment(q) ==
  /\ Turn(q, "readPayment")
  /\ LET r   == req[q]
         pay == RefundOrVoid("PAID" \in {payment[r.b], r.row.pay})
     IN  Continue(q, [r EXCEPT !.pay = pay,
                               !.row.pay = pay,
                               !.row.status = "cancelled",
                               !.todo = @ \ {"readPayment"}])
  /\ UNCHANGED <<db, env, hist>>

\* reschedule: neither the agent's calendar nor the agent is asked.
Reschedule(q, b, slot) ==
  /\ booking[b].status \in Reschedulable
  /\ Begin(q, b, [booking[b] EXCEPT !.slot = slot], payment[b], "created",
           {"save", "record"})
  /\ UNCHANGED <<db, env, hist>>

-----------------------------------------------------------------------------
(* The agent app.                                                          *)

\* accept: the claim is one conditional UPDATE ...
Claim(q, a, b) ==
  /\ booking[b].status = "paid"
  /\ booking[b].agent = NoAgent
  /\ booking' = [booking EXCEPT ![b].agent = a]
  /\ Begin(q, b, booking[b], payment[b], "created", {"reread"})
  /\ UNCHANGED <<payment, txns, logged, earnings, env, hist>>

\* ... after which the row is read again, and moved to `accepted` if it may be.
Reread(q) ==
  /\ Turn(q, "reread")
  /\ LET b == req[q].b
     IN  IF CanTransition(booking[b].status, "accepted")
         THEN Continue(q, [req[q] EXCEPT
                !.row  = [booking[b] EXCEPT !.status = "accepted"],
                !.todo = {"save", "record"}])
         ELSE Abort(q)
  /\ UNCHANGED <<db, env, hist>>

\* Mutants of the release: no history row, the status left alone, or allowed
\* in the middle of the work.
ReleaseUnlogged(q, a, b) ==
  /\ booking[b].agent = a
  /\ booking[b].status \notin PastRelease
  /\ Begin(q, b, [booking[b] EXCEPT !.agent = NoAgent, !.status = "paid"],
           payment[b], "created", {"save"})
  /\ UNCHANGED <<db, env, hist>>

ReleaseKeepsStatus(q, a, b) ==
  /\ booking[b].agent = a
  /\ booking[b].status \notin PastRelease
  /\ Begin(q, b, [booking[b] EXCEPT !.agent = NoAgent],
           payment[b], "created", {"save", "record"})
  /\ UNCHANGED <<db, env, hist>>

ReleaseMidWork(q, a, b) ==
  /\ booking[b].agent = a
  /\ booking[b].status \notin {"completed", "cancelled"}
  /\ Begin(q, b, [booking[b] EXCEPT !.agent = NoAgent, !.status = "paid"],
           payment[b], "created", {"save", "record"})
  /\ UNCHANGED <<db, env, hist>>

\* reject by the assigned agent: written directly, with no transition check.
Release(q, a, b) ==
  /\ booking[b].agent = a
  /\ booking[b].status \notin PastRelease
  /\ Begin(q, b, [booking[b] EXCEPT !.agent = NoAgent, !.status = "paid"],
           payment[b], "created", {"save", "record"})
  /\ UNCHANGED <<db, env, hist>>

\* reject by anybody else only adds a history row.
Decline(q, a, b) ==
  /\ booking[b].agent # a
  /\ Begin(q, b, booking[b], payment[b], "created", {"record"})
  /\ UNCHANGED <<db, env, hist>>

\* arrived, start and complete work on the caller's own booking.
Advance(q, a, b, next, todo) ==
  /\ booking[b].agent = a
  /\ CanTransition(booking[b].status, next)
  /\ Begin(q, b, [booking[b] EXCEPT !.status = next], payment[b], "created",
           {"save", "record"} \cup todo)

Arrive(q, a, b) ==
  /\ Advance(q, a, b, "arriving", {})
  /\ UNCHANGED <<db, env, hist>>

\* Mutant: start no longer compares the OTP.
AnyOtp(row, otpMatches) ==
  row.status \in {"arriving", "accepted"} /\ otpMatches \in BOOLEAN

ReadyToStart(row, otpMatches) ==
  row.status \in {"arriving", "accepted"} /\ otpMatches

\* start: the agent presents an OTP, which either is the booking's or is not.
Start(q, a, b, otpMatches) ==
  /\ ReadyToStart(booking[b], otpMatches)
  /\ Advance(q, a, b, "ongoing", {})
  /\ otpShown' = otpShown \cup (IF otpMatches THEN {b} ELSE {})
  /\ UNCHANGED <<db, env, seen, died, vouched>>

\* Mutant: completing does not call recordEarning.
CompleteUnpaid(q, a, b) ==
  /\ Advance(q, a, b, "completed", {})
  /\ UNCHANGED <<db, env, hist>>

Complete(q, a, b) ==
  /\ Advance(q, a, b, "completed", {"findEarning"})
  /\ UNCHANGED <<db, env, hist>>

PaidOut(b) == \E a \in Agents : earnings[b][a] > 0

\* recordEarning: look for a row of the booking, ...
FindEarning(q) ==
  /\ Turn(q, "findEarning")
  /\ Continue(q, [req[q] EXCEPT
       !.todo = IF PaidOut(req[q].b) THEN {} ELSE {"insertEarning"}])
  /\ UNCHANGED <<db, env, hist>>

\* ... and insert one for the agent who was assigned when the handler began.
InsertEarning(q) ==
  /\ Turn(q, "insertEarning")
  /\ earnings' = [earnings EXCEPT ![req[q].b][req[q].row.agent] = @ + 1]
  /\ Done(q, "insertEarning")
  /\ UNCHANGED <<booking, payment, txns, logged, env, hist>>

-----------------------------------------------------------------------------
(* The admin app: assign-agent and reassign-agent.                         *)

\* assign-agent: a `paid` booking becomes `accepted`, any other assignable
\* one keeps its status.
Assign(q, a, b) ==
  /\ booking[b].status \in Assignable
  /\ Begin(q, b, [booking[b] EXCEPT !.agent = a,
                    !.status = IF @ = "paid" THEN "accepted" ELSE @],
           payment[b], "created", {"clash", "save", "record"})
  /\ UNCHANGED <<db, env, hist>>

Reassign(q, a, b) ==
  /\ booking[b].status \notin PastRelease
  /\ booking[b].agent \notin {NoAgent, a}
  /\ Begin(q, b, [booking[b] EXCEPT !.agent = a], payment[b], "created",
           {"clash", "save", "record"})
  /\ UNCHANGED <<db, env, hist>>

\* assertNoClash: another active booking of that agent in that slot.
Clashes(r) ==
  \E c \in Bookings \ {r.b} :
    /\ booking[c].agent = r.row.agent
    /\ booking[c].slot = r.row.slot
    /\ booking[c].status \in ActiveStatus

CheckClash(q) ==
  /\ Turn(q, "clash")
  /\ IF Clashes(req[q]) THEN Abort(q) ELSE Done(q, "clash")
  /\ UNCHANGED <<db, env, hist>>

-----------------------------------------------------------------------------
Customer(q, b) ==
  \/ \E m \in BOOLEAN : CreateOrder(q, b, m)
  \/ Verify(q, b)
  \/ CancelByCustomer(q, b)
  \/ \E s \in Slots : Reschedule(q, b, s)

Webhook(q, b) == WebhookCaptured(q, b) \/ WebhookFailed(q, b)

Agent(q, b) ==
  \E a \in Agents :
    \/ Claim(q, a, b)
    \/ Release(q, a, b)
    \/ Decline(q, a, b)
    \/ Arrive(q, a, b)
    \/ \E otpMatches \in BOOLEAN : Start(q, a, b, otpMatches)
    \/ Complete(q, a, b)

Admin(q, b) ==
  \/ CancelByAdmin(q, b)
  \/ \E a \in Agents : Assign(q, a, b) \/ Reassign(q, a, b)

\* A request already in flight executes its next statement.
Execute(q) ==
  /\ \/ CheckClash(q) \/ ReadPayment(q) \/ Reread(q)
     \/ SelectForSave(q) \/ UpdateRow(q) \/ SavePayment(q)
     \/ InsertTxn(q) \/ Record(q)
     \/ FindEarning(q) \/ InsertEarning(q) \/ Acknowledge(q)
  /\ UNCHANGED upsets

Next ==
  \/ \E q \in Requests, b \in Bookings :
       Customer(q, b) \/ Webhook(q, b) \/ Agent(q, b) \/ Admin(q, b)
  \/ \E q \in Requests : Execute(q) \/ Crash(q)
  \/ \E b \in Bookings, e \in Event : GatewayOutcome(b, e)

Spec == Init /\ [][Next]_vars

-----------------------------------------------------------------------------
(* What holds however the requests interleave and wherever they die.       *)

\* The statuses that requests past their checks will still record for b.
Pending(b) == {req[q].row.status : q \in {p \in Requests :
                 /\ Holds(p, b)
                 /\ "record" \in req[p].todo
                 /\ req[p].todo \cap {"clash", "readPayment"} = {}}}

\* Work on a booking is under way or done only if an agent presented its
\* start OTP: no stale save, claim or reassignment gets past `start`.
OtpBeforeWork ==
  \A b \in Bookings :
    booking[b].status \in {"ongoing", "completed"} => b \in otpShown

\* What a booking was settled for: a capture of its own, or another order's.
Settleable(b) == "captured" \in gateway[b] \/ b \in vouched

\* Money is booked as received, or as refunded, only if the gateway captured
\* it, or verify was handed the ids of another order: nothing that cancel,
\* createOrder, verify and webhooks overwrite, and no crash, books any else.
NoPhantomMoney ==
  \A b \in Bookings :
    {payment[b], booking[b].pay} \cap {"PAID", "REFUNDED"} # {} => Settleable(b)

\* A payment booked as received or refunded has its `captured` transaction
\* row, or a request that is about to insert it, or lost it in a crash.
LedgerExplainsPayment ==
  \A b \in Bookings :
    payment[b] \in {"PAID", "REFUNDED"} =>
      \/ "captured" \in txns[b]
      \/ \E q \in Requests :
           Holds(q, b) /\ "txn" \in req[q].todo /\ req[q].txn = "captured"
      \/ b \in died

\* Every status the booking ever had is in booking_status_history, or is
\* about to be recorded, unless a request died in between: also for the
\* handlers that write the status without going through `transition`.
AuditTrailComplete ==
  \A b \in Bookings \ died : seen[b] \subseteq logged[b] \cup Pending(b)

\* An agent is credited only for a booking that was completed.
EarningsOnlyForCompleted ==
  \A b \in Bookings : PaidOut(b) => "completed" \in seen[b]

\* No status is ever skipped: the row takes a status only if the booking was
\* in it before, or in one of the statuses the table lets precede it.
NoStatusSkipped ==
  [][\A b \in Bookings :
       \/ booking'[b].status \in seen[b]
       \/ \E s \in seen[b] : booking'[b].status \in Transitions[s]]_vars

-----------------------------------------------------------------------------
(* Why: a value in a row or in a request's memory always has its cause.    *)

\* A booking and payment status that some handler could have written.
Caused(b, row, pay) ==
  /\ row.status \in {"ongoing", "completed"} => b \in otpShown
  /\ {row.pay, pay} \cap {"PAID", "REFUNDED"} # {} => Settleable(b)
  /\ \E s \in seen[b] : row.status \in {s} \cup Transitions[s]

RowCaused(b) ==
  /\ {"finding", booking[b].status} \subseteq seen[b]
  /\ Caused(b, booking[b], payment[b])

MemoryCaused(q) ==
  InFlight(q) =>
    /\ Caused(req[q].b, req[q].row, req[q].pay)
    /\ "readPayment" \in req[q].todo =>
         /\ req[q].row.status \in seen[req[q].b]
         /\ "cancelled" \in Transitions[req[q].row.status]

IInv ==
  /\ TypeOK
  /\ \A b \in Bookings : RowCaused(b)
  /\ \A q \in Requests : MemoryCaused(q)

-----------------------------------------------------------------------------
(* What holds when the requests of a server are served one at a time       *)
(* (Requests a singleton): the handlers are right in isolation.            *)

\* bookings.payment_status mirrors payments.payment_status.
MirrorsPayment ==
  \A b \in Bookings \ died : Quiet(b) => booking[b].pay = payment[b]

\* A booking an agent works on has that agent.
WorkHasAgent ==
  \A b \in Bookings :
    booking[b].status \in {"accepted", "arriving", "ongoing", "completed"}
      => booking[b].agent # NoAgent

\* `completed` and `cancelled` have no way out.
TerminalIsFinal ==
  [][\A b \in Bookings : booking[b].status \in {"completed", "cancelled"}
       => booking'[b].status = booking[b].status]_vars

\* One earnings row per booking, for the agent who is on it.
OneEarning ==
  \A b \in Bookings, a \in Agents :
    earnings[b][a] > 0 => earnings[b][a] = 1 /\ booking[b].agent = a

\* The status and the agent of the rows move as the abstract machine allows.
Lifecycle == INSTANCE BookingLifecycle WITH
  job <- [b \in Bookings |-> [status |-> booking[b].status,
                              agent  |-> booking[b].agent]]
FollowsLifecycle == Lifecycle!Spec

-----------------------------------------------------------------------------
(* Liveness.  A request in flight makes progress; the gateway redelivers an *)
(* event until a handler has answered it.                                   *)

Redeliver(b, e) ==
  /\ e \in hooks[b]
  /\ \E q \in Requests :
       IF e = "captured" THEN WebhookCaptured(q, b) ELSE WebhookFailed(q, b)

Fairness ==
  /\ \A q \in Requests : WF_vars(Execute(q))
  /\ \A b \in Bookings, e \in Event : SF_vars(Redeliver(b, e))

FairSpec == Spec /\ Fairness

\* A capture always reaches the ledger: when verify dies or is never called,
\* the redelivered webhook finishes the job.
CaptureReachesLedger ==
  \A b \in Bookings :
    ("captured" \in gateway[b]) ~> ("captured" \in txns[b])

\* A completed job is always paid out, unless a request died on it.
CompletedIsPaidOut ==
  \A b \in Bookings :
    ("completed" \in seen[b]) ~> (PaidOut(b) \/ b \in died)

-----------------------------------------------------------------------------
(* What the repository says and the code does not keep.                    *)

\* A booking leaves `finding` for an agent's queue only once it is paid for,
\* if with another order's payment.
WorkIsPaidFor ==
  \A b \in Bookings :
    booking[b].status \notin {"finding", "cancelled"} => Settleable(b)

\* A captured payment of a cancelled booking is refunded, once every request
\* and every redelivery is through.
CancelledIsRefunded ==
  \A b \in Bookings \ died :
    (/\ booking[b].status = "cancelled"
     /\ "captured" \in gateway[b]
     /\ hooks[b] = {}
     /\ Quiet(b)) => payment[b] = "REFUNDED"
=============================================================================
