--------------------------- MODULE BookingProofs ---------------------------
(***************************************************************************)
(* What holds of BookingRequests for every set of bookings, agents, slots  *)
(* and concurrent requests, and for every bound on the upsets: the types   *)
(* and causes first, then the traces every interleaving leaves, at last    *)
(* what a server that serves one request at a time keeps as well.          *)
(***************************************************************************)
EXTENDS BookingRequests, TLAPS

\* What a request has in memory, whether or not it has statements left.
Memory == [b: Bookings, row: Row, pay: PayStatus, txn: TxnKind,
           dirty: SUBSET Columns, todo: SUBSET Statement]

\* The statements a handler can leave to do are the ones Rank orders.
LEMMA Statements ==
  Statement = {"clash", "readPayment", "reread", "payment", "txn", "save",
               "update", "record", "refund", "findEarning", "insertEarning",
               "ack"}
BY DEF Statement, Rank

\* A request in flight has a complete memory.
LEMMA InFlightMemory ==
  ASSUME TypeOK, NEW q \in Requests, req[q].todo # {}
  PROVE  req[q] \in Request /\ req[q] \in Memory
<1>1. req[q] \in Request \cup {NoRequest}
  BY DEF TypeOK
<1>2. req[q] # NoRequest
  BY DEF NoRequest
<1>3. QED
  BY <1>1, <1>2 DEF Request, Memory

\* Starting a handler keeps the types of what it writes.
LEMMA BeginType ==
  ASSUME TypeOK, ConstantsAssumption,
         NEW q \in Requests, NEW b \in Bookings, NEW row \in Row,
         NEW pay \in PayStatus, NEW txn \in TxnKind,
         NEW todo \in SUBSET Statement, todo # {},
         Begin(q, b, row, pay, txn, todo)
  PROVE  req' \in [Requests -> Request \cup {NoRequest}] /\ upsets' \in 0..MaxUpsets
<1>1. [b |-> b, row |-> row, pay |-> pay, txn |-> txn, dirty |-> {},
       todo |-> todo] \in Request
  BY DEF Request
<1>2. req' \in [Requests -> Request \cup {NoRequest}]
  BY <1>1 DEF Begin, TypeOK
<1>3. upsets' \in 0..MaxUpsets
  BY DEF Begin, Upset, TypeOK, ConstantsAssumption
<1>4. QED
  BY <1>2, <1>3

\* Going on with any memory keeps the type of the requests.
LEMMA ContinueType ==
  ASSUME TypeOK, NEW q \in Requests, NEW r \in Memory, Continue(q, r)
  PROVE  req' \in [Requests -> Request \cup {NoRequest}]
<1>1. r.todo # {} => r \in Request
  BY DEF Memory, Request
<1>2. QED
  BY <1>1 DEF Continue, TypeOK

LEMMA DoneType ==
  ASSUME TypeOK, NEW q \in Requests, req[q].todo # {}, NEW s, Done(q, s)
  PROVE  req' \in [Requests -> Request \cup {NoRequest}]
<1>1. [req[q] EXCEPT !.todo = @ \ {s}] \in Memory
  BY InFlightMemory DEF Memory
<1>2. QED
  BY <1>1, ContinueType DEF Done

-----------------------------------------------------------------------------
(* The types.                                                              *)

LEMMA InitType == ConstantsAssumption /\ Init => TypeOK
BY DEF ConstantsAssumption, Init, TypeOK, Row, Status, PayStatus, NoRequest

\* Most steps change nothing but the requests.
LEMMA FrameType ==
  ASSUME TypeOK, UNCHANGED <<db, env, hist>>,
         req' \in [Requests -> Request \cup {NoRequest}],
         upsets' \in 0..MaxUpsets
  PROVE  TypeOK'
BY DEF TypeOK, db, env, hist

\* A handler that only loads, checks and changes memory keeps the types.
LEMMA QuietHandlerType ==
  ASSUME TypeOK, ConstantsAssumption,
         NEW q \in Requests, NEW b \in Bookings, NEW row \in Row,
         NEW pay \in PayStatus, NEW txn \in TxnKind,
         NEW todo \in SUBSET Statement, todo # {},
         Begin(q, b, row, pay, txn, todo), UNCHANGED <<db, env, hist>>
  PROVE  TypeOK'
BY BeginType, FrameType

\* Assigning columns of the entity in memory.
LEMMA RowType ==
  ASSUME NEW row \in Row
  PROVE  /\ row.status \in Status
         /\ row.pay \in PayStatus
         /\ \A s \in Status : [row EXCEPT !.status = s] \in Row
         /\ \A p \in PayStatus : [row EXCEPT !.pay = p] \in Row
         /\ \A a \in Agents \cup {NoAgent} : [row EXCEPT !.agent = a] \in Row
         /\ \A t \in Slots : [row EXCEPT !.slot = t] \in Row
         /\ \A p \in PayStatus, s \in Status :
              [row EXCEPT !.pay = p, !.status = s] \in Row
         /\ \A a \in Agents \cup {NoAgent}, s \in Status :
              [row EXCEPT !.agent = a, !.status = s] \in Row
BY DEF Row

\* Every handler begins with a well-formed memory.
LEMMA HandlerType ==
  ASSUME TypeOK, ConstantsAssumption, NEW q \in Requests, NEW b \in Bookings,
         Customer(q, b) \/ Webhook(q, b) \/ Agent(q, b) \/ Admin(q, b)
  PROVE  TypeOK'
<1> USE Statements
<1>0. /\ booking[b] \in Row
      /\ booking[b].slot \in Slots
      /\ payment[b] \in PayStatus
      /\ Status = {"finding", "paid", "accepted", "arriving", "ongoing",
                   "completed", "cancelled"}
      /\ PayStatus = {"PENDING", "PAID", "FAILED", "REFUNDED", "VOIDED"}
      /\ TxnKind = {"created", "captured", "failed"}
  BY DEF TypeOK, Row, Status, PayStatus, TxnKind
<1>1. ASSUME NEW m \in BOOLEAN, CreateOrder(q, b, m) PROVE TypeOK'
  <2> DEFINE todo == {"txn"} \cup (IF m THEN {"payment"} ELSE {})
  <2>1. todo \in SUBSET Statement /\ todo # {}
    OBVIOUS
  <2>2. Begin(q, b, booking[b], payment[b], "created", todo)
    BY <1>1 DEF CreateOrder
  <2>3. QED
    BY <1>0, <1>1, <2>1, <2>2, QuietHandlerType DEF CreateOrder
<1>2. ASSUME NEW more \in SUBSET Statement, Settle(q, b, more),
             UNCHANGED <<db, env, seen, otpShown, died>>, vouched' \subseteq Bookings
      PROVE  TypeOK'
  <2> DEFINE todo == {"payment", "txn", "save"} \cup more
               \cup (IF booking[b].status = "finding" THEN {"record"} ELSE {})
  <2>1. Settled(booking[b]) \in Row
    <3>1. PICK s \in Status : s = IF booking[b].status = "finding"
                                  THEN "paid" ELSE booking[b].status
      BY <1>0, RowType
    <3>2. Settled(booking[b]) = [booking[b] EXCEPT !.pay = "PAID", !.status = s]
      BY <3>1 DEF Settled
    <3>3. "PAID" \in PayStatus
      BY <1>0
    <3>4. [booking[b] EXCEPT !.pay = "PAID", !.status = s] \in Row
      BY <1>0, <3>3, RowType
    <3>5. QED
      BY <3>2, <3>4
  <2>2. todo \in SUBSET Statement /\ todo # {}
    OBVIOUS
  <2>3. Begin(q, b, Settled(booking[b]), "PAID", "captured", todo)
    BY <1>2 DEF Settle
  <2>4. /\ req' \in [Requests -> Request \cup {NoRequest}]
        /\ upsets' \in 0..MaxUpsets
    BY <1>0, <2>1, <2>2, <2>3, BeginType
  <2>5. QED
    BY <1>2, <2>4 DEF TypeOK, db, env
<1>3. CASE Verify(q, b)
  <2>1. vouched' \subseteq Bookings
    BY <1>3 DEF Verify, TypeOK
  <2>2. QED
    BY <1>2, <1>3, <2>1 DEF Verify
<1>4. CASE WebhookCaptured(q, b)
  <2>1. UNCHANGED <<seen, otpShown, died>> /\ vouched' \subseteq Bookings
    BY <1>4 DEF WebhookCaptured, hist, TypeOK
  <2>2. QED
    BY <1>2, <1>4, <2>1 DEF WebhookCaptured
<1>5. CASE WebhookFailed(q, b)
  <2>1. [booking[b] EXCEPT !.pay = "FAILED"] \in Row
    BY <1>0, RowType
  <2>2. Begin(q, b, [booking[b] EXCEPT !.pay = "FAILED"], "FAILED", "failed",
              {"payment", "txn", "save", "ack"})
    BY <1>5 DEF WebhookFailed
  <2>3. QED
    BY <1>0, <1>5, <2>1, <2>2, QuietHandlerType DEF WebhookFailed
<1>6. CASE CancelByCustomer(q, b)
  <2> DEFINE pay == RefundOrVoid(payment[b] = "PAID")
  <2>1. pay \in PayStatus
    BY DEF RefundOrVoid, PayStatus
  <2>2. Begin(q, b, [booking[b] EXCEPT !.pay = pay, !.status = "cancelled"],
              pay, "created", {"payment", "save", "record"})
    BY <1>6 DEF CancelByCustomer
  <2> HIDE DEF pay
  <2>3. [booking[b] EXCEPT !.pay = pay, !.status = "cancelled"] \in Row
    BY <1>0, <2>1, RowType
  <2>4. QED
    BY <1>0, <1>6, <2>1, <2>2, <2>3, QuietHandlerType DEF CancelByCustomer
<1>7. CASE CancelByAdmin(q, b)
  <2>1. Begin(q, b, booking[b], payment[b], "created",
              {"readPayment", "save", "record", "refund"})
    BY <1>7 DEF CancelByAdmin
  <2>2. QED
    BY <1>0, <1>7, <2>1, QuietHandlerType DEF CancelByAdmin
<1>8. ASSUME NEW t \in Slots, Reschedule(q, b, t) PROVE TypeOK'
  <2>1. [booking[b] EXCEPT !.slot = t] \in Row
    BY <1>0, RowType
  <2>2. Begin(q, b, [booking[b] EXCEPT !.slot = t], payment[b], "created",
              {"save", "record"})
    BY <1>8 DEF Reschedule
  <2>3. QED
    BY <1>0, <1>8, <2>1, <2>2, QuietHandlerType DEF Reschedule
<1>9. ASSUME NEW a \in Agents, Claim(q, a, b) PROVE TypeOK'
  <2>1. Begin(q, b, booking[b], payment[b], "created", {"reread"})
    BY <1>9 DEF Claim
  <2>2. /\ req' \in [Requests -> Request \cup {NoRequest}]
        /\ upsets' \in 0..MaxUpsets
    BY <1>0, <2>1, BeginType
  <2>3. booking' \in [Bookings -> Row]
    BY <1>9 DEF Claim, TypeOK, Row
  <2>4. QED
    BY <1>9, <2>2, <2>3 DEF Claim, TypeOK, env, hist
<1>10. ASSUME NEW a \in Agents, Release(q, a, b) PROVE TypeOK'
  <2>1. [booking[b] EXCEPT !.agent = NoAgent, !.status = "paid"] \in Row
    BY <1>0, RowType
  <2>2. Begin(q, b, [booking[b] EXCEPT !.agent = NoAgent, !.status = "paid"],
              payment[b], "created", {"save", "record"})
    BY <1>10 DEF Release
  <2>3. QED
    BY <1>0, <1>10, <2>1, <2>2, QuietHandlerType DEF Release
<1>11. ASSUME NEW a \in Agents, Decline(q, a, b) PROVE TypeOK'
  <2>1. Begin(q, b, booking[b], payment[b], "created", {"record"})
    BY <1>11 DEF Decline
  <2>2. QED
    BY <1>0, <1>11, <2>1, QuietHandlerType DEF Decline
<1>12. ASSUME NEW a \in Agents, NEW next \in Status,
              NEW more \in SUBSET Statement, Advance(q, a, b, next, more)
       PROVE  /\ req' \in [Requests -> Request \cup {NoRequest}]
              /\ upsets' \in 0..MaxUpsets
  <2>1. [booking[b] EXCEPT !.status = next] \in Row
    BY <1>0, RowType
  <2>2. {"save", "record"} \cup more \in SUBSET Statement
    OBVIOUS
  <2>3. Begin(q, b, [booking[b] EXCEPT !.status = next], payment[b],
              "created", {"save", "record"} \cup more)
    BY <1>12 DEF Advance
  <2>4. QED
    BY <1>0, <2>1, <2>2, <2>3, BeginType
<1>13. ASSUME NEW a \in Agents, Arrive(q, a, b) \/ Complete(q, a, b)
       PROVE  TypeOK'
  <2>1. /\ req' \in [Requests -> Request \cup {NoRequest}]
        /\ upsets' \in 0..MaxUpsets
    BY <1>0, <1>12, <1>13 DEF Arrive, Complete
  <2>2. QED
    BY <1>13, <2>1, FrameType DEF Arrive, Complete
<1>14. ASSUME NEW a \in Agents, NEW otp \in BOOLEAN, Start(q, a, b, otp)
       PROVE  TypeOK'
  <2>1. /\ req' \in [Requests -> Request \cup {NoRequest}]
        /\ upsets' \in 0..MaxUpsets
    BY <1>0, <1>12, <1>14 DEF Start
  <2>2. otpShown' \subseteq Bookings
    BY <1>14 DEF Start, TypeOK
  <2>3. QED
    BY <1>14, <2>1, <2>2 DEF Start, TypeOK, db, env
<1>15. ASSUME NEW a \in Agents, NEW row \in Row,
              Begin(q, b, row, payment[b], "created", {"clash", "save", "record"}),
              UNCHANGED <<db, env, hist>>
       PROVE  TypeOK'
  BY <1>0, <1>15, QuietHandlerType
<1>16. ASSUME NEW a \in Agents, Assign(q, a, b) PROVE TypeOK'
  <2> DEFINE row == [booking[b] EXCEPT !.agent = a,
                       !.status = IF @ = "paid" THEN "accepted" ELSE @]
  <2>1. row \in Row
    <3>1. PICK s \in Status : s = IF booking[b].status = "paid"
                                  THEN "accepted" ELSE booking[b].status
      BY <1>0, RowType
    <3>2. row = [booking[b] EXCEPT !.agent = a, !.status = s]
      BY <3>1
    <3>3. QED
      BY <1>0, <3>2, RowType
  <2>2. Begin(q, b, row, payment[b], "created", {"clash", "save", "record"})
    BY <1>16 DEF Assign
  <2> HIDE DEF row
  <2>3. QED
    BY <1>15, <1>16, <2>1, <2>2 DEF Assign
<1>17. ASSUME NEW a \in Agents, Reassign(q, a, b) PROVE TypeOK'
  <2>1. [booking[b] EXCEPT !.agent = a] \in Row
    BY <1>0, RowType
  <2>2. Begin(q, b, [booking[b] EXCEPT !.agent = a], payment[b], "created",
              {"clash", "save", "record"})
    BY <1>17 DEF Reassign
  <2>3. QED
    BY <1>15, <1>17, <2>1, <2>2 DEF Reassign
<1>18. QED
  BY <1>1, <1>3, <1>4, <1>5, <1>6, <1>7, <1>8, <1>9, <1>10, <1>11, <1>13,
     <1>14, <1>16, <1>17
  DEF Customer, Webhook, Agent, Admin

\* Every statement of a request in flight keeps the types.
LEMMA ExecuteType ==
  ASSUME TypeOK, ConstantsAssumption, NEW q \in Requests, Execute(q)
  PROVE  TypeOK'
<1> USE Statements
<1>0. /\ req[q].todo # {}
      /\ upsets' \in 0..MaxUpsets
  BY DEF Execute, Turn, CheckClash, ReadPayment, Reread, SelectForSave,
         UpdateRow, SavePayment, InsertTxn, Record, FindEarning,
         InsertEarning, Acknowledge, TypeOK
<1>1. req[q] \in Memory /\ req[q] \in Request
  BY <1>0, InFlightMemory
<1>2. ASSUME NEW s, Done(q, s)
      PROVE  req' \in [Requests -> Request \cup {NoRequest}]
  BY <1>0, <1>2, DoneType
<1>3. ASSUME Abort(q) PROVE req' \in [Requests -> Request \cup {NoRequest}]
  BY <1>3 DEF Abort, TypeOK
<1>4. CASE CheckClash(q)
  <2>1. req' \in [Requests -> Request \cup {NoRequest}]
    BY <1>2, <1>3, <1>4 DEF CheckClash
  <2>2. QED
    BY <1>0, <1>4, <2>1, FrameType DEF CheckClash
<1>5. CASE ReadPayment(q)
  <2> DEFINE r   == req[q]
             pay == RefundOrVoid("PAID" \in {payment[r.b], r.row.pay})
             mem == [r EXCEPT !.pay = pay, !.row.pay = pay,
                              !.row.status = "cancelled",
                              !.todo = @ \ {"readPayment"}]
  <2>1. pay \in PayStatus
    BY DEF RefundOrVoid, PayStatus
  <2>2. Continue(q, mem)
    BY <1>5 DEF ReadPayment
  <2> HIDE DEF pay
  <2>3. mem \in Memory
    BY <1>1, <2>1 DEF Memory, Row, Status
  <2> HIDE DEF mem
  <2>4. req' \in [Requests -> Request \cup {NoRequest}]
    BY <2>2, <2>3, ContinueType
  <2>5. QED
    BY <1>0, <1>5, <2>4, FrameType DEF ReadPayment
<1>6. CASE Reread(q)
  <2> DEFINE mem == [req[q] EXCEPT
                       !.row  = [booking[req[q].b] EXCEPT !.status = "accepted"],
                       !.todo = {"save", "record"}]
  <2>1. mem \in Memory
    <3>1. [booking[req[q].b] EXCEPT !.status = "accepted"] \in Row
      BY <1>1 DEF Memory, TypeOK, Row, Status
    <3>2. QED
      BY <1>1, <3>1 DEF Memory
  <2>2. Continue(q, mem) \/ Abort(q)
    BY <1>6 DEF Reread
  <2> HIDE DEF mem
  <2>3. req' \in [Requests -> Request \cup {NoRequest}]
    BY <1>3, <2>1, <2>2, ContinueType
  <2>4. QED
    BY <1>0, <1>6, <2>3, FrameType DEF Reread
<1>7. CASE SelectForSave(q)
  <2> DEFINE diff == Differing(req[q].row, booking[req[q].b])
             mem == [req[q] EXCEPT
                       !.dirty = diff,
                       !.todo  = (@ \ {"save"}) \cup
                                   (IF diff = {} THEN {} ELSE {"update"})]
  <2>1. diff \subseteq Columns
    BY DEF Differing
  <2>2. Continue(q, mem)
    BY <1>7 DEF SelectForSave
  <2> HIDE DEF diff
  <2>3. mem \in Memory
    BY <1>1, <2>1 DEF Memory
  <2> HIDE DEF mem
  <2>4. req' \in [Requests -> Request \cup {NoRequest}]
    BY <2>2, <2>3, ContinueType
  <2>5. QED
    BY <1>0, <1>7, <2>4, FrameType DEF SelectForSave
<1>8. CASE UpdateRow(q)
  <2> DEFINE b   == req[q].b
             new == Overwrite(booking[b], req[q].row, req[q].dirty)
  <2>1. b \in Bookings /\ new \in Row
    BY <1>1 DEF Memory, TypeOK, Row, Overwrite
  <2>2. /\ booking' = [booking EXCEPT ![b] = new]
        /\ seen' = [seen EXCEPT ![b] = @ \cup {new.status}]
    BY <1>8 DEF UpdateRow
  <2>3. new.status \in Status
    BY <2>1 DEF Row
  <2> HIDE DEF b, new
  <2>4. booking' \in [Bookings -> Row] /\ seen' \in [Bookings -> SUBSET Status]
    BY <2>1, <2>2, <2>3 DEF TypeOK
  <2>5. req' \in [Requests -> Request \cup {NoRequest}]
    BY <1>2, <1>8 DEF UpdateRow
  <2>6. QED
    BY <1>0, <1>8, <2>4, <2>5 DEF UpdateRow, TypeOK, env
<1>9. CASE SavePayment(q)
  <2>1. req' \in [Requests -> Request \cup {NoRequest}]
    BY <1>2, <1>9 DEF SavePayment
  <2>2. payment' \in [Bookings -> PayStatus]
    BY <1>1, <1>9 DEF SavePayment, TypeOK, Memory
  <2>3. QED
    BY <1>0, <1>9, <2>1, <2>2 DEF SavePayment, TypeOK, env, hist
<1>10. CASE InsertTxn(q)
  <2>1. req' \in [Requests -> Request \cup {NoRequest}]
    BY <1>2, <1>10 DEF InsertTxn
  <2>2. txns' \in [Bookings -> SUBSET TxnKind]
    BY <1>1, <1>10 DEF InsertTxn, TypeOK, Memory
  <2>3. QED
    BY <1>0, <1>10, <2>1, <2>2 DEF InsertTxn, TypeOK, env, hist
<1>11. CASE Record(q)
  <2>1. req' \in [Requests -> Request \cup {NoRequest}]
    BY <1>2, <1>11 DEF Record
  <2>2. logged' \in [Bookings -> SUBSET Status]
    BY <1>1, <1>11 DEF Record, TypeOK, Memory, Row
  <2>3. QED
    BY <1>0, <1>11, <2>1, <2>2 DEF Record, TypeOK, env, hist
<1>12. CASE FindEarning(q)
  <2> DEFINE mem == [req[q] EXCEPT
                       !.todo = IF PaidOut(req[q].b) THEN {} ELSE {"insertEarning"}]
  <2>1. mem \in Memory
    BY <1>1 DEF Memory
  <2>2. Continue(q, mem)
    BY <1>12 DEF FindEarning
  <2> HIDE DEF mem
  <2>3. req' \in [Requests -> Request \cup {NoRequest}]
    BY <2>1, <2>2, ContinueType
  <2>4. QED
    BY <1>0, <1>12, <2>3, FrameType DEF FindEarning
<1>13. CASE InsertEarning(q)
  <2>1. req' \in [Requests -> Request \cup {NoRequest}]
    BY <1>2, <1>13 DEF InsertEarning
  <2> DEFINE b == req[q].b
             a == req[q].row.agent
  <2>2. earnings' = [earnings EXCEPT ![b][a] = @ + 1]
    BY <1>13 DEF InsertEarning
  <2>3. b \in Bookings
    BY <1>1 DEF Memory
  <2> HIDE DEF a, b
  <2>4. earnings' \in [Bookings -> [Agents -> Nat]]
    <3>1. earnings[b] \in [Agents -> Nat]
      BY <2>3 DEF TypeOK
    <3>2. [earnings[b] EXCEPT ![a] = @ + 1] \in [Agents -> Nat]
      <4>1. CASE a \in Agents
        BY <3>1, <4>1
      <4>2. CASE a \notin Agents
        <5>1. [earnings[b] EXCEPT ![a] = @ + 1] = earnings[b]
          BY <3>1, <4>2
        <5>2. QED
          BY <3>1, <5>1
      <4>3. QED
        BY <4>1, <4>2
    <3>3. earnings' = [earnings EXCEPT ![b] = [earnings[b] EXCEPT ![a] = @ + 1]]
      BY <2>2
    <3>4. QED
      BY <2>3, <3>2, <3>3 DEF TypeOK
  <2>5. QED
    BY <1>0, <1>13, <2>1, <2>4 DEF InsertEarning, TypeOK, env, hist
<1>14. CASE Acknowledge(q)
  <2>1. req' \in [Requests -> Request \cup {NoRequest}]
    BY <1>2, <1>14 DEF Acknowledge
  <2>2. hooks' \in [Bookings -> SUBSET Event]
    BY <1>14 DEF Acknowledge, TypeOK
  <2>3. QED
    BY <1>0, <1>14, <2>1, <2>2 DEF Acknowledge, TypeOK, db, hist
<1>15. QED
  BY <1>4, <1>5, <1>6, <1>7, <1>8, <1>9, <1>10, <1>11, <1>12, <1>13, <1>14
  DEF Execute

LEMMA StepType == ConstantsAssumption /\ TypeOK /\ [Next]_vars => TypeOK'
<1> SUFFICES ASSUME ConstantsAssumption, TypeOK, [Next]_vars PROVE TypeOK'
  OBVIOUS
<1>1. ASSUME NEW q \in Requests, Crash(q) PROVE TypeOK'
  <2>1. req[q] \in Request
    BY <1>1, InFlightMemory DEF Crash, InFlight
  <2>2. req' \in [Requests -> Request \cup {NoRequest}]
    BY <1>1 DEF Crash, Abort, TypeOK
  <2>3. died' \subseteq Bookings /\ upsets' \in 0..MaxUpsets
    BY <1>1, <2>1 DEF Crash, Upset, TypeOK, Request, ConstantsAssumption
  <2>4. QED
    BY <1>1, <2>2, <2>3 DEF Crash, TypeOK, db, env
<1>2. ASSUME NEW b \in Bookings, NEW e \in Event, GatewayOutcome(b, e)
      PROVE  TypeOK'
  BY <1>2 DEF GatewayOutcome, TypeOK, db, hist
<1>3. CASE UNCHANGED vars
  BY <1>3 DEF vars, db, env, hist, TypeOK
<1>4. QED
  BY <1>1, <1>2, <1>3, HandlerType, ExecuteType DEF Next

\* Every reachable state is well typed: every status written to a row, a
\* payment, the history or the ledger is one the code knows, and a request
\* only ever has statements of its handlers left.
THEOREM TypeCorrect == Spec => []TypeOK
<1>1. ConstantsAssumption
  BY ConstantsAssumption
<1>2. QED
  BY <1>1, InitType, StepType, PTL DEF Spec

-----------------------------------------------------------------------------
(* Every value in a row or in a request's memory has its cause: the        *)
(* invariant IInv of BookingRequests, and what follows from it.            *)

\* The causes are never taken back.
CausesGrow ==
  /\ otpShown \subseteq otpShown' /\ vouched \subseteq vouched'
  /\ \A b \in Bookings : gateway[b] \subseteq gateway'[b] /\ seen[b] \subseteq seen'[b]

LEMMA NextCausesGrow == TypeOK /\ [Next]_vars => CausesGrow
<1> SUFFICES ASSUME TypeOK, [Next]_vars PROVE CausesGrow
  OBVIOUS
<1>1. ASSUME UNCHANGED <<env, hist>> PROVE CausesGrow
  BY <1>1 DEF CausesGrow, env, hist
<1>2. ASSUME NEW q \in Requests, NEW b \in Bookings, Customer(q, b) \/ Webhook(q, b)
      PROVE  CausesGrow
  <2>1. CASE Verify(q, b)
    BY <2>1 DEF Verify, CausesGrow, env
  <2>2. QED
    BY <1>1, <1>2, <2>1 DEF Customer, Webhook, CreateOrder, CancelByCustomer,
       Reschedule, WebhookCaptured, WebhookFailed
<1>3. ASSUME NEW q \in Requests, NEW b \in Bookings, Admin(q, b)
      PROVE  CausesGrow
  BY <1>1, <1>3 DEF Admin, CancelByAdmin, Assign, Reassign
<1>4. ASSUME NEW q \in Requests, NEW b \in Bookings, Agent(q, b)
      PROVE  CausesGrow
  <2>1. ASSUME NEW a \in Agents, NEW otp \in BOOLEAN, Start(q, a, b, otp)
        PROVE  CausesGrow
    BY <2>1 DEF Start, CausesGrow, env
  <2>2. QED
    BY <1>1, <1>4, <2>1 DEF Agent, Claim, Release, Decline, Arrive, Complete
<1>5. ASSUME NEW q \in Requests, Execute(q) PROVE CausesGrow
  <2>1. CASE UpdateRow(q)
    <3>1. UNCHANGED <<env, otpShown, vouched>>
      BY <2>1 DEF UpdateRow
    <3>2. \E s : seen' = [seen EXCEPT ![req[q].b] = @ \cup {s}]
      BY <2>1 DEF UpdateRow
    <3>3. \A b \in Bookings : seen[b] \subseteq seen'[b]
      BY <3>2 DEF TypeOK
    <3>4. QED
      BY <3>1, <3>3 DEF CausesGrow, env
  <2>2. CASE Acknowledge(q)
    BY <2>2 DEF Acknowledge, CausesGrow, hist
  <2>3. QED
    BY <1>1, <1>5, <2>1, <2>2 DEF Execute, CheckClash, ReadPayment, Reread,
       SelectForSave, SavePayment, InsertTxn, Record, FindEarning, InsertEarning
<1>6. ASSUME NEW q \in Requests, Crash(q) PROVE CausesGrow
  BY <1>6 DEF Crash, CausesGrow, env
<1>7. ASSUME NEW b \in Bookings, NEW e \in Event, GatewayOutcome(b, e)
      PROVE  CausesGrow
  BY <1>7 DEF GatewayOutcome, CausesGrow, hist, TypeOK
<1>8. CASE UNCHANGED vars
  BY <1>1, <1>8 DEF vars, env, hist
<1>9. QED
  BY <1>2, <1>3, <1>4, <1>5, <1>6, <1>7, <1>8 DEF Next

\* What a booking was settled for is not taken back either.
LEMMA SettleableStays ==
  ASSUME CausesGrow, NEW b \in Bookings, Settleable(b)
  PROVE  Settleable(b)'
BY DEF CausesGrow, Settleable

\* A row whose statuses stay keeps its causes; so does a request's memory.
LEMMA RowStays ==
  ASSUME CausesGrow, NEW b \in Bookings, RowCaused(b),
         booking'[b].status = booking[b].status,
         booking'[b].pay = booking[b].pay, payment'[b] = payment[b]
  PROVE  RowCaused(b)'
BY SettleableStays DEF CausesGrow, RowCaused, Caused

LEMMA MemoryStays ==
  ASSUME TypeOK, CausesGrow, NEW q \in Requests, MemoryCaused(q),
         req'[q].todo # {} =>
           /\ req[q].todo # {}
           /\ req'[q].b = req[q].b
           /\ req'[q].row.status = req[q].row.status
           /\ req'[q].row.pay = req[q].row.pay
           /\ req'[q].pay = req[q].pay
           /\ "readPayment" \in req'[q].todo => "readPayment" \in req[q].todo
  PROVE  MemoryCaused(q)'
<1> SUFFICES ASSUME req'[q].todo # {} PROVE MemoryCaused(q)'
  BY DEF MemoryCaused, InFlight
<1>1. req[q].b \in Bookings
  BY InFlightMemory DEF Request
<1>2. QED
  BY <1>1, SettleableStays DEF CausesGrow, MemoryCaused, InFlight, Caused

-----------------------------------------------------------------------------
(* A handler puts nothing into its memory that has no cause.               *)

LEMMA BeginCaused ==
  ASSUME IInv, TypeOK', CausesGrow,
         NEW q \in Requests, NEW b \in Bookings,
         NEW row, NEW pay, NEW txn, NEW todo,
         Begin(q, b, row, pay, txn, todo),
         payment' = payment,
         \A c \in Bookings : /\ booking'[c].status = booking[c].status
                             /\ booking'[c].pay = booking[c].pay,
         row.status \in {"ongoing", "completed"} => b \in otpShown',
         {row.pay, pay} \cap {"PAID", "REFUNDED"} # {} => Settleable(b)',
         \E s \in seen[b] : row.status \in {s} \cup Transitions[s],
         "readPayment" \in todo => /\ row.status \in seen[b]
                                   /\ "cancelled" \in Transitions[row.status]
  PROVE  IInv'
<1>1. \A c \in Bookings : RowCaused(c)'
  BY RowStays DEF IInv
<1>2. ASSUME NEW p \in Requests, p # q PROVE MemoryCaused(p)'
  <2>1. req'[p] = req[p]
    BY <1>2 DEF Begin, IInv, TypeOK
  <2>2. QED
    BY <2>1, MemoryStays DEF IInv, MemoryCaused, InFlight
<1>3. MemoryCaused(q)'
  <2>1. req'[q] = [b |-> b, row |-> row, pay |-> pay, txn |-> txn,
                   dirty |-> {}, todo |-> todo]
    BY DEF Begin, IInv, TypeOK
  <2>3. \E s \in seen'[b] : row.status \in {s} \cup Transitions[s]
    BY DEF CausesGrow
  <2>4. "readPayment" \in todo => row.status \in seen'[b]
    BY DEF CausesGrow
  <2>5. QED
    BY <2>1, <2>3, <2>4 DEF MemoryCaused, InFlight, Caused
<1>4. QED
  BY <1>1, <1>2, <1>3 DEF IInv

LEMMA HandlerCaused ==
  ASSUME IInv, TypeOK', CausesGrow, NEW q \in Requests, NEW b \in Bookings,
         Customer(q, b) \/ Webhook(q, b) \/ Agent(q, b) \/ Admin(q, b)
  PROVE  IInv'
<1>0. /\ booking[b] \in Row
      /\ booking[b].status \in Status
      /\ payment[b] \in PayStatus
      /\ {"finding", booking[b].status} \subseteq seen[b]
      /\ booking[b].status \in {"ongoing", "completed"} => b \in otpShown
      /\ {booking[b].pay, payment[b]} \cap {"PAID", "REFUNDED"} # {}
           => Settleable(b)'
      /\ b \in otpShown => b \in otpShown'
  BY SettleableStays DEF IInv, TypeOK, Row, RowCaused, Caused, CausesGrow
<1>1. ASSUME UNCHANGED db
      PROVE  /\ payment' = payment
             /\ \A c \in Bookings : /\ booking'[c].status = booking[c].status
                                    /\ booking'[c].pay = booking[c].pay
  BY <1>1 DEF db
\* Handlers that leave status and payment as they were loaded.
<1>2. ASSUME NEW row, row.status = booking[b].status, row.pay = booking[b].pay,
             NEW txn, NEW todo, "readPayment" \notin todo, UNCHANGED db,
             Begin(q, b, row, payment[b], txn, todo)
      PROVE  IInv'
  BY <1>0, <1>1, <1>2, BeginCaused
\* Handlers that move the status, and leave the payment as it was loaded.
<1>3. ASSUME NEW row, row.pay = booking[b].pay, UNCHANGED db, NEW txn, NEW todo,
             \E s \in seen[b] : row.status \in {s} \cup Transitions[s],
             row.status \in {"ongoing", "completed"} => b \in otpShown',
             "readPayment" \notin todo, Begin(q, b, row, payment[b], txn, todo)
      PROVE  IInv'
  BY <1>0, <1>1, <1>3, BeginCaused
<1>4. ASSUME NEW m \in BOOLEAN, CreateOrder(q, b, m) PROVE IInv'
  <2> DEFINE todo == {"txn"} \cup (IF m THEN {"payment"} ELSE {})
  <2>1. Begin(q, b, booking[b], payment[b], "created", todo) /\ UNCHANGED db
    BY <1>4 DEF CreateOrder
  <2>2. "readPayment" \notin todo
    OBVIOUS
  <2> HIDE DEF todo
  <2>3. QED
    BY <1>2, <2>1, <2>2
<1>5. ASSUME Settleable(b)', NEW more, "readPayment" \notin more,
             Settle(q, b, more), UNCHANGED db
      PROVE  IInv'
  <2> DEFINE todo == {"payment", "txn", "save"} \cup more
               \cup (IF booking[b].status = "finding" THEN {"record"} ELSE {})
  <2>1. Begin(q, b, Settled(booking[b]), "PAID", "captured", todo)
    BY <1>5 DEF Settle
  <2>2. "readPayment" \notin todo
    BY <1>5
  <2>3. /\ Settled(booking[b]).status =
             IF booking[b].status = "finding" THEN "paid" ELSE booking[b].status
        /\ Settled(booking[b]).pay = "PAID"
    BY <1>0 DEF Settled, Row
  <2>4. \E s \in seen[b] : Settled(booking[b]).status \in {s} \cup Transitions[s]
    BY <1>0, <2>3 DEF Transitions
  <2> HIDE DEF todo
  <2>5. QED
    BY <1>0, <1>1, <1>5, <2>1, <2>2, <2>3, <2>4, BeginCaused
<1>6. CASE Verify(q, b)
  <2>1. Settleable(b)'
    BY <1>6 DEF Verify, Settleable, env
  <2>2. QED
    BY <1>5, <1>6, <2>1 DEF Verify
<1>7. CASE WebhookCaptured(q, b)
  <2>1. Settleable(b)'
    BY <1>7 DEF WebhookCaptured, Settleable, env
  <2>2. QED
    BY <1>5, <1>7, <2>1 DEF WebhookCaptured
<1>8. CASE WebhookFailed(q, b)
  <2> DEFINE row == [booking[b] EXCEPT !.pay = "FAILED"]
  <2>1. /\ Begin(q, b, row, "FAILED", "failed", {"payment", "txn", "save", "ack"})
        /\ UNCHANGED db
    BY <1>8 DEF WebhookFailed
  <2>2. row.status = booking[b].status /\ row.pay = "FAILED"
    BY <1>0 DEF Row
  <2> HIDE DEF row
  <2>3. QED
    BY <1>0, <1>1, <2>1, <2>2, BeginCaused
<1>9. CASE CancelByCustomer(q, b)
  <2> DEFINE pay == RefundOrVoid(payment[b] = "PAID")
             row == [booking[b] EXCEPT !.pay = pay, !.status = "cancelled"]
  <2>1. /\ Begin(q, b, row, pay, "created", {"payment", "save", "record"})
        /\ UNCHANGED db
        /\ "cancelled" \in Transitions[booking[b].status]
    BY <1>9 DEF CancelByCustomer, CanTransition
  <2>2. row.status = "cancelled" /\ row.pay = pay
    BY <1>0 DEF Row
  <2>3. pay \in {"PAID", "REFUNDED"} => payment[b] = "PAID"
    BY DEF RefundOrVoid
  <2>4. \E s \in seen[b] : row.status \in {s} \cup Transitions[s]
    BY <1>0, <2>1, <2>2
  <2> HIDE DEF pay, row
  <2>5. QED
    BY <1>0, <1>1, <2>1, <2>2, <2>3, <2>4, BeginCaused
<1>10. CASE CancelByAdmin(q, b)
  <2>1. /\ Begin(q, b, booking[b], payment[b], "created",
                 {"readPayment", "save", "record", "refund"})
        /\ UNCHANGED db
        /\ "cancelled" \in Transitions[booking[b].status]
    BY <1>10 DEF CancelByAdmin, CanTransition
  <2>2. QED
    BY <1>0, <1>1, <2>1, BeginCaused
<1>11. ASSUME NEW t \in Slots, Reschedule(q, b, t) PROVE IInv'
  <2> DEFINE row == [booking[b] EXCEPT !.slot = t]
  <2>1. /\ Begin(q, b, row, payment[b], "created", {"save", "record"})
        /\ UNCHANGED db
    BY <1>11 DEF Reschedule
  <2>2. row.status = booking[b].status /\ row.pay = booking[b].pay
    BY <1>0 DEF Row
  <2> HIDE DEF row
  <2>3. QED
    BY <1>2, <2>1, <2>2
<1>12. ASSUME NEW a \in Agents, Claim(q, a, b) PROVE IInv'
  <2>1. /\ Begin(q, b, booking[b], payment[b], "created", {"reread"})
        /\ payment' = payment
        /\ booking' = [booking EXCEPT ![b].agent = a]
    BY <1>12 DEF Claim
  <2>2. \A c \in Bookings : /\ booking'[c].status = booking[c].status
                            /\ booking'[c].pay = booking[c].pay
    BY <2>1 DEF IInv, TypeOK, Row
  <2>3. QED
    BY <1>0, <2>1, <2>2, BeginCaused
<1>13. ASSUME NEW a \in Agents, Release(q, a, b) PROVE IInv'
  <2> DEFINE row == [booking[b] EXCEPT !.agent = NoAgent, !.status = "paid"]
  <2>1. /\ Begin(q, b, row, payment[b], "created", {"save", "record"})
        /\ UNCHANGED db
    BY <1>13 DEF Release
  <2>2. row.status = "paid" /\ row.pay = booking[b].pay
    BY <1>0 DEF Row
  <2>3. \E s \in seen[b] : row.status \in {s} \cup Transitions[s]
    BY <1>0, <2>2 DEF Transitions
  <2> HIDE DEF row
  <2>4. QED
    BY <1>3, <2>1, <2>2, <2>3
<1>14. ASSUME NEW a \in Agents, Decline(q, a, b) PROVE IInv'
  BY <1>2, <1>14 DEF Decline
<1>15. ASSUME NEW a \in Agents, NEW next, NEW more, Advance(q, a, b, next, more),
              next \in {"ongoing", "completed"} => b \in otpShown',
              "readPayment" \notin more, UNCHANGED db
       PROVE  IInv'
  <2> DEFINE row  == [booking[b] EXCEPT !.status = next]
             todo == {"save", "record"} \cup more
  <2>1. /\ Begin(q, b, row, payment[b], "created", todo)
        /\ next \in Transitions[booking[b].status]
    BY <1>15 DEF Advance, CanTransition
  <2>2. row.status = next /\ row.pay = booking[b].pay
    BY <1>0 DEF Row
  <2>3. \E s \in seen[b] : row.status \in {s} \cup Transitions[s]
    BY <1>0, <2>1, <2>2
  <2>4. "readPayment" \notin todo
    BY <1>15
  <2> HIDE DEF row, todo
  <2>5. QED
    BY <1>3, <1>15, <2>1, <2>2, <2>3, <2>4
<1>16. ASSUME NEW a \in Agents, Arrive(q, a, b) PROVE IInv'
  BY <1>15, <1>16 DEF Arrive
<1>17. ASSUME NEW a \in Agents, NEW otp \in BOOLEAN, Start(q, a, b, otp)
       PROVE  IInv'
  <2>1. b \in otpShown'
    BY <1>17 DEF Start, ReadyToStart
  <2>2. QED
    BY <1>15, <1>17, <2>1 DEF Start
<1>18. ASSUME NEW a \in Agents, Complete(q, a, b) PROVE IInv'
  <2>1. "completed" \in Transitions[booking[b].status]
    BY <1>18 DEF Complete, Advance, CanTransition
  <2>2. booking[b].status = "ongoing"
    BY <1>0, <2>1 DEF Transitions, Status
  <2>3. QED
    BY <1>0, <1>15, <1>18, <2>2 DEF Complete
<1>19. ASSUME NEW a \in Agents, Assign(q, a, b) PROVE IInv'
  <2> DEFINE row == [booking[b] EXCEPT !.agent = a,
                       !.status = IF @ = "paid" THEN "accepted" ELSE @]
  <2>1. /\ Begin(q, b, row, payment[b], "created", {"clash", "save", "record"})
        /\ UNCHANGED db
    BY <1>19 DEF Assign
  <2>2. /\ row.status = IF booking[b].status = "paid"
                        THEN "accepted" ELSE booking[b].status
        /\ row.pay = booking[b].pay
    BY <1>0 DEF Row
  <2>3. \E s \in seen[b] : row.status \in {s} \cup Transitions[s]
    BY <1>0, <2>2 DEF Transitions
  <2> HIDE DEF row
  <2>4. QED
    BY <1>0, <1>3, <2>1, <2>2, <2>3
<1>20. ASSUME NEW a \in Agents, Reassign(q, a, b) PROVE IInv'
  <2> DEFINE row == [booking[b] EXCEPT !.agent = a]
  <2>1. /\ Begin(q, b, row, payment[b], "created", {"clash", "save", "record"})
        /\ UNCHANGED db
    BY <1>20 DEF Reassign
  <2>2. row.status = booking[b].status /\ row.pay = booking[b].pay
    BY <1>0 DEF Row
  <2> HIDE DEF row
  <2>3. QED
    BY <1>2, <2>1, <2>2
<1>21. QED
  BY <1>4, <1>6, <1>7, <1>8, <1>9, <1>10, <1>11, <1>12, <1>13, <1>14, <1>16,
     <1>17, <1>18, <1>19, <1>20
  DEF Customer, Webhook, Agent, Admin

-----------------------------------------------------------------------------
(* A statement writes only what is in memory, which has its cause.         *)

\* The memory of a request that executes a statement, or is abandoned, stays
\* as it was but for the statements left, and the others are not touched.
LEMMA DoneStays ==
  ASSUME IInv, CausesGrow, NEW q \in Requests, req[q].todo # {},
         NEW s, Done(q, s) \/ Abort(q)
  PROVE  \A p \in Requests : MemoryCaused(p)'
<1>1. CASE Done(q, s)
  <2> DEFINE mem == [req[q] EXCEPT !.todo = @ \ {s}]
  <2>1. req[q] \in Memory
    BY InFlightMemory DEF IInv
  <2>2. /\ mem.b = req[q].b
        /\ mem.row = req[q].row
        /\ mem.pay = req[q].pay
        /\ mem.todo = req[q].todo \ {s}
    BY <2>1 DEF Memory
  <2>3. req' = [req EXCEPT ![q] = IF mem.todo = {} THEN NoRequest ELSE mem]
    BY <1>1 DEF Done, Continue
  <2> HIDE DEF mem
  <2>4. ASSUME NEW p \in Requests PROVE MemoryCaused(p)'
    <3>1. req'[p] = IF p # q THEN req[p]
                    ELSE IF mem.todo = {} THEN NoRequest ELSE mem
      BY <2>3 DEF IInv, TypeOK
    <3>2. NoRequest.todo = {}
      BY DEF NoRequest
    <3>3. TypeOK /\ MemoryCaused(p)
      BY DEF IInv
    <3>4. CASE p # q
      BY <3>1, <3>3, <3>4, MemoryStays DEF MemoryCaused, InFlight
    <3>5. CASE p = q /\ mem.todo = {}
      BY <3>1, <3>2, <3>5 DEF MemoryCaused, InFlight
    <3>6. CASE p = q /\ mem.todo # {}
      BY <2>2, <3>1, <3>3, <3>6, MemoryStays
    <3>7. QED
      BY <3>4, <3>5, <3>6
  <2>5. QED
    BY <2>4
<1>2. CASE Abort(q)
  <2>1. ASSUME NEW p \in Requests PROVE MemoryCaused(p)'
    <3>1. req'[p] = IF p = q THEN NoRequest ELSE req[p]
      BY <1>2 DEF Abort, IInv, TypeOK
    <3>2. NoRequest.todo = {}
      BY DEF NoRequest
    <3>3. TypeOK /\ MemoryCaused(p)
      BY DEF IInv
    <3>4. QED
      BY <3>1, <3>2, <3>3, MemoryStays DEF MemoryCaused, InFlight
  <2>2. QED
    BY <2>1
<1>3. QED
  BY <1>1, <1>2

\* A request that goes on with a memory r that has its causes.
LEMMA ContinueStays ==
  ASSUME IInv, CausesGrow, NEW q \in Requests, NEW r, Continue(q, r),
         /\ r.b \in Bookings
         /\ Caused(r.b, r.row, r.pay)
         /\ "readPayment" \notin r.todo
  PROVE  \A p \in Requests : MemoryCaused(p)'
<1>1. ASSUME NEW p \in Requests PROVE MemoryCaused(p)'
  <2>1. req'[p] = IF p # q THEN req[p]
                  ELSE IF r.todo = {} THEN NoRequest ELSE r
    BY DEF IInv, TypeOK, Continue
  <2>2. NoRequest.todo = {}
    BY DEF NoRequest
  <2>3. CASE p # q
    BY <2>1, <2>3, MemoryStays DEF IInv, MemoryCaused, InFlight
  <2>4. CASE p = q /\ r.todo = {}
    BY <2>1, <2>2, <2>4 DEF MemoryCaused, InFlight
  <2>5. CASE p = q /\ r.todo # {}
    BY <2>1, <2>5, SettleableStays DEF CausesGrow, MemoryCaused, InFlight, Caused
  <2>6. QED
    BY <2>3, <2>4, <2>5
<1>2. QED
  BY <1>1

LEMMA ExecuteCaused ==
  ASSUME IInv, TypeOK', CausesGrow, NEW q \in Requests, Execute(q)
  PROVE  IInv'
<1>0. /\ req[q].todo # {}
      /\ req[q] \in Memory
      /\ req[q].b \in Bookings
      /\ MemoryCaused(q)
      /\ TypeOK
  <2>1. req[q].todo # {}
    BY DEF Execute, Turn, CheckClash, ReadPayment, Reread, SelectForSave,
           UpdateRow, SavePayment, InsertTxn, Record, FindEarning,
           InsertEarning, Acknowledge
  <2>2. QED
    BY <2>1, InFlightMemory DEF IInv, Memory
<1>1. Caused(req[q].b, req[q].row, req[q].pay)
  BY <1>0 DEF MemoryCaused, InFlight
<1>2. ASSUME UNCHANGED <<booking, payment>> PROVE \A b \in Bookings : RowCaused(b)'
  BY <1>2, RowStays DEF IInv
\* Statements that write neither the row nor the payment.
<1>3. CASE CheckClash(q) \/ InsertTxn(q) \/ Record(q) \/ InsertEarning(q)
             \/ Acknowledge(q)
  <2>1. UNCHANGED <<booking, payment>>
    BY <1>3 DEF CheckClash, InsertTxn, Record, InsertEarning, Acknowledge, db
  <2>2. \E s : Done(q, s) \/ Abort(q)
    BY <1>3 DEF CheckClash, InsertTxn, Record, InsertEarning, Acknowledge
  <2>3. \A p \in Requests : MemoryCaused(p)'
    BY <1>0, <2>2, DoneStays
  <2>4. QED
    BY <1>2, <2>1, <2>3 DEF IInv
\* Statements that read, and go on with what they read.
<1>4. CASE SelectForSave(q)
  <2> DEFINE diff == Differing(req[q].row, booking[req[q].b])
             mem == [req[q] EXCEPT
                       !.dirty = diff,
                       !.todo  = (@ \ {"save"}) \cup
                                   (IF diff = {} THEN {} ELSE {"update"})]
  <2>1. Continue(q, mem) /\ UNCHANGED <<booking, payment>>
    BY <1>4 DEF SelectForSave, db
  <2>2. /\ mem.b = req[q].b
        /\ mem.row = req[q].row
        /\ mem.pay = req[q].pay
        /\ "readPayment" \notin mem.todo
    <3>1. "readPayment" \notin req[q].todo
      BY <1>4 DEF SelectForSave, Turn, Rank
    <3>2. QED
      BY <1>0, <3>1 DEF Memory
  <2> HIDE DEF mem
  <2>3. Caused(mem.b, mem.row, mem.pay)
    BY <1>0, <1>1, <2>2 DEF Caused
  <2>4. QED
    BY <1>0, <1>2, <2>1, <2>2, <2>3, ContinueStays DEF IInv
<1>5. CASE FindEarning(q)
  <2> DEFINE mem == [req[q] EXCEPT
                       !.todo = IF PaidOut(req[q].b) THEN {} ELSE {"insertEarning"}]
  <2>1. Continue(q, mem) /\ UNCHANGED <<booking, payment>>
    BY <1>5 DEF FindEarning, db
  <2>2. /\ mem.b = req[q].b
        /\ mem.row = req[q].row
        /\ mem.pay = req[q].pay
        /\ "readPayment" \notin mem.todo
    BY <1>0 DEF Memory
  <2> HIDE DEF mem
  <2>3. Caused(mem.b, mem.row, mem.pay)
    BY <1>0, <1>1, <2>2 DEF Caused
  <2>4. QED
    BY <1>0, <1>2, <2>1, <2>2, <2>3, ContinueStays DEF IInv
<1>6. CASE ReadPayment(q)
  <2> DEFINE b   == req[q].b
             pay == RefundOrVoid("PAID" \in {payment[b], req[q].row.pay})
             mem == [req[q] EXCEPT !.pay = pay, !.row.pay = pay,
                                   !.row.status = "cancelled",
                                   !.todo = @ \ {"readPayment"}]
  <2>1. Continue(q, mem) /\ UNCHANGED <<booking, payment>>
    BY <1>6 DEF ReadPayment, db
  <2>2. /\ mem.b = b
        /\ mem.row.status = "cancelled"
        /\ mem.row.pay = pay
        /\ mem.pay = pay
        /\ "readPayment" \notin mem.todo
    BY <1>0 DEF Memory, Row
  <2>3. pay \in {"PAID", "REFUNDED"} => Settleable(b)
    <3>1. pay \in {"PAID", "REFUNDED"} => "PAID" \in {payment[b], req[q].row.pay}
      BY DEF RefundOrVoid
    <3>2. RowCaused(b)
      BY <1>0 DEF IInv
    <3> HIDE DEF pay
    <3>3. QED
      BY <1>1, <3>1, <3>2 DEF RowCaused, Caused
  <2>4. \E s \in seen[b] : "cancelled" \in Transitions[s]
    BY <1>0, <1>6 DEF ReadPayment, Turn, MemoryCaused, InFlight
  <2> HIDE DEF mem, pay
  <2>5. Caused(mem.b, mem.row, mem.pay)
    BY <1>0, <2>2, <2>3, <2>4 DEF Caused
  <2>6. QED
    BY <1>0, <1>2, <2>1, <2>2, <2>5, ContinueStays DEF IInv
<1>7. CASE Reread(q)
  <2> DEFINE b   == req[q].b
             mem == [req[q] EXCEPT
                       !.row  = [booking[b] EXCEPT !.status = "accepted"],
                       !.todo = {"save", "record"}]
  <2>1. UNCHANGED <<booking, payment>>
    BY <1>7 DEF Reread, db
  <2>2. CASE Abort(q)
    BY <1>0, <1>2, <2>1, <2>2, DoneStays DEF IInv
  <2>3. CASE Continue(q, mem) /\ "accepted" \in Transitions[booking[b].status]
    <3>1. booking[b] \in Row
      BY <1>0 DEF TypeOK
    <3>2. /\ mem.b = b
          /\ mem.row.status = "accepted"
          /\ mem.row.pay = booking[b].pay
          /\ mem.pay = req[q].pay
          /\ "readPayment" \notin mem.todo
      BY <1>0, <3>1 DEF Memory, Row
    <3>3. RowCaused(b)
      BY <1>0 DEF IInv
    <3> HIDE DEF mem
    <3>4. {mem.row.pay, mem.pay} \cap {"PAID", "REFUNDED"} # {}
             => Settleable(b)
      BY <1>1, <3>2, <3>3 DEF RowCaused, Caused
    <3>5. \E s \in seen[b] : "accepted" \in Transitions[s]
      BY <2>3, <3>3 DEF RowCaused
    <3>6. Caused(mem.b, mem.row, mem.pay)
      BY <1>0, <3>2, <3>4, <3>5 DEF Caused
    <3>7. QED
      BY <1>0, <1>2, <2>1, <2>3, <3>2, <3>6, ContinueStays DEF IInv
  <2>4. QED
    BY <1>7, <2>2, <2>3 DEF Reread, CanTransition
\* Statements that write the row or the payment.
<1>8. CASE SavePayment(q)
  <2>1. /\ \E s : Done(q, s)
        /\ payment' = [payment EXCEPT ![req[q].b] = req[q].pay]
        /\ booking' = booking
    BY <1>8 DEF SavePayment
  <2>2. ASSUME NEW b \in Bookings PROVE RowCaused(b)'
    <3>1. RowCaused(b)
      BY DEF IInv
    <3>2. payment'[b] = IF b = req[q].b THEN req[q].pay ELSE payment[b]
      BY <1>0, <2>1 DEF TypeOK
    <3>3. QED
      BY <1>1, <2>1, <3>1, <3>2, SettleableStays DEF CausesGrow, RowCaused, Caused
  <2>3. QED
    BY <1>0, <2>1, <2>2, DoneStays DEF IInv
<1>9. CASE UpdateRow(q)
  <2> DEFINE c   == req[q].b
             new == Overwrite(booking[c], req[q].row, req[q].dirty)
  <2>1. /\ Done(q, "update")
        /\ payment' = payment
        /\ booking' = [booking EXCEPT ![c] = new]
        /\ seen' = [seen EXCEPT ![c] = @ \cup {new.status}]
    BY <1>9 DEF UpdateRow
  <2>2. /\ new.status \in {req[q].row.status, booking[c].status}
        /\ new.pay \in {req[q].row.pay, booking[c].pay}
    BY DEF Overwrite
  <2> HIDE DEF new
  <2>3. ASSUME NEW b \in Bookings PROVE RowCaused(b)'
    <3>1. RowCaused(b)
      BY DEF IInv
    <3>2. CASE b # c
      <4>1. booking'[b] = booking[b]
        BY <2>1, <3>2 DEF IInv, TypeOK
      <4>2. QED
        BY <2>1, <3>1, <4>1, RowStays
    <3>3. CASE b = c
      <4>1. /\ booking'[b] = new
            /\ seen'[b] = seen[b] \cup {new.status}
        BY <2>1, <3>3 DEF IInv, TypeOK
      <4>2. new.status \in {"ongoing", "completed"} => b \in otpShown
        BY <1>1, <2>2, <3>1, <3>3 DEF RowCaused, Caused
      <4>3. {new.pay, payment[b]} \cap {"PAID", "REFUNDED"} # {}
              => Settleable(b)
        BY <1>1, <2>2, <3>1, <3>3 DEF RowCaused, Caused
      <4>4. QED
        BY <2>1, <3>1, <4>1, <4>2, <4>3, SettleableStays DEF CausesGrow, RowCaused, Caused
    <3>4. QED
      BY <3>2, <3>3
  <2>4. QED
    BY <1>0, <2>1, <2>3, DoneStays DEF IInv
<1>10. QED
  BY <1>3, <1>4, <1>5, <1>6, <1>7, <1>8, <1>9 DEF Execute

-----------------------------------------------------------------------------
LEMMA InitCaused == ConstantsAssumption /\ Init => IInv
<1> SUFFICES ASSUME ConstantsAssumption, Init PROVE IInv
  OBVIOUS
<1>1. TypeOK
  BY InitType
<1>2. ASSUME NEW b \in Bookings PROVE RowCaused(b)
  BY <1>2 DEF Init, RowCaused, Caused
<1>3. ASSUME NEW q \in Requests PROVE MemoryCaused(q)
  BY <1>3 DEF Init, MemoryCaused, InFlight, NoRequest
<1>4. QED
  BY <1>1, <1>2, <1>3 DEF IInv

LEMMA StepCaused == ConstantsAssumption /\ IInv /\ [Next]_vars => IInv'
<1> SUFFICES ASSUME ConstantsAssumption, IInv, [Next]_vars PROVE IInv'
  OBVIOUS
<1>1. TypeOK' /\ CausesGrow
  BY StepType, NextCausesGrow DEF IInv
<1>2. ASSUME UNCHANGED <<booking, payment, req>> PROVE IInv'
  <2>1. \A b \in Bookings : RowCaused(b)'
    BY <1>1, <1>2, RowStays DEF IInv
  <2>2. \A q \in Requests : MemoryCaused(q)'
    BY <1>1, <1>2, MemoryStays DEF IInv, MemoryCaused, InFlight
  <2>3. QED
    BY <1>1, <2>1, <2>2 DEF IInv
<1>3. ASSUME NEW q \in Requests, Crash(q) PROVE IInv'
  <2>1. /\ Abort(q)
        /\ req[q].todo # {}
        /\ UNCHANGED <<booking, payment>>
    BY <1>3 DEF Crash, InFlight, db
  <2>2. \A p \in Requests : MemoryCaused(p)'
    BY <1>1, <2>1, DoneStays
  <2>3. \A b \in Bookings : RowCaused(b)'
    BY <1>1, <2>1, RowStays DEF IInv
  <2>4. QED
    BY <1>1, <2>2, <2>3 DEF IInv
<1>4. ASSUME NEW b \in Bookings, NEW e \in Event, GatewayOutcome(b, e) PROVE IInv'
  BY <1>2, <1>4 DEF GatewayOutcome, db
<1>5. CASE UNCHANGED vars
  BY <1>2, <1>5 DEF vars, db
<1>6. QED
  BY <1>1, <1>3, <1>4, <1>5, HandlerCaused, ExecuteCaused DEF Next

THEOREM Causes == Spec => []IInv
<1>1. ConstantsAssumption
  BY ConstantsAssumption
<1>2. QED
  BY <1>1, InitCaused, StepCaused, PTL DEF Spec

\* No interleaving of any number of requests, and no crash, gets a booking
\* under way or completed without its start OTP having been presented.
THEOREM OtpBeforeWorkAlways == Spec => []OtpBeforeWork
<1>1. IInv => OtpBeforeWork
  BY DEF IInv, RowCaused, Caused, OtpBeforeWork
<1>2. QED
  BY <1>1, Causes, PTL

\* Nothing is ever booked as received or refunded that the gateway did not
\* capture, but for the bookings that verify settled on another order's ids.
THEOREM NoPhantomMoneyAlways == Spec => []NoPhantomMoney
<1>1. IInv => NoPhantomMoney
  BY DEF IInv, RowCaused, Caused, NoPhantomMoney
<1>2. QED
  BY <1>1, Causes, PTL

-----------------------------------------------------------------------------
(* Only UpdateRow writes a status, and it writes one that has its cause.   *)

LEMMA OnlyUpdateWritesStatus ==
  ASSUME TypeOK, [Next]_vars, NEW b \in Bookings,
         \A q \in Requests : ~UpdateRow(q)
  PROVE  booking'[b].status = booking[b].status
<1>1. ASSUME UNCHANGED booking PROVE booking'[b].status = booking[b].status
  BY <1>1
<1>2. ASSUME NEW q \in Requests, NEW c \in Bookings, NEW a \in Agents, Claim(q, a, c)
      PROVE  booking'[b].status = booking[b].status
  <2>1. booking'[b] = IF b = c THEN [booking[b] EXCEPT !.agent = a] ELSE booking[b]
    BY <1>2 DEF Claim, TypeOK
  <2>2. booking[b] \in Row
    BY DEF TypeOK
  <2>3. QED
    BY <2>1, <2>2 DEF Row
<1>3. ASSUME NEW q \in Requests, NEW c \in Bookings,
             Customer(q, c) \/ Webhook(q, c) \/ Admin(q, c)
      PROVE  booking'[b].status = booking[b].status
  BY <1>1, <1>3 DEF Customer, Webhook, Admin, CreateOrder, Verify,
     CancelByCustomer, Reschedule, WebhookCaptured, WebhookFailed,
     CancelByAdmin, Assign, Reassign, db
<1>4. ASSUME NEW q \in Requests, NEW c \in Bookings, Agent(q, c)
      PROVE  booking'[b].status = booking[b].status
  BY <1>1, <1>2, <1>4 DEF Agent, Release, Decline, Arrive, Start, Complete, db
<1>5. ASSUME NEW q \in Requests, Execute(q)
      PROVE  booking'[b].status = booking[b].status
  BY <1>1, <1>5 DEF Execute, CheckClash, ReadPayment, Reread, SelectForSave,
     SavePayment, InsertTxn, Record, FindEarning, InsertEarning, Acknowledge, db
<1>6. ASSUME NEW q \in Requests, Crash(q) PROVE booking'[b].status = booking[b].status
  BY <1>1, <1>6 DEF Crash, db
<1>7. ASSUME NEW c \in Bookings, NEW e \in Event, GatewayOutcome(c, e)
      PROVE  booking'[b].status = booking[b].status
  BY <1>1, <1>7 DEF GatewayOutcome, db
<1>8. CASE UNCHANGED vars
  BY <1>1, <1>8 DEF vars, db
<1>9. QED
  BY <1>3, <1>4, <1>5, <1>6, <1>7, <1>8 DEF Next

LEMMA StepSkipsNone ==
  ASSUME IInv, [Next]_vars, NEW b \in Bookings
  PROVE  \/ booking'[b].status \in seen[b]
         \/ \E s \in seen[b] : booking'[b].status \in Transitions[s]
<1>0. /\ TypeOK
      /\ booking[b].status \in seen[b]
  BY DEF IInv, RowCaused
<1>1. CASE \A q \in Requests : ~UpdateRow(q)
  BY <1>0, <1>1, OnlyUpdateWritesStatus
<1>2. ASSUME NEW q \in Requests, UpdateRow(q)
      PROVE  \/ booking'[b].status \in seen[b]
             \/ \E s \in seen[b] : booking'[b].status \in Transitions[s]
  <2> DEFINE c   == req[q].b
             new == Overwrite(booking[c], req[q].row, req[q].dirty)
  <2>1. req[q].todo # {}
    BY <1>2 DEF UpdateRow, Turn
  <2>2. Caused(c, req[q].row, req[q].pay)
    BY <2>1 DEF IInv, MemoryCaused, InFlight
  <2>3. booking' = [booking EXCEPT ![c] = new]
    BY <1>2 DEF UpdateRow
  <2>4. new.status \in {req[q].row.status, booking[c].status}
    BY DEF Overwrite
  <2> HIDE DEF new
  <2>5. booking'[b] = IF b = c THEN new ELSE booking[b]
    BY <1>0, <2>3 DEF TypeOK
  <2>6. CASE b # c
    BY <1>0, <2>5, <2>6
  <2>7. CASE b = c
    BY <1>0, <2>2, <2>4, <2>5, <2>7 DEF Caused
  <2>8. QED
    BY <2>6, <2>7
<1>3. QED
  BY <1>1, <1>2

\* However many requests overlap or die, a booking is never seen in a status
\* that no earlier status of it leads to.
THEOREM NoStatusSkippedAlways == Spec => NoStatusSkipped
<1>1. IInv /\ [Next]_vars =>
        \A b \in Bookings :
          \/ booking'[b].status \in seen[b]
          \/ \E s \in seen[b] : booking'[b].status \in Transitions[s]
  BY StepSkipsNone
<1>2. QED
  BY <1>1, Causes, PTL DEF Spec, NoStatusSkipped

-----------------------------------------------------------------------------
(***************************************************************************)
(* Whatever is in a row or in a request's memory leaves its trace in the   *)
(* ledger, the history and the earnings: for every number of bookings,     *)
(* agents and concurrent requests, wherever they die.                      *)
(***************************************************************************)

\* Request q is about to insert the `captured` transaction row of b.
Captures(q, b) ==
  Holds(q, b) /\ "txn" \in req[q].todo /\ req[q].txn = "captured"

\* The capture of b's payment is in the ledger, on its way there, or lost.
Explained(b) ==
  "captured" \in txns[b] \/ (\E q \in Requests : Captures(q, b)) \/ b \in died

\* Request q is past its checks and will record a status of b.
Records(q, b) ==
  /\ Holds(q, b)
  /\ "record" \in req[q].todo
  /\ req[q].todo \cap {"clash", "readPayment"} = {}

\* Status s of b is in the history, on its way there, or lost.
Audited(b, s) ==
  \/ s \in logged[b]
  \/ \E q \in Requests : Records(q, b) /\ req[q].row.status = s
  \/ b \in died

\* A payment status that claims money came in is explained.
Backed(b, row, pay) == {row.pay, pay} \cap {"PAID", "REFUNDED"} # {} => Explained(b)

\* A row and its payment, its history and its earnings.
RowTraced(b) ==
  /\ Backed(b, booking[b], payment[b])
  /\ \A s \in seen[b] : Audited(b, s)
  /\ PaidOut(b) => "completed" \in seen[b]

\* The programs the proof tells apart: a claim only rereads, the checks of an
\* assignment write no ledger, and only `complete` credits the agent.
Shape(r) ==
  /\ "reread" \in r.todo => r.todo = {"reread"}
  /\ "clash" \in r.todo => "txn" \notin r.todo
  /\ "readPayment" \in r.todo => "record" \in r.todo
  /\ r.todo \cap {"findEarning", "insertEarning"} # {}
       => r.row.status = "completed" /\ "readPayment" \notin r.todo

\* The earning is credited only after the row has been `completed`.
CompletesFirst(r) ==
  \/ "save" \in r.todo
  \/ "update" \in r.todo /\ "status" \in r.dirty
  \/ "completed" \in seen[r.b]

\* A request's memory, before it is written.
MemoryTraced(q) ==
  InFlight(q) =>
    LET r == req[q] IN
    /\ Shape(r)
    /\ Backed(r.b, r.row, r.pay)
    /\ r.todo \cap {"save", "update"} # {} /\ "record" \notin r.todo
         => Audited(r.b, r.row.status)
    /\ r.todo \cap {"findEarning", "insertEarning"} # {} => CompletesFirst(r)

\* The inductive invariant.
TInv ==
  /\ IInv
  /\ \A b \in Bookings : RowTraced(b)
  /\ \A q \in Requests : MemoryTraced(q)

-----------------------------------------------------------------------------
(* What a statement leaves of a request's memory.                          *)

LEMMA AfterContinue ==
  ASSUME TypeOK, NEW q \in Requests, NEW r, Continue(q, r)
  PROVE  /\ \A p \in Requests \ {q} : req'[p] = req[p]
         /\ req'[q].todo = r.todo
         /\ r.todo # {} => req'[q] = r
<1>1. \A p \in Requests : req'[p] = IF p # q THEN req[p]
                            ELSE IF r.todo = {} THEN NoRequest ELSE r
  BY DEF TypeOK, Continue
<1>2. NoRequest.todo = {}
  BY DEF NoRequest
<1>3. QED
  BY <1>1, <1>2

LEMMA AfterDone ==
  ASSUME TypeOK, NEW q \in Requests, req[q].todo # {}, NEW s, Done(q, s)
  PROVE  /\ \A p \in Requests \ {q} : req'[p] = req[p]
         /\ req'[q].todo = req[q].todo \ {s}
         /\ req'[q].todo # {} => /\ req'[q].b = req[q].b
                                 /\ req'[q].row = req[q].row
                                 /\ req'[q].pay = req[q].pay
                                 /\ req'[q].txn = req[q].txn
                                 /\ req'[q].dirty = req[q].dirty
<1> DEFINE mem == [req[q] EXCEPT !.todo = @ \ {s}]
<1>1. req[q] \in Memory
  BY InFlightMemory
<1>2. /\ mem.b = req[q].b
      /\ mem.row = req[q].row
      /\ mem.pay = req[q].pay
      /\ mem.txn = req[q].txn
      /\ mem.dirty = req[q].dirty
      /\ mem.todo = req[q].todo \ {s}
  BY <1>1 DEF Memory
<1>3. Continue(q, mem)
  BY DEF Done
<1> HIDE DEF mem
<1>4. QED
  BY <1>2, <1>3, AfterContinue

LEMMA AfterAbort ==
  ASSUME TypeOK, NEW q \in Requests, Abort(q)
  PROVE  /\ \A p \in Requests \ {q} : req'[p] = req[p]
         /\ req'[q].todo = {}
BY DEF TypeOK, Abort, NoRequest

\* The statements that read, and what they leave in memory.
LEMMA AfterSelect ==
  ASSUME TypeOK, NEW q \in Requests, SelectForSave(q)
  PROVE  /\ \A p \in Requests \ {q} : req'[p] = req[p]
         /\ req'[q].todo \ {"update"} = req[q].todo \ {"save", "update"}
         /\ "save" \notin req'[q].todo
         /\ "update" \in req'[q].todo =>
              req'[q].dirty = Differing(req[q].row, booking[req[q].b])
         /\ "update" \notin req'[q].todo =>
              Differing(req[q].row, booking[req[q].b]) = {}
         /\ req'[q].todo # {} => /\ req'[q].b = req[q].b
                                 /\ req'[q].row = req[q].row
                                 /\ req'[q].pay = req[q].pay
                                 /\ req'[q].txn = req[q].txn
<1> DEFINE diff == Differing(req[q].row, booking[req[q].b])
           mem == [req[q] EXCEPT !.dirty = diff,
                                 !.todo  = (@ \ {"save"}) \cup
                                   (IF diff = {} THEN {} ELSE {"update"})]
<1>1. "save" \in req[q].todo /\ Continue(q, mem)
  BY DEF SelectForSave, Turn
<1>2. req[q] \in Memory
  BY <1>1, InFlightMemory
<1> HIDE DEF diff
<1>3. /\ mem.b = req[q].b
      /\ mem.row = req[q].row
      /\ mem.pay = req[q].pay
      /\ mem.txn = req[q].txn
      /\ mem.dirty = diff
      /\ mem.todo = (req[q].todo \ {"save"}) \cup (IF diff = {} THEN {} ELSE {"update"})
  BY <1>2 DEF Memory
<1> HIDE DEF mem
<1>4. /\ \A p \in Requests \ {q} : req'[p] = req[p]
      /\ req'[q].todo = mem.todo
      /\ mem.todo # {} => req'[q] = mem
  BY <1>1, AfterContinue
<1>5. QED
  BY <1>3, <1>4 DEF diff

LEMMA AfterReadPayment ==
  ASSUME TypeOK, NEW q \in Requests, ReadPayment(q)
  PROVE  /\ \A p \in Requests \ {q} : req'[p] = req[p]
         /\ req'[q].todo = req[q].todo \ {"readPayment"}
         /\ req'[q].todo # {} =>
              /\ req'[q].b = req[q].b
              /\ req'[q].row = [req[q].row EXCEPT !.pay = req'[q].pay,
                                                  !.status = "cancelled"]
              /\ req'[q].row.status = "cancelled"
              /\ req'[q].row.pay = req'[q].pay
              /\ req'[q].pay =
                   RefundOrVoid("PAID" \in {payment[req[q].b], req[q].row.pay})
              /\ req'[q].txn = req[q].txn
<1> DEFINE b   == req[q].b
           pay == RefundOrVoid("PAID" \in {payment[b], req[q].row.pay})
           mem == [req[q] EXCEPT !.pay = pay, !.row.pay = pay,
                                 !.row.status = "cancelled",
                                 !.todo = @ \ {"readPayment"}]
<1>1. "readPayment" \in req[q].todo /\ Continue(q, mem)
  BY DEF ReadPayment, Turn
<1>2. req[q] \in Memory
  BY <1>1, InFlightMemory
<1> HIDE DEF pay
<1>3. /\ mem.b = b
      /\ mem.row = [req[q].row EXCEPT !.pay = pay, !.status = "cancelled"]
      /\ mem.row.status = "cancelled"
      /\ mem.row.pay = pay
      /\ mem.pay = pay
      /\ mem.txn = req[q].txn
      /\ mem.todo = req[q].todo \ {"readPayment"}
  BY <1>2 DEF Memory, Row
<1> HIDE DEF mem
<1>4. QED
  BY <1>1, <1>3, AfterContinue DEF pay

LEMMA AfterReread ==
  ASSUME TypeOK, NEW q \in Requests, Reread(q)
  PROVE  /\ \A p \in Requests \ {q} : req'[p] = req[p]
         /\ \/ req'[q].todo = {}
            \/ /\ CanTransition(booking[req[q].b].status, "accepted")
               /\ req'[q].b = req[q].b
               /\ req'[q].row = [booking[req[q].b] EXCEPT !.status = "accepted"]
               /\ req'[q].row.status = "accepted"
               /\ req'[q].row.pay = booking[req[q].b].pay
               /\ req'[q].pay = req[q].pay
               /\ req'[q].txn = req[q].txn
               /\ req'[q].todo = {"save", "record"}
<1> DEFINE b   == req[q].b
           mem == [req[q] EXCEPT !.row  = [booking[b] EXCEPT !.status = "accepted"],
                                 !.todo = {"save", "record"}]
<1>1. /\ "reread" \in req[q].todo
      /\ Abort(q) \/ (Continue(q, mem) /\ CanTransition(booking[b].status, "accepted"))
  BY DEF Reread, Turn
<1>2. req[q] \in Memory /\ booking[b] \in Row
  BY <1>1, InFlightMemory DEF Memory, TypeOK
<1>3. /\ mem.b = b
      /\ mem.row = [booking[b] EXCEPT !.status = "accepted"]
      /\ mem.row.status = "accepted"
      /\ mem.row.pay = booking[b].pay
      /\ mem.pay = req[q].pay
      /\ mem.txn = req[q].txn
      /\ mem.todo = {"save", "record"}
  BY <1>2 DEF Memory, Row
<1> HIDE DEF mem
<1>4. CASE Abort(q)
  BY <1>4, AfterAbort
<1>5. CASE Continue(q, mem) /\ CanTransition(booking[b].status, "accepted")
  BY <1>3, <1>5, AfterContinue
<1>6. QED
  BY <1>1, <1>4, <1>5

LEMMA AfterFindEarning ==
  ASSUME TypeOK, NEW q \in Requests, FindEarning(q)
  PROVE  /\ \A p \in Requests \ {q} : req'[p] = req[p]
         /\ req'[q].todo \subseteq {"insertEarning"}
         /\ req'[q].todo # {} => /\ ~PaidOut(req[q].b)
                                 /\ req'[q].b = req[q].b
                                 /\ req'[q].row = req[q].row
                                 /\ req'[q].pay = req[q].pay
                                 /\ req'[q].txn = req[q].txn
<1> DEFINE mem == [req[q] EXCEPT
                     !.todo = IF PaidOut(req[q].b) THEN {} ELSE {"insertEarning"}]
<1>1. "findEarning" \in req[q].todo /\ Continue(q, mem)
  BY DEF FindEarning, Turn
<1>2. req[q] \in Memory
  BY <1>1, InFlightMemory
<1>3. /\ mem.b = req[q].b
      /\ mem.row = req[q].row
      /\ mem.pay = req[q].pay
      /\ mem.txn = req[q].txn
      /\ mem.todo = IF PaidOut(req[q].b) THEN {} ELSE {"insertEarning"}
  BY <1>2 DEF Memory
<1> HIDE DEF mem
<1>4. QED
  BY <1>1, <1>3, AfterContinue

-----------------------------------------------------------------------------
(* Traces stay: the ledger, the history and the dead grow, and a request   *)
(* gives up a statement only by executing it or by dying.                   *)

TracesGrow ==
  /\ died \subseteq died'
  /\ \A b \in Bookings : /\ txns[b] \subseteq txns'[b]
                         /\ logged[b] \subseteq logged'[b]
                         /\ seen[b] \subseteq seen'[b]

\* A handler writes nothing but, when it claims, the agent of a booking.
LEMMA HandlerWrites ==
  ASSUME TypeOK, NEW q \in Requests, NEW b \in Bookings,
         Customer(q, b) \/ Webhook(q, b) \/ Agent(q, b) \/ Admin(q, b)
  PROVE  /\ UNCHANGED <<payment, txns, logged, earnings, seen, died>>
         /\ \A c \in Bookings : /\ booking'[c].status = booking[c].status
                                /\ booking'[c].pay = booking[c].pay
         /\ ~InFlight(q)
         /\ \A p \in Requests \ {q} : req'[p] = req[p]
<1> DEFINE Goal ==
      /\ UNCHANGED <<payment, txns, logged, earnings, seen, died>>
      /\ \A c \in Bookings : /\ booking'[c].status = booking[c].status
                             /\ booking'[c].pay = booking[c].pay
      /\ ~InFlight(q)
      /\ \A p \in Requests \ {q} : req'[p] = req[p]
<1>1. ASSUME NEW row, NEW pay, NEW txn, NEW todo, Begin(q, b, row, pay, txn, todo)
      PROVE  ~InFlight(q) /\ \A p \in Requests \ {q} : req'[p] = req[p]
  BY <1>1 DEF Begin, TypeOK
<1>2. ASSUME UNCHANGED <<db, seen, died>>,
             NEW row, NEW pay, NEW txn, NEW todo, Begin(q, b, row, pay, txn, todo)
      PROVE  Goal
  BY <1>1, <1>2 DEF db
<1>3. CASE Customer(q, b) \/ Webhook(q, b) \/ Admin(q, b)
  BY <1>2, <1>3 DEF Customer, Webhook, Admin, CreateOrder, Verify, Settle,
     CancelByCustomer, Reschedule, WebhookCaptured, WebhookFailed,
     CancelByAdmin, Assign, Reassign, hist
<1>4. ASSUME NEW a \in Agents, Claim(q, a, b) PROVE Goal
  <2>1. /\ booking' = [booking EXCEPT ![b].agent = a]
        /\ UNCHANGED <<payment, txns, logged, earnings, seen, died>>
        /\ Begin(q, b, booking[b], payment[b], "created", {"reread"})
    BY <1>4 DEF Claim, hist
  <2>2. \A c \in Bookings : /\ booking'[c].status = booking[c].status
                            /\ booking'[c].pay = booking[c].pay
    BY <2>1 DEF TypeOK, Row
  <2>3. QED
    BY <1>1, <2>1, <2>2
<1>5. CASE Agent(q, b)
  BY <1>2, <1>4, <1>5 DEF Agent, Release, Decline, Arrive, Start, Complete,
     Advance, hist
<1>6. QED
  BY <1>3, <1>5

LEMMA NextTracesGrow == TypeOK /\ [Next]_vars => TracesGrow
<1> SUFFICES ASSUME TypeOK, [Next]_vars PROVE TracesGrow
  OBVIOUS
<1>1. ASSUME UNCHANGED <<txns, logged, seen, died>> PROVE TracesGrow
  BY <1>1 DEF TracesGrow
<1>2. ASSUME NEW q \in Requests, NEW b \in Bookings,
             Customer(q, b) \/ Webhook(q, b) \/ Agent(q, b) \/ Admin(q, b)
      PROVE  TracesGrow
  BY <1>1, <1>2, HandlerWrites
<1>3. ASSUME NEW q \in Requests, Execute(q) PROVE TracesGrow
  <2>1. CASE UpdateRow(q)
    <3>1. UNCHANGED <<txns, logged, died>>
      BY <2>1 DEF UpdateRow
    <3>2. \E s : seen' = [seen EXCEPT ![req[q].b] = @ \cup {s}]
      BY <2>1 DEF UpdateRow
    <3>3. \A b \in Bookings : seen[b] \subseteq seen'[b]
      BY <3>2 DEF TypeOK
    <3>4. QED
      BY <3>1, <3>3 DEF TracesGrow
  <2>2. CASE InsertTxn(q)
    <3>1. UNCHANGED <<logged, seen, died>>
      BY <2>2 DEF InsertTxn, hist
    <3>2. txns' = [txns EXCEPT ![req[q].b] = @ \cup {req[q].txn}]
      BY <2>2 DEF InsertTxn
    <3>3. \A b \in Bookings : txns[b] \subseteq txns'[b]
      BY <3>2 DEF TypeOK
    <3>4. QED
      BY <3>1, <3>3 DEF TracesGrow
  <2>3. CASE Record(q)
    <3>1. UNCHANGED <<txns, seen, died>>
      BY <2>3 DEF Record, hist
    <3>2. logged' = [logged EXCEPT ![req[q].b] = @ \cup {req[q].row.status}]
      BY <2>3 DEF Record
    <3>3. \A b \in Bookings : logged[b] \subseteq logged'[b]
      BY <3>2 DEF TypeOK
    <3>4. QED
      BY <3>1, <3>3 DEF TracesGrow
  <2>4. QED
    BY <1>1, <1>3, <2>1, <2>2, <2>3 DEF Execute, CheckClash, ReadPayment,
       Reread, SelectForSave, SavePayment, FindEarning, InsertEarning,
       Acknowledge, db, hist
<1>4. ASSUME NEW q \in Requests, Crash(q) PROVE TracesGrow
  BY <1>4 DEF Crash, db, TracesGrow
<1>5. ASSUME NEW b \in Bookings, NEW e \in Event, GatewayOutcome(b, e)
      PROVE  TracesGrow
  BY <1>1, <1>5 DEF GatewayOutcome, db, hist
<1>6. CASE UNCHANGED vars
  BY <1>1, <1>6 DEF vars, db, hist
<1>7. QED
  BY <1>2, <1>3, <1>4, <1>5, <1>6 DEF Next

\* A statement is executed in its turn, by a request in flight.
LEMMA ExecuteInFlight ==
  ASSUME TypeOK, NEW q \in Requests, Execute(q)
  PROVE  /\ req[q].todo # {}
         /\ req[q] \in Memory
         /\ req[q].b \in Bookings
<1>1. req[q].todo # {}
  BY DEF Execute, Turn, CheckClash, ReadPayment, Reread, SelectForSave,
         UpdateRow, SavePayment, InsertTxn, Record, FindEarning,
         InsertEarning, Acknowledge
<1>2. QED
  BY <1>1, InFlightMemory DEF Memory

\* What is still to be inserted or recorded stays so until it is.
LEMMA ExecuteKeeps ==
  ASSUME TypeOK, NEW q \in Requests, Execute(q), Shape(req[q])
  PROVE  /\ "txn" \in req[q].todo =>
              \/ req[q].txn \in txns'[req[q].b]
              \/ /\ "txn" \in req'[q].todo
                 /\ req'[q].b = req[q].b
                 /\ req'[q].txn = req[q].txn
         /\ "record" \in req[q].todo /\ req[q].todo \cap {"clash", "readPayment"} = {} =>
              \/ req[q].row.status \in logged'[req[q].b]
              \/ /\ "record" \in req'[q].todo
                 /\ req'[q].todo \cap {"clash", "readPayment"} = {}
                 /\ req'[q].b = req[q].b
                 /\ req'[q].row.status = req[q].row.status
         /\ \A p \in Requests \ {q} : req'[p] = req[p]
<1> USE ExecuteInFlight
<1>1. ASSUME NEW s, Done(q, s), s \notin {"txn", "record"}
      PROVE  /\ "txn" \in req[q].todo => /\ "txn" \in req'[q].todo
                                         /\ req'[q].b = req[q].b
                                         /\ req'[q].txn = req[q].txn
             /\ "record" \in req[q].todo => /\ "record" \in req'[q].todo
                                            /\ req'[q].b = req[q].b
                                            /\ req'[q].row.status = req[q].row.status
             /\ req'[q].todo \subseteq req[q].todo
             /\ \A p \in Requests \ {q} : req'[p] = req[p]
  BY <1>1, AfterDone
<1>2. CASE UpdateRow(q) \/ SavePayment(q) \/ InsertEarning(q) \/ Acknowledge(q)
  <2>1. \E s : Done(q, s) /\ s \notin {"txn", "record"}
    BY <1>2 DEF UpdateRow, SavePayment, InsertEarning, Acknowledge
  <2>2. QED
    BY <1>1, <2>1
<1>3. CASE CheckClash(q)
  <2>1. CASE Done(q, "clash")
    BY <1>1, <2>1
  <2>2. CASE Abort(q)
    <3>1. "clash" \in req[q].todo
      BY <1>3 DEF CheckClash, Turn
    <3>2. QED
      BY <2>2, <3>1, AfterAbort DEF Shape
  <2>3. QED
    BY <1>3, <2>1, <2>2 DEF CheckClash
<1>4. CASE SelectForSave(q)
  BY <1>4, AfterSelect
<1>5. CASE ReadPayment(q)
  <2>1. "readPayment" \in req[q].todo
    BY <1>5 DEF ReadPayment, Turn
  <2>2. QED
    BY <1>5, <2>1, AfterReadPayment
<1>6. CASE Reread(q)
  <2>1. "reread" \in req[q].todo
    BY <1>6 DEF Reread, Turn
  <2>2. req[q].todo = {"reread"}
    BY <2>1 DEF Shape
  <2>3. QED
    BY <1>6, <2>2, AfterReread
<1>7. CASE FindEarning(q)
  <2>1. "txn" \notin req[q].todo /\ "record" \notin req[q].todo
    BY <1>7 DEF FindEarning, Turn, Rank
  <2>2. QED
    BY <1>7, <2>1, AfterFindEarning
<1>8. CASE InsertTxn(q)
  <2>1. /\ Turn(q, "txn")
        /\ Done(q, "txn")
        /\ txns' = [txns EXCEPT ![req[q].b] = @ \cup {req[q].txn}]
    BY <1>8 DEF InsertTxn
  <2>2. req[q].txn \in txns'[req[q].b]
    BY <2>1 DEF TypeOK
  <2>3. QED
    BY <2>1, <2>2, AfterDone
<1>9. CASE Record(q)
  <2>1. /\ Turn(q, "record")
        /\ Done(q, "record")
        /\ logged' = [logged EXCEPT ![req[q].b] = @ \cup {req[q].row.status}]
    BY <1>9 DEF Record
  <2>2. req[q].row.status \in logged'[req[q].b]
    BY <2>1 DEF TypeOK
  <2>3. "txn" \notin req[q].todo
    BY <2>1 DEF Turn, Rank
  <2>4. QED
    BY <2>1, <2>2, <2>3, AfterDone
<1>10. QED
  BY <1>2, <1>3, <1>4, <1>5, <1>6, <1>7, <1>8, <1>9 DEF Execute

LEMMA TracesStay ==
  ASSUME TypeOK, \A q \in Requests : MemoryTraced(q), [Next]_vars
  PROVE  \A b \in Bookings : /\ Explained(b) => Explained(b)'
                             /\ \A s : Audited(b, s) => Audited(b, s)'
<1>0. TracesGrow
  BY NextTracesGrow
<1>1. ASSUME NEW b \in Bookings, NEW s, NEW q \in Requests, req'[q] = req[q]
      PROVE  /\ Captures(q, b) => Explained(b)'
             /\ (Records(q, b) /\ req[q].row.status = s) => Audited(b, s)'
  <2>1. Captures(q, b) => Captures(q, b)'
    BY <1>1 DEF Captures, Holds, InFlight
  <2>2. Records(q, b) => Records(q, b)' /\ req'[q].row.status = req[q].row.status
    BY <1>1 DEF Records, Holds, InFlight
  <2>3. QED
    BY <2>1, <2>2 DEF Explained, Audited
<1>2. ASSUME NEW b \in Bookings, NEW s, NEW q \in Requests
      PROVE  /\ Captures(q, b) => Explained(b)'
             /\ (Records(q, b) /\ req[q].row.status = s) => Audited(b, s)'
  <2> DEFINE Goal == /\ Captures(q, b) => Explained(b)'
                     /\ (Records(q, b) /\ req[q].row.status = s) => Audited(b, s)'
  <2>1. CASE ~InFlight(q)
    BY <2>1 DEF Captures, Records, Holds
  <2>2. ASSUME InFlight(q), NEW p \in Requests, NEW c \in Bookings,
               Customer(p, c) \/ Webhook(p, c) \/ Agent(p, c) \/ Admin(p, c)
        PROVE  Goal
    BY <1>1, <2>2, HandlerWrites
  <2>3. ASSUME InFlight(q), NEW p \in Requests, Execute(p) PROVE Goal
    <3>1. Shape(req[p])
      BY <2>3, ExecuteInFlight DEF MemoryTraced, InFlight
    <3>2. CASE p # q
      BY <1>1, <2>3, <3>1, <3>2, ExecuteKeeps
    <3>3. CASE p = q
      <4>1. Captures(q, b) => Explained(b)'
        <5>1. SUFFICES ASSUME Captures(q, b) PROVE Explained(b)'
          OBVIOUS
        <5>2. \/ "captured" \in txns'[b]
              \/ /\ "txn" \in req'[q].todo
                 /\ req'[q].b = b
                 /\ req'[q].txn = "captured"
          BY <2>3, <3>1, <3>3, <5>1, ExecuteKeeps DEF Captures, Holds
        <5>3. QED
          BY <5>2 DEF Explained, Captures, Holds, InFlight
      <4>2. (Records(q, b) /\ req[q].row.status = s) => Audited(b, s)'
        <5>1. SUFFICES ASSUME Records(q, b), req[q].row.status = s PROVE Audited(b, s)'
          OBVIOUS
        <5>2. \/ s \in logged'[b]
              \/ /\ "record" \in req'[q].todo
                 /\ req'[q].todo \cap {"clash", "readPayment"} = {}
                 /\ req'[q].b = b
                 /\ req'[q].row.status = s
          BY <2>3, <3>1, <3>3, <5>1, ExecuteKeeps DEF Records, Holds
        <5>3. QED
          BY <5>2 DEF Audited, Records, Holds, InFlight
      <4>3. QED
        BY <4>1, <4>2
    <3>4. QED
      BY <3>2, <3>3
  <2>4. ASSUME InFlight(q), NEW p \in Requests, Crash(p) PROVE Goal
    <3>1. /\ died' = died \cup {req[p].b}
          /\ req' = [req EXCEPT ![p] = NoRequest]
      BY <2>4 DEF Crash, Abort
    <3>2. CASE p # q
      BY <1>1, <3>1, <3>2 DEF TypeOK
    <3>3. CASE p = q
      BY <3>1, <3>3 DEF Captures, Records, Holds, Explained, Audited
    <3>4. QED
      BY <3>2, <3>3
  <2>5. ASSUME NEW c \in Bookings, NEW e \in Event, GatewayOutcome(c, e) PROVE Goal
    BY <1>1, <2>5 DEF GatewayOutcome
  <2>6. CASE UNCHANGED vars
    BY <1>1, <2>6 DEF vars
  <2>7. QED
    BY <2>1, <2>2, <2>3, <2>4, <2>5, <2>6 DEF Next
<1>3. ASSUME NEW b \in Bookings, Explained(b) PROVE Explained(b)'
  <2>1. CASE "captured" \in txns[b] \/ b \in died
    BY <1>0, <2>1 DEF TracesGrow, Explained
  <2>2. QED
    BY <1>2, <1>3, <2>1 DEF Explained
<1>4. ASSUME NEW b \in Bookings, NEW s, Audited(b, s) PROVE Audited(b, s)'
  <2>1. CASE s \in logged[b] \/ b \in died
    BY <1>0, <2>1 DEF TracesGrow, Audited
  <2>2. QED
    BY <1>2, <1>4, <2>1 DEF Audited
<1>5. QED
  BY <1>3, <1>4

-----------------------------------------------------------------------------
(* Rows and memories a step leaves alone keep their traces.                *)

Kept ==
  \A b \in Bookings : /\ seen[b] \subseteq seen'[b]
                      /\ Explained(b) => Explained(b)'
                      /\ \A s : Audited(b, s) => Audited(b, s)'

LEMMA NextKept == TInv /\ [Next]_vars => Kept
BY TracesStay, NextTracesGrow DEF TInv, IInv, TracesGrow, Kept

LEMMA RowStaysTraced ==
  ASSUME Kept, NEW b \in Bookings, RowTraced(b),
         booking'[b].pay = booking[b].pay, payment'[b] = payment[b],
         seen'[b] = seen[b], earnings'[b] = earnings[b]
  PROVE  RowTraced(b)'
<1>1. Backed(b, booking[b], payment[b])'
  BY DEF Kept, RowTraced, Backed
<1>2. \A s \in seen'[b] : Audited(b, s)'
  BY DEF Kept, RowTraced
<1>3. PaidOut(b)' => "completed" \in seen'[b]
  BY DEF RowTraced, PaidOut
<1>4. QED
  BY <1>1, <1>2, <1>3 DEF RowTraced

\* A request that goes on with fewer statements.
LEMMA MemoryStaysTraced ==
  ASSUME TypeOK, Kept, NEW q \in Requests, MemoryTraced(q),
         req'[q].todo # {} =>
           /\ req'[q].todo \subseteq req[q].todo
           /\ req'[q].b = req[q].b
           /\ req'[q].row.status = req[q].row.status
           /\ req'[q].row.pay = req[q].row.pay
           /\ req'[q].pay = req[q].pay
           /\ req'[q].dirty = req[q].dirty
           /\ (/\ req'[q].todo \cap {"save", "update", "readPayment"} # {}
               /\ "record" \in req[q].todo)
                => "record" \in req'[q].todo
           /\ "save" \in req[q].todo => "save" \in req'[q].todo
           /\ "update" \in req[q].todo =>
                \/ "update" \in req'[q].todo
                \/ req'[q].todo \cap {"findEarning", "insertEarning"} = {}
                \/ CompletesFirst(req[q])'
  PROVE  MemoryTraced(q)'
<1> SUFFICES ASSUME req'[q].todo # {} PROVE MemoryTraced(q)'
  BY DEF MemoryTraced, InFlight
<1>1. /\ req[q].todo # {}
      /\ req[q].b \in Bookings
      /\ Shape(req[q])
      /\ Backed(req[q].b, req[q].row, req[q].pay)
      /\ req[q].todo \cap {"save", "update"} # {} /\ "record" \notin req[q].todo
           => Audited(req[q].b, req[q].row.status)
      /\ req[q].todo \cap {"findEarning", "insertEarning"} # {}
           => CompletesFirst(req[q])
  BY InFlightMemory DEF Request, MemoryTraced, InFlight
<1>2. Shape(req[q])'
  BY <1>1 DEF Shape
<1>3. Backed(req[q].b, req[q].row, req[q].pay)'
  <2> DEFINE b == req[q].b
  <2>1. Explained(b) => Explained(req[q].b)'
    BY <1>1 DEF Kept, Explained, Captures, Holds, InFlight
  <2>2. QED
    BY <1>1, <2>1 DEF Backed
<1>4. req'[q].todo \cap {"save", "update"} # {} /\ "record" \notin req'[q].todo
        => Audited(req[q].b, req[q].row.status)'
  <2>1. Audited(req[q].b, req[q].row.status) => Audited(req[q].b, req[q].row.status)'
    BY <1>1 DEF Kept, Audited, Records, Holds, InFlight
  <2>2. QED
    BY <1>1, <2>1
<1>5. req'[q].todo \cap {"findEarning", "insertEarning"} # {} => CompletesFirst(req[q])'
  <2>1. "completed" \in seen[req[q].b] => "completed" \in seen'[req'[q].b]
    BY <1>1 DEF Kept
  <2>2. QED
    BY <1>1, <2>1 DEF CompletesFirst
<1>6. QED
  BY <1>2, <1>3, <1>4, <1>5 DEF MemoryTraced

LEMMA OthersStayTraced ==
  ASSUME TypeOK, Kept, NEW q \in Requests, MemoryTraced(q), req'[q] = req[q]
  PROVE  MemoryTraced(q)'
BY MemoryStaysTraced

-----------------------------------------------------------------------------
(* A handler loads, checks and changes only what has left its traces.      *)

LEMMA BeginTraced ==
  ASSUME TInv, Kept, NEW q \in Requests, NEW b \in Bookings,
         NEW row, NEW pay, NEW txn, NEW todo,
         Begin(q, b, row, pay, txn, todo),
         UNCHANGED <<payment, txns, logged, earnings, seen, died>>,
         \A c \in Bookings : booking'[c].pay = booking[c].pay,
         {row.pay, pay} \cap {"PAID", "REFUNDED"} # {}
           => \/ {booking[b].pay, payment[b]} \cap {"PAID", "REFUNDED"} # {}
              \/ "txn" \in todo /\ txn = "captured",
         "save" \in todo /\ "record" \notin todo => row.status = booking[b].status,
         "update" \notin todo,
         "reread" \in todo => todo = {"reread"},
         "clash" \in todo => "txn" \notin todo,
         "readPayment" \in todo => "record" \in todo,
         todo \cap {"findEarning", "insertEarning"} # {}
           => row.status = "completed" /\ "readPayment" \notin todo /\ "save" \in todo
  PROVE  /\ \A c \in Bookings : RowTraced(c)'
         /\ \A p \in Requests : MemoryTraced(p)'
<1>0. /\ TypeOK
      /\ booking[b].status \in seen[b]
      /\ RowTraced(b)
  BY DEF TInv, IInv, RowCaused
<1>1. \A c \in Bookings : RowTraced(c)'
  BY RowStaysTraced DEF TInv
<1>2. ASSUME NEW p \in Requests, p # q PROVE MemoryTraced(p)'
  <2>1. req'[p] = req[p]
    BY <1>0, <1>2 DEF Begin, TypeOK
  <2>2. QED
    BY <1>0, <2>1, OthersStayTraced DEF TInv
<1>3. MemoryTraced(q)'
  <2>1. req'[q] = [b |-> b, row |-> row, pay |-> pay, txn |-> txn,
                   dirty |-> {}, todo |-> todo]
    BY <1>0 DEF Begin, TypeOK
  <2>2. /\ req'[q].b = b
        /\ req'[q].row = row
        /\ req'[q].pay = pay
        /\ req'[q].txn = txn
        /\ req'[q].todo = todo
    BY <2>1
  <2>3. SUFFICES ASSUME todo # {} PROVE MemoryTraced(q)'
    BY <2>2 DEF MemoryTraced, InFlight
  <2>4. Shape(req[q])'
    BY <2>2 DEF Shape
  <2>5. Backed(req[q].b, req[q].row, req[q].pay)'
    <3>1. SUFFICES ASSUME {row.pay, pay} \cap {"PAID", "REFUNDED"} # {}
                   PROVE  Explained(req[q].b)'
      BY <2>2 DEF Backed
    <3>2. Explained(b) => Explained(b)'
      BY DEF Kept
    <3>3. CASE {booking[b].pay, payment[b]} \cap {"PAID", "REFUNDED"} # {}
      <4>1. Explained(b)'
        BY <1>0, <3>2, <3>3 DEF RowTraced, Backed
      <4>2. QED
        BY <2>2, <4>1 DEF Explained, Captures, Holds, InFlight
    <3>4. CASE "txn" \in todo /\ txn = "captured"
      BY <2>2, <2>3, <3>4 DEF Explained, Captures, Holds, InFlight
    <3>5. QED
      BY <3>1, <3>3, <3>4
  <2>6. req'[q].todo \cap {"save", "update"} # {} /\ "record" \notin req'[q].todo
          => Audited(req[q].b, req[q].row.status)'
    <3>1. SUFFICES ASSUME "save" \in todo, "record" \notin todo
                   PROVE  Audited(req[q].b, req[q].row.status)'
      BY <2>2
    <3> DEFINE s == booking[b].status
    <3>2. Audited(b, s)
      BY <1>0 DEF RowTraced
    <3>3. req'[q].row.status = s
      BY <2>2, <3>1
    <3> HIDE DEF s
    <3>4. PICK t : t = s
      OBVIOUS
    <3>5. Audited(b, t)'
      BY <3>2, <3>4 DEF Kept
    <3>6. QED
      BY <2>2, <3>3, <3>4, <3>5 DEF Audited, Records, Holds, InFlight
  <2>7. req'[q].todo \cap {"findEarning", "insertEarning"} # {} => CompletesFirst(req[q])'
    BY <2>2 DEF CompletesFirst
  <2>8. QED
    BY <2>4, <2>5, <2>6, <2>7 DEF MemoryTraced
<1>4. QED
  BY <1>1, <1>2, <1>3

\* What BeginTraced asks of a handler's program holds of each of them.
LEMMA HandlerTraced ==
  ASSUME TInv, Kept, NEW q \in Requests, NEW b \in Bookings,
         Customer(q, b) \/ Webhook(q, b) \/ Agent(q, b) \/ Admin(q, b)
  PROVE  /\ \A c \in Bookings : RowTraced(c)'
         /\ \A p \in Requests : MemoryTraced(p)'
<1> DEFINE Goal == /\ \A c \in Bookings : RowTraced(c)'
                   /\ \A p \in Requests : MemoryTraced(p)'
<1>0. /\ booking[b] \in Row
      /\ UNCHANGED <<payment, txns, logged, earnings, seen, died>>
      /\ \A c \in Bookings : booking'[c].pay = booking[c].pay
  BY HandlerWrites DEF TInv, IInv, TypeOK
\* Handlers that leave the payment as it was loaded, and record what they save.
<1>1. ASSUME NEW row, row.pay = booking[b].pay, NEW txn, NEW todo,
             Begin(q, b, row, payment[b], txn, todo),
             todo \in {{"save", "record"}, {"clash", "save", "record"}, {"record"}}
      PROVE  Goal
  BY <1>0, <1>1, BeginTraced
<1>2. ASSUME NEW m \in BOOLEAN, CreateOrder(q, b, m) PROVE Goal
  <2> DEFINE todo == {"txn"} \cup (IF m THEN {"payment"} ELSE {})
  <2>1. Begin(q, b, booking[b], payment[b], "created", todo)
    BY <1>2 DEF CreateOrder
  <2>2. todo \subseteq {"txn", "payment"}
    OBVIOUS
  <2> HIDE DEF todo
  <2>3. QED
    BY <1>0, <2>1, <2>2, BeginTraced
<1>3. ASSUME NEW more \in {{}, {"ack"}}, Settle(q, b, more) PROVE Goal
  <2> DEFINE row  == Settled(booking[b])
             todo == {"payment", "txn", "save"} \cup more
               \cup (IF booking[b].status = "finding" THEN {"record"} ELSE {})
  <2>1. Begin(q, b, row, "PAID", "captured", todo)
    BY <1>3 DEF Settle
  <2>2. booking[b].status # "finding" => row.status = booking[b].status
    BY <1>0 DEF Settled, Row
  <2>3. /\ todo \subseteq {"payment", "txn", "save", "ack", "record"}
        /\ "txn" \in todo
        /\ "record" \in todo <=> booking[b].status = "finding"
    BY <1>3
  <2> HIDE DEF todo, row
  <2>4. QED
    BY <1>0, <2>1, <2>2, <2>3, BeginTraced
<1>4. CASE Verify(q, b)
  BY <1>3, <1>4 DEF Verify
<1>5. CASE WebhookCaptured(q, b)
  BY <1>3, <1>5 DEF WebhookCaptured
<1>6. CASE WebhookFailed(q, b)
  <2> DEFINE row == [booking[b] EXCEPT !.pay = "FAILED"]
  <2>1. Begin(q, b, row, "FAILED", "failed", {"payment", "txn", "save", "ack"})
    BY <1>6 DEF WebhookFailed
  <2>2. row.status = booking[b].status /\ row.pay = "FAILED"
    BY <1>0 DEF Row
  <2> HIDE DEF row
  <2>3. QED
    BY <1>0, <2>1, <2>2, BeginTraced
<1>7. CASE CancelByCustomer(q, b)
  <2> DEFINE pay == RefundOrVoid(payment[b] = "PAID")
             row == [booking[b] EXCEPT !.pay = pay, !.status = "cancelled"]
  <2>1. Begin(q, b, row, pay, "created", {"payment", "save", "record"})
    BY <1>7 DEF CancelByCustomer
  <2>2. row.pay = pay
    BY <1>0 DEF Row
  <2>3. pay \in {"PAID", "REFUNDED"} => payment[b] = "PAID"
    BY DEF RefundOrVoid
  <2> HIDE DEF pay, row
  <2>4. QED
    BY <1>0, <2>1, <2>2, <2>3, BeginTraced
<1>8. CASE CancelByAdmin(q, b)
  <2>1. Begin(q, b, booking[b], payment[b], "created",
              {"readPayment", "save", "record", "refund"})
    BY <1>8 DEF CancelByAdmin
  <2>2. QED
    BY <1>0, <2>1, BeginTraced
<1>9. ASSUME NEW t \in Slots, Reschedule(q, b, t) PROVE Goal
  <2> DEFINE row == [booking[b] EXCEPT !.slot = t]
  <2>1. /\ Begin(q, b, row, payment[b], "created", {"save", "record"})
        /\ row.pay = booking[b].pay
    BY <1>0, <1>9 DEF Reschedule, Row
  <2> HIDE DEF row
  <2>2. QED
    BY <1>1, <2>1
<1>10. ASSUME NEW a \in Agents, Claim(q, a, b) PROVE Goal
  <2>1. Begin(q, b, booking[b], payment[b], "created", {"reread"})
    BY <1>10 DEF Claim
  <2>2. QED
    BY <1>0, <2>1, BeginTraced
<1>11. ASSUME NEW a \in Agents, Release(q, a, b) PROVE Goal
  <2> DEFINE row == [booking[b] EXCEPT !.agent = NoAgent, !.status = "paid"]
  <2>1. /\ Begin(q, b, row, payment[b], "created", {"save", "record"})
        /\ row.pay = booking[b].pay
    BY <1>0, <1>11 DEF Release, Row
  <2> HIDE DEF row
  <2>2. QED
    BY <1>1, <2>1
<1>12. ASSUME NEW a \in Agents, Decline(q, a, b) PROVE Goal
  BY <1>1, <1>12 DEF Decline
<1>13. ASSUME NEW a \in Agents, NEW next, Advance(q, a, b, next, {}) PROVE Goal
  <2> DEFINE row == [booking[b] EXCEPT !.status = next]
  <2>1. Begin(q, b, row, payment[b], "created", {"save", "record"} \cup {})
    BY <1>13 DEF Advance
  <2>2. row.pay = booking[b].pay
    BY <1>0 DEF Row
  <2>3. {"save", "record"} \cup {} = {"save", "record"}
    OBVIOUS
  <2> HIDE DEF row
  <2>4. QED
    BY <1>1, <2>1, <2>2, <2>3
<1>14. ASSUME NEW a \in Agents, NEW otp \in BOOLEAN, Start(q, a, b, otp) PROVE Goal
  BY <1>13, <1>14 DEF Start
<1>15. ASSUME NEW a \in Agents, Arrive(q, a, b) PROVE Goal
  BY <1>13, <1>15 DEF Arrive
<1>16. ASSUME NEW a \in Agents, Complete(q, a, b) PROVE Goal
  <2> DEFINE row == [booking[b] EXCEPT !.status = "completed"]
  <2>1. Begin(q, b, row, payment[b], "created",
              {"save", "record"} \cup {"findEarning"})
    BY <1>16 DEF Complete, Advance
  <2>2. row.pay = booking[b].pay /\ row.status = "completed"
    BY <1>0 DEF Row
  <2> HIDE DEF row
  <2>3. QED
    BY <1>0, <2>1, <2>2, BeginTraced
<1>17. ASSUME NEW a \in Agents, Assign(q, a, b) PROVE Goal
  <2> DEFINE row == [booking[b] EXCEPT !.agent = a,
                       !.status = IF @ = "paid" THEN "accepted" ELSE @]
  <2>1. /\ Begin(q, b, row, payment[b], "created", {"clash", "save", "record"})
        /\ row.pay = booking[b].pay
    BY <1>0, <1>17 DEF Assign, Row
  <2> HIDE DEF row
  <2>2. QED
    BY <1>1, <2>1
<1>18. ASSUME NEW a \in Agents, Reassign(q, a, b) PROVE Goal
  <2> DEFINE row == [booking[b] EXCEPT !.agent = a]
  <2>1. /\ Begin(q, b, row, payment[b], "created", {"clash", "save", "record"})
        /\ row.pay = booking[b].pay
    BY <1>0, <1>18 DEF Reassign, Row
  <2> HIDE DEF row
  <2>2. QED
    BY <1>1, <2>1
<1>19. QED
  BY <1>2, <1>4, <1>5, <1>6, <1>7, <1>8, <1>9, <1>10, <1>11, <1>12, <1>14,
     <1>15, <1>16, <1>17, <1>18
  DEF Customer, Webhook, Agent, Admin

-----------------------------------------------------------------------------
(* A statement writes only what has left its traces.                       *)

\* A request that goes on with its memory as it was, statement s executed.
LEMMA DoneTraced ==
  ASSUME TInv, Kept, NEW q \in Requests, req[q].todo # {}, NEW s, Done(q, s),
         s # "save",
         s = "record" => req[q].todo \cap {"save", "update", "readPayment"} = {},
         s = "update" => \/ req'[q].todo \cap {"findEarning", "insertEarning"} = {}
                         \/ CompletesFirst(req[q])'
  PROVE  \A p \in Requests : MemoryTraced(p)'
<1>1. TypeOK /\ \A p \in Requests : MemoryTraced(p)
  BY DEF TInv, IInv
<1>2. ASSUME NEW p \in Requests, p # q PROVE MemoryTraced(p)'
  BY <1>1, <1>2, AfterDone, OthersStayTraced
<1>3. MemoryTraced(q)'
  BY <1>1, AfterDone, MemoryStaysTraced
<1>4. QED
  BY <1>2, <1>3

LEMMA ExecuteTraced ==
  ASSUME TInv, Kept, NEW q \in Requests, Execute(q)
  PROVE  /\ \A b \in Bookings : RowTraced(b)'
         /\ \A p \in Requests : MemoryTraced(p)'
<1> DEFINE Goal == /\ \A b \in Bookings : RowTraced(b)'
                   /\ \A p \in Requests : MemoryTraced(p)'
           c == req[q].b
<1>0. /\ TypeOK
      /\ req[q].todo # {}
      /\ req[q] \in Memory
      /\ c \in Bookings
      /\ \A b \in Bookings : RowTraced(b)
      /\ \A p \in Requests : MemoryTraced(p)
      /\ booking[c].status \in seen[c]
  BY ExecuteInFlight DEF TInv, IInv, RowCaused
<1>1. /\ Shape(req[q])
      /\ Backed(c, req[q].row, req[q].pay)
      /\ req[q].todo \cap {"save", "update"} # {} /\ "record" \notin req[q].todo
           => Audited(c, req[q].row.status)
      /\ req[q].todo \cap {"findEarning", "insertEarning"} # {}
           => CompletesFirst(req[q])
  BY <1>0 DEF MemoryTraced, InFlight
<1>2. ASSUME UNCHANGED <<booking, payment, earnings, seen>>
      PROVE  \A b \in Bookings : RowTraced(b)'
  BY <1>0, <1>2, RowStaysTraced
<1>3. ASSUME \A p \in Requests \ {q} : req'[p] = req[p], MemoryTraced(q)'
      PROVE  \A p \in Requests : MemoryTraced(p)'
  BY <1>0, <1>3, OthersStayTraced
\* Statements that write neither the row nor the payment nor the earnings.
<1>4. CASE InsertTxn(q)
  BY <1>0, <1>2, <1>4, DoneTraced DEF InsertTxn, hist
<1>5. CASE Acknowledge(q)
  BY <1>0, <1>2, <1>5, DoneTraced DEF Acknowledge, db, hist
<1>6. CASE Record(q)
  <2>1. req[q].todo \cap {"save", "update", "readPayment"} = {}
    BY <1>6 DEF Record, Turn, Rank
  <2>2. QED
    BY <1>0, <1>2, <1>6, <2>1, DoneTraced DEF Record, hist
<1>7. CASE CheckClash(q)
  <2>1. UNCHANGED <<booking, payment, earnings, seen>>
    BY <1>7 DEF CheckClash, db, hist
  <2>2. CASE Done(q, "clash")
    BY <1>0, <1>2, <2>1, <2>2, DoneTraced
  <2>3. CASE Abort(q)
    BY <1>0, <1>2, <1>3, <2>1, <2>3, AfterAbort DEF MemoryTraced, InFlight
  <2>4. QED
    BY <1>7, <2>2, <2>3 DEF CheckClash
\* Statements that read, and go on with what they read.
<1>8. CASE SelectForSave(q)
  <2>1. UNCHANGED <<booking, payment, earnings, seen>>
    BY <1>8 DEF SelectForSave, db, hist
  <2>2. MemoryTraced(q)'
    <3>1. SUFFICES ASSUME req'[q].todo # {} PROVE MemoryTraced(q)'
      BY DEF MemoryTraced, InFlight
    <3>2. /\ req'[q].b = c
          /\ req'[q].row = req[q].row
          /\ req'[q].pay = req[q].pay
          /\ req'[q].todo \ {"update"} = req[q].todo \ {"save", "update"}
          /\ "save" \notin req'[q].todo
          /\ "update" \in req'[q].todo => req'[q].dirty = Differing(req[q].row, booking[c])
          /\ "update" \notin req'[q].todo => Differing(req[q].row, booking[c]) = {}
      BY <1>0, <1>8, <3>1, AfterSelect
    <3>3. "save" \in req[q].todo /\ "reread" \notin req[q].todo
      BY <1>8 DEF SelectForSave, Turn, Rank
    <3>4. Shape(req[q])'
      BY <1>1, <3>2, <3>3 DEF Shape
    <3>5. Backed(req[q].b, req[q].row, req[q].pay)'
      <4>1. Explained(c) => Explained(req[q].b)'
        BY <1>0, <3>1, <3>2 DEF Kept, Explained, Captures, Holds, InFlight
      <4>2. QED
        BY <1>1, <3>2, <4>1 DEF Backed
    <3>6. "record" \notin req'[q].todo => Audited(req[q].b, req[q].row.status)'
      <4>1. PICK b \in Bookings, s \in {req[q].row.status} : b = c
        BY <1>0
      <4>2. Audited(b, s) => Audited(b, s)'
        BY DEF Kept
      <4>3. req'[q].row.status = s /\ req'[q].b = b
        BY <3>2, <4>1
      <4>4. QED
        BY <1>1, <3>2, <3>3, <4>1, <4>2, <4>3 DEF Audited, Records, Holds, InFlight
    <3>7. req'[q].todo \cap {"findEarning", "insertEarning"} # {} => CompletesFirst(req[q])'
      <4>1. SUFFICES ASSUME req'[q].todo \cap {"findEarning", "insertEarning"} # {}
                     PROVE  CompletesFirst(req[q])'
        OBVIOUS
      <4>2. req[q].row.status = "completed"
        BY <1>1, <3>2, <4>1 DEF Shape
      <4>3. CASE booking[c].status = "completed"
        BY <1>0, <2>1, <3>2, <4>3 DEF CompletesFirst
      <4>4. CASE booking[c].status # "completed"
        <5>1. "status" \in Differing(req[q].row, booking[c])
          BY <4>2, <4>4 DEF Differing, Columns
        <5>2. QED
          BY <3>2, <5>1 DEF CompletesFirst
      <4>5. QED
        BY <4>3, <4>4
    <3>8. QED
      BY <3>4, <3>5, <3>6, <3>7 DEF MemoryTraced
  <2>3. QED
    BY <1>0, <1>2, <1>3, <1>8, <2>1, <2>2, AfterSelect
<1>9. CASE ReadPayment(q)
  <2>1. UNCHANGED <<booking, payment, earnings, seen>>
    BY <1>9 DEF ReadPayment, db, hist
  <2>2. MemoryTraced(q)'
    <3>1. SUFFICES ASSUME req'[q].todo # {} PROVE MemoryTraced(q)'
      BY DEF MemoryTraced, InFlight
    <3>2. /\ req'[q].b = c
          /\ req'[q].row.pay = req'[q].pay
          /\ req'[q].pay = RefundOrVoid("PAID" \in {payment[c], req[q].row.pay})
          /\ req'[q].todo = req[q].todo \ {"readPayment"}
          /\ "readPayment" \in req[q].todo
      BY <1>0, <1>9, <3>1, AfterReadPayment DEF ReadPayment, Turn
    <3>3. /\ req[q].todo \cap {"findEarning", "insertEarning"} = {}
          /\ "reread" \notin req[q].todo
      BY <1>1, <3>1, <3>2 DEF Shape
    <3>4. Shape(req[q])'
      BY <1>1, <3>2, <3>3 DEF Shape
    <3>5. Backed(req[q].b, req[q].row, req[q].pay)'
      <4>1. Explained(c) => Explained(req[q].b)'
        BY <1>0, <3>1, <3>2 DEF Kept, Explained, Captures, Holds, InFlight
      <4>2. req'[q].pay \in {"PAID", "REFUNDED"} => "PAID" \in {payment[c], req[q].row.pay}
        BY <3>2 DEF RefundOrVoid
      <4>3. RowTraced(c)
        BY <1>0
      <4>4. QED
        BY <1>1, <3>2, <4>1, <4>2, <4>3 DEF RowTraced, Backed
    <3>6. req'[q].todo \cap {"save", "update"} # {} /\ "record" \notin req'[q].todo
            => Audited(req[q].b, req[q].row.status)'
      BY <1>1, <3>2 DEF Shape
    <3>7. QED
      BY <3>2, <3>3, <3>4, <3>5, <3>6 DEF MemoryTraced
  <2>3. QED
    BY <1>0, <1>2, <1>3, <1>9, <2>1, <2>2, AfterReadPayment
<1>10. CASE Reread(q)
  <2>1. UNCHANGED <<booking, payment, earnings, seen>>
    BY <1>10 DEF Reread, db, hist
  <2>2. MemoryTraced(q)'
    <3>1. SUFFICES ASSUME req'[q].todo # {} PROVE MemoryTraced(q)'
      BY DEF MemoryTraced, InFlight
    <3>2. /\ req'[q].b = c
          /\ req'[q].row.pay = booking[c].pay
          /\ req'[q].pay = req[q].pay
          /\ req'[q].todo = {"save", "record"}
      BY <1>0, <1>10, <3>1, AfterReread
    <3>3. Shape(req[q])'
      BY <3>2 DEF Shape
    <3>4. Backed(req[q].b, req[q].row, req[q].pay)'
      <4>1. Explained(c) => Explained(req[q].b)'
        BY <1>0, <3>1, <3>2 DEF Kept, Explained, Captures, Holds, InFlight
      <4>2. RowTraced(c)
        BY <1>0
      <4>3. QED
        BY <1>1, <3>2, <4>1, <4>2 DEF RowTraced, Backed
    <3>5. QED
      BY <3>2, <3>3, <3>4 DEF MemoryTraced
  <2>3. QED
    BY <1>0, <1>2, <1>3, <1>10, <2>1, <2>2, AfterReread
<1>11. CASE FindEarning(q)
  <2>1. UNCHANGED <<booking, payment, earnings, seen>>
    BY <1>11 DEF FindEarning, db, hist
  <2>2. MemoryTraced(q)'
    <3>1. SUFFICES ASSUME req'[q].todo # {} PROVE MemoryTraced(q)'
      BY DEF MemoryTraced, InFlight
    <3>2. /\ req'[q].b = c
          /\ req'[q].row = req[q].row
          /\ req'[q].pay = req[q].pay
          /\ req'[q].todo = {"insertEarning"}
      BY <1>0, <1>11, <3>1, AfterFindEarning
    <3>3. /\ "findEarning" \in req[q].todo
          /\ "save" \notin req[q].todo
          /\ "update" \notin req[q].todo
      BY <1>11 DEF FindEarning, Turn, Rank
    <3>4. req[q].row.status = "completed" /\ "completed" \in seen[c]
      BY <1>1, <3>3 DEF Shape, CompletesFirst
    <3>5. Shape(req[q])'
      BY <3>2, <3>4 DEF Shape
    <3>6. Backed(req[q].b, req[q].row, req[q].pay)'
      <4>1. Explained(c) => Explained(req[q].b)'
        BY <1>0, <3>1, <3>2 DEF Kept, Explained, Captures, Holds, InFlight
      <4>2. QED
        BY <1>1, <3>2, <4>1 DEF Backed
    <3>7. CompletesFirst(req[q])'
      BY <1>0, <2>1, <3>2, <3>4 DEF CompletesFirst
    <3>8. QED
      BY <3>2, <3>5, <3>6, <3>7 DEF MemoryTraced
  <2>3. QED
    BY <1>0, <1>2, <1>3, <1>11, <2>1, <2>2, AfterFindEarning
\* Statements that write the row, the payment or the earnings.
<1>12. CASE InsertEarning(q)
  <2>1. /\ Done(q, "insertEarning")
        /\ earnings' = [earnings EXCEPT ![c][req[q].row.agent] = @ + 1]
        /\ UNCHANGED <<booking, payment, seen>>
    BY <1>12 DEF InsertEarning, hist
  <2>2. "completed" \in seen[c]
    <3>1. /\ "insertEarning" \in req[q].todo
          /\ "save" \notin req[q].todo
          /\ "update" \notin req[q].todo
      BY <1>12 DEF InsertEarning, Turn, Rank
    <3>2. QED
      BY <1>1, <3>1 DEF CompletesFirst
  <2>3. ASSUME NEW b \in Bookings PROVE RowTraced(b)'
    <3>1. CASE b # c
      <4>1. earnings'[b] = earnings[b]
        BY <1>0, <2>1, <3>1 DEF TypeOK
      <4>2. QED
        BY <1>0, <2>1, <4>1, RowStaysTraced
    <3>2. CASE b = c
      <4>1. Backed(b, booking[b], payment[b])'
        BY <1>0, <2>1 DEF Kept, RowTraced, Backed
      <4>2. \A s \in seen'[b] : Audited(b, s)'
        BY <1>0, <2>1 DEF Kept, RowTraced
      <4>3. QED
        BY <2>1, <2>2, <3>2, <4>1, <4>2 DEF RowTraced
    <3>3. QED
      BY <3>1, <3>2
  <2>4. QED
    BY <1>0, <2>1, <2>3, DoneTraced
<1>13. CASE SavePayment(q)
  <2>1. /\ \E s \in {"payment", "refund"} : Done(q, s)
        /\ payment' = [payment EXCEPT ![c] = req[q].pay]
        /\ UNCHANGED <<booking, earnings, seen>>
    BY <1>13 DEF SavePayment, hist
  <2>2. ASSUME NEW b \in Bookings PROVE RowTraced(b)'
    <3>1. payment'[b] = IF b = c THEN req[q].pay ELSE payment[b]
      BY <1>0, <2>1 DEF TypeOK
    <3>2. RowTraced(b)
      BY <1>0
    <3>3. Backed(b, booking[b], payment[b])'
      BY <1>1, <2>1, <3>1, <3>2 DEF Kept, RowTraced, Backed
    <3>4. \A s \in seen'[b] : Audited(b, s)'
      BY <2>1, <3>2 DEF Kept, RowTraced
    <3>5. PaidOut(b)' => "completed" \in seen'[b]
      BY <2>1, <3>2 DEF RowTraced, PaidOut
    <3>6. QED
      BY <3>3, <3>4, <3>5 DEF RowTraced
  <2>3. QED
    BY <1>0, <2>1, <2>2, DoneTraced
<1>14. CASE UpdateRow(q)
  <2> DEFINE new == Overwrite(booking[c], req[q].row, req[q].dirty)
  <2>1. /\ Turn(q, "update")
        /\ Done(q, "update")
        /\ booking' = [booking EXCEPT ![c] = new]
        /\ seen' = [seen EXCEPT ![c] = @ \cup {new.status}]
        /\ UNCHANGED <<payment, earnings>>
    BY <1>14 DEF UpdateRow
  <2>2. /\ new.status \in {req[q].row.status, booking[c].status}
        /\ new.pay \in {req[q].row.pay, booking[c].pay}
        /\ "status" \in req[q].dirty => new.status = req[q].row.status
    BY DEF Overwrite
  <2> HIDE DEF new
  <2>3. Audited(c, new.status)
    <3>1. Audited(c, booking[c].status)
      BY <1>0 DEF RowTraced
    <3>2. CASE "record" \notin req[q].todo
      BY <1>1, <2>1, <2>2, <3>1, <3>2 DEF Turn
    <3>3. CASE "record" \in req[q].todo
      <4>1. req[q].todo \cap {"clash", "readPayment"} = {}
        BY <2>1 DEF Turn, Rank
      <4>2. Audited(c, req[q].row.status)
        BY <1>0, <3>3, <4>1 DEF Audited, Records, Holds, InFlight
      <4>3. QED
        BY <2>2, <3>1, <4>2
    <3>4. QED
      BY <3>2, <3>3
  <2>4. ASSUME NEW b \in Bookings PROVE RowTraced(b)'
    <3>1. CASE b # c
      <4>1. booking'[b] = booking[b] /\ seen'[b] = seen[b]
        BY <1>0, <2>1, <3>1 DEF TypeOK
      <4>2. QED
        BY <1>0, <2>1, <4>1, RowStaysTraced
    <3>2. CASE b = c
      <4>1. booking'[b] = new /\ seen'[b] = seen[b] \cup {new.status}
        BY <1>0, <2>1, <3>2 DEF TypeOK
      <4>2. RowTraced(b)
        BY <1>0
      <4>3. Backed(b, booking[b], payment[b])'
        BY <1>1, <2>1, <2>2, <3>2, <4>1, <4>2 DEF Kept, RowTraced, Backed
      <4>4. \A s \in seen'[b] : Audited(b, s)'
        BY <2>3, <3>2, <4>1, <4>2 DEF Kept, RowTraced
      <4>5. PaidOut(b)' => "completed" \in seen'[b]
        BY <2>1, <4>1, <4>2 DEF RowTraced, PaidOut
      <4>6. QED
        BY <4>3, <4>4, <4>5 DEF RowTraced
    <3>3. QED
      BY <3>1, <3>2
  <2>5. req'[q].todo \cap {"findEarning", "insertEarning"} # {} => CompletesFirst(req[q])'
    <3>1. SUFFICES ASSUME req'[q].todo \cap {"findEarning", "insertEarning"} # {}
                   PROVE  CompletesFirst(req[q])'
      OBVIOUS
    <3>2. req'[q].b = c /\ req[q].todo \cap {"findEarning", "insertEarning"} # {}
      BY <1>0, <2>1, <3>1, AfterDone
    <3>3. /\ req[q].row.status = "completed"
          /\ "status" \in req[q].dirty \/ "completed" \in seen[c]
      BY <1>1, <2>1, <3>2 DEF Shape, CompletesFirst, Turn, Rank
    <3>4. seen'[c] = seen[c] \cup {new.status}
      BY <1>0, <2>1 DEF TypeOK
    <3>5. QED
      BY <2>2, <3>2, <3>3, <3>4 DEF CompletesFirst
  <2>6. QED
    BY <1>0, <2>1, <2>4, <2>5, DoneTraced
<1>15. QED
  BY <1>4, <1>5, <1>6, <1>7, <1>8, <1>9, <1>10, <1>11, <1>12, <1>13, <1>14
  DEF Execute

-----------------------------------------------------------------------------
LEMMA InitTraced == ConstantsAssumption /\ Init => TInv
<1> SUFFICES ASSUME ConstantsAssumption, Init PROVE TInv
  OBVIOUS
<1>1. IInv
  BY InitCaused
<1>2. ASSUME NEW b \in Bookings PROVE RowTraced(b)
  BY <1>2 DEF Init, RowTraced, Backed, Audited, PaidOut
<1>3. ASSUME NEW q \in Requests PROVE MemoryTraced(q)
  BY <1>3 DEF Init, MemoryTraced, InFlight, NoRequest
<1>4. QED
  BY <1>1, <1>2, <1>3 DEF TInv

LEMMA StepTraced == ConstantsAssumption /\ TInv /\ [Next]_vars => TInv'
<1> SUFFICES ASSUME ConstantsAssumption, TInv, [Next]_vars PROVE TInv'
  OBVIOUS
<1>1. IInv' /\ Kept
  BY StepCaused, NextKept DEF TInv
<1>2. ASSUME UNCHANGED <<booking, payment, earnings, seen>>
      PROVE  \A b \in Bookings : RowTraced(b)'
  BY <1>1, <1>2, RowStaysTraced DEF TInv
<1>3. ASSUME UNCHANGED <<booking, payment, earnings, seen, req>> PROVE TInv'
  <2>1. \A q \in Requests : MemoryTraced(q)'
    BY <1>1, <1>3, OthersStayTraced DEF TInv, IInv
  <2>2. QED
    BY <1>1, <1>2, <1>3, <2>1 DEF TInv
<1>4. ASSUME NEW q \in Requests, Crash(q) PROVE TInv'
  <2>1. Abort(q) /\ UNCHANGED <<booking, payment, earnings, seen>>
    BY <1>4 DEF Crash, db
  <2>2. ASSUME NEW p \in Requests PROVE MemoryTraced(p)'
    <3>1. CASE p = q
      BY <2>1, <3>1, AfterAbort DEF TInv, IInv, MemoryTraced, InFlight
    <3>2. CASE p # q
      BY <1>1, <2>1, <3>2, AfterAbort, OthersStayTraced DEF TInv, IInv
    <3>3. QED
      BY <3>1, <3>2
  <2>3. QED
    BY <1>1, <1>2, <2>1, <2>2 DEF TInv
<1>5. ASSUME NEW b \in Bookings, NEW e \in Event, GatewayOutcome(b, e) PROVE TInv'
  BY <1>3, <1>5 DEF GatewayOutcome, db, hist
<1>6. CASE UNCHANGED vars
  BY <1>3, <1>6 DEF vars, db, hist
<1>7. QED
  BY <1>1, <1>4, <1>5, <1>6, HandlerTraced, ExecuteTraced DEF Next, TInv

\* Whatever interleaves and whatever dies, rows and memories have their traces.
THEOREM Traces == Spec => []TInv
<1>1. ConstantsAssumption
  BY ConstantsAssumption
<1>2. QED
  BY <1>1, InitTraced, StepTraced, PTL DEF Spec

\* However cancel, verify and the webhooks overwrite one another, a payment
\* booked as received or refunded has its transaction row, or a request that
\* is about to insert it, or lost it when a request died.
THEOREM LedgerExplainsPaymentAlways == Spec => []LedgerExplainsPayment
<1>1. TInv => LedgerExplainsPayment
  BY DEF TInv, RowTraced, Backed, Explained, Captures, LedgerExplainsPayment
<1>2. QED
  BY <1>1, Traces, PTL

\* Every status a booking ever had is recorded, or about to be, unless a
\* request died on the booking: for every handler, transition check or not.
THEOREM AuditTrailAlwaysComplete == Spec => []AuditTrailComplete
<1>1. TInv => AuditTrailComplete
  BY DEF TInv, RowTraced, Audited, Records, Pending, AuditTrailComplete
<1>2. QED
  BY <1>1, Traces, PTL

\* No agent is ever credited for a booking that was not completed before.
THEOREM EarningsOnlyForCompletedAlways == Spec => []EarningsOnlyForCompleted
<1>1. TInv => EarningsOnlyForCompleted
  BY DEF TInv, RowTraced, EarningsOnlyForCompleted
<1>2. QED
  BY <1>1, Traces, PTL

-----------------------------------------------------------------------------
(***************************************************************************)
(* A server that serves one request at a time keeps the promises of        *)
(* BookingLifecycle, wherever requests die: what the handlers of           *)
(* BookingRequests achieve in isolation, for any number of bookings.       *)
(***************************************************************************)

\* One request at a time.
Serial == \A p, q \in Requests : p = q

Working == {"accepted", "arriving", "ongoing", "completed"}

\* The row may become new in one step of the lifecycle, or stays.
Leads(old, new) ==
  \/ new.status = old.status /\ new.agent = old.agent
  \/ /\ CanTransition(old.status, new.status)
     /\ new.status = "accepted" => old.agent # NoAgent
     /\ new.agent = old.agent
  \/ /\ old.status \in Assignable
     /\ new.status = IF old.status = "paid" THEN "accepted" ELSE old.status
     /\ new.agent \in Agents
  \/ /\ old.status \notin PastRelease
     /\ old.agent # NoAgent
     /\ \/ new.status = old.status /\ new.agent \in Agents
        \/ new.status = "paid" /\ new.agent = NoAgent

\* What a row and its earnings are, whether or not a request is at it.
RowInOrder(b) ==
  /\ booking[b].status \in Working => booking[b].agent # NoAgent
  /\ PaidOut(b) => booking[b].status = "completed"
  /\ \A a \in Agents :
       earnings[b][a] > 0 => earnings[b][a] = 1 /\ booking[b].agent = a
  /\ b \notin died /\ Quiet(b) => booking[b].pay = payment[b]

\* What r will have written to the row and to the payment when it is through.
FinalRowPay(r) ==
  IF r.todo \cap {"save", "update"} # {} THEN r.row.pay ELSE booking[r.b].pay
FinalPay(r) ==
  IF r.todo \cap {"payment", "refund"} # {} THEN r.pay ELSE payment[r.b]

\* The memory of the request that is alone at booking r.b.
InOrder(r) ==
  /\ "update" \in r.todo => r.dirty = Differing(r.row, booking[r.b])
  /\ "readPayment" \in r.todo =>
       /\ r.row.status = booking[r.b].status /\ r.row.agent = booking[r.b].agent
       /\ CanTransition(booking[r.b].status, "cancelled")
       /\ {"save", "refund"} \subseteq r.todo
       /\ r.todo \cap {"clash", "update", "findEarning", "insertEarning"} = {}
  /\ "reread" \in r.todo =>
       /\ r.todo = {"reread"}
       /\ booking[r.b].status = "paid" /\ booking[r.b].agent # NoAgent
  /\ r.todo \cap {"save", "update"} # {} /\ "readPayment" \notin r.todo
       => Leads(booking[r.b], r.row)
  /\ r.todo \cap {"findEarning", "insertEarning"} # {} =>
       /\ "clash" \notin r.todo
       /\ r.row.status = "completed"
       /\ r.row.agent = booking[r.b].agent
       /\ r.todo \cap {"save", "update"} = {} => booking[r.b].status = "completed"
  /\ "insertEarning" \in r.todo => ~PaidOut(r.b)
  /\ "clash" \in r.todo => r.row.pay = booking[r.b].pay
  /\ r.b \notin died /\ "readPayment" \notin r.todo => FinalRowPay(r) = FinalPay(r)
  /\ r.b \notin died /\ "clash" \in r.todo => booking[r.b].pay = payment[r.b]

SInv ==
  /\ TypeOK
  /\ \A b \in Bookings : RowInOrder(b)
  /\ \A q \in Requests : InFlight(q) => InOrder(req[q])

-----------------------------------------------------------------------------
(* A handler loads a booking that is in order, with nobody else at it.     *)

\* While nobody is at a booking that nobody died on, its mirror is right.
LEMMA AllQuiet ==
  ASSUME SInv, Serial, NEW q \in Requests, ~InFlight(q)
  PROVE  \A b \in Bookings \ died : Quiet(b) /\ booking[b].pay = payment[b]
BY DEF SInv, RowInOrder, Serial, Quiet, Holds

LEMMA BeginInOrder ==
  ASSUME SInv, Serial, NEW q \in Requests, NEW b \in Bookings,
         NEW row, NEW pay, NEW txn, NEW todo,
         Begin(q, b, row, pay, txn, todo),
         UNCHANGED <<payment, earnings, died>>,
         \A c \in Bookings \ {b} : booking'[c] = booking[c],
         /\ booking'[b].status = booking[b].status
         /\ booking'[b].pay = booking[b].pay,
         \/ booking'[b].agent = booking[b].agent
         \/ booking[b].status = "paid" /\ booking'[b].agent # NoAgent,
         todo \cap {"update", "insertEarning"} = {},
         "readPayment" \in todo =>
           /\ todo = {"readPayment", "save", "record", "refund"}
           /\ row.status = booking'[b].status /\ row.agent = booking'[b].agent
           /\ CanTransition(booking[b].status, "cancelled"),
         "reread" \in todo =>
           /\ todo = {"reread"}
           /\ booking'[b].status = "paid" /\ booking'[b].agent # NoAgent,
         "save" \in todo /\ "readPayment" \notin todo => Leads(booking'[b], row),
         "findEarning" \in todo =>
           /\ "clash" \notin todo /\ "save" \in todo
           /\ row.status = "completed" /\ row.agent = booking'[b].agent,
         "clash" \in todo => row.pay = booking[b].pay,
         booking[b].pay = payment[b] /\ "readPayment" \notin todo =>
           (IF "save" \in todo THEN row.pay ELSE booking[b].pay) =
           (IF todo \cap {"payment", "refund"} # {} THEN pay ELSE payment[b])
  PROVE  /\ \A c \in Bookings : RowInOrder(c)'
         /\ \A p \in Requests : InFlight(p)' => InOrder(req[p])'
<1>0. TypeOK /\ ~InFlight(q) /\ \A c \in Bookings : RowInOrder(c)
  BY DEF SInv, Begin
<1>1. \A c \in Bookings \ died : booking[c].pay = payment[c]
  BY <1>0, AllQuiet
<1>2. ASSUME NEW c \in Bookings PROVE RowInOrder(c)'
  <2>1. booking'[c].status = booking[c].status /\ booking'[c].pay = booking[c].pay
    OBVIOUS
  <2>2. \/ booking'[c].agent = booking[c].agent
        \/ booking[c].status = "paid" /\ booking'[c].agent # NoAgent
    BY <1>2
  <2>3. RowInOrder(c) /\ (PaidOut(c)' <=> PaidOut(c))
    BY <1>0 DEF PaidOut
  <2>4. booking'[c].status \in Working => booking'[c].agent # NoAgent
    BY <2>1, <2>2, <2>3 DEF RowInOrder
  <2>5. PaidOut(c)' => booking'[c].status = "completed"
    BY <2>1, <2>3 DEF RowInOrder
  <2>6. ASSUME NEW a \in Agents, earnings'[c][a] > 0
        PROVE  earnings'[c][a] = 1 /\ booking'[c].agent = a
    <3>1. earnings[c][a] > 0 /\ PaidOut(c)
      BY <2>6 DEF PaidOut
    <3>2. booking[c].status = "completed" /\ booking[c].agent = a /\ earnings[c][a] = 1
      BY <2>3, <3>1 DEF RowInOrder
    <3>3. QED
      BY <2>2, <3>2
  <2>7. c \notin died' /\ Quiet(c)' => booking'[c].pay = payment'[c]
    BY <1>1, <2>1
  <2>8. QED
    BY <2>4, <2>5, <2>6, <2>7 DEF RowInOrder
<1>3. ASSUME NEW p \in Requests PROVE InOrder(req[p])'
  <2>1. req'[q] = [b |-> b, row |-> row, pay |-> pay, txn |-> txn,
                   dirty |-> {}, todo |-> todo]
    BY <1>0 DEF Begin, TypeOK
  <2>2. /\ req'[p].b = b
        /\ req'[p].row = row
        /\ req'[p].pay = pay
        /\ req'[p].todo = todo
    BY <2>1 DEF Serial
  <2>3. b \notin died => booking[b].pay = payment[b]
    BY <1>1
  <2>4. b \notin died' /\ "readPayment" \notin todo => FinalRowPay(req[p])' = FinalPay(req[p])'
    BY <2>2, <2>3 DEF FinalRowPay, FinalPay
  <2>5. QED
    BY <2>2, <2>3, <2>4 DEF InOrder
<1>4. QED
  BY <1>2, <1>3

LEMMA HandlerInOrder ==
  ASSUME SInv, ConstantsAssumption, Serial, NEW q \in Requests, NEW b \in Bookings,
         Customer(q, b) \/ Webhook(q, b) \/ Agent(q, b) \/ Admin(q, b)
  PROVE  /\ \A c \in Bookings : RowInOrder(c)'
         /\ \A p \in Requests : InFlight(p)' => InOrder(req[p])'
<1> DEFINE Goal == /\ \A c \in Bookings : RowInOrder(c)'
                   /\ \A p \in Requests : InFlight(p)' => InOrder(req[p])'
<1>0. /\ booking[b] \in Row
      /\ booking[b].status \in Status
      /\ UNCHANGED <<payment, earnings, died>>
      /\ RowInOrder(b)
  BY HandlerWrites DEF SInv, TypeOK, Row
<1>1. Leads(booking[b], booking[b])
  BY DEF Leads
\* Handlers that leave the payment as it was loaded, and only write the row.
<1>2. ASSUME NEW row, row.pay = booking[b].pay, Leads(booking[b], row),
             NEW txn, NEW todo, UNCHANGED booking,
             Begin(q, b, row, payment[b], txn, todo),
             \/ todo \in {{"save", "record"}, {"clash", "save", "record"}, {"record"}}
             \/ /\ todo = {"save", "record", "findEarning"}
                /\ row.status = "completed" /\ row.agent = booking[b].agent
      PROVE  Goal
  BY <1>0, <1>2, BeginInOrder
<1>3. ASSUME NEW m \in BOOLEAN, CreateOrder(q, b, m) PROVE Goal
  <2> DEFINE todo == {"txn"} \cup (IF m THEN {"payment"} ELSE {})
  <2>1. Begin(q, b, booking[b], payment[b], "created", todo) /\ UNCHANGED booking
    BY <1>3 DEF CreateOrder, db
  <2>2. todo \subseteq {"txn", "payment"}
    OBVIOUS
  <2> HIDE DEF todo
  <2>3. QED
    BY <1>0, <2>1, <2>2, BeginInOrder
<1>4. ASSUME NEW more \in {{}, {"ack"}}, Settle(q, b, more), UNCHANGED booking
      PROVE  Goal
  <2> DEFINE row  == Settled(booking[b])
             todo == {"payment", "txn", "save"} \cup more
               \cup (IF booking[b].status = "finding" THEN {"record"} ELSE {})
  <2>1. Begin(q, b, row, "PAID", "captured", todo)
    BY <1>4 DEF Settle
  <2>2. /\ row.status = IF booking[b].status = "finding" THEN "paid" ELSE booking[b].status
        /\ row.agent = booking[b].agent
        /\ row.pay = "PAID"
    BY <1>0 DEF Settled, Row
  <2>3. Leads(booking[b], row)
    BY <2>2 DEF Leads, CanTransition, Transitions
  <2>4. /\ todo \subseteq {"payment", "txn", "save", "ack", "record"}
        /\ {"payment", "save"} \subseteq todo
    BY <1>4
  <2> HIDE DEF todo, row
  <2>5. QED
    BY <1>0, <1>4, <2>1, <2>2, <2>3, <2>4, BeginInOrder
<1>5. CASE Verify(q, b)
  BY <1>4, <1>5 DEF Verify, db
<1>6. CASE WebhookCaptured(q, b)
  BY <1>4, <1>6 DEF WebhookCaptured, db
<1>7. CASE WebhookFailed(q, b)
  <2> DEFINE row == [booking[b] EXCEPT !.pay = "FAILED"]
  <2>1. /\ Begin(q, b, row, "FAILED", "failed", {"payment", "txn", "save", "ack"})
        /\ UNCHANGED booking
    BY <1>7 DEF WebhookFailed, db
  <2>2. /\ row.status = booking[b].status
        /\ row.agent = booking[b].agent
        /\ row.pay = "FAILED"
    BY <1>0 DEF Row
  <2>3. Leads(booking[b], row)
    BY <2>2 DEF Leads
  <2> HIDE DEF row
  <2>4. QED
    BY <1>0, <2>1, <2>2, <2>3, BeginInOrder
<1>8. CASE CancelByCustomer(q, b)
  <2> DEFINE pay == RefundOrVoid(payment[b] = "PAID")
             row == [booking[b] EXCEPT !.pay = pay, !.status = "cancelled"]
  <2>1. /\ Begin(q, b, row, pay, "created", {"payment", "save", "record"})
        /\ CanTransition(booking[b].status, "cancelled")
        /\ UNCHANGED booking
    BY <1>8 DEF CancelByCustomer, db
  <2>2. /\ row.status = "cancelled"
        /\ row.agent = booking[b].agent
        /\ row.pay = pay
    BY <1>0 DEF Row
  <2>3. Leads(booking[b], row)
    BY <2>1, <2>2 DEF Leads
  <2> HIDE DEF pay, row
  <2>4. QED
    BY <1>0, <2>1, <2>2, <2>3, BeginInOrder
<1>9. CASE CancelByAdmin(q, b)
  <2>1. /\ Begin(q, b, booking[b], payment[b], "created",
                 {"readPayment", "save", "record", "refund"})
        /\ CanTransition(booking[b].status, "cancelled")
        /\ UNCHANGED booking
    BY <1>9 DEF CancelByAdmin, db
  <2>2. QED
    BY <1>0, <2>1, BeginInOrder
<1>10. ASSUME NEW t \in Slots, Reschedule(q, b, t) PROVE Goal
  <2> DEFINE row == [booking[b] EXCEPT !.slot = t]
  <2>1. /\ Begin(q, b, row, payment[b], "created", {"save", "record"})
        /\ UNCHANGED booking
    BY <1>10 DEF Reschedule, db
  <2>2. row.pay = booking[b].pay /\ Leads(booking[b], row)
    BY <1>0 DEF Row, Leads
  <2> HIDE DEF row
  <2>3. QED
    BY <1>2, <2>1, <2>2
<1>11. ASSUME NEW a \in Agents, Claim(q, a, b) PROVE Goal
  <2>1. /\ Begin(q, b, booking[b], payment[b], "created", {"reread"})
        /\ booking[b].status = "paid"
        /\ booking' = [booking EXCEPT ![b].agent = a]
    BY <1>11 DEF Claim
  <2>2. /\ booking'[b].status = booking[b].status
        /\ booking'[b].pay = booking[b].pay
        /\ booking'[b].agent # NoAgent
        /\ \A c \in Bookings \ {b} : booking'[c] = booking[c]
    BY <1>0, <2>1 DEF SInv, TypeOK, Row, ConstantsAssumption
  <2>3. QED
    BY <1>0, <2>1, <2>2, BeginInOrder
<1>12. ASSUME NEW a \in Agents, Release(q, a, b) PROVE Goal
  <2> DEFINE row == [booking[b] EXCEPT !.agent = NoAgent, !.status = "paid"]
  <2>1. /\ Begin(q, b, row, payment[b], "created", {"save", "record"})
        /\ booking[b].agent = a /\ booking[b].status \notin PastRelease
        /\ UNCHANGED booking
    BY <1>12 DEF Release, db
  <2>2. row.pay = booking[b].pay /\ row.status = "paid" /\ row.agent = NoAgent
    BY <1>0 DEF Row
  <2>3. Leads(booking[b], row)
    BY <2>1, <2>2 DEF Leads, ConstantsAssumption
  <2> HIDE DEF row
  <2>4. QED
    BY <1>2, <2>1, <2>2, <2>3
<1>13. ASSUME NEW a \in Agents, Decline(q, a, b) PROVE Goal
  BY <1>1, <1>2, <1>13 DEF Decline, db
<1>14. ASSUME NEW a \in Agents, NEW next, NEW more \in {{}, {"findEarning"}},
              Advance(q, a, b, next, more), UNCHANGED booking,
              next = "completed" \/ more = {}, next # "accepted"
       PROVE  Goal
  <2> DEFINE row == [booking[b] EXCEPT !.status = next]
             todo == {"save", "record"} \cup more
  <2>1. /\ Begin(q, b, row, payment[b], "created", todo)
        /\ CanTransition(booking[b].status, next)
    BY <1>14 DEF Advance
  <2>2. row.pay = booking[b].pay /\ row.status = next /\ row.agent = booking[b].agent
    BY <1>0 DEF Row
  <2>3. Leads(booking[b], row)
    BY <1>14, <2>1, <2>2 DEF Leads
  <2>4. todo = {"save", "record"} \/ (todo = {"save", "record", "findEarning"} /\ next = "completed")
    BY <1>14
  <2> HIDE DEF row, todo
  <2>5. QED
    BY <1>2, <1>14, <2>1, <2>2, <2>3, <2>4
<1>15. ASSUME NEW a \in Agents, NEW otp \in BOOLEAN, Start(q, a, b, otp) PROVE Goal
  BY <1>14, <1>15 DEF Start, db
<1>16. ASSUME NEW a \in Agents, Arrive(q, a, b) PROVE Goal
  BY <1>14, <1>16 DEF Arrive, db
<1>17. ASSUME NEW a \in Agents, Complete(q, a, b) PROVE Goal
  BY <1>14, <1>17 DEF Complete, db
<1>18. ASSUME NEW a \in Agents, Assign(q, a, b) PROVE Goal
  <2> DEFINE row == [booking[b] EXCEPT !.agent = a,
                       !.status = IF @ = "paid" THEN "accepted" ELSE @]
  <2>1. /\ Begin(q, b, row, payment[b], "created", {"clash", "save", "record"})
        /\ booking[b].status \in Assignable
        /\ UNCHANGED booking
    BY <1>18 DEF Assign, db
  <2>2. /\ row.pay = booking[b].pay
        /\ row.status = IF booking[b].status = "paid" THEN "accepted" ELSE booking[b].status
        /\ row.agent = a
    BY <1>0 DEF Row
  <2>3. Leads(booking[b], row)
    BY <2>1, <2>2 DEF Leads
  <2> HIDE DEF row
  <2>4. QED
    BY <1>2, <2>1, <2>2, <2>3
<1>19. ASSUME NEW a \in Agents, Reassign(q, a, b) PROVE Goal
  <2> DEFINE row == [booking[b] EXCEPT !.agent = a]
  <2>1. /\ Begin(q, b, row, payment[b], "created", {"clash", "save", "record"})
        /\ booking[b].status \notin PastRelease
        /\ booking[b].agent # NoAgent
        /\ UNCHANGED booking
    BY <1>19 DEF Reassign, db
  <2>2. /\ row.pay = booking[b].pay
        /\ row.status = booking[b].status
        /\ row.agent = a
    BY <1>0 DEF Row
  <2>3. Leads(booking[b], row)
    BY <2>1, <2>2 DEF Leads
  <2> HIDE DEF row
  <2>4. QED
    BY <1>2, <2>1, <2>2, <2>3
<1>20. QED
  BY <1>3, <1>5, <1>6, <1>7, <1>8, <1>9, <1>10, <1>11, <1>12, <1>13, <1>15, <1>16,
     <1>17, <1>18, <1>19 DEF Customer, Webhook, Agent, Admin

-----------------------------------------------------------------------------
(* The one request goes on with a booking nobody else changes.             *)

\* A row that is left alone stays in order, if its booking was quiet before.
LEMMA RowStaysInOrder ==
  ASSUME NEW b \in Bookings, RowInOrder(b), Quiet(b),
         booking'[b] = booking[b], payment'[b] = payment[b],
         earnings'[b] = earnings[b], died \subseteq died'
  PROVE  RowInOrder(b)'
<1>1. PaidOut(b)' <=> PaidOut(b)
  BY DEF PaidOut
<1>2. b \notin died' => booking'[b].pay = payment'[b]
  BY DEF RowInOrder
<1>3. QED
  BY <1>1, <1>2 DEF RowInOrder

\* A step of the lifecycle never takes the agent from work under way, and
\* leaves a completed booking alone.
LEMMA LeadsOn ==
  ASSUME ConstantsAssumption, NEW old, NEW new, Leads(old, new),
         old.status \in Status,
         old.status \in Working => old.agent # NoAgent
  PROVE  /\ new.status \in Working => new.agent # NoAgent
         /\ old.status = "completed" =>
              new.status = "completed" /\ new.agent = old.agent
<1>1. CASE new.status = old.status /\ new.agent = old.agent
  BY <1>1
<1>2. CASE /\ CanTransition(old.status, new.status)
           /\ new.status = "accepted" => old.agent # NoAgent
           /\ new.agent = old.agent
  BY <1>2 DEF CanTransition, Transitions, Status, Working
<1>3. CASE new.agent \in Agents /\ old.status # "completed"
  BY <1>3 DEF ConstantsAssumption
<1>4. CASE new.status = "paid" /\ old.status # "completed"
  BY <1>4 DEF Working
<1>5. QED
  BY <1>1, <1>2, <1>3, <1>4 DEF Leads, Assignable, PastRelease

LEMMA ExecuteInOrder ==
  ASSUME SInv, ConstantsAssumption, Serial, NEW q \in Requests, Execute(q)
  PROVE  /\ \A b \in Bookings : RowInOrder(b)'
         /\ \A p \in Requests : InFlight(p)' => InOrder(req[p])'
<1> DEFINE Goal == /\ \A b \in Bookings : RowInOrder(b)'
                   /\ \A p \in Requests : InFlight(p)' => InOrder(req[p])'
           c == req[q].b
<1>0. /\ TypeOK
      /\ req[q].todo # {}
      /\ req[q] \in Memory
      /\ req[q] \in Request
      /\ c \in Bookings
      /\ booking[c] \in Row
      /\ booking[c].status \in Status
      /\ InOrder(req[q])
      /\ RowInOrder(c)
      /\ \A b \in Bookings \ {c} : RowInOrder(b) /\ Quiet(b)
  <2>1. TypeOK /\ req[q].todo # {}
    BY ExecuteInFlight DEF SInv
  <2>2. req[q] \in Memory /\ req[q] \in Request
    BY <2>1, InFlightMemory
  <2>3. c \in Bookings /\ booking[c] \in Row /\ booking[c].status \in Status
    BY <2>1, <2>2 DEF Memory, TypeOK, Row
  <2>4. InOrder(req[q])
    BY <2>1 DEF SInv, InFlight
  <2>5. \A b \in Bookings : RowInOrder(b)
    BY DEF SInv
  <2>6. ASSUME NEW b \in Bookings \ {c} PROVE Quiet(b)
    BY DEF Quiet, Holds, Serial
  <2>7. QED
    BY <2>1, <2>2, <2>3, <2>4, <2>5, <2>6
\* What a statement that writes has to achieve.
<1>10. ASSUME died' = died,
              \A b \in Bookings \ {c} : booking'[b] = booking[b],
              \A b \in Bookings \ {c} : payment'[b] = payment[b],
              \A b \in Bookings \ {c} : earnings'[b] = earnings[b],
              booking'[c].status \in Working => booking'[c].agent # NoAgent,
              (\E a \in Agents : earnings'[c][a] > 0)
                => booking'[c].status = "completed",
              \A a \in Agents :
                earnings'[c][a] > 0 => earnings'[c][a] = 1 /\ booking'[c].agent = a,
              req'[q].todo = {} /\ c \notin died => booking'[c].pay = payment'[c],
              req'[q].todo # {} => req'[q].b = c,
              req'[q].todo # {} => InOrder(req[q])'
       PROVE  Goal
  <2>1. ASSUME NEW b \in Bookings \ {c} PROVE RowInOrder(b)'
    BY <1>0, <1>10, <2>1, RowStaysInOrder
  <2>2. ASSUME NEW b \in Bookings, b = c PROVE RowInOrder(b)'
    <3>1. PaidOut(b)' => booking'[b].status = "completed"
      BY <1>10, <2>2 DEF PaidOut
    <3>2. Quiet(b)' => req'[q].todo = {}
      BY <1>10, <2>2 DEF Quiet, Holds, InFlight
    <3>3. QED
      BY <1>10, <2>2, <3>1, <3>2 DEF RowInOrder
  <2>3. ASSUME NEW p \in Requests, InFlight(p)' PROVE InOrder(req[p])'
    <3>1. p = q
      BY DEF Serial
    <3>2. QED
      BY <1>10, <2>3, <3>1 DEF InFlight
  <2>4. QED
    BY <2>1, <2>2, <2>3
\* What a statement that only reads has to achieve.
<1>1. ASSUME UNCHANGED <<booking, payment, earnings, died>>,
             req'[q].todo # {} => req'[q].b = c,
             req'[q].todo = {} /\ c \notin died => booking[c].pay = payment[c],
             req'[q].todo # {} => InOrder(req[q])'
      PROVE  Goal
  <2>1. /\ booking[c].status \in Working => booking[c].agent # NoAgent
        /\ (\E a \in Agents : earnings[c][a] > 0) => booking[c].status = "completed"
        /\ \A a \in Agents :
             earnings[c][a] > 0 => earnings[c][a] = 1 /\ booking[c].agent = a
    BY <1>0 DEF RowInOrder, PaidOut
  <2>2. QED
    BY <1>1, <1>10, <2>1
\* A statement that touches neither the row nor the payment nor the earnings.
<1>2. ASSUME NEW s \in {"clash", "txn", "record", "ack"}, s \in req[q].todo, Done(q, s),
             UNCHANGED <<booking, payment, earnings, died>>
      PROVE  Goal
  <2>1. /\ req'[q].todo = req[q].todo \ {s}
        /\ req'[q].todo # {} => /\ req'[q].b = c
                                /\ req'[q].row = req[q].row
                                /\ req'[q].pay = req[q].pay
                                /\ req'[q].dirty = req[q].dirty
    BY <1>0, <1>2, AfterDone
  <2>2. /\ req'[q].todo \cap {"save", "update"} = req[q].todo \cap {"save", "update"}
        /\ req'[q].todo \cap {"payment", "refund"} = req[q].todo \cap {"payment", "refund"}
        /\ req'[q].todo \subseteq req[q].todo
        /\ "reread" \notin req[q].todo
    BY <1>0, <1>2, <2>1 DEF InOrder
  <2>3. req'[q].todo = {} /\ c \notin died => booking[c].pay = payment[c]
    BY <1>0, <1>2, <2>1, <2>2 DEF InOrder, FinalRowPay, FinalPay
  <2>4. req'[q].todo # {} => InOrder(req[q])'
    <3>1. SUFFICES ASSUME req'[q].todo # {} PROVE InOrder(req[q])'
      OBVIOUS
    <3>2. /\ FinalRowPay(req[q])' = FinalRowPay(req[q])
          /\ FinalPay(req[q])' = FinalPay(req[q])
          /\ PaidOut(req[q].b)' <=> PaidOut(c)
      BY <1>2, <2>1, <2>2, <3>1 DEF FinalRowPay, FinalPay, PaidOut
    <3>3. "readPayment" \in req[q].todo => "readPayment" \in req'[q].todo
      BY <1>2, <2>1
    <3>4. "readPayment" \in req[q].todo => "save" \in req'[q].todo /\ "refund" \in req'[q].todo
      BY <1>0, <2>2 DEF InOrder
    <3>5. QED
      BY <1>0, <1>2, <2>1, <2>2, <3>1, <3>2, <3>3, <3>4 DEF InOrder
  <2>5. QED
    BY <1>1, <1>2, <2>1, <2>3, <2>4
<1>3. CASE CheckClash(q)
  <2>1. "clash" \in req[q].todo /\ UNCHANGED <<booking, payment, earnings, died>>
    BY <1>3 DEF CheckClash, Turn, db, hist
  <2>2. CASE Done(q, "clash")
    BY <1>2, <2>1, <2>2
  <2>3. CASE Abort(q)
    <3>1. req'[q].todo = {}
      BY <1>0, <2>3, AfterAbort
    <3>2. c \notin died => booking[c].pay = payment[c]
      BY <1>0, <2>1 DEF InOrder
    <3>3. QED
      BY <1>1, <2>1, <3>1, <3>2
  <2>4. QED
    BY <1>3, <2>2, <2>3 DEF CheckClash
<1>4. CASE InsertTxn(q) \/ Record(q) \/ Acknowledge(q)
  BY <1>2, <1>4 DEF InsertTxn, Record, Acknowledge, Turn, db, hist
<1>5. CASE ReadPayment(q)
  <2>1. "readPayment" \in req[q].todo /\ UNCHANGED <<booking, payment, earnings, died>>
    BY <1>5 DEF ReadPayment, Turn, db, hist
  <2>2. /\ booking[c].status = req[q].row.status
        /\ booking[c].agent = req[q].row.agent
        /\ CanTransition(booking[c].status, "cancelled")
        /\ {"save", "refund"} \subseteq req[q].todo
        /\ req[q].todo \cap {"clash", "update", "findEarning", "insertEarning", "reread"} = {}
    BY <1>0, <2>1 DEF InOrder
  <2>3. /\ req'[q].todo = req[q].todo \ {"readPayment"}
        /\ req'[q].todo # {} =>
             /\ req'[q].b = c
             /\ req'[q].row = [req[q].row EXCEPT !.pay = req'[q].pay,
                                                 !.status = "cancelled"]
             /\ req'[q].row.status = "cancelled"
             /\ req'[q].row.pay = req'[q].pay
    BY <1>0, <1>5, AfterReadPayment
  <2>4. {"save", "refund"} \subseteq req'[q].todo /\ req'[q].todo # {}
    BY <2>2, <2>3
  <2>5. req'[q].row.agent = booking[c].agent
    BY <1>0, <2>2, <2>3, <2>4 DEF Memory, Row
  <2>6. Leads(booking[c], req'[q].row)
    BY <2>2, <2>3, <2>4, <2>5 DEF Leads
  <2>7. FinalRowPay(req[q])' = FinalPay(req[q])'
    BY <2>3, <2>4 DEF FinalRowPay, FinalPay
  <2>8. InOrder(req[q])'
    BY <2>1, <2>2, <2>3, <2>4, <2>6, <2>7 DEF InOrder
  <2>9. QED
    BY <1>1, <2>1, <2>3, <2>4, <2>8
<1>6. CASE Reread(q)
  <2>1. "reread" \in req[q].todo /\ UNCHANGED <<booking, payment, earnings, died>>
    BY <1>6 DEF Reread, Turn, db, hist
  <2>2. /\ req[q].todo = {"reread"}
        /\ booking[c].status = "paid"
        /\ booking[c].agent # NoAgent
        /\ c \notin died => booking[c].pay = payment[c]
    BY <1>0, <2>1 DEF InOrder, FinalRowPay, FinalPay
  <2>3. \/ req'[q].todo = {}
        \/ /\ CanTransition(booking[c].status, "accepted")
           /\ req'[q].b = c
           /\ req'[q].row = [booking[c] EXCEPT !.status = "accepted"]
           /\ req'[q].row.status = "accepted"
           /\ req'[q].row.pay = booking[c].pay
           /\ req'[q].todo = {"save", "record"}
    BY <1>0, <1>6, AfterReread
  <2>4. CASE req'[q].todo = {}
    BY <1>1, <2>1, <2>2, <2>4
  <2>5. CASE req'[q].todo # {}
    <3>1. req'[q].row.agent = booking[c].agent
      BY <1>0, <2>3, <2>5 DEF Row
    <3>2. Leads(booking[c], req'[q].row)
      BY <2>2, <2>3, <2>5, <3>1 DEF Leads
    <3>3. c \notin died => FinalRowPay(req[q])' = FinalPay(req[q])'
      BY <2>1, <2>2, <2>3, <2>5 DEF FinalRowPay, FinalPay
    <3>4. InOrder(req[q])'
      BY <2>1, <2>3, <2>5, <3>2, <3>3 DEF InOrder
    <3>5. QED
      BY <1>1, <2>1, <2>3, <2>5, <3>4
  <2>6. QED
    BY <2>4, <2>5
<1>7. CASE SelectForSave(q)
  <2>1. /\ "save" \in req[q].todo
        /\ req[q].todo \cap {"clash", "readPayment", "reread", "payment"} = {}
        /\ UNCHANGED <<booking, payment, earnings, died>>
    BY <1>7 DEF SelectForSave, Turn, Rank, db, hist
  <2>2. /\ req'[q].todo \ {"update"} = req[q].todo \ {"save", "update"}
        /\ "save" \notin req'[q].todo
        /\ "update" \in req'[q].todo =>
             req'[q].dirty = Differing(req[q].row, booking[c])
        /\ "update" \notin req'[q].todo => Differing(req[q].row, booking[c]) = {}
        /\ req'[q].todo # {} => /\ req'[q].b = c
                                /\ req'[q].row = req[q].row
                                /\ req'[q].pay = req[q].pay
    BY <1>0, <1>7, AfterSelect
  <2>3. /\ Leads(booking[c], req[q].row)
        /\ c \notin died => req[q].row.pay = FinalPay(req[q])
    BY <1>0, <2>1 DEF InOrder, FinalRowPay
  <2>4. "update" \notin req'[q].todo =>
          /\ req[q].row.status = booking[c].status
          /\ req[q].row.agent = booking[c].agent
          /\ req[q].row.pay = booking[c].pay
    BY <2>2 DEF Differing, Columns
  <2>5. req'[q].todo = {} /\ c \notin died => booking[c].pay = payment[c]
    BY <2>2, <2>3, <2>4 DEF FinalPay
  <2>6. req'[q].todo # {} => InOrder(req[q])'
    <3>1. SUFFICES ASSUME req'[q].todo # {} PROVE InOrder(req[q])'
      OBVIOUS
    <3>2. c \notin died => FinalRowPay(req[q])' = FinalPay(req[q])'
      <4>1. FinalPay(req[q])' = FinalPay(req[q])
        BY <2>1, <2>2, <3>1 DEF FinalPay
      <4>2. c \notin died => FinalRowPay(req[q])' = req[q].row.pay
        BY <2>1, <2>2, <2>4, <3>1 DEF FinalRowPay
      <4>3. QED
        BY <2>3, <4>1, <4>2
    <3>3. PaidOut(req[q].b)' <=> PaidOut(c)
      BY <2>1, <2>2, <3>1 DEF PaidOut
    <3>4. req[q].todo \cap {"findEarning", "insertEarning"} # {} =>
            /\ req[q].row.status = "completed"
            /\ req[q].row.agent = booking[c].agent
      BY <1>0 DEF InOrder
    <3>5. "insertEarning" \in req[q].todo => ~PaidOut(c)
      BY <1>0 DEF InOrder
    <3>6. QED
      BY <2>1, <2>2, <2>3, <2>4, <3>1, <3>2, <3>3, <3>4, <3>5 DEF InOrder
  <2>7. QED
    BY <1>1, <2>1, <2>2, <2>5, <2>6
<1>8. CASE FindEarning(q)
  <2>1. /\ "findEarning" \in req[q].todo
        /\ req[q].todo \subseteq {"findEarning", "insertEarning", "ack"}
        /\ UNCHANGED <<booking, payment, earnings, died>>
    BY <1>0, <1>8, Statements DEF FindEarning, Turn, Rank, Request, db, hist
  <2>2. /\ req[q].row.status = "completed"
        /\ req[q].row.agent = booking[c].agent
        /\ booking[c].status = "completed"
        /\ c \notin died => booking[c].pay = payment[c]
    BY <1>0, <2>1 DEF InOrder, FinalRowPay, FinalPay
  <2>3. /\ req'[q].todo \subseteq {"insertEarning"}
        /\ req'[q].todo # {} => /\ ~PaidOut(c)
                                /\ req'[q].b = c
                                /\ req'[q].row = req[q].row
    BY <1>0, <1>8, AfterFindEarning
  <2>4. req'[q].todo # {} => InOrder(req[q])'
    <3>1. SUFFICES ASSUME req'[q].todo # {} PROVE InOrder(req[q])'
      OBVIOUS
    <3>2. ~PaidOut(req[q].b)'
      BY <2>1, <2>3, <3>1 DEF PaidOut
    <3>3. c \notin died => FinalRowPay(req[q])' = FinalPay(req[q])'
      BY <2>1, <2>2, <2>3, <3>1 DEF FinalRowPay, FinalPay
    <3>4. QED
      BY <2>1, <2>2, <2>3, <3>1, <3>2, <3>3 DEF InOrder
  <2>5. QED
    BY <1>1, <2>1, <2>2, <2>3, <2>4
<1>11. CASE InsertEarning(q)
  <2> DEFINE d == req[q].row.agent
  <2>1. /\ "insertEarning" \in req[q].todo
        /\ req[q].todo \subseteq {"insertEarning", "ack"}
        /\ Done(q, "insertEarning")
        /\ earnings' = [earnings EXCEPT ![c][d] = @ + 1]
        /\ UNCHANGED <<booking, payment, died>>
    BY <1>0, <1>11, Statements DEF InsertEarning, Turn, Rank, Memory, hist
  <2>2. /\ req[q].row.status = "completed"
        /\ d = booking[c].agent
        /\ booking[c].status = "completed"
        /\ ~PaidOut(c)
        /\ c \notin died => booking[c].pay = payment[c]
    BY <1>0, <2>1 DEF InOrder, FinalRowPay, FinalPay
  <2>3. \A b \in Bookings \ {c} : earnings'[b] = earnings[b]
    BY <1>0, <2>1 DEF TypeOK
  <2>4. ASSUME NEW a \in Agents, earnings'[c][a] > 0
        PROVE  earnings'[c][a] = 1 /\ booking'[c].agent = a
    <3>1. earnings[c] \in [Agents -> Nat] /\ earnings[c][a] \in Nat
      BY <1>0 DEF TypeOK
    <3>2. earnings[c][a] = 0
      BY <2>2, <3>1 DEF PaidOut
    <3> HIDE DEF d
    <3>3. earnings'[c] = [earnings[c] EXCEPT ![d] = @ + 1]
      BY <1>0, <2>1 DEF TypeOK
    <3>4. a = d
      BY <2>4, <3>1, <3>2, <3>3
    <3>5. earnings'[c][a] = earnings[c][a] + 1
      BY <3>1, <3>3, <3>4
    <3>6. QED
      BY <2>1, <2>2, <3>2, <3>4, <3>5
  <2>5. /\ req'[q].todo = req[q].todo \ {"insertEarning"}
        /\ req'[q].todo # {} => /\ req'[q].b = c
                                /\ req'[q].row = req[q].row
                                /\ req'[q].pay = req[q].pay
    BY <1>0, <2>1, AfterDone
  <2>6. req'[q].todo # {} => InOrder(req[q])'
    <3>1. SUFFICES ASSUME req'[q].todo # {} PROVE InOrder(req[q])'
      OBVIOUS
    <3>2. req'[q].todo = {"ack"} /\ req'[q].b = c
      BY <2>1, <2>5, <3>1
    <3>3. c \notin died => FinalRowPay(req[q])' = FinalPay(req[q])'
      BY <2>1, <2>2, <3>2 DEF FinalRowPay, FinalPay
    <3>4. QED
      BY <2>1, <3>2, <3>3 DEF InOrder
  <2>7. RowInOrder(c)
    BY <1>0
  <2>8. booking'[c].status \in Working => booking'[c].agent # NoAgent
    BY <2>1, <2>7 DEF RowInOrder
  <2>9. QED
    BY <1>10, <2>1, <2>2, <2>3, <2>4, <2>5, <2>6, <2>8
<1>12. CASE SavePayment(q)
  <2>1. PICK s \in {"payment", "refund"} : s \in req[q].todo /\ Done(q, s)
    BY <1>12 DEF SavePayment, Turn
  <2>2. /\ payment' = [payment EXCEPT ![c] = req[q].pay]
        /\ req[q].todo \cap {"clash", "readPayment", "reread"} = {}
        /\ UNCHANGED <<booking, earnings, died>>
    BY <1>12 DEF SavePayment, Turn, Rank, hist
  <2>3. /\ payment'[c] = req[q].pay
        /\ \A b \in Bookings \ {c} : payment'[b] = payment[b]
    BY <1>0, <2>2 DEF TypeOK
  <2>4. /\ req'[q].todo = req[q].todo \ {s}
        /\ req'[q].todo # {} => /\ req'[q].b = c
                                /\ req'[q].row = req[q].row
                                /\ req'[q].pay = req[q].pay
                                /\ req'[q].dirty = req[q].dirty
    BY <1>0, <2>1, AfterDone
  <2>5. c \notin died => FinalRowPay(req[q]) = req[q].pay
    BY <1>0, <2>1, <2>2 DEF InOrder, FinalPay
  <2>6. req'[q].todo = {} /\ c \notin died => booking'[c].pay = payment'[c]
    BY <2>1, <2>2, <2>3, <2>4, <2>5 DEF FinalRowPay
  <2>7. req'[q].todo # {} => InOrder(req[q])'
    <3>1. SUFFICES ASSUME req'[q].todo # {} PROVE InOrder(req[q])'
      OBVIOUS
    <3>2. FinalRowPay(req[q])' = FinalRowPay(req[q])
      BY <2>1, <2>2, <2>4, <3>1 DEF FinalRowPay
    <3>3. FinalPay(req[q])' = req[q].pay
      BY <2>3, <2>4, <3>1 DEF FinalPay
    <3>4. PaidOut(req[q].b)' <=> PaidOut(c)
      BY <2>2, <2>4, <3>1 DEF PaidOut
    <3>5. /\ "update" \in req[q].todo => req[q].dirty = Differing(req[q].row, booking[c])
          /\ req[q].todo \cap {"save", "update"} # {} => Leads(booking[c], req[q].row)
          /\ req[q].todo \cap {"findEarning", "insertEarning"} # {} =>
               /\ req[q].row.status = "completed"
               /\ req[q].row.agent = booking[c].agent
               /\ req[q].todo \cap {"save", "update"} = {} => booking[c].status = "completed"
          /\ "insertEarning" \in req[q].todo => ~PaidOut(c)
      BY <1>0, <2>2 DEF InOrder
    <3>6. /\ req'[q].todo \cap {"clash", "readPayment", "reread"} = {}
          /\ req'[q].todo \cap {"save", "update"} = req[q].todo \cap {"save", "update"}
          /\ req'[q].todo \subseteq req[q].todo
      BY <2>1, <2>2, <2>4
    <3>7. QED
      BY <2>2, <2>4, <2>5, <3>1, <3>2, <3>3, <3>4, <3>5, <3>6 DEF InOrder
  <2>8. RowInOrder(c)
    BY <1>0
  <2>9. /\ booking'[c].status \in Working => booking'[c].agent # NoAgent
        /\ (\E a \in Agents : earnings'[c][a] > 0) => booking'[c].status = "completed"
        /\ \A a \in Agents :
             earnings'[c][a] > 0 => earnings'[c][a] = 1 /\ booking'[c].agent = a
    BY <2>2, <2>8 DEF RowInOrder, PaidOut
  <2>10. QED
    BY <1>10, <2>2, <2>3, <2>4, <2>6, <2>7, <2>9
<1>13. CASE UpdateRow(q)
  <2> DEFINE new == Overwrite(booking[c], req[q].row, req[q].dirty)
  <2>1. /\ Turn(q, "update")
        /\ Done(q, "update")
        /\ booking' = [booking EXCEPT ![c] = new]
        /\ UNCHANGED <<payment, earnings, died>>
    BY <1>13 DEF UpdateRow
  <2>2. /\ "update" \in req[q].todo
        /\ req[q].todo \cap {"clash", "readPayment", "reread", "save"} = {}
    BY <2>1 DEF Turn, Rank
  <2>3. /\ new.status = req[q].row.status
        /\ new.agent = req[q].row.agent
        /\ new.pay = req[q].row.pay
    <3>1. req[q].dirty = Differing(req[q].row, booking[c])
      BY <1>0, <2>2 DEF InOrder
    <3>2. QED
      BY <3>1 DEF Overwrite, Differing, Columns
  <2> HIDE DEF new
  <2>4. booking'[c] = new /\ \A b \in Bookings \ {c} : booking'[b] = booking[b]
    BY <1>0, <2>1 DEF TypeOK
  <2>5. /\ req'[q].todo = req[q].todo \ {"update"}
        /\ req'[q].todo # {} => /\ req'[q].b = c
                                /\ req'[q].row = req[q].row
                                /\ req'[q].pay = req[q].pay
    BY <1>0, <2>1, AfterDone
  <2>6. /\ Leads(booking[c], req[q].row)
        /\ req[q].todo \cap {"findEarning", "insertEarning"} # {} =>
             /\ req[q].row.status = "completed"
             /\ req[q].row.agent = booking[c].agent
        /\ "insertEarning" \in req[q].todo => ~PaidOut(c)
        /\ c \notin died => req[q].row.pay = FinalPay(req[q])
    BY <1>0, <2>2 DEF InOrder, FinalRowPay
  <2>7. RowInOrder(c)
    BY <1>0
  <2>8. /\ req[q].row.status \in Working => req[q].row.agent # NoAgent
        /\ booking[c].status = "completed" =>
             req[q].row.status = "completed" /\ req[q].row.agent = booking[c].agent
    BY <1>0, <2>6, <2>7, LeadsOn DEF RowInOrder, Row
  <2>9. /\ booking'[c].status \in Working => booking'[c].agent # NoAgent
        /\ (\E a \in Agents : earnings'[c][a] > 0) => booking'[c].status = "completed"
        /\ \A a \in Agents :
             earnings'[c][a] > 0 => earnings'[c][a] = 1 /\ booking'[c].agent = a
    BY <2>1, <2>3, <2>4, <2>7, <2>8 DEF RowInOrder, PaidOut
  <2>10. req'[q].todo = {} /\ c \notin died => booking'[c].pay = payment'[c]
    BY <2>1, <2>3, <2>4, <2>5, <2>6 DEF FinalPay
  <2>11. req'[q].todo # {} => InOrder(req[q])'
    <3>1. SUFFICES ASSUME req'[q].todo # {} PROVE InOrder(req[q])'
      OBVIOUS
    <3>2. c \notin died => FinalRowPay(req[q])' = FinalPay(req[q])'
      BY <2>1, <2>2, <2>3, <2>4, <2>5, <2>6, <3>1 DEF FinalRowPay, FinalPay
    <3>3. PaidOut(req[q].b)' <=> PaidOut(c)
      BY <2>1, <2>5, <3>1 DEF PaidOut
    <3>4. booking'[req'[q].b] = new /\ req'[q].row = req[q].row
      BY <2>4, <2>5, <3>1
    <3>5. req'[q].todo \cap {"update", "clash", "readPayment", "reread", "save"} = {}
      BY <2>2, <2>5
    <3>6. QED
      BY <2>1, <2>3, <2>5, <2>6, <3>1, <3>2, <3>3, <3>4, <3>5 DEF InOrder
  <2>12. QED
    BY <1>10, <2>1, <2>4, <2>5, <2>9, <2>10, <2>11
<1>14. QED
  BY <1>3, <1>4, <1>5, <1>6, <1>7, <1>8, <1>11, <1>12, <1>13 DEF Execute

-----------------------------------------------------------------------------
LEMMA InitInOrder == ConstantsAssumption /\ Init => SInv
<1> SUFFICES ASSUME ConstantsAssumption, Init PROVE SInv
  OBVIOUS
<1>1. ASSUME NEW b \in Bookings PROVE RowInOrder(b)
  BY <1>1 DEF Init, RowInOrder, Working, PaidOut
<1>2. ASSUME NEW q \in Requests PROVE ~InFlight(q)
  BY <1>2 DEF Init, InFlight, NoRequest
<1>3. QED
  BY <1>1, <1>2, InitType DEF SInv

\* Rows and memory stay in order when only `died` or a request goes away.
LEMMA StillInOrder ==
  ASSUME SInv, UNCHANGED <<booking, payment, earnings, died, req>>
  PROVE  /\ \A b \in Bookings : RowInOrder(b)'
         /\ \A q \in Requests : InFlight(q)' => InOrder(req[q])'
<1>1. \A b \in Bookings : RowInOrder(b)'
  BY DEF SInv, RowInOrder, PaidOut, Quiet, Holds, InFlight
<1>2. ASSUME NEW q \in Requests, InFlight(q)' PROVE InOrder(req[q])'
  <2>1. InFlight(q) /\ InOrder(req[q])
    BY <1>2 DEF SInv, InFlight
  <2>2. QED
    BY <2>1 DEF InOrder, FinalRowPay, FinalPay, PaidOut
<1>3. QED
  BY <1>1, <1>2

LEMMA CrashInOrder ==
  ASSUME SInv, Serial, NEW q \in Requests, Crash(q)
  PROVE  /\ \A b \in Bookings : RowInOrder(b)'
         /\ \A p \in Requests : InFlight(p)' => InOrder(req[p])'
<1>1. /\ Abort(q)
      /\ died' = died \cup {req[q].b}
      /\ UNCHANGED <<booking, payment, earnings>>
  BY DEF Crash, db
<1>2. req'[q].todo = {} /\ TypeOK
  BY <1>1, AfterAbort DEF SInv
<1>3. ASSUME NEW b \in Bookings PROVE RowInOrder(b)'
  <2>1. RowInOrder(b)
    BY DEF SInv
  <2>2. b # req[q].b => Quiet(b)
    BY DEF Quiet, Holds, Serial
  <2>3. PaidOut(b)' <=> PaidOut(b)
    BY <1>1 DEF PaidOut
  <2>4. QED
    BY <1>1, <2>1, <2>2, <2>3 DEF RowInOrder
<1>4. ASSUME NEW p \in Requests PROVE ~InFlight(p)'
  BY <1>2 DEF Serial, InFlight
<1>5. QED
  BY <1>3, <1>4

LEMMA StepInOrder == ConstantsAssumption /\ Serial /\ SInv /\ [Next]_vars => SInv'
<1> SUFFICES ASSUME ConstantsAssumption, Serial, SInv, [Next]_vars PROVE SInv'
  OBVIOUS
<1> DEFINE Goal == /\ \A b \in Bookings : RowInOrder(b)'
                   /\ \A q \in Requests : InFlight(q)' => InOrder(req[q])'
<1>1. TypeOK'
  BY StepType DEF SInv
<1>2. ASSUME NEW b \in Bookings, NEW e \in Event, GatewayOutcome(b, e) PROVE Goal
  BY <1>2, StillInOrder DEF GatewayOutcome, db, hist
<1>3. ASSUME UNCHANGED vars PROVE Goal
  BY <1>3, StillInOrder DEF vars, db, hist
<1>4. ASSUME NEW q \in Requests, NEW b \in Bookings,
             Customer(q, b) \/ Webhook(q, b) \/ Agent(q, b) \/ Admin(q, b)
      PROVE  Goal
  BY <1>4, HandlerInOrder
<1>5. ASSUME NEW q \in Requests, Execute(q) PROVE Goal
  BY <1>5, ExecuteInOrder
<1>6. ASSUME NEW q \in Requests, Crash(q) PROVE Goal
  BY <1>6, CrashInOrder
<1> HIDE DEF Goal
<1>7. Goal
  BY <1>2, <1>3, <1>4, <1>5, <1>6 DEF Next
<1>8. QED
  BY <1>1, <1>7 DEF SInv, Goal

\* One request at a time leaves every row in order, wherever requests die.
THEOREM SerialInOrder == ASSUME Serial PROVE Spec => []SInv
<1>1. ConstantsAssumption /\ Serial
  BY ConstantsAssumption
<1>2. QED
  BY <1>1, InitInOrder, StepInOrder, PTL DEF Spec

\* Once no request is at a booking, and none died on it, its mirror of the
\* payment status is right: every handler writes both sides.
THEOREM MirrorsPaymentAlways == ASSUME Serial PROVE Spec => []MirrorsPayment
<1>1. SInv => MirrorsPayment
  BY DEF SInv, RowInOrder, MirrorsPayment
<1>2. QED
  BY <1>1, SerialInOrder, PTL

\* No handler takes the agent off work that is accepted, under way or done.
THEOREM WorkHasAgentAlways == ASSUME Serial PROVE Spec => []WorkHasAgent
<1>1. SInv => WorkHasAgent
  BY DEF SInv, RowInOrder, Working, WorkHasAgent
<1>2. QED
  BY <1>1, SerialInOrder, PTL

\* A booking is paid out at most once, to the agent who is on it.
THEOREM OneEarningAlways == ASSUME Serial PROVE Spec => []OneEarning
<1>1. SInv => OneEarning
  BY DEF SInv, RowInOrder, OneEarning
<1>2. QED
  BY <1>1, SerialInOrder, PTL

-----------------------------------------------------------------------------
(* The rows move as the abstract machine does.                             *)

\* An agent claims a job of the open pool.
Claims(old, new) ==
  /\ old.status = "paid" /\ old.agent = NoAgent
  /\ new.status = "paid" /\ new.agent \in Agents

\* One row takes a step of the lifecycle, and the others stay.
OneRowMoves ==
  \/ UNCHANGED booking
  \/ \E c \in Bookings :
       /\ Leads(booking[c], booking'[c]) \/ Claims(booking[c], booking'[c])
       /\ \A b \in Bookings \ {c} : booking'[b] = booking[b]

LEMMA StepMovesOneRow ==
  ASSUME SInv, [Next]_vars
  PROVE  OneRowMoves
<1>0. TypeOK
  BY DEF SInv
<1>1. ASSUME UNCHANGED booking PROVE OneRowMoves
  BY <1>1 DEF OneRowMoves
<1>2. ASSUME NEW q \in Requests, NEW c \in Bookings, NEW a \in Agents, Claim(q, a, c)
      PROVE  OneRowMoves
  <2>1. /\ booking[c].status = "paid"
        /\ booking[c].agent = NoAgent
        /\ booking' = [booking EXCEPT ![c].agent = a]
        /\ booking[c] \in Row
    BY <1>0, <1>2 DEF Claim, TypeOK
  <2>2. /\ Claims(booking[c], booking'[c])
        /\ \A b \in Bookings \ {c} : booking'[b] = booking[b]
    BY <1>0, <2>1 DEF TypeOK, Row, Claims
  <2>3. QED
    BY <2>2 DEF OneRowMoves
<1>3. ASSUME NEW q \in Requests, NEW c \in Bookings,
             Customer(q, c) \/ Webhook(q, c) \/ Admin(q, c)
      PROVE  OneRowMoves
  BY <1>1, <1>3 DEF Customer, Webhook, Admin, CreateOrder, Verify,
     CancelByCustomer, Reschedule, WebhookCaptured, WebhookFailed,
     CancelByAdmin, Assign, Reassign, db
<1>4. ASSUME NEW q \in Requests, NEW c \in Bookings, Agent(q, c)
      PROVE  OneRowMoves
  BY <1>1, <1>2, <1>4 DEF Agent, Release, Decline, Arrive, Start, Complete, db
<1>5. ASSUME NEW q \in Requests, UpdateRow(q)
      PROVE  OneRowMoves
  <2> DEFINE c   == req[q].b
             new == Overwrite(booking[c], req[q].row, req[q].dirty)
  <2>1. /\ "update" \in req[q].todo
        /\ "readPayment" \notin req[q].todo
        /\ booking' = [booking EXCEPT ![c] = new]
    BY <1>5 DEF UpdateRow, Turn, Rank
  <2>2. InOrder(req[q]) /\ c \in Bookings
    BY <1>0, <2>1, InFlightMemory DEF SInv, InFlight, Memory
  <2>3. Leads(booking[c], req[q].row) /\ req[q].dirty = Differing(req[q].row, booking[c])
    BY <2>1, <2>2 DEF InOrder
  <2>4. new.status = req[q].row.status /\ new.agent = req[q].row.agent
    BY <2>3 DEF Overwrite, Differing, Columns
  <2>5. Leads(booking[c], new)
    BY <2>3, <2>4 DEF Leads
  <2> HIDE DEF new
  <2>6. booking'[c] = new /\ \A b \in Bookings \ {c} : booking'[b] = booking[b]
    BY <1>0, <2>1, <2>2 DEF TypeOK
  <2> HIDE DEF c
  <2>7. QED
    BY <2>2, <2>5, <2>6 DEF OneRowMoves
<1>6. ASSUME NEW q \in Requests, Execute(q)
      PROVE  OneRowMoves
  BY <1>1, <1>5, <1>6 DEF Execute, CheckClash, ReadPayment, Reread, SelectForSave,
     SavePayment, InsertTxn, Record, FindEarning, InsertEarning, Acknowledge, db
<1>7. ASSUME NEW q \in Requests, Crash(q) PROVE OneRowMoves
  BY <1>1, <1>7 DEF Crash, db
<1>8. ASSUME NEW c \in Bookings, NEW e \in Event, GatewayOutcome(c, e)
      PROVE  OneRowMoves
  BY <1>1, <1>8 DEF GatewayOutcome, db
<1>9. CASE UNCHANGED vars
  BY <1>1, <1>9 DEF vars, db
<1>10. QED
  BY <1>3, <1>4, <1>6, <1>7, <1>8, <1>9 DEF Next

\* `completed` and `cancelled` have no way out, not even by a release, an
\* assignment or a late payment.
THEOREM TerminalIsFinalAlways == ASSUME Serial PROVE Spec => TerminalIsFinal
<1>1. ASSUME SInv, [Next]_vars, NEW b \in Bookings,
             booking[b].status \in {"completed", "cancelled"}
      PROVE  booking'[b].status = booking[b].status
  <2>1. Leads(booking[b], booking'[b]) \/ Claims(booking[b], booking'[b])
          \/ booking'[b] = booking[b]
    BY <1>1, StepMovesOneRow DEF OneRowMoves
  <2>2. QED
    BY <1>1, <2>1 DEF Leads, Claims, CanTransition, Transitions, Assignable, PastRelease
<1>2. SInv /\ [Next]_vars =>
        \A b \in Bookings : booking[b].status \in {"completed", "cancelled"}
                              => booking'[b].status = booking[b].status
  BY <1>1
<1>3. QED
  BY <1>2, SerialInOrder, PTL DEF Spec, TerminalIsFinal

Job == [b \in Bookings |-> [status |-> booking[b].status, agent |-> booking[b].agent]]

LEMMA InitRefines == Init => Lifecycle!Init
BY DEF Init, Lifecycle!Init

\* A row that moves does what one of the abstract operations does.
LEMMA StepRefines ==
  ASSUME SInv, [Next]_vars
  PROVE  Lifecycle!Next \/ Job' = Job
<1>0. TypeOK /\ TypeOK'
  BY ConstantsAssumption, StepType DEF SInv
<1>1. CASE UNCHANGED booking
  BY <1>1 DEF Job
<1>2. ASSUME NEW c \in Bookings,
             Leads(booking[c], booking'[c]) \/ Claims(booking[c], booking'[c]),
             \A b \in Bookings \ {c} : booking'[b] = booking[b]
      PROVE  Lifecycle!Next \/ Job' = Job
  <2> DEFINE old == booking[c]
  <2>0. PICK s \in Status, a \in Agents \cup {NoAgent} :
          s = booking'[c].status /\ a = booking'[c].agent
    BY <1>0 DEF TypeOK, Row
  <2>1. /\ Job' = [Job EXCEPT ![c] = [status |-> s, agent |-> a]]
        /\ Job[c] = [status |-> old.status, agent |-> old.agent]
        /\ Job \in [Bookings -> [status: Status, agent: Agents \cup {NoAgent}]]
    BY <1>0, <1>2, <2>0 DEF Job, TypeOK, Row
  <2>2. \/ s = old.status /\ a = old.agent
        \/ /\ CanTransition(old.status, s)
           /\ s = "accepted" => old.agent # NoAgent
           /\ a = old.agent
        \/ /\ old.status \in Assignable
           /\ s = IF old.status = "paid" THEN "accepted" ELSE old.status
           /\ a \in Agents
        \/ /\ old.status \notin PastRelease /\ old.agent # NoAgent
           /\ s = old.status /\ a \in Agents
        \/ /\ old.status \notin PastRelease /\ old.agent # NoAgent
           /\ s = "paid" /\ a = NoAgent
        \/ /\ old.status = "paid" /\ old.agent = NoAgent
           /\ s = "paid" /\ a \in Agents
    BY <1>2, <2>0 DEF Leads, Claims
  <2>10. /\ [Job EXCEPT ![c].agent = a]
              = [Job EXCEPT ![c] = [status |-> old.status, agent |-> a]]
         /\ [Job EXCEPT ![c].status = s]
              = [Job EXCEPT ![c] = [status |-> s, agent |-> old.agent]]
    <3>1. /\ [Job[c] EXCEPT !.agent = a] = [status |-> old.status, agent |-> a]
          /\ [Job[c] EXCEPT !.status = s] = [status |-> s, agent |-> old.agent]
      BY <2>1
    <3>2. QED
      BY <3>1
  <2>3. CASE s = old.status /\ a = old.agent
    BY <2>1, <2>3
  <2>4. CASE /\ CanTransition(old.status, s)
             /\ s = "accepted" => old.agent # NoAgent
             /\ a = old.agent
    <3>1. Job' = [Job EXCEPT ![c].status = s]
      BY <2>1, <2>4, <2>10
    <3>2. Lifecycle!Move(c, s)
      BY <2>1, <2>4, <3>1 DEF Lifecycle!Move, Job, Lifecycle!CanTransition,
         Lifecycle!Transitions, CanTransition, Transitions
    <3>3. QED
      BY <3>2 DEF Lifecycle!Next, Lifecycle!Status, Status
  <2>5. CASE /\ old.status \in Assignable
             /\ s = IF old.status = "paid" THEN "accepted" ELSE old.status
             /\ a \in Agents
    <3>1. Lifecycle!Assign(c, a)
      BY <2>1, <2>5 DEF Lifecycle!Assign, Job, Lifecycle!Assignable, Assignable
    <3>2. QED
      BY <2>5, <3>1 DEF Lifecycle!Next
  <2>6. CASE /\ old.status \notin PastRelease /\ old.agent # NoAgent
             /\ s = old.status /\ a \in Agents
    <3>1. Job' = [Job EXCEPT ![c].agent = a]
      BY <2>1, <2>6, <2>10
    <3>2. Lifecycle!Reassign(c, a)
      BY <2>1, <2>6, <3>1 DEF Lifecycle!Reassign, Job, Lifecycle!PastRelease, PastRelease
    <3>3. QED
      BY <2>6, <3>2 DEF Lifecycle!Next
  <2>7. CASE /\ old.status \notin PastRelease /\ old.agent # NoAgent
             /\ s = "paid" /\ a = NoAgent
    <3>1. Lifecycle!Release(c)
      BY <2>1, <2>7 DEF Lifecycle!Release, Job, Lifecycle!PastRelease, PastRelease
    <3>2. QED
      BY <3>1 DEF Lifecycle!Next
  <2>8. CASE /\ old.status = "paid" /\ old.agent = NoAgent
             /\ s = "paid" /\ a \in Agents
    <3>1. Job' = [Job EXCEPT ![c].agent = a]
      BY <2>1, <2>8, <2>10
    <3>2. Lifecycle!Claim(c, a)
      BY <2>1, <2>8, <3>1 DEF Lifecycle!Claim, Job
    <3>3. QED
      BY <2>8, <3>2 DEF Lifecycle!Next
  <2>9. QED
    BY <2>2, <2>3, <2>4, <2>5, <2>6, <2>7, <2>8
<1>3. QED
  BY <1>1, <1>2, StepMovesOneRow DEF OneRowMoves

\* Served one at a time, the handlers implement the abstract lifecycle: no
\* statement of theirs moves a booking or its agent in any other way.
THEOREM Refines == ASSUME Serial PROVE Spec => FollowsLifecycle
<1>1. SInv /\ [Next]_vars => [Lifecycle!Next]_Job
  BY StepRefines
<1>2. QED
  BY <1>1, InitRefines, SerialInOrder, PTL DEF Spec, FollowsLifecycle, Lifecycle!Spec, Job
=============================================================================
