--------------------------- MODULE BookingIntake ---------------------------
(***************************************************************************)
(* How bookings come into being, and the coupon they may redeem.  create   *)
(* writes the booking, its items, its payment, the coupon's usage row, the *)
(* coupon's counter and the history row in statements of their own, while  *)
(* other customers redeem the same coupon, the customer already pays, and  *)
(* an admin edits or removes the coupon.                                   *)
(*                                                                         *)
(* As in BookingRequests, a handler is an action that loads and checks and *)
(* leaves its statements `todo`; each statement is an action.              *)
(***************************************************************************)
EXTENDS Pricing, FiniteSets

CONSTANTS
  Bookings,    \* ids of bookings not yet created
  Requests,    \* requests the servers have in flight at a time
  Numbers,     \* booking numbers of the day
  Lines,       \* orders a customer may place (one priced line)
  Plans,       \* plans a customer may book
  Offers,      \* what an admin lets the coupon be worth
  Limits,      \* usage limits an admin may set
  TaxRate,     \* booking_tax_percent, in hundredths of a percent
  NoRow, NoCoupon, NoBooking,
  MaxUpsets    \* bound: how often a request overlaps another one, or dies

Line  == [pricePerHour: Nat, minutes: Nat, quantity: Nat]
Plan  == [cook: BOOLEAN, people: Nat, rate: Nat, percent: Nat, cleaning: Nat]
Offer == [type: {"PERCENT", "FLAT"}, value: Nat, cap: Nat \cup {NoCap}]

ASSUME IntakeAssumption ==
  /\ IsFiniteSet(Bookings) /\ IsFiniteSet(Requests)
  /\ Lines \subseteq Line
  /\ Plans \subseteq Plan
  /\ Offers \subseteq Offer
  /\ Limits \subseteq Nat
  /\ TaxRate \in Nat /\ MaxUpsets \in Nat
  /\ NoCap \notin Nat

\* bookings: the columns its charges and its number are in.
Bill   == [subtotal: Nat, discount: Nat, tax: Nat, total: Nat]
Row    == [number: Numbers, bill: Bill, plan: BOOLEAN, redeems: BOOLEAN]
Coupon == [active: BOOLEAN, offer: Offers, limit: Limits, used: Nat]

ASSUME NoneAssumption ==
  NoRow \notin Row /\ NoCoupon \notin Coupon /\ NoBooking \notin Bookings

VARIABLES
  bookings,  \* the bookings table
  items,     \* bookings whose booking_items are written
  payments,  \* how many payments rows each booking has
  usage,     \* coupon_usage: the bookings that redeemed the coupon
  logged,    \* bookings with a first booking_status_history row
  coupon,    \* the coupon's row
  req,       \* the requests in flight
  upsets     \* how often a request has overlapped another one, or has died

order == <<bookings, items, payments, logged>>
vars  == <<order, usage, coupon, req, upsets>>

-----------------------------------------------------------------------------
\* Mutant: the booking's history is opened before the booking is complete.
RankHistoryEarly ==
  [booking |-> 1, record |-> 2, items |-> 3, payment |-> 4, usage |-> 5,
   count |-> 6, countUsage |-> 7, delete |-> 8, select |-> 9, update |-> 10,
   reinsert |-> 11]

\* Mutant: the redemption is counted before its usage row is written.
RankCountFirst ==
  [booking |-> 1, items |-> 2, payment |-> 3, usage |-> 5, count |-> 4,
   record |-> 6, countUsage |-> 7, delete |-> 8, select |-> 9, update |-> 10,
   reinsert |-> 11]

\* Every statement a handler can still have to execute, in execution order.
Rank == [booking |-> 1, items |-> 2, payment |-> 3, usage |-> 4, count |-> 5,
         record |-> 6, countUsage |-> 7, delete |-> 8, select |-> 9,
         update |-> 10, reinsert |-> 11]
OrderStatement  == {"booking", "items", "payment", "usage", "count", "record"}
CouponStatement == DOMAIN Rank \ OrderStatement

Columns == {"active", "offer", "limit", "used"}

\* A request in flight has a booking or a coupon in its memory, and the
\* statements it has left.
OrderRequest  == [b: Bookings, row: Row, coupon: {NoCoupon}, dirty: {{}},
                  todo: (SUBSET OrderStatement) \ {{}}]
CouponRequest == [b: {NoBooking}, row: {NoRow}, coupon: Coupon,
                  dirty: SUBSET Columns, todo: (SUBSET CouponStatement) \ {{}}]
Request       == OrderRequest \cup CouponRequest
NoRequest == [todo |-> {}]

TypeOK ==
  /\ bookings \in [Bookings -> Row \cup {NoRow}]
  /\ items    \subseteq Bookings
  /\ payments \in [Bookings -> Nat]
  /\ usage    \subseteq Bookings
  /\ logged   \subseteq Bookings
  /\ coupon   \in Coupon \cup {NoCoupon}
  /\ req      \in [Requests -> Request \cup {NoRequest}]
  /\ upsets   \in 0..MaxUpsets

\* No booking yet; an admin has just created the coupon.
Init ==
  /\ bookings = [b \in Bookings |-> NoRow]
  /\ items    = {}
  /\ payments = [b \in Bookings |-> 0]
  /\ usage    = {}
  /\ logged   = {}
  /\ \E offer \in Offers, limit \in Limits :
       coupon = [active |-> TRUE, offer |-> offer, limit |-> limit, used |-> 0]
  /\ req      = [q \in Requests |-> NoRequest]
  /\ upsets   = 0

-----------------------------------------------------------------------------
(* Requests and their statements.                                          *)

InFlight(q) == req[q].todo # {}
Holds(q, b) == InFlight(q) /\ req[q].b = b
Placed      == {b \in Bookings : bookings[b] # NoRow}
Upset       == upsets < MaxUpsets /\ upsets' = upsets + 1

\* A handler has loaded its entities, passed its checks, and changed them in
\* memory; `todo` is what it still awaits.
Begin(q, b, row, mem, todo) ==
  /\ ~InFlight(q)
  /\ req' = [req EXCEPT ![q] = [b |-> b, row |-> row, coupon |-> mem,
                                dirty |-> {}, todo |-> todo]]
  /\ IF \A p \in Requests : ~InFlight(p) THEN UNCHANGED upsets ELSE Upset
  /\ UNCHANGED <<order, usage, coupon>>

\* It is statement s's turn in request q.
Turn(q, s) ==
  /\ s \in req[q].todo
  /\ \A t \in req[q].todo : Rank[s] <= Rank[t]
  /\ UNCHANGED upsets

\* The request goes on as r, or is answered when r has nothing left to do.
Continue(q, r) ==
  req' = [req EXCEPT ![q] = IF r.todo = {} THEN NoRequest ELSE r]

Done(q, s) == Continue(q, [req[q] EXCEPT !.todo = @ \ {s}])

\* The handler throws: what it has already written stays written.
Abort(q) == req' = [req EXCEPT ![q] = NoRequest]

\* A request dies between two statements.
Crash(q) ==
  /\ InFlight(q) /\ Upset
  /\ Abort(q)
  /\ UNCHANGED <<order, usage, coupon>>

-----------------------------------------------------------------------------
(* The customer app.                                                       *)

\* Mutant: the usage limit is off by one.
RedeemableOnceMore(c) == c # NoCoupon /\ c.active /\ c.used <= c.limit

\* resolveCoupon's checks.  The dates and the minimum order only refuse more.
Redeemable(c) == c # NoCoupon /\ c.active /\ c.used < c.limit

\* generateBookingNumber: any number no booking has yet.
FreeNumbers == {n \in Numbers : \A b \in Placed : bookings[b].number # n}

\* The id of a new booking.
Fresh(b) == b \notin Placed /\ \A q \in Requests : ~Holds(q, b)

\* create without a coupon.
Create(q, b) ==
  /\ Fresh(b)
  /\ \E n \in FreeNumbers, line \in Lines : \E subtotal \in LineAmount(line) :
     \E bill \in Bills(subtotal, 0, TaxRate) :
       Begin(q, b, [number |-> n, bill |-> bill, plan |-> FALSE,
                    redeems |-> FALSE],
             NoCoupon, {"booking", "items", "payment", "record"})

\* create with the coupon's code: priced with the coupon as it is now.
CreateWithCoupon(q, b) ==
  /\ Fresh(b)
  /\ Redeemable(coupon)
  /\ \E n \in FreeNumbers, line \in Lines : \E subtotal \in LineAmount(line) :
     \E discount \in CouponDiscount(coupon.offer, subtotal) :
     \E bill \in Bills(subtotal, discount, TaxRate) :
       Begin(q, b, [number |-> n, bill |-> bill, plan |-> FALSE,
                    redeems |-> TRUE],
             NoCoupon,
             {"booking", "items", "payment", "usage", "count", "record"})

\* createPlan: no items and no coupon; people who share a cook get a discount.
CreatePlan(q, b) ==
  /\ Fresh(b)
  /\ \E n \in FreeNumbers, plan \in Plans : \E c \in PlanCharges(plan) :
     \E bill \in Bills(c.subtotal, c.discount, TaxRate) :
       Begin(q, b, [number |-> n, bill |-> bill, plan |-> TRUE,
                    redeems |-> FALSE],
             NoCoupon, {"booking", "payment", "record"})

\* Mutant: ensurePayment does not ask whether there is a payment already.
EnsurePaymentAgain(q, b) ==
  /\ b \in Placed
  /\ bookings[b].bill.total > 0
  /\ payments[b] < 3
  /\ Begin(q, b, bookings[b], NoCoupon, {"payment"})

\* createOrder refuses a booking with nothing to pay; otherwise ensurePayment
\* adds the payment row a booking turns out not to have.
EnsurePayment(q, b) ==
  /\ b \in Placed
  /\ bookings[b].bill.total > 0
  /\ payments[b] = 0
  /\ Begin(q, b, bookings[b], NoCoupon, {"payment"})

\* INSERT of the booking; booking_number is UNIQUE.
InsertBooking(q) ==
  /\ Turn(q, "booking")
  /\ IF req[q].row.number \in FreeNumbers
     THEN /\ bookings' = [bookings EXCEPT ![req[q].b] = req[q].row]
          /\ Done(q, "booking")
     ELSE Abort(q) /\ UNCHANGED bookings
  /\ UNCHANGED <<items, payments, logged, usage, coupon>>

InsertItems(q) ==
  /\ Turn(q, "items")
  /\ items' = items \cup {req[q].b}
  /\ Done(q, "items")
  /\ UNCHANGED <<bookings, payments, logged, usage, coupon>>

InsertPayment(q) ==
  /\ Turn(q, "payment")
  /\ payments' = [payments EXCEPT ![req[q].b] = @ + 1]
  /\ Done(q, "payment")
  /\ UNCHANGED <<bookings, items, logged, usage, coupon>>

\* INSERT into coupon_usage; coupon_id REFERENCES coupons.
InsertUsage(q) ==
  /\ Turn(q, "usage")
  /\ IF coupon # NoCoupon
     THEN usage' = usage \cup {req[q].b} /\ Done(q, "usage")
     ELSE Abort(q) /\ UNCHANGED usage
  /\ UNCHANGED <<order, coupon>>

\* increment: one UPDATE that adds in the database.
CountRedemption(q) ==
  /\ Turn(q, "count")
  /\ coupon' = IF coupon = NoCoupon THEN NoCoupon
               ELSE [coupon EXCEPT !.used = @ + 1]
  /\ Done(q, "count")
  /\ UNCHANGED <<order, usage>>

RecordCreated(q) ==
  /\ Turn(q, "record")
  /\ logged' = logged \cup {req[q].b}
  /\ Done(q, "record")
  /\ UNCHANGED <<bookings, items, payments, usage, coupon>>

-----------------------------------------------------------------------------
(* The admin app.                                                          *)

\* update: the coupon's columns are changed in memory.
EditCoupon(q) ==
  /\ coupon # NoCoupon
  /\ \E active \in BOOLEAN, offer \in Offers, limit \in Limits :
       Begin(q, NoBooking, NoRow,
             [coupon EXCEPT !.active = active, !.offer = offer,
                            !.limit = limit],
             {"select"})

\* remove: first of all the usage rows are counted.
RemoveCoupon(q) ==
  /\ coupon # NoCoupon
  /\ Begin(q, NoBooking, NoRow, coupon, {"countUsage"})

\* A redeemed coupon is deactivated, once; any other is deleted.
CountUsage(q) ==
  /\ Turn(q, "countUsage")
  /\ \/ /\ usage = {}
        /\ Continue(q, [req[q] EXCEPT !.todo = {"delete"}])
     \/ /\ usage # {} /\ req[q].coupon.active
        /\ Continue(q, [req[q] EXCEPT !.todo = {"select"},
                                      !.coupon.active = FALSE])
     \/ usage # {} /\ ~req[q].coupon.active /\ Abort(q)
  /\ UNCHANGED <<order, usage, coupon>>

\* Mutant: usage rows do not stop the DELETE.
DeleteCascading(q) ==
  /\ Turn(q, "delete")
  /\ coupon' = NoCoupon
  /\ Done(q, "delete")
  /\ UNCHANGED <<order, usage>>

\* DELETE: refused by the foreign key as soon as there is a usage row.
DeleteCoupon(q) ==
  /\ Turn(q, "delete")
  /\ IF usage = {} THEN coupon' = NoCoupon /\ Done(q, "delete")
                   ELSE Abort(q) /\ UNCHANGED coupon
  /\ UNCHANGED <<order, usage>>

\* TypeORM save(coupon), first half: SELECT the row and compare.  A row that
\* is gone is inserted again.
SelectCoupon(q) ==
  /\ Turn(q, "select")
  /\ LET diff == {c \in Columns : coupon[c] # req[q].coupon[c]}
     IN  IF coupon = NoCoupon
         THEN Continue(q, [req[q] EXCEPT !.todo = {"reinsert"}])
         ELSE Continue(q, [req[q] EXCEPT
                !.dirty = diff,
                !.todo  = IF diff = {} THEN {} ELSE {"update"}])
  /\ UNCHANGED <<order, usage, coupon>>

\* TypeORM save(coupon), second half: UPDATE of exactly those columns.
Overwrite(row, mem, cols) ==
  [active |-> IF "active" \in cols THEN mem.active ELSE row.active,
   offer  |-> IF "offer"  \in cols THEN mem.offer  ELSE row.offer,
   limit  |-> IF "limit"  \in cols THEN mem.limit  ELSE row.limit,
   used   |-> IF "used"   \in cols THEN mem.used   ELSE row.used]

UpdateCoupon(q) ==
  /\ Turn(q, "update")
  /\ coupon' = IF coupon = NoCoupon THEN NoCoupon
               ELSE Overwrite(coupon, req[q].coupon, req[q].dirty)
  /\ Done(q, "update")
  /\ UNCHANGED <<order, usage>>

ReinsertCoupon(q) ==
  /\ Turn(q, "reinsert")
  /\ IF coupon = NoCoupon
     THEN coupon' = req[q].coupon /\ Done(q, "reinsert")
     ELSE Abort(q) /\ UNCHANGED coupon
  /\ UNCHANGED <<order, usage>>

-----------------------------------------------------------------------------
Customer(q) == \E b \in Bookings :
  Create(q, b) \/ CreateWithCoupon(q, b) \/ CreatePlan(q, b) \/ EnsurePayment(q, b)

Insert(q) ==
  \/ InsertBooking(q) \/ InsertItems(q) \/ InsertPayment(q)
  \/ InsertUsage(q) \/ CountRedemption(q) \/ RecordCreated(q)

Admin(q) ==
  \/ EditCoupon(q) \/ RemoveCoupon(q) \/ CountUsage(q) \/ DeleteCoupon(q)
  \/ SelectCoupon(q) \/ UpdateCoupon(q) \/ ReinsertCoupon(q)

Next == \E q \in Requests : Customer(q) \/ Insert(q) \/ Admin(q) \/ Crash(q)

Spec == Init /\ [][Next]_vars

-----------------------------------------------------------------------------
(* Properties.                                                             *)

\* "Redeemed coupons are kept for reporting, so they are only deactivated":
\* whatever a remove has counted before, a coupon with usage rows exists.
RedeemedCouponKept == usage # {} => coupon # NoCoupon

\* Requests that have inserted their usage row and not yet counted it.
Uncounted == {q \in Requests : "count" \in req[q].todo /\ req[q].b \in usage}

\* The counter lags behind the redemptions and is never ahead of them, so no
\* customer is refused while redemptions are left.
CountNeverAhead ==
  coupon # NoCoupon => coupon.used <= Cardinality(usage)

\* The counter and the limit drift apart from the redemptions by at most one
\* for each overlap or death: a request that dies between the usage row and
\* the counter is not counted; and the limit is compared with a counter read
\* earlier, which an admin's save may even set back.
CouponDriftBounded ==
  /\ coupon # NoCoupon =>
       Cardinality(usage) <= coupon.used + Cardinality(Uncounted) + upsets
  /\ \E limit \in Limits : Cardinality(usage) <= limit + upsets

\* The history row is the last one create writes: a booking with a history
\* is complete, whatever request of it died.
HistoryMeansComplete ==
  \A b \in logged :
    /\ payments[b] > 0
    /\ ~bookings[b].plan   => b \in items
    /\ bookings[b].redeems => b \in usage

\* Placed bookings without a history that no request works on any more.
Incomplete == {b \in Placed : b \notin logged /\ \A q \in Requests : ~Holds(q, b)}

\* What failed creates leave behind is bounded by the overlaps and deaths.  A
\* booking stays incomplete only if its create died, or if its coupon was
\* deleted under it; and ensurePayment, racing the create it repairs or
\* another ensurePayment, doubles a payment row only if they overlap.
LeftoversBounded ==
  /\ Cardinality(Incomplete) <= upsets
  /\ \A b \in Bookings : payments[b] <= 1 + upsets

\* No two bookings share a number, however many are created at once.
NumbersDistinct ==
  \A a, b \in Placed : bookings[a].number = bookings[b].number => a = b

\* No bill discounts more than the order, and no bill is negative.
BillsAddUp ==
  \A b \in Placed : LET bill == bookings[b].bill IN
    /\ bill.discount <= bill.subtotal
    /\ bill.total = bill.subtotal - bill.discount + bill.tax
    /\ bill.total >= 0

\* What makes the properties above inductive.  A request that creates a
\* booking is the only one to do so; what it has written is in the tables.
Creating(q) == "record" \in req[q].todo

CreateInv(q) == LET r == req[q] IN
  /\ r.todo \cap {"booking", "items", "usage", "count"} # {} => Creating(q)
  /\ Creating(q) =>
       /\ r.b \in Bookings /\ r.row \in Row
       /\ IF "booking" \in r.todo THEN r.b \notin Placed
                                 ELSE bookings[r.b] = r.row
       /\ "payment" \in r.todo \/ payments[r.b] > 0
       /\ "items" \in r.todo \/ r.row.plan \/ r.b \in items
       /\ IF "usage" \in r.todo THEN r.b \notin usage
                               ELSE r.row.redeems => r.b \in usage

OneCreator == \A p, q \in Requests :
  Creating(p) /\ Creating(q) /\ req[p].b = req[q].b => p = q

IntakeInv ==
  /\ \A q \in Requests : CreateInv(q)
  /\ OneCreator
  /\ usage \subseteq Placed /\ logged \subseteq Placed
  /\ HistoryMeansComplete

\* A counter, in the row or in a memory, leaves room for the redemptions
\* that are still to be counted.
Pending == {q \in Requests : "count" \in req[q].todo /\ "usage" \notin req[q].todo}

CountInv ==
  /\ coupon # NoCoupon => coupon.used + Cardinality(Pending) <= Cardinality(usage)
  /\ \A q \in Requests : InFlight(q) /\ req[q].coupon # NoCoupon =>
       req[q].coupon.used + Cardinality(Pending) <= Cardinality(usage)

\* "Total redemptions allowed" (the coupon's usageLimit).
RedemptionsWithinLimit ==
  \E limit \in Limits : Cardinality(usage) <= limit
=============================================================================
