---------------------------- MODULE IntakeProofs ----------------------------
(***************************************************************************)
(* What holds of BookingIntake for every set of bookings, requests, orders *)
(* and offers, and for every bound on the upsets.                          *)
(***************************************************************************)
EXTENDS BookingIntake, FiniteSetTheorems, TLAPS

-----------------------------------------------------------------------------
(* Prices.                                                                 *)

\* Rounding a fraction of at most k gives at most k, and nothing negative.
LEMMA RoundedPercent ==
  ASSUME NEW n \in Nat, NEW r \in Rounded(n, 10000)
  PROVE  r \in Nat /\ \A k \in Nat : n <= 10000 * k => r <= k
<1>1. r \in (n \div 10000)..(n \div 10000 + 1)
  BY DEF Rounded
<1>2. 2 * 10000 * r - 2 * n \in (-10000)..10000
  BY DEF Rounded
<1>3. n \div 10000 \in Nat
  OBVIOUS
<1>4. r \in Nat
  BY <1>1, <1>3
<1>5. 20000 * r - 2 * n <= 10000
  BY <1>2, <1>4
<1>6. \A k \in Nat : n <= 10000 * k => r <= k
  BY <1>4, <1>5
<1>7. QED
  BY <1>4, <1>6

LEMMA RoundedHours ==
  ASSUME NEW n \in Nat, NEW r \in Rounded(n, 60)
  PROVE  r \in Nat
BY DEF Rounded

LEMMA NatProduct == \A a, b \in Nat : a * b \in Nat
OBVIOUS

LEMMA OneMore == \A m, r \in Nat : r * (m + 1) = m * r + r
OBVIOUS

LEMMA PercentClamped ==
  \A x \in Nat : LET y == Least(10000, Greatest(0, x)) IN y \in Nat /\ y <= 10000
BY DEF Least, Greatest

LEMMA PeopleClamped == \A x \in Nat : CookPeople(x) - 1 \in Nat
BY DEF CookPeople, Least, Greatest

LEMMA LineAmountNat ==
  ASSUME NEW line \in Line, NEW amount \in LineAmount(line)
  PROVE  amount \in Nat
<1>1. line.pricePerHour * line.minutes * line.quantity \in Nat
  BY NatProduct DEF Line
<1>2. QED
  BY <1>1, RoundedHours DEF LineAmount

\* A coupon discounts an order by no more than the order.
LEMMA DiscountWithinOrder ==
  ASSUME IntakeAssumption, NEW offer \in Offer, NEW subtotal \in Nat,
         NEW d \in CouponDiscount(offer, subtotal)
  PROVE  d \in Nat /\ d <= subtotal
<1> DEFINE raw    == IF offer.type = "PERCENT" THEN subtotal * offer.value
                                               ELSE 10000 * offer.value
           capped == IF offer.cap = NoCap THEN raw
                     ELSE Least(raw, 10000 * offer.cap)
           n      == Least(capped, 10000 * subtotal)
<1>1. raw \in Nat
  <2>1. offer.value \in Nat /\ subtotal * offer.value \in Nat
    BY NatProduct DEF Offer
  <2>2. QED
    BY <2>1
<1>2. capped \in Nat
  <2>1. offer.cap # NoCap => offer.cap \in Nat
    BY DEF Offer
  <2> HIDE DEF raw
  <2>2. QED
    BY <1>1, <2>1 DEF Least
<1>3. d \in Rounded(n, 10000)
  BY DEF CouponDiscount
<1> HIDE DEF raw, capped
<1>4. n \in Nat /\ n <= 10000 * subtotal
  BY <1>2 DEF Least
<1> HIDE DEF n
<1>5. QED
  BY <1>3, <1>4, RoundedPercent

GoodBill(bill) ==
  /\ bill \in Bill
  /\ bill.discount <= bill.subtotal
  /\ bill.total = bill.subtotal - bill.discount + bill.tax

LEMMA BillsGood ==
  ASSUME IntakeAssumption, NEW s \in Nat, NEW d \in Nat, d <= s,
         NEW bill \in Bills(s, d, TaxRate)
  PROVE  GoodBill(bill)
<1>1. (s - d) * TaxRate \in Nat
  BY NatProduct DEF IntakeAssumption
<1>2. PICK tax \in Rounded((s - d) * TaxRate, 10000) :
        bill = [subtotal |-> s, discount |-> d, tax |-> tax,
                total |-> s - d + tax]
  BY DEF Bills
<1>3. tax \in Nat
  BY <1>1, RoundedPercent
<1>4. s - d + tax \in Nat
  BY <1>3
<1>5. QED
  BY <1>2, <1>3, <1>4 DEF GoodBill, Bill

\* "First person pays the full cook rate.  Each extra person is discounted.
\* Cleaning is a flat monthly add-on": however many share a cook, and
\* whatever discount the admin sets, the plan costs at least the rate of one
\* person and the cleaning.
THEOREM FirstPersonPaysFull ==
  ASSUME NEW cook \in Plan, NEW d \in CookDiscounts(cook)
  PROVE  d \in Nat /\ CookGross(cook) - d >= cook.rate + cook.cleaning
<1> DEFINE more == CookPeople(cook.people) - 1
           pct  == Least(10000, Greatest(0, cook.percent))
           x    == more * cook.rate
<1>1. more \in Nat
  BY PeopleClamped DEF Plan
<1>2. pct \in Nat /\ pct <= 10000
  BY PercentClamped DEF Plan
<1>3. cook.rate \in Nat /\ cook.cleaning \in Nat
  BY DEF Plan
<1>4. CookGross(cook) = x + cook.rate + cook.cleaning
  <2>1. CookPeople(cook.people) = more + 1
    BY PeopleClamped, SMT DEF Plan, CookPeople, Least, Greatest
  <2>2. CookGross(cook) = cook.rate * (more + 1) + cook.cleaning
    BY <2>1 DEF CookGross
  <2> HIDE DEF more
  <2>3. QED
    BY <1>1, <1>3, <2>2, OneMore
<1>5. d \in Rounded(x * pct, 10000)
  BY DEF CookDiscounts
<1> HIDE DEF more, pct
<1>6. x \in Nat
  BY <1>1, <1>3, NatProduct
<1> HIDE DEF x
<1>7. x * pct \in Nat /\ x * pct <= 10000 * x
  BY <1>2, <1>6, NatProduct
<1>8. d \in Nat /\ d <= x
  BY <1>5, <1>6, <1>7, RoundedPercent
<1>9. QED
  BY <1>3, <1>4, <1>6, <1>8

LEMMA PlanChargesGood ==
  ASSUME NEW plan \in Plan, NEW c \in PlanCharges(plan)
  PROVE  c.subtotal \in Nat /\ c.discount \in Nat /\ c.discount <= c.subtotal
<1>1. CASE plan.cook
  <2>1. PICK d \in CookDiscounts(plan) :
          c = [subtotal |-> CookGross(plan), discount |-> d]
    BY <1>1 DEF PlanCharges
  <2>2. CookPeople(plan.people) \in Nat
    BY DEF CookPeople, Least, Greatest, Plan
  <2>3. CookGross(plan) \in Nat
    <3>1. plan.rate * CookPeople(plan.people) \in Nat
      BY <2>2, NatProduct DEF Plan
    <3>2. QED
      BY <3>1 DEF CookGross, Plan
  <2>4. QED
    BY <2>1, <2>3, FirstPersonPaysFull DEF Plan
<1>2. CASE ~plan.cook
  BY <1>2 DEF PlanCharges, Plan
<1>3. QED
  BY <1>1, <1>2

-----------------------------------------------------------------------------
(* The types, and with them the bills.                                     *)

\* Every bill in a row or a memory is a good one.
MemoryBill(q) == req[q].todo \cap OrderStatement # {} => GoodBill(req[q].row.bill)
BillInv ==
  /\ \A b \in Bookings : bookings[b] # NoRow => GoodBill(bookings[b].bill)
  /\ \A q \in Requests : MemoryBill(q)

LEMMA CouponStatements ==
  CouponStatement = {"countUsage", "delete", "select", "update", "reinsert"}
BY DEF CouponStatement, OrderStatement, Rank

\* A request with a statement left is a customer's or an admin's.
LEMMA InFlightMemory ==
  ASSUME TypeOK, NEW q \in Requests, req[q].todo # {}
  PROVE  /\ req[q] \in Request
         /\ req[q].todo \cap OrderStatement # {} => req[q] \in OrderRequest
         /\ req[q].todo \cap CouponStatement # {} => req[q] \in CouponRequest
<1>1. req[q] \in Request \cup {NoRequest}
  BY DEF TypeOK
<1>2. req[q] # NoRequest
  BY DEF NoRequest
<1>3. OrderStatement \cap CouponStatement = {}
  BY DEF CouponStatement
<1>4. QED
  BY <1>1, <1>2, <1>3 DEF Request, OrderRequest, CouponRequest

\* Starting a handler keeps the types ...
LEMMA BeginType ==
  ASSUME TypeOK, IntakeAssumption, NEW q \in Requests,
         NEW b, NEW row, NEW mem, NEW todo, Begin(q, b, row, mem, todo),
         [b |-> b, row |-> row, coupon |-> mem, dirty |-> {}, todo |-> todo]
           \in Request
  PROVE  TypeOK'
<1>1. req' \in [Requests -> Request \cup {NoRequest}]
  BY DEF Begin, TypeOK
<1>2. upsets' \in 0..MaxUpsets
  BY DEF Begin, Upset, TypeOK, IntakeAssumption
<1>3. QED
  BY <1>1, <1>2 DEF Begin, TypeOK, order

\* ... and the bills, if the row it holds has a good one.
LEMMA BeginBill ==
  ASSUME TypeOK, BillInv, NEW q \in Requests, NEW b, NEW row, NEW mem, NEW todo,
         Begin(q, b, row, mem, todo),
         todo \cap OrderStatement # {} => GoodBill(row.bill)
  PROVE  BillInv'
<1>1. ASSUME NEW p \in Requests PROVE MemoryBill(p)'
  <2>1. CASE p = q
    <3>1. req'[q].row = row /\ req'[q].todo = todo
      BY DEF Begin, TypeOK
    <3>2. QED
      BY <2>1, <3>1 DEF MemoryBill, GoodBill
  <2>2. CASE p # q
    <3>1. req'[p] = req[p]
      BY <2>2 DEF Begin, TypeOK
    <3>2. QED
      BY <3>1 DEF MemoryBill, BillInv, GoodBill
  <2>3. QED
    BY <2>1, <2>2
<1>2. bookings' = bookings
  BY DEF Begin, order
<1>3. QED
  BY <1>1, <1>2 DEF BillInv, GoodBill

\* What a step of request q may leave of it.
LEMMA RequestsType ==
  ASSUME TypeOK, BillInv, NEW q \in Requests, NEW r,
         req' = [req EXCEPT ![q] = r],
         r # NoRequest => /\ r \in Request
                          /\ r.row = req[q].row
                          /\ r.todo \cap OrderStatement # {} =>
                               req[q].todo \cap OrderStatement # {}
  PROVE  /\ req' \in [Requests -> Request \cup {NoRequest}]
         /\ \A p \in Requests : MemoryBill(p)'
<1>1. req' \in [Requests -> Request \cup {NoRequest}]
  BY DEF TypeOK
<1>2. ASSUME NEW p \in Requests PROVE MemoryBill(p)'
  <2>1. NoRequest.todo = {}
    BY DEF NoRequest
  <2>2. CASE p # q
    <3>1. req'[p] = req[p]
      BY <2>2 DEF TypeOK
    <3>2. QED
      BY <3>1 DEF MemoryBill, BillInv, GoodBill
  <2>3. CASE p = q
    <3>1. req'[p] = r
      BY <2>3 DEF TypeOK
    <3>2. QED
      BY <2>1, <2>3, <3>1 DEF MemoryBill, BillInv, GoodBill
  <2>4. QED
    BY <2>2, <2>3
<1>3. QED
  BY <1>1, <1>2

LEMMA AbortType ==
  ASSUME TypeOK, BillInv, NEW q \in Requests, Abort(q)
  PROVE  /\ req' \in [Requests -> Request \cup {NoRequest}]
         /\ \A p \in Requests : MemoryBill(p)'
BY RequestsType DEF Abort

LEMMA DoneType ==
  ASSUME TypeOK, BillInv, NEW q \in Requests, req[q].todo # {}, NEW s, Done(q, s)
  PROVE  /\ req' \in [Requests -> Request \cup {NoRequest}]
         /\ \A p \in Requests : MemoryBill(p)'
<1> DEFINE r == [req[q] EXCEPT !.todo = @ \ {s}]
<1>1. req' = [req EXCEPT ![q] = IF r.todo = {} THEN NoRequest ELSE r]
  BY DEF Done, Continue
<1>2. req[q] \in OrderRequest \/ req[q] \in CouponRequest
  BY InFlightMemory DEF Request
<1>3. r.todo = req[q].todo \ {s} /\ r.row = req[q].row
  BY <1>2 DEF OrderRequest, CouponRequest
<1>4. r.todo # {} => r \in Request
  BY <1>2 DEF Request, OrderRequest, CouponRequest
<1> HIDE DEF r
<1>5. QED
  BY <1>1, <1>3, <1>4, RequestsType

TypeAndBills == TypeOK /\ BillInv

LEMMA InitTypeAndBills == IntakeAssumption /\ Init => TypeAndBills
<1> SUFFICES ASSUME IntakeAssumption, Init PROVE TypeAndBills
  OBVIOUS
<1>1. TypeOK
  <2>1. coupon \in Coupon
    BY DEF Init, Coupon
  <2>2. upsets \in 0..MaxUpsets
    BY DEF Init, IntakeAssumption
  <2>3. QED
    BY <2>1, <2>2 DEF Init, TypeOK
<1>2. BillInv
  BY DEF Init, BillInv, MemoryBill, NoRequest
<1>3. QED
  BY <1>1, <1>2 DEF TypeAndBills

\* A new booking has a good bill, whatever it is a booking of.
LEMMA NewRow ==
  ASSUME NEW n \in Numbers, NEW bill, GoodBill(bill),
         NEW plan \in BOOLEAN, NEW redeems \in BOOLEAN
  PROVE  [number |-> n, bill |-> bill, plan |-> plan, redeems |-> redeems] \in Row
BY DEF Row, GoodBill

\* A customer's handler keeps types and bills.
LEMMA BeginTypeAndBills ==
  ASSUME TypeAndBills, IntakeAssumption, NEW q \in Requests,
         NEW b \in Bookings, NEW row \in Row, GoodBill(row.bill),
         NEW todo \in SUBSET OrderStatement, todo # {},
         Begin(q, b, row, NoCoupon, todo)
  PROVE  TypeAndBills'
<1>1. [b |-> b, row |-> row, coupon |-> NoCoupon, dirty |-> {}, todo |-> todo]
        \in Request
  BY DEF Request, OrderRequest
<1>2. QED
  BY <1>1, BeginType, BeginBill DEF TypeAndBills

LEMMA CustomerTypeAndBills ==
  ASSUME TypeAndBills, IntakeAssumption, NEW q \in Requests, Customer(q)
  PROVE  TypeAndBills'
<1> USE DEF OrderStatement
<1>1. PICK b \in Bookings : Create(q, b) \/ CreateWithCoupon(q, b)
                            \/ CreatePlan(q, b) \/ EnsurePayment(q, b)
  BY DEF Customer
<1>2. CASE Create(q, b)
  <2>1. PICK n \in FreeNumbers, line \in Lines : \E s \in LineAmount(line) :
          \E bill \in Bills(s, 0, TaxRate) :
            Begin(q, b, [number |-> n, bill |-> bill, plan |-> FALSE,
                         redeems |-> FALSE],
                  NoCoupon, {"booking", "items", "payment", "record"})
    BY <1>2 DEF Create
  <2>2. PICK s \in LineAmount(line) : \E bill \in Bills(s, 0, TaxRate) :
            Begin(q, b, [number |-> n, bill |-> bill, plan |-> FALSE,
                         redeems |-> FALSE],
                  NoCoupon, {"booking", "items", "payment", "record"})
    BY <2>1
  <2>3. PICK bill \in Bills(s, 0, TaxRate) :
            Begin(q, b, [number |-> n, bill |-> bill, plan |-> FALSE,
                         redeems |-> FALSE],
                  NoCoupon, {"booking", "items", "payment", "record"})
    BY <2>2
  <2>4. s \in Nat
    BY LineAmountNat DEF IntakeAssumption
  <2>5. GoodBill(bill)
    BY <2>4, BillsGood
  <2>6. n \in Numbers
    BY DEF FreeNumbers
  <2> DEFINE row == [number |-> n, bill |-> bill, plan |-> FALSE, redeems |-> FALSE]
  <2>7. row \in Row /\ row.bill = bill
    BY <2>5, <2>6, NewRow
  <2> HIDE DEF row
  <2>8. Begin(q, b, row, NoCoupon, {"booking", "items", "payment", "record"})
    BY <2>3 DEF row
  <2>9. QED
    BY <2>5, <2>7, <2>8, BeginTypeAndBills
<1>3. CASE CreateWithCoupon(q, b)
  <2> DEFINE todo == {"booking", "items", "payment", "usage", "count", "record"}
  <2>1. PICK n \in FreeNumbers, line \in Lines : \E s \in LineAmount(line) :
          \E d \in CouponDiscount(coupon.offer, s) :
          \E bill \in Bills(s, d, TaxRate) :
            Begin(q, b, [number |-> n, bill |-> bill, plan |-> FALSE,
                         redeems |-> TRUE], NoCoupon, todo)
    BY <1>3 DEF CreateWithCoupon
  <2>2. PICK s \in LineAmount(line) : \E d \in CouponDiscount(coupon.offer, s) :
          \E bill \in Bills(s, d, TaxRate) :
            Begin(q, b, [number |-> n, bill |-> bill, plan |-> FALSE,
                         redeems |-> TRUE], NoCoupon, todo)
    BY <2>1
  <2>3. PICK d \in CouponDiscount(coupon.offer, s) :
          \E bill \in Bills(s, d, TaxRate) :
            Begin(q, b, [number |-> n, bill |-> bill, plan |-> FALSE,
                         redeems |-> TRUE], NoCoupon, todo)
    BY <2>2
  <2>4. PICK bill \in Bills(s, d, TaxRate) :
            Begin(q, b, [number |-> n, bill |-> bill, plan |-> FALSE,
                         redeems |-> TRUE], NoCoupon, todo)
    BY <2>3
  <2>5. s \in Nat
    BY LineAmountNat DEF IntakeAssumption
  <2>6. coupon.offer \in Offer
    BY <1>3 DEF CreateWithCoupon, Redeemable, TypeAndBills, TypeOK, Coupon,
       IntakeAssumption
  <2>7. GoodBill(bill)
    BY <2>5, <2>6, DiscountWithinOrder, BillsGood
  <2>8. n \in Numbers
    BY DEF FreeNumbers
  <2> DEFINE row == [number |-> n, bill |-> bill, plan |-> FALSE, redeems |-> TRUE]
  <2>9. row \in Row /\ row.bill = bill
    BY <2>7, <2>8, NewRow
  <2> HIDE DEF row
  <2>10. Begin(q, b, row, NoCoupon, todo)
    BY <2>4 DEF row
  <2>11. QED
    BY <2>7, <2>9, <2>10, BeginTypeAndBills
<1>4. CASE CreatePlan(q, b)
  <2>1. PICK n \in FreeNumbers, plan \in Plans : \E c \in PlanCharges(plan) :
          \E bill \in Bills(c.subtotal, c.discount, TaxRate) :
            Begin(q, b, [number |-> n, bill |-> bill, plan |-> TRUE,
                         redeems |-> FALSE],
                  NoCoupon, {"booking", "payment", "record"})
    BY <1>4 DEF CreatePlan
  <2>2. PICK c \in PlanCharges(plan) :
          \E bill \in Bills(c.subtotal, c.discount, TaxRate) :
            Begin(q, b, [number |-> n, bill |-> bill, plan |-> TRUE,
                         redeems |-> FALSE],
                  NoCoupon, {"booking", "payment", "record"})
    BY <2>1
  <2>3. PICK bill \in Bills(c.subtotal, c.discount, TaxRate) :
            Begin(q, b, [number |-> n, bill |-> bill, plan |-> TRUE,
                         redeems |-> FALSE],
                  NoCoupon, {"booking", "payment", "record"})
    BY <2>2
  <2>4. c.subtotal \in Nat /\ c.discount \in Nat /\ c.discount <= c.subtotal
    BY PlanChargesGood DEF IntakeAssumption
  <2>5. GoodBill(bill)
    BY <2>4, BillsGood
  <2>6. n \in Numbers
    BY DEF FreeNumbers
  <2> DEFINE row == [number |-> n, bill |-> bill, plan |-> TRUE, redeems |-> FALSE]
  <2>7. row \in Row /\ row.bill = bill
    BY <2>5, <2>6, NewRow
  <2> HIDE DEF row
  <2>8. Begin(q, b, row, NoCoupon, {"booking", "payment", "record"})
    BY <2>3 DEF row
  <2>9. QED
    BY <2>5, <2>7, <2>8, BeginTypeAndBills
<1>5. CASE EnsurePayment(q, b)
  <2>1. bookings[b] \in Row /\ GoodBill(bookings[b].bill)
    BY <1>5 DEF EnsurePayment, Placed, TypeAndBills, TypeOK, BillInv
  <2>2. Begin(q, b, bookings[b], NoCoupon, {"payment"})
    BY <1>5 DEF EnsurePayment
  <2>3. QED
    BY <2>1, <2>2, BeginTypeAndBills
<1>6. QED
  BY <1>1, <1>2, <1>3, <1>4, <1>5

LEMMA InsertTypeAndBills ==
  ASSUME TypeAndBills, IntakeAssumption, NEW q \in Requests, Insert(q)
  PROVE  TypeAndBills'
<1>0. TypeOK /\ BillInv
  BY DEF TypeAndBills
<1>1. req[q].todo \cap OrderStatement # {} /\ UNCHANGED upsets
  BY DEF Insert, InsertBooking, InsertItems, InsertPayment, InsertUsage,
     CountRedemption, RecordCreated, Turn, OrderStatement
<1>2. req[q] \in OrderRequest /\ req[q].b \in Bookings /\ req[q].row \in Row
  BY <1>0, <1>1, InFlightMemory DEF OrderRequest
<1>3. /\ req' \in [Requests -> Request \cup {NoRequest}]
      /\ \A p \in Requests : MemoryBill(p)'
  <2>1. Abort(q) \/ \E s : Done(q, s)
    BY DEF Insert, InsertBooking, InsertItems, InsertPayment, InsertUsage,
       CountRedemption, RecordCreated
  <2>2. req[q].todo # {}
    BY <1>1
  <2>3. QED
    BY <1>0, <2>1, <2>2, AbortType, DoneType
<1>4. ASSUME UNCHANGED bookings PROVE BillInv'
  BY <1>0, <1>3, <1>4 DEF BillInv, GoodBill
<1>5. CASE InsertBooking(q)
  <2>1. bookings' \in {bookings, [bookings EXCEPT ![req[q].b] = req[q].row]}
    BY <1>5 DEF InsertBooking
  <2>2. GoodBill(req[q].row.bill)
    BY <1>0, <1>1 DEF BillInv, MemoryBill
  <2>3. bookings' \in [Bookings -> Row \cup {NoRow}]
    BY <1>0, <1>2, <2>1 DEF TypeOK
  <2>4. \A b \in Bookings : bookings'[b] # NoRow => GoodBill(bookings'[b].bill)
    BY <1>0, <1>2, <2>1, <2>2 DEF TypeOK, BillInv
  <2>5. BillInv'
    BY <1>3, <2>4 DEF BillInv, GoodBill
  <2>6. TypeOK'
    BY <1>0, <1>1, <1>3, <1>5, <2>3 DEF InsertBooking, TypeOK
  <2>7. QED
    BY <2>5, <2>6 DEF TypeAndBills
<1>6. CASE InsertItems(q)
  BY <1>0, <1>1, <1>2, <1>3, <1>4, <1>6 DEF InsertItems, TypeOK, TypeAndBills
<1>7. CASE InsertPayment(q)
  BY <1>0, <1>1, <1>2, <1>3, <1>4, <1>7 DEF InsertPayment, TypeOK, TypeAndBills
<1>8. CASE InsertUsage(q)
  <2>1. usage' \subseteq Bookings
    BY <1>0, <1>2, <1>8 DEF InsertUsage, TypeOK
  <2>2. QED
    BY <1>0, <1>1, <1>3, <1>4, <1>8, <2>1
    DEF InsertUsage, TypeOK, TypeAndBills, order
<1>9. CASE CountRedemption(q)
  <2>1. coupon' \in Coupon \cup {NoCoupon}
    BY <1>0, <1>9 DEF CountRedemption, TypeOK, Coupon
  <2>2. QED
    BY <1>0, <1>1, <1>3, <1>4, <1>9, <2>1
    DEF CountRedemption, TypeOK, TypeAndBills, order
<1>10. CASE RecordCreated(q)
  BY <1>0, <1>1, <1>2, <1>3, <1>4, <1>10 DEF RecordCreated, TypeOK, TypeAndBills
<1>11. QED
  BY <1>5, <1>6, <1>7, <1>8, <1>9, <1>10 DEF Insert

LEMMA AdminTypeAndBills ==
  ASSUME TypeAndBills, IntakeAssumption, NEW q \in Requests, Admin(q)
  PROVE  TypeAndBills'
<1>0. TypeOK /\ BillInv
  BY DEF TypeAndBills
<1>1. ASSUME NEW mem \in Coupon, NEW s \in CouponStatement,
             Begin(q, NoBooking, NoRow, mem, {s})
      PROVE  TypeAndBills'
  <2>1. [b |-> NoBooking, row |-> NoRow, coupon |-> mem, dirty |-> {},
         todo |-> {s}] \in Request
    BY DEF Request, CouponRequest
  <2>2. {s} \cap OrderStatement = {}
    BY DEF CouponStatement
  <2>3. TypeOK'
    BY <1>0, <1>1, <2>1, BeginType
  <2>4. BillInv'
    BY <1>0, <1>1, <2>2, BeginBill
  <2>5. QED
    BY <2>3, <2>4 DEF TypeAndBills
<1>2. CASE EditCoupon(q)
  <2>1. coupon \in Coupon
    BY <1>0, <1>2 DEF EditCoupon, TypeOK
  <2>2. PICK active \in BOOLEAN, offer \in Offers, limit \in Limits :
          Begin(q, NoBooking, NoRow,
                [coupon EXCEPT !.active = active, !.offer = offer,
                               !.limit = limit], {"select"})
    BY <1>2 DEF EditCoupon
  <2> DEFINE mem == [coupon EXCEPT !.active = active, !.offer = offer,
                                   !.limit = limit]
  <2>3. mem \in Coupon
    BY <2>1 DEF Coupon
  <2> HIDE DEF mem
  <2>4. Begin(q, NoBooking, NoRow, mem, {"select"})
    BY <2>2 DEF mem
  <2>5. QED
    BY <1>1, <2>3, <2>4, CouponStatements
<1>3. CASE RemoveCoupon(q)
  BY <1>0, <1>1, <1>3, CouponStatements DEF RemoveCoupon, TypeOK
<1> DEFINE Works == \/ CountUsage(q) \/ DeleteCoupon(q) \/ SelectCoupon(q)
                    \/ UpdateCoupon(q) \/ ReinsertCoupon(q)
<1>4. ASSUME Works
      PROVE  /\ req[q].todo # {} /\ req[q] \in CouponRequest
             /\ UNCHANGED <<order, usage, upsets>>
  <2>1. /\ req[q].todo \cap CouponStatement # {}
        /\ UNCHANGED <<order, usage, upsets>>
    BY <1>4, CouponStatements DEF CountUsage, DeleteCoupon, SelectCoupon,
       UpdateCoupon, ReinsertCoupon, Turn
  <2>2. QED
    BY <1>0, <2>1, InFlightMemory
<1>5. ASSUME Works,
             req' \in [Requests -> Request \cup {NoRequest}],
             \A p \in Requests : MemoryBill(p)',
             coupon' \in Coupon \cup {NoCoupon}
      PROVE  TypeAndBills'
  <2>1. UNCHANGED <<order, usage, upsets>>
    BY <1>4, <1>5
  <2>2. TypeOK'
    BY <1>0, <1>5, <2>1 DEF TypeOK, order
  <2>3. BillInv'
    BY <1>0, <1>5, <2>1 DEF BillInv, GoodBill, order
  <2>4. QED
    BY <2>2, <2>3 DEF TypeAndBills
<1>6. ASSUME NEW r \in CouponRequest, Works, r.row = req[q].row, Continue(q, r)
      PROVE  /\ req' \in [Requests -> Request \cup {NoRequest}]
             /\ \A p \in Requests : MemoryBill(p)'
  <2>1. r.todo # {} /\ r.todo \cap OrderStatement = {}
    BY DEF CouponRequest, CouponStatement
  <2>2. req' = [req EXCEPT ![q] = r]
    BY <1>6, <2>1 DEF Continue
  <2>3. QED
    BY <1>0, <1>6, <2>1, <2>2, RequestsType DEF Request
<1>7. CASE CountUsage(q)
  <2>0. req[q].coupon \in Coupon
    BY <1>4, <1>7 DEF CouponRequest
  <2>1. CASE Continue(q, [req[q] EXCEPT !.todo = {"delete"}])
    <3>1. [req[q] EXCEPT !.todo = {"delete"}] \in CouponRequest
      BY <1>4, <1>7, CouponStatements DEF CouponRequest
    <3>2. [req[q] EXCEPT !.todo = {"delete"}].row = req[q].row
      BY <1>4, <1>7 DEF CouponRequest
    <3>3. QED
      BY <1>0, <1>5, <1>6, <1>7, <2>1, <3>1, <3>2 DEF CountUsage, TypeOK
  <2>2. CASE Continue(q, [req[q] EXCEPT !.todo = {"select"}, !.coupon.active = FALSE])
    <3> DEFINE r == [req[q] EXCEPT !.todo = {"select"}, !.coupon.active = FALSE]
    <3>1. [req[q].coupon EXCEPT !.active = FALSE] \in Coupon
      BY <2>0 DEF Coupon
    <3>2. r \in CouponRequest /\ r.row = req[q].row
      BY <1>4, <1>7, <3>1, CouponStatements DEF CouponRequest
    <3> HIDE DEF r
    <3>3. Continue(q, r)
      BY <2>2 DEF r
    <3>4. QED
      BY <1>0, <1>5, <1>6, <1>7, <3>2, <3>3 DEF CountUsage, TypeOK
  <2>3. CASE Abort(q)
    BY <1>0, <1>5, <1>7, <2>3, AbortType DEF CountUsage, TypeOK
  <2>4. QED
    BY <1>7, <2>1, <2>2, <2>3 DEF CountUsage
<1>8. CASE DeleteCoupon(q)
  <2>1. coupon' \in Coupon \cup {NoCoupon}
    BY <1>0, <1>8 DEF DeleteCoupon, TypeOK
  <2>2. Abort(q) \/ Done(q, "delete")
    BY <1>8 DEF DeleteCoupon
  <2>3. QED
    BY <1>0, <1>4, <1>5, <1>8, <2>1, <2>2, AbortType, DoneType
<1>9. CASE SelectCoupon(q)
  <2> DEFINE diff == {c \in Columns : coupon[c] # req[q].coupon[c]}
  <2>0. coupon' \in Coupon \cup {NoCoupon}
    BY <1>0, <1>9 DEF SelectCoupon, TypeOK
  <2>1. CASE coupon = NoCoupon
    <3>1. Continue(q, [req[q] EXCEPT !.todo = {"reinsert"}])
      BY <1>9, <2>1 DEF SelectCoupon
    <3>2. [req[q] EXCEPT !.todo = {"reinsert"}] \in CouponRequest
      BY <1>4, <1>9, CouponStatements DEF CouponRequest
    <3>3. [req[q] EXCEPT !.todo = {"reinsert"}].row = req[q].row
      BY <1>4, <1>9 DEF CouponRequest
    <3>4. QED
      BY <1>5, <1>6, <1>9, <2>0, <3>1, <3>2, <3>3
  <2>2. CASE coupon # NoCoupon /\ diff = {}
    <3>1. Continue(q, [req[q] EXCEPT !.dirty = diff, !.todo = {}])
      BY <1>9, <2>2 DEF SelectCoupon
    <3>2. [req[q] EXCEPT !.dirty = diff, !.todo = {}].todo = {}
      BY <1>4, <1>9 DEF CouponRequest
    <3>3. Abort(q)
      BY <3>1, <3>2 DEF Continue, Abort
    <3>4. QED
      BY <1>0, <1>5, <1>9, <2>0, <3>3, AbortType
  <2>3. CASE coupon # NoCoupon /\ diff # {}
    <3> DEFINE r == [req[q] EXCEPT !.dirty = diff, !.todo = {"update"}]
    <3>1. Continue(q, r)
      BY <1>9, <2>3 DEF SelectCoupon
    <3>2. diff \in SUBSET Columns
      OBVIOUS
    <3> HIDE DEF diff
    <3>3. r \in CouponRequest /\ r.row = req[q].row
      BY <1>4, <1>9, <3>2, CouponStatements DEF CouponRequest
    <3> HIDE DEF r
    <3>4. QED
      BY <1>5, <1>6, <1>9, <2>0, <3>1, <3>3
  <2>4. QED
    BY <2>1, <2>2, <2>3
<1>10. CASE UpdateCoupon(q)
  <2>1. req[q].coupon \in Coupon
    BY <1>4, <1>10 DEF CouponRequest
  <2>2. coupon' \in Coupon \cup {NoCoupon}
    BY <1>0, <1>10, <2>1 DEF UpdateCoupon, Overwrite, TypeOK, Coupon
  <2>3. QED
    BY <1>0, <1>4, <1>5, <1>10, <2>2, DoneType DEF UpdateCoupon
<1>11. CASE ReinsertCoupon(q)
  <2>1. req[q].coupon \in Coupon
    BY <1>4, <1>11 DEF CouponRequest
  <2>2. coupon' \in Coupon \cup {NoCoupon}
    BY <1>0, <1>11, <2>1 DEF ReinsertCoupon, TypeOK
  <2>3. Abort(q) \/ Done(q, "reinsert")
    BY <1>11 DEF ReinsertCoupon
  <2>4. QED
    BY <1>0, <1>4, <1>5, <1>11, <2>2, <2>3, AbortType, DoneType
<1>12. QED
  BY <1>2, <1>3, <1>7, <1>8, <1>9, <1>10, <1>11 DEF Admin

LEMMA StepTypeAndBills ==
  IntakeAssumption /\ TypeAndBills /\ [Next]_vars => TypeAndBills'
<1> SUFFICES ASSUME IntakeAssumption, TypeAndBills, [Next]_vars
             PROVE  TypeAndBills'
  OBVIOUS
<1>1. ASSUME NEW q \in Requests, Crash(q) PROVE TypeAndBills'
  <2>1. /\ req' \in [Requests -> Request \cup {NoRequest}]
        /\ \A p \in Requests : MemoryBill(p)'
    BY <1>1, AbortType DEF Crash, TypeAndBills
  <2>2. upsets' \in 0..MaxUpsets
    BY <1>1 DEF Crash, Upset, TypeAndBills, TypeOK, IntakeAssumption
  <2>3. QED
    BY <1>1, <2>1, <2>2
    DEF Crash, TypeAndBills, TypeOK, BillInv, GoodBill, order
<1>2. CASE UNCHANGED vars
  BY <1>2 DEF vars, order, TypeAndBills, TypeOK, BillInv, MemoryBill, GoodBill
<1>3. QED
  BY <1>1, <1>2, CustomerTypeAndBills, InsertTypeAndBills, AdminTypeAndBills
  DEF Next

LEMMA TypesAndBills == Spec => []TypeAndBills
<1>1. IntakeAssumption
  BY IntakeAssumption
<1>2. QED
  BY <1>1, InitTypeAndBills, StepTypeAndBills, PTL DEF Spec

\* Every reachable state of booking intake is well typed; in particular no
\* charge of a bill is ever negative.
THEOREM IntakeTypeCorrect == Spec => []TypeOK
<1>1. TypeAndBills => TypeOK
  BY DEF TypeAndBills
<1>2. QED
  BY <1>1, TypesAndBills, PTL

\* Whatever is ordered, whatever the coupon, the cook discount and the tax
\* are, and however requests interleave: no bill discounts more than the
\* order, and the total is what is left plus tax.
THEOREM BillsAlwaysAddUp == Spec => []BillsAddUp
<1>1. TypeAndBills => BillsAddUp
  BY DEF TypeAndBills, BillInv, BillsAddUp, GoodBill, Bill, Placed
<1>2. QED
  BY <1>1, TypesAndBills, PTL

-----------------------------------------------------------------------------
(* Booking numbers and the coupon's row.                                   *)

\* A number is given once, even if several requests have picked it: the
\* unique index decides.
THEOREM NumbersAlwaysDistinct == Spec => []NumbersDistinct
<1>1. Init => NumbersDistinct
  BY DEF Init, NumbersDistinct, Placed
<1>2. TypeAndBills /\ NumbersDistinct /\ [Next]_vars => NumbersDistinct'
  <2> SUFFICES ASSUME TypeAndBills, NumbersDistinct, [Next]_vars
               PROVE  NumbersDistinct'
    OBVIOUS
  <2>1. ASSUME UNCHANGED bookings PROVE NumbersDistinct'
    BY <2>1 DEF NumbersDistinct, Placed
  <2>2. ASSUME NEW q \in Requests, InsertBooking(q) PROVE NumbersDistinct'
    <3>1. CASE req[q].row.number \in FreeNumbers /\ ~UNCHANGED bookings
      <4>1. bookings' = [bookings EXCEPT ![req[q].b] = req[q].row]
        BY <2>2, <3>1 DEF InsertBooking
      <4>2. \A b \in Placed : bookings[b].number # req[q].row.number
        BY <3>1 DEF FreeNumbers
      <4>3. bookings \in [Bookings -> Row \cup {NoRow}]
        BY DEF TypeAndBills, TypeOK
      <4>4. QED
        BY <4>1, <4>2, <4>3 DEF NumbersDistinct, Placed
    <3>2. QED
      BY <2>1, <2>2, <3>1 DEF InsertBooking
  <2>3. ASSUME NEW q \in Requests, Customer(q) \/ Admin(q) \/ Crash(q)
        PROVE  NumbersDistinct'
    BY <2>1, <2>3 DEF Customer, Create, CreateWithCoupon, CreatePlan,
       EnsurePayment, Begin, Admin, EditCoupon, RemoveCoupon, CountUsage,
       DeleteCoupon, SelectCoupon, UpdateCoupon, ReinsertCoupon, Crash, order
  <2>4. ASSUME NEW q \in Requests, Insert(q) PROVE NumbersDistinct'
    BY <2>1, <2>2, <2>4 DEF Insert, InsertItems, InsertPayment, InsertUsage,
       CountRedemption, RecordCreated, order
  <2>5. QED
    BY <2>1, <2>3, <2>4 DEF Next, vars, order
<1>3. QED
  BY <1>1, <1>2, TypesAndBills, PTL DEF Spec

\* No interleaving of a create with a remove and with edits of the coupon
\* leaves a redemption without its coupon.
THEOREM RedeemedCouponAlwaysKept == Spec => []RedeemedCouponKept
<1>1. Init => RedeemedCouponKept
  BY DEF Init, RedeemedCouponKept
<1>2. NoneAssumption /\ TypeAndBills /\ TypeAndBills' /\ RedeemedCouponKept
        /\ [Next]_vars => RedeemedCouponKept'
  <2> SUFFICES ASSUME NoneAssumption, TypeAndBills, TypeAndBills',
                      RedeemedCouponKept, [Next]_vars
               PROVE  RedeemedCouponKept'
    OBVIOUS
  <2>1. ASSUME UNCHANGED <<coupon, usage>> PROVE RedeemedCouponKept'
    BY <2>1 DEF RedeemedCouponKept
  <2>2. ASSUME NEW q \in Requests, CountRedemption(q) PROVE RedeemedCouponKept'
    <3>1. coupon \in Coupon => [coupon EXCEPT !.used = @ + 1] \in Coupon
      BY DEF Coupon
    <3>2. QED
      BY <2>2, <3>1
      DEF CountRedemption, RedeemedCouponKept, NoneAssumption, TypeAndBills, TypeOK
  <2>3. ASSUME NEW q \in Requests, UpdateCoupon(q) PROVE RedeemedCouponKept'
    <3>1. req[q].coupon \in Coupon
      BY <2>3, InFlightMemory, CouponStatements
      DEF UpdateCoupon, Turn, TypeAndBills, CouponRequest
    <3>2. coupon \in Coupon => Overwrite(coupon, req[q].coupon, req[q].dirty) \in Coupon
      BY <3>1 DEF Overwrite, Coupon
    <3>3. QED
      BY <2>3, <3>2
      DEF UpdateCoupon, RedeemedCouponKept, NoneAssumption, TypeAndBills, TypeOK
  <2>4. ASSUME NEW q \in Requests,
               InsertUsage(q) \/ DeleteCoupon(q) \/ ReinsertCoupon(q)
        PROVE  RedeemedCouponKept'
    <3>1. CASE InsertUsage(q)
      BY <3>1 DEF InsertUsage, RedeemedCouponKept
    <3>2. CASE DeleteCoupon(q)
      BY <3>2 DEF DeleteCoupon, RedeemedCouponKept
    <3>3. CASE ReinsertCoupon(q)
      <4>1. req[q].coupon \in Coupon
        BY <3>3, InFlightMemory, CouponStatements
        DEF ReinsertCoupon, Turn, TypeAndBills, CouponRequest
      <4>2. QED
        BY <3>3, <4>1 DEF ReinsertCoupon, RedeemedCouponKept, NoneAssumption
    <3>4. QED
      BY <2>4, <3>1, <3>2, <3>3
  <2>5. ASSUME NEW q \in Requests, Customer(q) \/ Crash(q) PROVE RedeemedCouponKept'
    BY <2>1, <2>5 DEF Customer, Create, CreateWithCoupon, CreatePlan,
       EnsurePayment, Begin, Crash
  <2>6. ASSUME NEW q \in Requests, Insert(q) PROVE RedeemedCouponKept'
    BY <2>1, <2>2, <2>4, <2>6 DEF Insert, InsertBooking, InsertItems,
       InsertPayment, RecordCreated
  <2>7. ASSUME NEW q \in Requests, Admin(q) PROVE RedeemedCouponKept'
    BY <2>1, <2>3, <2>4, <2>7 DEF Admin, EditCoupon, RemoveCoupon, Begin,
       CountUsage, SelectCoupon
  <2>8. QED
    BY <2>1, <2>5, <2>6, <2>7 DEF Next, vars
<1>3. NoneAssumption
  BY NoneAssumption
<1>4. QED
  BY <1>1, <1>2, <1>3, TypesAndBills, PTL DEF Spec

-----------------------------------------------------------------------------
(* The order in which create writes.                                       *)

\* What a statement of request q does to the requests.
LEMMA DoneEffect ==
  ASSUME TypeOK, NEW q \in Requests, req[q].todo # {}, NEW s, Done(q, s)
  PROVE  /\ \A p \in Requests : p # q => req'[p] = req[p]
         /\ req'[q].todo = req[q].todo \ {s}
         /\ req'[q].todo # {} => /\ req'[q].b = req[q].b
                                /\ req'[q].row = req[q].row
                                /\ req'[q].coupon = req[q].coupon
<1> DEFINE r == [req[q] EXCEPT !.todo = @ \ {s}]
<1>1. req' = [req EXCEPT ![q] = IF r.todo = {} THEN NoRequest ELSE r]
  BY DEF Done, Continue
<1>2. req[q] \in OrderRequest \/ req[q] \in CouponRequest
  BY InFlightMemory DEF Request
<1>3. /\ r.todo = req[q].todo \ {s} /\ r.row = req[q].row
      /\ r.b = req[q].b /\ r.coupon = req[q].coupon
  BY <1>2 DEF OrderRequest, CouponRequest
<1>4. NoRequest.todo = {}
  BY DEF NoRequest
<1> HIDE DEF r
<1>5. QED
  BY <1>1, <1>3, <1>4 DEF TypeOK

LEMMA AbortEffect ==
  ASSUME TypeOK, NEW q \in Requests, Abort(q)
  PROVE  /\ \A p \in Requests : p # q => req'[p] = req[p]
         /\ req'[q].todo = {}
BY DEF Abort, TypeOK, NoRequest

LEMMA BeginEffect ==
  ASSUME TypeOK, NEW q \in Requests, NEW b, NEW row, NEW mem, NEW todo,
         Begin(q, b, row, mem, todo)
  PROVE  /\ \A p \in Requests : p # q => req'[p] = req[p]
         /\ req[q].todo = {}
         /\ req'[q].todo = todo /\ req'[q].b = b /\ req'[q].row = row
         /\ req'[q].coupon = mem
BY DEF Begin, TypeOK, InFlight

\* A creating request is not disturbed by steps of others that leave its own
\* booking alone.
LEMMA CreatorKeeps ==
  ASSUME TypeOK, NEW p \in Requests, CreateInv(p), req'[p] = req[p],
         items \subseteq items',
         Creating(p) => /\ bookings'[req[p].b] = bookings[req[p].b]
                        /\ payments[req[p].b] > 0 => payments'[req[p].b] > 0
                        /\ req[p].b \in usage' <=> req[p].b \in usage
  PROVE  CreateInv(p)'
BY DEF CreateInv, Creating, Placed

\* Requests that do not create need nothing.
LEMMA NoCreator ==
  ASSUME NEW q \in Requests,
         req'[q].todo \cap {"booking", "items", "usage", "count", "record"} = {}
  PROVE  CreateInv(q)' /\ ~Creating(q)'
BY DEF CreateInv, Creating

\* No new creator, no new pair of creators.
LEMMA OneCreatorKeeps ==
  ASSUME OneCreator, NEW q \in Requests,
         \A p \in Requests : p # q => req'[p] = req[p],
         Creating(q)' => Creating(q) /\ req'[q].b = req[q].b
  PROVE  OneCreator'
BY DEF OneCreator, Creating

\* A handler that creates nothing.
LEMMA QuietBegin ==
  ASSUME TypeOK, IntakeInv, NEW q \in Requests, NEW b, NEW row, NEW mem, NEW todo,
         Begin(q, b, row, mem, todo),
         todo \cap {"booking", "items", "usage", "count", "record"} = {}
  PROVE  IntakeInv'
<1>1. UNCHANGED <<bookings, items, payments, logged, usage>>
  BY DEF Begin, order
<1>2. CreateInv(q)' /\ ~Creating(q)'
  BY BeginEffect, NoCreator
<1>3. \A p \in Requests : CreateInv(p)'
  <2>1. ASSUME NEW p \in Requests, p # q PROVE CreateInv(p)'
    BY <1>1, <2>1, BeginEffect, CreatorKeeps DEF IntakeInv
  <2>2. QED
    BY <1>2, <2>1
<1>4. OneCreator'
  BY <1>2, BeginEffect, OneCreatorKeeps DEF IntakeInv
<1>5. QED
  BY <1>1, <1>3, <1>4 DEF IntakeInv, HistoryMeansComplete, Placed

\* A handler that creates booking b.
LEMMA CreateBegin ==
  ASSUME TypeOK, IntakeInv, NEW q \in Requests, NEW b \in Bookings, Fresh(b),
         NEW row \in Row, NEW todo,
         Begin(q, b, row, NoCoupon, todo),
         {"booking", "payment", "record"} \subseteq todo,
         "items" \in todo \/ row.plan,
         "usage" \in todo \/ ~row.redeems
  PROVE  IntakeInv'
<1>1. UNCHANGED <<bookings, items, payments, logged, usage>>
  BY DEF Begin, order
<1>2. b \notin Placed /\ \A p \in Requests : Creating(p) => req[p].b # b
  BY DEF Fresh, Holds, InFlight, Creating
<1>3. CreateInv(q)'
  BY <1>1, <1>2, BeginEffect DEF IntakeInv, CreateInv, Creating, Placed
<1>4. \A p \in Requests : CreateInv(p)'
  <2>1. ASSUME NEW p \in Requests, p # q PROVE CreateInv(p)'
    BY <1>1, <2>1, BeginEffect, CreatorKeeps DEF IntakeInv
  <2>2. QED
    BY <1>3, <2>1
<1>5. OneCreator'
  BY <1>2, BeginEffect DEF IntakeInv, OneCreator, Creating
<1>6. QED
  BY <1>1, <1>4, <1>5 DEF IntakeInv, HistoryMeansComplete, Placed

LEMMA CustomerIntake ==
  ASSUME TypeAndBills, TypeAndBills', IntakeInv, NEW q \in Requests, Customer(q)
  PROVE  IntakeInv'
<1>0. TypeOK /\ TypeOK'
  BY DEF TypeAndBills
<1>1. PICK b \in Bookings : Create(q, b) \/ CreateWithCoupon(q, b)
                            \/ CreatePlan(q, b) \/ EnsurePayment(q, b)
  BY DEF Customer
<1>2. ASSUME NEW row, NEW todo \in SUBSET OrderStatement, todo # {},
             Begin(q, b, row, NoCoupon, todo)
      PROVE  row \in Row
  <2>1. req'[q].todo = todo /\ req'[q].row = row
    BY <1>0, <1>2, BeginEffect
  <2>2. req'[q] \in OrderRequest
    BY <1>0, <1>2, <2>1 DEF TypeOK, Request, CouponRequest, CouponStatement, NoRequest
  <2>3. QED
    BY <2>1, <2>2 DEF OrderRequest
<1>3. CASE Create(q, b)
  <2>1. PICK n, bill :
          Begin(q, b, [number |-> n, bill |-> bill, plan |-> FALSE,
                       redeems |-> FALSE],
                NoCoupon, {"booking", "items", "payment", "record"})
    BY <1>3 DEF Create, FreeNumbers
  <2> DEFINE row == [number |-> n, bill |-> bill, plan |-> FALSE, redeems |-> FALSE]
  <2>2. row \in Row
    BY <1>2, <2>1 DEF OrderStatement
  <2>3. ~row.redeems
    OBVIOUS
  <2> HIDE DEF row
  <2>4. Begin(q, b, row, NoCoupon, {"booking", "items", "payment", "record"})
    BY <2>1 DEF row
  <2>5. QED
    BY <1>0, <1>3, <2>2, <2>3, <2>4, CreateBegin DEF Create
<1>4. CASE CreateWithCoupon(q, b)
  <2> DEFINE todo == {"booking", "items", "payment", "usage", "count", "record"}
  <2>1. PICK n, bill :
          Begin(q, b, [number |-> n, bill |-> bill, plan |-> FALSE,
                       redeems |-> TRUE], NoCoupon, todo)
    BY <1>4 DEF CreateWithCoupon, FreeNumbers
  <2> DEFINE row == [number |-> n, bill |-> bill, plan |-> FALSE, redeems |-> TRUE]
  <2>2. row \in Row
    BY <1>2, <2>1 DEF OrderStatement
  <2> HIDE DEF row
  <2>3. Begin(q, b, row, NoCoupon, todo)
    BY <2>1 DEF row
  <2>4. QED
    BY <1>0, <1>4, <2>2, <2>3, CreateBegin DEF CreateWithCoupon
<1>5. CASE CreatePlan(q, b)
  <2>1. PICK n, bill :
          Begin(q, b, [number |-> n, bill |-> bill, plan |-> TRUE,
                       redeems |-> FALSE],
                NoCoupon, {"booking", "payment", "record"})
    BY <1>5 DEF CreatePlan, FreeNumbers
  <2> DEFINE row == [number |-> n, bill |-> bill, plan |-> TRUE, redeems |-> FALSE]
  <2>2. row \in Row
    BY <1>2, <2>1 DEF OrderStatement
  <2>3. row.plan /\ ~row.redeems
    OBVIOUS
  <2> HIDE DEF row
  <2>4. Begin(q, b, row, NoCoupon, {"booking", "payment", "record"})
    BY <2>1 DEF row
  <2>5. QED
    BY <1>0, <1>5, <2>2, <2>3, <2>4, CreateBegin DEF CreatePlan
<1>6. CASE EnsurePayment(q, b)
  BY <1>0, <1>6, QuietBegin DEF EnsurePayment
<1>7. QED
  BY <1>1, <1>3, <1>4, <1>5, <1>6

\* A statement of a creating request, and what it must leave behind.
LEMMA InsertIntake ==
  ASSUME NoneAssumption, TypeAndBills, IntakeInv, NEW q \in Requests, Insert(q)
  PROVE  IntakeInv'
<1>0. TypeOK /\ CreateInv(q) /\ OneCreator
  BY DEF TypeAndBills, IntakeInv
<1> DEFINE r == req[q]
<1>1. r.todo # {} /\ r.b \in Bookings /\ r.row \in Row
  <2>1. r.todo \cap OrderStatement # {}
    BY DEF Insert, InsertBooking, InsertItems, InsertPayment, InsertUsage,
       CountRedemption, RecordCreated, Turn, OrderStatement
  <2>2. QED
    BY <1>0, <2>1, InFlightMemory DEF OrderRequest
<1>2. ASSUME Abort(q), UNCHANGED <<bookings, items, payments, logged, usage>>
      PROVE  IntakeInv'
  <2>1. CreateInv(q)' /\ ~Creating(q)'
    BY <1>0, <1>2, AbortEffect, NoCreator
  <2>2. \A p \in Requests : CreateInv(p)'
    <3>1. ASSUME NEW p \in Requests, p # q PROVE CreateInv(p)'
      BY <1>0, <1>2, <3>1, AbortEffect, CreatorKeeps DEF IntakeInv
    <3>2. QED
      BY <2>1, <3>1
  <2>3. OneCreator'
    BY <1>0, <1>2, <2>1, AbortEffect, OneCreatorKeeps
  <2>4. QED
    BY <1>2, <2>2, <2>3 DEF IntakeInv, HistoryMeansComplete, Placed
<1>3. ASSUME NEW s, Done(q, s)
      PROVE  /\ \A p \in Requests : p # q => req'[p] = req[p]
             /\ req'[q].todo = r.todo \ {s}
             /\ req'[q].todo # {} => req'[q].b = r.b /\ req'[q].row = r.row
             /\ OneCreator'
  <2>1. /\ \A p \in Requests : p # q => req'[p] = req[p]
        /\ req'[q].todo = r.todo \ {s}
        /\ req'[q].todo # {} => req'[q].b = r.b /\ req'[q].row = r.row
    BY <1>0, <1>1, <1>3, DoneEffect
  <2>2. Creating(q)' => Creating(q) /\ req'[q].b = r.b
    BY <2>1 DEF Creating
  <2>3. QED
    BY <1>0, <2>1, <2>2, OneCreatorKeeps
<1>4. ASSUME NEW p \in Requests, p # q, Creating(p), Creating(q)
      PROVE  req[p].b # r.b
  BY <1>0, <1>4 DEF OneCreator
<1>5. CASE InsertBooking(q)
  <2>1. CASE Abort(q) /\ UNCHANGED bookings
    BY <1>2, <1>5, <2>1 DEF InsertBooking
  <2>2. CASE Done(q, "booking") /\ bookings' = [bookings EXCEPT ![r.b] = r.row]
    <3>1. "booking" \in r.todo /\ Creating(q) /\ r.b \notin Placed
      BY <1>0, <1>5 DEF InsertBooking, Turn, CreateInv
    <3>2. /\ bookings'[r.b] = r.row
          /\ \A b \in Bookings : b # r.b => bookings'[b] = bookings[b]
      BY <1>0, <1>1, <2>2 DEF TypeOK
    <3>3. UNCHANGED <<items, payments, logged, usage>>
      BY <1>5 DEF InsertBooking
    <3>4. ASSUME NEW p \in Requests, p # q PROVE CreateInv(p)'
      <4>1. Creating(p) => req[p].b \in Bookings /\ req[p].b # r.b
        BY <1>4, <3>1, <3>4 DEF IntakeInv, CreateInv
      <4>2. QED
        BY <1>0, <1>3, <2>2, <3>2, <3>3, <3>4, <4>1, CreatorKeeps DEF IntakeInv
    <3>5. CreateInv(q)'
      BY <1>0, <1>1, <1>3, <2>2, <3>1, <3>2, <3>3 DEF CreateInv, Creating
    <3>6. Placed \subseteq Placed' /\ (usage' \subseteq Placed') /\ (logged' \subseteq Placed')
      BY <1>1, <3>1, <3>2, <3>3 DEF Placed, NoneAssumption, IntakeInv
    <3>7. HistoryMeansComplete'
      <4>1. \A b \in logged' : bookings'[b] = bookings[b]
        BY <3>1, <3>2, <3>3 DEF IntakeInv, Placed
      <4>2. QED
        BY <3>3, <4>1 DEF IntakeInv, HistoryMeansComplete
    <3>8. QED
      BY <1>3, <2>2, <3>4, <3>5, <3>6, <3>7 DEF IntakeInv
  <2>3. QED
    BY <1>5, <2>1, <2>2 DEF InsertBooking
<1>6. CASE InsertItems(q)
  <2>1. Done(q, "items") /\ items' = items \cup {r.b}
        /\ UNCHANGED <<bookings, payments, logged, usage>>
    BY <1>6 DEF InsertItems
  <2>2. \A p \in Requests : p # q => CreateInv(p)'
    BY <1>0, <1>3, <2>1, CreatorKeeps DEF IntakeInv
  <2>3. CreateInv(q)'
    BY <1>0, <1>3, <2>1 DEF CreateInv, Creating, Placed
  <2>4. QED
    BY <1>3, <2>1, <2>2, <2>3 DEF IntakeInv, HistoryMeansComplete, Placed
<1>7. CASE InsertPayment(q)
  <2>1. Done(q, "payment") /\ payments' = [payments EXCEPT ![r.b] = @ + 1]
        /\ UNCHANGED <<bookings, items, logged, usage>>
    BY <1>7 DEF InsertPayment
  <2>2. \A b \in Bookings : /\ payments[b] > 0 => payments'[b] > 0
                            /\ b = r.b => payments'[b] > 0
    BY <1>0, <1>1, <2>1 DEF TypeOK
  <2>3. ASSUME NEW p \in Requests, p # q PROVE CreateInv(p)'
    <3>1. Creating(p) => req[p].b \in Bookings
      BY DEF IntakeInv, CreateInv
    <3>2. QED
      BY <1>0, <1>3, <2>1, <2>2, <2>3, <3>1, CreatorKeeps DEF IntakeInv
  <2>4. CreateInv(q)'
    BY <1>0, <1>1, <1>3, <2>1, <2>2 DEF CreateInv, Creating, Placed
  <2>5. HistoryMeansComplete'
    <3>1. logged \subseteq Bookings
      BY <1>0 DEF TypeOK
    <3>2. QED
      BY <2>1, <2>2, <3>1 DEF IntakeInv, HistoryMeansComplete
  <2>6. QED
    BY <1>3, <2>1, <2>3, <2>4, <2>5 DEF IntakeInv, Placed
<1>8. CASE InsertUsage(q)
  <2>1. CASE Abort(q) /\ UNCHANGED usage
    BY <1>2, <1>8, <2>1 DEF InsertUsage, order
  <2>2. CASE Done(q, "usage") /\ usage' = usage \cup {r.b}
    <3>1. UNCHANGED <<bookings, items, payments, logged>>
      BY <1>8 DEF InsertUsage, order
    <3>2. "usage" \in r.todo /\ "booking" \notin r.todo /\ Creating(q)
      BY <1>0, <1>8 DEF InsertUsage, Turn, Rank, CreateInv
    <3>3. r.b \in Placed
      BY <1>0, <1>1, <3>2 DEF CreateInv, Placed, NoneAssumption
    <3>4. ASSUME NEW p \in Requests, p # q PROVE CreateInv(p)'
      BY <1>0, <1>3, <1>4, <2>2, <3>1, <3>2, <3>4, CreatorKeeps DEF IntakeInv
    <3>5. CreateInv(q)'
      BY <1>0, <1>3, <2>2, <3>1 DEF CreateInv, Creating, Placed
    <3>6. QED
      BY <1>3, <2>2, <3>1, <3>3, <3>4, <3>5
      DEF IntakeInv, HistoryMeansComplete, Placed
  <2>3. QED
    BY <1>8, <2>1, <2>2 DEF InsertUsage
<1>9. CASE CountRedemption(q)
  <2>1. Done(q, "count") /\ UNCHANGED <<bookings, items, payments, logged, usage>>
    BY <1>9 DEF CountRedemption, order
  <2>2. \A p \in Requests : p # q => CreateInv(p)'
    BY <1>0, <1>3, <2>1, CreatorKeeps DEF IntakeInv
  <2>3. CreateInv(q)'
    BY <1>0, <1>3, <2>1 DEF CreateInv, Creating, Placed
  <2>4. QED
    BY <1>3, <2>1, <2>2, <2>3 DEF IntakeInv, HistoryMeansComplete, Placed
<1>10. CASE RecordCreated(q)
  <2>1. Done(q, "record") /\ logged' = logged \cup {r.b}
        /\ UNCHANGED <<bookings, items, payments, usage>>
    BY <1>10 DEF RecordCreated
  <2>2. /\ "record" \in r.todo
        /\ r.todo \cap {"booking", "items", "payment", "usage", "count"} = {}
    BY <1>10 DEF RecordCreated, Turn, Rank
  <2>3. bookings[r.b] = r.row /\ r.b \in Placed /\ payments[r.b] > 0
        /\ (r.row.plan \/ r.b \in items) /\ (r.row.redeems => r.b \in usage)
    BY <1>0, <1>1, <2>2 DEF CreateInv, Creating, Placed, NoneAssumption
  <2>4. CreateInv(q)'
    BY <1>3, <2>1, <2>2, NoCreator
  <2>5. \A p \in Requests : p # q => CreateInv(p)'
    BY <1>0, <1>3, <2>1, CreatorKeeps DEF IntakeInv
  <2>6. HistoryMeansComplete'
    BY <2>1, <2>3 DEF IntakeInv, HistoryMeansComplete
  <2>7. QED
    BY <1>3, <2>1, <2>3, <2>4, <2>5, <2>6 DEF IntakeInv, Placed
<1>11. QED
  BY <1>5, <1>6, <1>7, <1>8, <1>9, <1>10 DEF Insert

\* An admin's statements, and a death, leave the orders alone.
LEMMA AdminIntake ==
  ASSUME TypeAndBills, TypeAndBills', IntakeInv, NEW q \in Requests,
         Admin(q) \/ Crash(q)
  PROVE  IntakeInv'
<1>0. TypeOK /\ TypeOK'
  BY DEF TypeAndBills
<1>1. ASSUME \A p \in Requests : p # q => req'[p] = req[p],
             req'[q].todo \cap {"booking", "items", "usage", "count", "record"} = {},
             UNCHANGED <<bookings, items, payments, logged, usage>>
      PROVE  IntakeInv'
  <2>1. CreateInv(q)' /\ ~Creating(q)'
    BY <1>1, NoCreator
  <2>2. \A p \in Requests : p # q => CreateInv(p)'
    BY <1>0, <1>1, CreatorKeeps DEF IntakeInv
  <2>3. OneCreator'
    BY <1>1, <2>1, OneCreatorKeeps DEF IntakeInv
  <2>4. QED
    BY <1>1, <2>1, <2>2, <2>3 DEF IntakeInv, HistoryMeansComplete, Placed
<1>2. CASE EditCoupon(q) \/ RemoveCoupon(q)
  BY <1>0, <1>2, QuietBegin DEF EditCoupon, RemoveCoupon
<1>3. CASE Crash(q)
  BY <1>0, <1>1, <1>3, AbortEffect DEF Crash, order
<1>4. CASE \/ CountUsage(q) \/ DeleteCoupon(q) \/ SelectCoupon(q)
           \/ UpdateCoupon(q) \/ ReinsertCoupon(q)
  <2>1. /\ UNCHANGED <<bookings, items, payments, logged, usage>>
        /\ \E t : req' = [req EXCEPT ![q] = t]
        /\ req[q].todo \cap CouponStatement # {}
    BY <1>4, CouponStatements DEF CountUsage, DeleteCoupon, SelectCoupon, UpdateCoupon,
       ReinsertCoupon, Turn, Continue, Done, Abort, order
  <2>2. \A p \in Requests : p # q => req'[p] = req[p]
    BY <1>0, <2>1 DEF TypeOK
  <2>3. req[q] \in CouponRequest
    BY <1>0, <2>1, InFlightMemory
  <2>4. req'[q].todo \subseteq CouponStatement
    <3>1. ASSUME NEW t, Continue(q, t), t.todo \subseteq CouponStatement
          PROVE  req'[q].todo \subseteq CouponStatement
      BY <1>0, <3>1 DEF Continue, TypeOK, NoRequest
    <3>2. ASSUME Abort(q) \/ \E s : Done(q, s)
          PROVE  req'[q].todo \subseteq CouponStatement
      BY <1>0, <2>3, <3>2, AbortEffect, DoneEffect DEF CouponRequest
    <3>3. CASE DeleteCoupon(q) \/ UpdateCoupon(q) \/ ReinsertCoupon(q)
      BY <3>2, <3>3 DEF DeleteCoupon, UpdateCoupon, ReinsertCoupon
    <3>4. CASE CountUsage(q)
      <4>1. [req[q] EXCEPT !.todo = {"delete"}].todo = {"delete"}
        BY <2>3 DEF CouponRequest
      <4>2. [req[q] EXCEPT !.todo = {"select"}, !.coupon.active = FALSE].todo = {"select"}
        BY <2>3 DEF CouponRequest
      <4>3. QED
        BY <3>1, <3>2, <3>4, <4>1, <4>2, CouponStatements DEF CountUsage
    <3>5. CASE SelectCoupon(q)
      <4> DEFINE diff == {c \in Columns : coupon[c] # req[q].coupon[c]}
                 todo == IF diff = {} THEN {} ELSE {"update"}
      <4>1. \/ Continue(q, [req[q] EXCEPT !.todo = {"reinsert"}])
            \/ Continue(q, [req[q] EXCEPT !.dirty = diff, !.todo = todo])
        BY <3>5 DEF SelectCoupon
      <4>2. [req[q] EXCEPT !.todo = {"reinsert"}].todo = {"reinsert"}
        BY <2>3 DEF CouponRequest
      <4>3. todo \subseteq CouponStatement
        BY CouponStatements
      <4> HIDE DEF diff, todo
      <4>4. [req[q] EXCEPT !.dirty = diff, !.todo = todo].todo = todo
        BY <2>3 DEF CouponRequest
      <4>5. QED
        BY <3>1, <4>1, <4>2, <4>3, <4>4, CouponStatements
    <3>6. QED
      BY <1>4, <3>3, <3>4, <3>5
  <2>5. QED
    BY <1>1, <2>1, <2>2, <2>4, CouponStatements
<1>5. QED
  BY <1>2, <1>3, <1>4 DEF Admin

LEMMA IntakeInvariant == Spec => [](TypeAndBills /\ IntakeInv)
<1>1. Init => IntakeInv
  BY DEF Init, IntakeInv, CreateInv, OneCreator, Creating, HistoryMeansComplete,
     NoRequest, Placed
<1>2. NoneAssumption /\ TypeAndBills /\ TypeAndBills' /\ IntakeInv /\ [Next]_vars
        => IntakeInv'
  <2> SUFFICES ASSUME NoneAssumption, TypeAndBills, TypeAndBills', IntakeInv,
                      [Next]_vars
               PROVE  IntakeInv'
    OBVIOUS
  <2>1. CASE UNCHANGED vars
    BY <2>1 DEF vars, order, IntakeInv, CreateInv, OneCreator, Creating,
       HistoryMeansComplete, Placed
  <2>2. QED
    BY <2>1, CustomerIntake, InsertIntake, AdminIntake DEF Next
<1>3. NoneAssumption
  BY NoneAssumption
<1>4. QED
  BY <1>1, <1>2, <1>3, TypesAndBills, PTL DEF Spec

\* The booking's first history row is proof of a complete booking, whichever
\* request died and whichever payment or coupon request came in between.
THEOREM HistoryAlwaysMeansComplete == Spec => []HistoryMeansComplete
<1>1. IntakeInv => HistoryMeansComplete
  BY DEF IntakeInv
<1>2. QED
  BY <1>1, IntakeInvariant, PTL

-----------------------------------------------------------------------------
(* The coupon's counter.                                                   *)

LEMMA PendingFinite ==
  ASSUME IntakeAssumption, TypeOK
  PROVE  /\ IsFiniteSet(Pending) /\ Cardinality(Pending) \in Nat
         /\ IsFiniteSet(usage) /\ Cardinality(usage) \in Nat
BY FS_Subset, FS_CardinalityType DEF IntakeAssumption, TypeOK, Pending

\* A counter that is copied leaves as much room as the one it is copied from.
CopiedFrom(u) ==
  \/ coupon # NoCoupon /\ u = coupon.used
  \/ \E p \in Requests : InFlight(p) /\ req[p].coupon # NoCoupon /\ u = req[p].coupon.used

LEMMA CountKeeps ==
  ASSUME IntakeAssumption, TypeOK, TypeOK', CountInv,
         usage' = usage, Pending' \subseteq Pending,
         coupon' # NoCoupon => CopiedFrom(coupon'.used),
         \A p \in Requests : req'[p].todo # {} /\ req'[p].coupon # NoCoupon =>
                             CopiedFrom(req'[p].coupon.used)
  PROVE  CountInv'
<1>1. Cardinality(Pending') <= Cardinality(Pending)
  BY PendingFinite, FS_Subset
<1>2. /\ Cardinality(Pending) \in Nat /\ Cardinality(Pending') \in Nat
      /\ Cardinality(usage) \in Nat
  BY PendingFinite, FS_Subset, FS_CardinalityType
<1>3. /\ coupon # NoCoupon => coupon.used \in Nat
      /\ \A p \in Requests : InFlight(p) /\ req[p].coupon # NoCoupon =>
           req[p].coupon.used \in Nat
  <2>1. ASSUME NEW p \in Requests, InFlight(p), req[p].coupon # NoCoupon
        PROVE  req[p].coupon.used \in Nat
    BY <2>1, InFlightMemory DEF InFlight, Request, OrderRequest, CouponRequest, Coupon
  <2>2. QED
    BY <2>1 DEF TypeOK, Coupon
<1>4. ASSUME NEW u, CopiedFrom(u)
      PROVE  u + Cardinality(Pending') <= Cardinality(usage')
  <2>1. u \in Nat /\ u + Cardinality(Pending) <= Cardinality(usage)
    BY <1>3, <1>4 DEF CopiedFrom, CountInv
  <2>2. QED
    BY <1>1, <1>2, <2>1
<1>5. QED
  BY <1>4 DEF CountInv, InFlight

\* A handler begins with the counter it has read, or without one.
LEMMA BeginCount ==
  ASSUME IntakeAssumption, TypeOK, TypeOK', CountInv, NEW q \in Requests,
         NEW b, NEW row, NEW mem, NEW todo, Begin(q, b, row, mem, todo),
         mem # NoCoupon => coupon # NoCoupon /\ mem.used = coupon.used,
         "count" \in todo => "usage" \in todo
  PROVE  CountInv'
<1>1. UNCHANGED <<coupon, usage>>
  BY DEF Begin
<1>2. Pending' \subseteq Pending
  BY BeginEffect DEF Pending
<1>3. ASSUME NEW p \in Requests, req'[p].todo # {}, req'[p].coupon # NoCoupon
      PROVE  CopiedFrom(req'[p].coupon.used)
  <2>1. CASE p = q
    BY <1>3, <2>1, BeginEffect DEF CopiedFrom
  <2>2. CASE p # q
    BY <1>3, <2>2, BeginEffect DEF CopiedFrom, InFlight
  <2>3. QED
    BY <2>1, <2>2
<1>4. coupon' # NoCoupon => CopiedFrom(coupon'.used)
  BY <1>1 DEF CopiedFrom
<1>5. QED
  BY <1>1, <1>2, <1>3, <1>4, CountKeeps

\* A statement that neither inserts usage nor counts.
LEMMA QuietCount ==
  ASSUME IntakeAssumption, TypeOK, TypeOK', CountInv, NEW q \in Requests,
         \A p \in Requests : p # q => req'[p] = req[p],
         req[q].todo # {},
         req'[q].todo # {} /\ req'[q].coupon # NoCoupon =>
           /\ req[q].coupon # NoCoupon
           /\ req'[q].coupon.used = req[q].coupon.used,
         "count" \in req'[q].todo =>
           "count" \in req[q].todo /\ ("usage" \in req[q].todo => "usage" \in req'[q].todo),
         usage' = usage,
         coupon' # NoCoupon => CopiedFrom(coupon'.used)
  PROVE  CountInv'
<1>1. Pending' \subseteq Pending
  BY DEF Pending
<1>2. ASSUME NEW p \in Requests, req'[p].todo # {}, req'[p].coupon # NoCoupon
      PROVE  CopiedFrom(req'[p].coupon.used)
  <2>1. CASE p = q
    BY <1>2, <2>1 DEF CopiedFrom, InFlight
  <2>2. CASE p # q
    BY <1>2, <2>2 DEF CopiedFrom, InFlight
  <2>3. QED
    BY <2>1, <2>2
<1>3. QED
  BY <1>1, <1>2, CountKeeps

LEMMA CustomerCount ==
  ASSUME IntakeAssumption, TypeOK, TypeOK', CountInv, NEW q \in Requests, Customer(q)
  PROVE  CountInv'
<1>1. PICK b \in Bookings : Create(q, b) \/ CreateWithCoupon(q, b)
                            \/ CreatePlan(q, b) \/ EnsurePayment(q, b)
  BY DEF Customer
<1>2. ASSUME NEW row, NEW todo, Begin(q, b, row, NoCoupon, todo),
             "count" \in todo => "usage" \in todo
      PROVE  CountInv'
  BY <1>2, BeginCount
<1>3. CASE Create(q, b)
  <2>1. PICK row : Begin(q, b, row, NoCoupon, {"booking", "items", "payment", "record"})
    BY <1>3 DEF Create
  <2>2. QED
    BY <1>2, <2>1
<1>4. CASE CreateWithCoupon(q, b)
  <2>1. PICK row : Begin(q, b, row, NoCoupon,
                         {"booking", "items", "payment", "usage", "count", "record"})
    BY <1>4 DEF CreateWithCoupon
  <2>2. QED
    BY <1>2, <2>1
<1>5. CASE CreatePlan(q, b)
  <2>1. PICK row : Begin(q, b, row, NoCoupon, {"booking", "payment", "record"})
    BY <1>5 DEF CreatePlan
  <2>2. QED
    BY <1>2, <2>1
<1>6. CASE EnsurePayment(q, b)
  BY <1>2, <1>6 DEF EnsurePayment
<1>7. QED
  BY <1>1, <1>3, <1>4, <1>5, <1>6

LEMMA InsertCount ==
  ASSUME IntakeAssumption, TypeOK, TypeOK', CountInv, IntakeInv,
         NEW q \in Requests, Insert(q)
  PROVE  CountInv'
<1>1. req[q].todo # {} /\ req[q].coupon = NoCoupon
  <2>1. req[q].todo \cap OrderStatement # {}
    BY DEF Insert, InsertBooking, InsertItems, InsertPayment, InsertUsage,
       CountRedemption, RecordCreated, Turn, OrderStatement
  <2>2. QED
    BY <2>1, InFlightMemory DEF OrderRequest
<1>2. ASSUME UNCHANGED <<coupon, usage>>,
             Abort(q) \/ \E s \in {"booking", "items", "payment", "record"} : Done(q, s)
      PROVE  CountInv'
  <2>1. /\ \A p \in Requests : p # q => req'[p] = req[p]
        /\ req'[q].todo # {} => req'[q].coupon = req[q].coupon
        /\ "count" \in req'[q].todo =>
             "count" \in req[q].todo /\ ("usage" \in req[q].todo => "usage" \in req'[q].todo)
    BY <1>1, <1>2, AbortEffect, DoneEffect
  <2>2. coupon' # NoCoupon => CopiedFrom(coupon'.used)
    BY <1>2 DEF CopiedFrom
  <2>3. ~(req'[q].todo # {} /\ req'[q].coupon # NoCoupon)
    BY <1>1, <2>1
  <2>4. usage' = usage
    BY <1>2
  <2>5. QED
    BY <1>1, <2>1, <2>2, <2>3, <2>4, QuietCount
<1>3. ASSUME NEW s, Done(q, s)
      PROVE  /\ \A p \in Requests : p # q => req'[p] = req[p]
             /\ req'[q].todo = req[q].todo \ {s}
             /\ req'[q].todo # {} => req'[q].coupon = NoCoupon
  BY <1>1, <1>3, DoneEffect
<1>4. /\ Cardinality(Pending) \in Nat /\ IsFiniteSet(Pending)
      /\ Cardinality(usage) \in Nat /\ IsFiniteSet(usage)
  BY PendingFinite
<1>5. /\ coupon # NoCoupon => coupon.used \in Nat
      /\ \A p \in Requests : req[p].todo # {} /\ req[p].coupon # NoCoupon =>
           req[p].coupon.used \in Nat
  <2>1. ASSUME NEW p \in Requests, req[p].todo # {}, req[p].coupon # NoCoupon
        PROVE  req[p].coupon.used \in Nat
    BY <2>1, InFlightMemory DEF Request, OrderRequest, CouponRequest, Coupon
  <2>2. QED
    BY <2>1 DEF TypeOK, Coupon
<1>6. CASE InsertUsage(q)
  <2>1. CASE Abort(q) /\ UNCHANGED usage
    BY <1>2, <1>6, <2>1 DEF InsertUsage
  <2>2. CASE Done(q, "usage") /\ usage' = usage \cup {req[q].b}
    <3>1. "usage" \in req[q].todo /\ req[q].b \notin usage
      BY <1>6 DEF InsertUsage, Turn, IntakeInv, CreateInv
    <3>2. Cardinality(usage') = Cardinality(usage) + 1
      BY <1>4, <2>2, <3>1, FS_AddElement
    <3>3. Pending' \subseteq Pending \cup {q}
      BY <1>3, <2>2 DEF Pending
    <3>4. /\ IsFiniteSet(Pending \cup {q})
          /\ Cardinality(Pending \cup {q}) <= Cardinality(Pending) + 1
      <4>1. q \notin Pending
        BY <3>1 DEF Pending
      <4>2. /\ IsFiniteSet(Pending \cup {q})
            /\ Cardinality(Pending \cup {q}) = Cardinality(Pending) + 1
        BY <1>4, <4>1, FS_AddElement
      <4>3. QED
        BY <1>4, <4>2
    <3>5. /\ Cardinality(Pending') \in Nat
          /\ Cardinality(Pending') <= Cardinality(Pending) + 1
      <4>1. /\ IsFiniteSet(Pending') /\ Cardinality(Pending') \in Nat
            /\ Cardinality(Pending \cup {q}) \in Nat
            /\ Cardinality(Pending') <= Cardinality(Pending \cup {q})
        BY <3>3, <3>4, FS_Subset, FS_CardinalityType
      <4>2. QED
        BY <1>4, <3>4, <4>1
    <3>6. coupon' = coupon
      BY <1>6 DEF InsertUsage
    <3>7. coupon' # NoCoupon =>
            coupon'.used + Cardinality(Pending') <= Cardinality(usage')
      BY <1>4, <1>5, <3>2, <3>5, <3>6 DEF CountInv
    <3>8. ASSUME NEW p \in Requests, req'[p].todo # {}, req'[p].coupon # NoCoupon
          PROVE  req'[p].coupon.used + Cardinality(Pending') <= Cardinality(usage')
      <4>1. req'[p] = req[p] /\ req[p].todo # {}
        BY <1>3, <2>2, <3>8
      <4>2. /\ req[p].coupon.used \in Nat
            /\ req[p].coupon.used + Cardinality(Pending) <= Cardinality(usage)
        BY <1>5, <3>8, <4>1 DEF CountInv, InFlight
      <4>3. QED
        BY <1>4, <3>2, <3>5, <4>1, <4>2
    <3>9. QED
      BY <3>7, <3>8 DEF CountInv, InFlight
  <2>3. QED
    BY <1>6, <2>1, <2>2 DEF InsertUsage
<1>7. CASE CountRedemption(q)
  <2>1. Done(q, "count") /\ usage' = usage
    BY <1>7 DEF CountRedemption
  <2>2. q \in Pending
    BY <1>7 DEF CountRedemption, Turn, Rank, Pending
  <2>3. Pending' = Pending \ {q}
    BY <1>3, <2>1 DEF Pending
  <2>4. Cardinality(Pending') = Cardinality(Pending) - 1
    BY <1>4, <2>2, <2>3, FS_RemoveElement
  <2>5. coupon' # NoCoupon => coupon # NoCoupon /\ coupon'.used = coupon.used + 1
    BY <1>7 DEF CountRedemption, TypeOK, Coupon
  <2>6. coupon' # NoCoupon =>
          coupon'.used + Cardinality(Pending') <= Cardinality(usage')
    BY <1>4, <1>5, <2>1, <2>4, <2>5 DEF CountInv
  <2>7. ASSUME NEW p \in Requests, req'[p].todo # {}, req'[p].coupon # NoCoupon
        PROVE  req'[p].coupon.used + Cardinality(Pending') <= Cardinality(usage')
    <3>1. req'[p] = req[p] /\ req[p].todo # {}
      BY <1>3, <2>1, <2>7
    <3>2. /\ req[p].coupon.used \in Nat
          /\ req[p].coupon.used + Cardinality(Pending) <= Cardinality(usage)
      BY <1>5, <2>7, <3>1 DEF CountInv, InFlight
    <3>3. QED
      BY <1>4, <2>1, <2>4, <3>1, <3>2
  <2>8. QED
    BY <2>6, <2>7 DEF CountInv, InFlight
<1>8. CASE InsertBooking(q) \/ InsertItems(q) \/ InsertPayment(q) \/ RecordCreated(q)
  BY <1>2, <1>8 DEF InsertBooking, InsertItems, InsertPayment, RecordCreated
<1>9. QED
  BY <1>6, <1>7, <1>8 DEF Insert

LEMMA AdminCount ==
  ASSUME IntakeAssumption, TypeOK, TypeOK', CountInv, NEW q \in Requests,
         Admin(q) \/ Crash(q)
  PROVE  CountInv'
<1>1. CASE EditCoupon(q)
  <2>1. PICK active, offer, limit :
          Begin(q, NoBooking, NoRow,
                [coupon EXCEPT !.active = active, !.offer = offer,
                               !.limit = limit], {"select"})
    BY <1>1 DEF EditCoupon
  <2>2. coupon # NoCoupon
        /\ [coupon EXCEPT !.active = active, !.offer = offer, !.limit = limit].used
             = coupon.used
    BY <1>1 DEF EditCoupon, TypeOK, Coupon
  <2>3. QED
    BY <2>1, <2>2, BeginCount
<1>2. CASE RemoveCoupon(q)
  BY <1>2, BeginCount DEF RemoveCoupon
<1>3. coupon # NoCoupon => CopiedFrom(coupon.used)
  BY DEF CopiedFrom
<1>4. CASE Crash(q)
  BY <1>3, <1>4, AbortEffect, QuietCount DEF Crash, InFlight
<1> DEFINE Works == \/ CountUsage(q) \/ DeleteCoupon(q) \/ SelectCoupon(q)
                    \/ UpdateCoupon(q) \/ ReinsertCoupon(q)
<1>5. ASSUME Works
      PROVE  req[q].todo # {} /\ req[q] \in CouponRequest /\ usage' = usage
  <2>1. req[q].todo \cap CouponStatement # {} /\ usage' = usage
    BY <1>5, CouponStatements DEF CountUsage, DeleteCoupon, SelectCoupon,
       UpdateCoupon, ReinsertCoupon, Turn
  <2>2. QED
    BY <2>1, InFlightMemory
<1>6. ASSUME Works, coupon' # NoCoupon => CopiedFrom(coupon'.used),
             Abort(q) \/ \E s : Done(q, s)
      PROVE  CountInv'
  <2>1. /\ \A p \in Requests : p # q => req'[p] = req[p]
        /\ req'[q].todo \subseteq req[q].todo
        /\ req'[q].todo # {} => req'[q].coupon = req[q].coupon
    BY <1>5, <1>6, AbortEffect, DoneEffect
  <2>2. "count" \notin req[q].todo
    BY <1>5, <1>6, CouponStatements DEF CouponRequest
  <2>3. QED
    BY <1>5, <1>6, <2>1, <2>2, QuietCount
<1>7. ASSUME Works, UNCHANGED coupon,
             NEW r, Continue(q, r), "count" \notin r.todo,
             r.coupon.used = req[q].coupon.used
      PROVE  CountInv'
  <2>1. /\ \A p \in Requests : p # q => req'[p] = req[p]
        /\ req'[q].todo # {} => req'[q] = r
        /\ "count" \notin req'[q].todo
    BY <1>7 DEF Continue, TypeOK, NoRequest
  <2>2. req[q].coupon # NoCoupon
    BY <1>5, <1>7, NoneAssumption DEF CouponRequest, NoneAssumption
  <2>3. QED
    BY <1>3, <1>5, <1>7, <2>1, <2>2, QuietCount
<1>8. CASE CountUsage(q)
  <2>1. /\ [req[q] EXCEPT !.todo = {"delete"}].todo = {"delete"}
        /\ [req[q] EXCEPT !.todo = {"delete"}].coupon.used = req[q].coupon.used
    BY <1>5, <1>8 DEF CouponRequest
  <2>2. LET r == [req[q] EXCEPT !.todo = {"select"}, !.coupon.active = FALSE]
        IN  r.todo = {"select"} /\ r.coupon.used = req[q].coupon.used
    BY <1>5, <1>8 DEF CouponRequest, Coupon
  <2>3. UNCHANGED coupon
    BY <1>8 DEF CountUsage
  <2>4. QED
    BY <1>3, <1>6, <1>7, <1>8, <2>1, <2>2, <2>3 DEF CountUsage
<1>9. CASE SelectCoupon(q)
  <2> DEFINE diff == {c \in Columns : coupon[c] # req[q].coupon[c]}
             todo == IF diff = {} THEN {} ELSE {"update"}
  <2>1. \/ Continue(q, [req[q] EXCEPT !.todo = {"reinsert"}])
        \/ Continue(q, [req[q] EXCEPT !.dirty = diff, !.todo = todo])
    BY <1>9 DEF SelectCoupon
  <2>2. "count" \notin todo
    OBVIOUS
  <2> HIDE DEF diff, todo
  <2>3. /\ [req[q] EXCEPT !.todo = {"reinsert"}].todo = {"reinsert"}
        /\ [req[q] EXCEPT !.todo = {"reinsert"}].coupon = req[q].coupon
        /\ [req[q] EXCEPT !.dirty = diff, !.todo = todo].todo = todo
        /\ [req[q] EXCEPT !.dirty = diff, !.todo = todo].coupon = req[q].coupon
    BY <1>5, <1>9 DEF CouponRequest
  <2>4. UNCHANGED coupon
    BY <1>9 DEF SelectCoupon
  <2>5. QED
    BY <1>7, <1>9, <2>1, <2>2, <2>3, <2>4
<1>10. CASE UpdateCoupon(q)
  <2>1. coupon' # NoCoupon =>
          coupon # NoCoupon /\ coupon'.used \in {coupon.used, req[q].coupon.used}
    BY <1>10 DEF UpdateCoupon, Overwrite
  <2>2. InFlight(q) /\ req[q].coupon # NoCoupon
    BY <1>5, <1>10, NoneAssumption DEF CouponRequest, NoneAssumption, InFlight
  <2>3. coupon' # NoCoupon => CopiedFrom(coupon'.used)
    BY <2>1, <2>2 DEF CopiedFrom
  <2>4. QED
    BY <1>6, <1>10, <2>3 DEF UpdateCoupon
<1>11. CASE ReinsertCoupon(q)
  <2>1. InFlight(q) /\ req[q].coupon # NoCoupon
    BY <1>5, <1>11, NoneAssumption DEF CouponRequest, NoneAssumption, InFlight
  <2>2. coupon' # NoCoupon => CopiedFrom(coupon'.used)
    BY <1>3, <1>11, <2>1 DEF ReinsertCoupon, CopiedFrom
  <2>3. Abort(q) \/ Done(q, "reinsert")
    BY <1>11 DEF ReinsertCoupon
  <2>4. QED
    BY <1>6, <1>11, <2>2, <2>3
<1>12. CASE DeleteCoupon(q)
  BY <1>3, <1>6, <1>12 DEF DeleteCoupon
<1>13. QED
  BY <1>1, <1>2, <1>4, <1>8, <1>9, <1>10, <1>11, <1>12 DEF Admin

LEMMA CountInvariant == Spec => []CountInv
<1>1. IntakeAssumption /\ Init => CountInv
  <2> SUFFICES ASSUME IntakeAssumption, Init
               PROVE  CountInv
    OBVIOUS
  <2>1. Pending = {} /\ \A q \in Requests : ~InFlight(q)
    BY DEF Init, Pending, NoRequest, InFlight
  <2>2. usage = {} /\ (coupon # NoCoupon => coupon.used = 0)
    BY DEF Init
  <2>3. Cardinality(Pending) = 0 /\ Cardinality(usage) = 0
    BY <2>1, <2>2, FS_EmptySet
  <2>4. QED
    BY <2>1, <2>2, <2>3 DEF CountInv
<1>2. IntakeAssumption /\ TypeOK /\ TypeOK' /\ IntakeInv /\ CountInv /\ [Next]_vars
        => CountInv'
  <2> SUFFICES ASSUME IntakeAssumption, TypeOK, TypeOK', IntakeInv, CountInv,
                      [Next]_vars
               PROVE  CountInv'
    OBVIOUS
  <2>1. CASE UNCHANGED vars
    <3>1. UNCHANGED <<coupon, usage, req>>
      BY <2>1 DEF vars
    <3>2. UNCHANGED Pending
      BY <3>1 DEF Pending
    <3>3. QED
      BY <3>1, <3>2 DEF CountInv, InFlight
  <2>2. QED
    BY <2>1, CustomerCount, InsertCount, AdminCount DEF Next
<1>3. IntakeAssumption
  BY IntakeAssumption
<1>4. TypeAndBills => TypeOK
  BY DEF TypeAndBills
<1>5. QED
  BY <1>1, <1>2, <1>3, <1>4, IntakeInvariant, PTL DEF Spec

\* However redemptions, an admin's saves and deaths interleave, the coupon
\* never claims more redemptions than there are usage rows.
THEOREM CounterNeverAhead == Spec => []CountNeverAhead
<1>1. IntakeAssumption /\ TypeOK /\ CountInv => CountNeverAhead
  <2> SUFFICES ASSUME IntakeAssumption, TypeOK, CountInv, coupon # NoCoupon
               PROVE  coupon.used <= Cardinality(usage)
    BY DEF CountNeverAhead
  <2>1. coupon.used \in Nat
    BY DEF TypeOK, Coupon
  <2>2. Cardinality(Pending) \in Nat /\ Cardinality(usage) \in Nat
    BY PendingFinite
  <2>3. coupon.used + Cardinality(Pending) <= Cardinality(usage)
    BY DEF CountInv
  <2>4. QED
    BY <2>1, <2>2, <2>3
<1>2. IntakeAssumption
  BY IntakeAssumption
<1>3. TypeAndBills => TypeOK
  BY DEF TypeAndBills
<1>4. QED
  BY <1>1, <1>2, <1>3, IntakeInvariant, CountInvariant, PTL

-----------------------------------------------------------------------------
(* How far the coupon's counter and its limit drift from the redemptions.  *)

\* Redemptions that are still to be inserted.
Coming == {q \in Requests : "usage" \in req[q].todo}

\* A counter that is no further behind than what has overlapped or died, the
\* redemptions under way included.
Covers(u) == Cardinality(usage) + Cardinality(Coming) <= u + upsets

\* The row's own counter may be one further behind: a redemption that has
\* checked it alone is under way.  A memory is loaded by a request that is
\* alone, or that pays an overlap.
DriftInv ==
  /\ coupon # NoCoupon =>
       /\ Cardinality(usage) <= coupon.used + Cardinality(Uncounted) + upsets
       /\ Covers(coupon.used + 1)
  /\ \A q \in Requests : req[q].todo # {} /\ req[q].coupon # NoCoupon =>
       Covers(req[q].coupon.used)
  /\ \E limit \in Limits : Covers(limit)
  /\ \A q \in Requests : "usage" \in req[q].todo => "count" \in req[q].todo

\* Placed bookings without a history that no create works on any more.
Left == {b \in Placed : b \notin logged /\
                        \A q \in Requests : ~(Creating(q) /\ req[q].b = b)}

\* Payment rows that are still to be inserted.
PaymentComing(b) ==
  {q \in Requests : "payment" \in req[q].todo /\ req[q].b = b}

Busy == {q \in Requests : req[q].todo # {}}

\* A coupon is being deleted, or is gone: no redemption gets through any more.
Closing == \/ coupon = NoCoupon
           \/ \E q \in Requests : {"countUsage", "delete"} \cap req[q].todo # {}

LeftInv ==
  /\ Cardinality(Left) <= upsets
  /\ Cardinality(Left) + Cardinality(Coming) <= upsets + 1
  /\ Closing => Cardinality(Left) + Cardinality(Coming) <= upsets

PaymentInv ==
  /\ Cardinality(Busy) <= 1 + upsets
  /\ \A b \in Bookings :
       /\ payments[b] + Cardinality(PaymentComing(b)) <= 1 + upsets
       /\ payments[b] > 0 => b \in Placed
  /\ \A q \in Requests : "payment" \in req[q].todo /\ ~Creating(q) =>
       req[q].b \in Placed

LEMMA Fewer ==
  ASSUME NEW T, IsFiniteSet(T), NEW S \in SUBSET T
  PROVE  /\ IsFiniteSet(S) /\ Cardinality(S) \in Nat /\ Cardinality(T) \in Nat
         /\ Cardinality(S) <= Cardinality(T)
BY FS_Subset, FS_CardinalityType

LEMMA AtMostOneMore ==
  ASSUME NEW T, IsFiniteSet(T), NEW x, NEW S \in SUBSET (T \cup {x})
  PROVE  /\ IsFiniteSet(S) /\ Cardinality(S) \in Nat /\ Cardinality(T) \in Nat
         /\ Cardinality(S) <= Cardinality(T) + 1
<1> DEFINE U == T \cup {x}
<1>0. Cardinality(T) \in Nat
  BY FS_CardinalityType
<1>1. IsFiniteSet(U) /\ (Cardinality(U) = Cardinality(T) \/ Cardinality(U) = Cardinality(T) + 1)
  <2>1. ASSUME x \in T PROVE U = T
    BY <2>1
  <2>2. ASSUME x \notin T PROVE IsFiniteSet(U) /\ Cardinality(U) = Cardinality(T) + 1
    BY <2>2, FS_AddElement
  <2> HIDE DEF U
  <2>3. QED
    BY <2>1, <2>2
<1>2. S \in SUBSET U
  OBVIOUS
<1> HIDE DEF U
<1>3. /\ IsFiniteSet(S) /\ Cardinality(S) \in Nat
      /\ Cardinality(S) <= Cardinality(U)
  BY <1>1, <1>2, Fewer
<1>4. QED
  BY <1>0, <1>1, <1>3

LEMMA DriftFinite ==
  ASSUME IntakeAssumption, TypeOK
  PROVE  /\ IsFiniteSet(usage) /\ Cardinality(usage) \in Nat
         /\ IsFiniteSet(Coming) /\ Cardinality(Coming) \in Nat
         /\ IsFiniteSet(Uncounted) /\ Cardinality(Uncounted) \in Nat
         /\ upsets \in Nat
         /\ coupon # NoCoupon => coupon.used \in Nat
         /\ \A p \in Requests : req[p].todo # {} /\ req[p].coupon # NoCoupon =>
              req[p].coupon.used \in Nat
<1>1. ASSUME NEW p \in Requests, req[p].todo # {}, req[p].coupon # NoCoupon
      PROVE  req[p].coupon.used \in Nat
  BY <1>1, InFlightMemory DEF Request, OrderRequest, CouponRequest, Coupon
<1>2. Coming \subseteq Requests /\ Uncounted \subseteq Requests
  BY DEF Coming, Uncounted
<1>3. QED
  BY <1>1, <1>2, Fewer DEF IntakeAssumption, TypeOK, Coupon

\* The same, after a step that an overlap or a death may have paid for.
CoversNext(u) == Cardinality(usage) + Cardinality(Coming) <= u + upsets'

\* A statement that inserts no usage row, and counts none, keeps the drift.
LEMMA DriftStays ==
  ASSUME IntakeAssumption, TypeOK, TypeOK', DriftInv,
         usage' = usage, Coming' \subseteq Coming, upsets <= upsets',
         Cardinality(Uncounted) + upsets <= Cardinality(Uncounted') + upsets',
         coupon' # NoCoupon =>
           \/ coupon # NoCoupon /\ coupon'.used = coupon.used
           \/ CoversNext(coupon'.used),
         \A p \in Requests : req'[p].todo # {} /\ req'[p].coupon # NoCoupon =>
           CoversNext(req'[p].coupon.used),
         \A p \in Requests : "usage" \in req'[p].todo => "count" \in req'[p].todo
  PROVE  DriftInv'
<1>1. /\ Cardinality(usage) \in Nat /\ Cardinality(Uncounted) \in Nat
      /\ Cardinality(Coming) \in Nat /\ upsets \in Nat
      /\ Cardinality(usage') = Cardinality(usage)
      /\ Cardinality(Uncounted') \in Nat /\ upsets' \in Nat
      /\ Cardinality(Coming') \in Nat
      /\ coupon' # NoCoupon => coupon'.used \in Nat
  <2>1. /\ Cardinality(Uncounted') \in Nat /\ Cardinality(Coming') \in Nat
        /\ upsets' \in Nat /\ (coupon' # NoCoupon => coupon'.used \in Nat)
    <3>1. Coming' \subseteq Requests /\ Uncounted' \subseteq Requests
      BY DEF Coming, Uncounted
    <3>2. QED
      BY <3>1, Fewer DEF IntakeAssumption, TypeOK, Coupon
  <2>2. QED
    BY <2>1, DriftFinite
<1>2. Cardinality(Coming') <= Cardinality(Coming)
  BY DriftFinite, Fewer
<1>3. ASSUME NEW u \in Nat, Covers(u)
      PROVE  Covers(u)'
  BY <1>1, <1>2, <1>3 DEF Covers
<1>4. ASSUME coupon' # NoCoupon
      PROVE  /\ Cardinality(usage') <= coupon'.used + Cardinality(Uncounted') + upsets'
             /\ Covers(coupon.used + 1)'
  <2>1. coupon'.used \in Nat
    BY <1>1, <1>4
  <2>2. CASE coupon # NoCoupon /\ coupon'.used = coupon.used
    <3>1. /\ Cardinality(usage) <= coupon.used + Cardinality(Uncounted) + upsets
          /\ Cardinality(usage) + Cardinality(Coming) <= (coupon.used + 1) + upsets
      BY <2>2 DEF DriftInv, Covers
    <3>2. QED
      BY <1>1, <1>2, <2>1, <2>2, <3>1 DEF Covers
  <2>3. CASE CoversNext(coupon'.used)
    BY <1>1, <1>2, <2>1, <2>3 DEF Covers, CoversNext
  <2>4. QED
    BY <1>4, <2>2, <2>3
<1>5. ASSUME NEW p \in Requests, req'[p].todo # {}, req'[p].coupon # NoCoupon
      PROVE  Covers(req[p].coupon.used)'
  <2>1. req'[p].coupon.used \in Nat
    <3>1. req'[p] \in Request \cup {NoRequest} /\ req'[p] # NoRequest
      BY <1>5 DEF TypeOK, NoRequest
    <3>2. QED
      BY <1>5, <3>1 DEF Request, OrderRequest, CouponRequest, Coupon
  <2>2. CoversNext(req'[p].coupon.used)
    BY <1>5
  <2>3. QED
    BY <1>1, <1>2, <2>1, <2>2 DEF Covers, CoversNext
<1>6. \E limit \in Limits : Covers(limit)'
  BY <1>3 DEF DriftInv, IntakeAssumption
<1>7. QED
  BY <1>4, <1>5, <1>6 DEF DriftInv

\* What is covered stays covered, whatever overlaps or dies.
LEMMA StillCovers ==
  ASSUME IntakeAssumption, TypeOK, TypeOK', upsets <= upsets',
         NEW u \in Nat, Covers(u)
  PROVE  CoversNext(u)
<1>1. upsets' \in Nat
  BY DEF TypeOK, IntakeAssumption
<1>2. QED
  BY <1>1, DriftFinite DEF Covers, CoversNext

\* Whoever starts alone finds nothing under way.
LEMMA AloneDrift ==
  ASSUME IntakeAssumption, TypeOK, DriftInv, \A p \in Requests : ~InFlight(p)
  PROVE  /\ Cardinality(Coming) = 0 /\ Cardinality(Uncounted) = 0
         /\ coupon # NoCoupon => Cardinality(usage) <= coupon.used + upsets
<1>1. Coming = {} /\ Uncounted = {}
  BY DEF Coming, Uncounted, InFlight
<1>2. Cardinality(Coming) = 0 /\ Cardinality(Uncounted) = 0
  BY <1>1, FS_EmptySet
<1>3. QED
  BY <1>2, DriftFinite DEF DriftInv

\* A handler that redeems nothing: what it loads is covered, as it is alone or
\* pays an overlap.
LEMMA BeginDrift ==
  ASSUME IntakeAssumption, TypeOK, TypeOK', DriftInv, NEW q \in Requests,
         NEW b, NEW row, NEW mem, NEW todo, Begin(q, b, row, mem, todo),
         mem # NoCoupon => coupon # NoCoupon /\ mem.used = coupon.used,
         "usage" \notin todo
  PROVE  DriftInv'
<1>1. UNCHANGED <<coupon, usage>>
  BY DEF Begin
<1>2. upsets \in Nat /\ upsets' \in Nat /\ upsets <= upsets'
  BY DEF Begin, Upset, TypeOK, IntakeAssumption
<1>3. Coming' \subseteq Coming /\ Uncounted \subseteq Uncounted'
  BY <1>1, BeginEffect DEF Coming, Uncounted
<1>4. Cardinality(Uncounted) + upsets <= Cardinality(Uncounted') + upsets'
  <2>1. IsFiniteSet(Uncounted')
    <3>1. Uncounted' \subseteq Requests
      BY DEF Uncounted
    <3>2. QED
      BY <3>1, Fewer DEF IntakeAssumption
  <2>2. QED
    BY <1>2, <1>3, <2>1, Fewer
<1>5. ASSUME coupon # NoCoupon
      PROVE  CoversNext(coupon.used)
  <2>1. CASE \A p \in Requests : ~InFlight(p)
    BY <1>2, <1>5, <2>1, AloneDrift, DriftFinite DEF CoversNext
  <2>2. CASE ~ \A p \in Requests : ~InFlight(p)
    <3>1. upsets' = upsets + 1
      BY <2>2 DEF Begin, Upset
    <3>2. Cardinality(usage) + Cardinality(Coming) <= (coupon.used + 1) + upsets
      BY <1>5 DEF DriftInv, Covers
    <3>3. QED
      BY <1>2, <1>5, <3>1, <3>2, DriftFinite DEF CoversNext
  <2>3. QED
    BY <2>1, <2>2
<1>6. ASSUME NEW p \in Requests, req'[p].todo # {}, req'[p].coupon # NoCoupon
      PROVE  CoversNext(req'[p].coupon.used)
  <2>1. CASE p = q
    BY <1>5, <1>6, <2>1, BeginEffect
  <2>2. CASE p # q
    <3>1. req'[p] = req[p]
      BY <2>2, BeginEffect
    <3>2. req[p].coupon.used \in Nat /\ Covers(req[p].coupon.used)
      BY <1>6, <3>1, DriftFinite DEF DriftInv
    <3>3. QED
      BY <1>2, <3>1, <3>2, StillCovers
  <2>3. QED
    BY <2>1, <2>2
<1>7. \A p \in Requests : "usage" \in req'[p].todo => "count" \in req'[p].todo
  BY BeginEffect DEF DriftInv
<1>8. QED
  BY <1>1, <1>2, <1>3, <1>4, <1>6, <1>7, DriftStays

\* The limit is checked with the row's own counter: there is room for one
\* more redemption, or this one pays for an overlap.
LEMMA RedeemDrift ==
  ASSUME IntakeAssumption, TypeOK, TypeOK', DriftInv, NEW q \in Requests,
         NEW b, NEW row, NEW todo, Begin(q, b, row, NoCoupon, todo),
         {"usage", "count"} \subseteq todo, Redeemable(coupon)
  PROVE  DriftInv'
<1>1. /\ UNCHANGED <<coupon, usage>>
      /\ upsets \in Nat /\ upsets' \in Nat /\ upsets <= upsets'
  BY DEF Begin, Upset, TypeOK, IntakeAssumption
<1>2. /\ coupon # NoCoupon /\ coupon.used \in Nat /\ coupon.limit \in Limits
      /\ coupon.limit \in Nat /\ coupon.used + 1 <= coupon.limit
  <2>1. coupon # NoCoupon /\ coupon.used < coupon.limit
    BY DEF Redeemable
  <2>2. coupon \in Coupon
    BY <2>1 DEF TypeOK
  <2>3. coupon.used \in Nat /\ coupon.limit \in Limits /\ coupon.limit \in Nat
    BY <2>2 DEF Coupon, IntakeAssumption
  <2>4. QED
    BY <2>1, <2>3
<1>3. Coming' \subseteq Coming \cup {q} /\ Uncounted \subseteq Uncounted'
  BY <1>1, BeginEffect DEF Coming, Uncounted
<1>4. /\ Cardinality(Coming') \in Nat
      /\ Cardinality(Coming') <= Cardinality(Coming) + 1
  BY <1>3, DriftFinite, AtMostOneMore
<1>5. /\ Cardinality(Uncounted') \in Nat
      /\ Cardinality(Uncounted) <= Cardinality(Uncounted')
  <2>1. IsFiniteSet(Uncounted')
    <3>1. Uncounted' \subseteq Requests
      BY DEF Uncounted
    <3>2. QED
      BY <3>1, Fewer DEF IntakeAssumption
  <2>2. QED
    BY <1>3, <2>1, Fewer
<1>6. Covers(coupon.used + 1)'
  <2>1. CASE \A p \in Requests : ~InFlight(p)
    <3>1. Cardinality(Coming) = 0 /\ Cardinality(usage) <= coupon.used + upsets
      BY <1>2, <2>1, AloneDrift
    <3>2. QED
      BY <1>1, <1>2, <1>4, <3>1, DriftFinite DEF Covers
  <2>2. CASE ~ \A p \in Requests : ~InFlight(p)
    <3>1. upsets' = upsets + 1
      BY <2>2 DEF Begin, Upset
    <3>2. Cardinality(usage) + Cardinality(Coming) <= (coupon.used + 1) + upsets
      BY <1>2 DEF DriftInv, Covers
    <3>3. QED
      BY <1>1, <1>2, <1>4, <3>1, <3>2, DriftFinite DEF Covers
  <2>3. QED
    BY <2>1, <2>2
<1>7. Covers(coupon.limit)'
  <2>1. Cardinality(usage') + Cardinality(Coming') <= (coupon'.used + 1) + upsets'
    BY <1>6 DEF Covers
  <2>2. QED
    BY <1>1, <1>2, <1>4, <2>1, DriftFinite DEF Covers
<1>8. \A p \in Requests : req'[p].todo # {} /\ req'[p].coupon # NoCoupon =>
                          Covers(req[p].coupon.used)'
  <2>1. ASSUME NEW p \in Requests, req'[p].todo # {}, req'[p].coupon # NoCoupon
        PROVE  Covers(req[p].coupon.used)'
    <3>1. p # q /\ req'[p] = req[p]
      BY <2>1, BeginEffect
    <3>2. req[p].coupon.used \in Nat /\ Covers(req[p].coupon.used)
      BY <2>1, <3>1, DriftFinite DEF DriftInv
    <3>3. upsets' = upsets + 1
      BY <2>1, <3>1 DEF Begin, Upset, InFlight
    <3>4. Cardinality(usage) + Cardinality(Coming) <= req[p].coupon.used + upsets
      BY <3>2 DEF Covers
    <3>5. QED
      BY <1>1, <1>4, <3>1, <3>2, <3>3, <3>4, DriftFinite DEF Covers
  <2>2. QED
    BY <2>1
<1>9. Cardinality(usage') <= coupon'.used + Cardinality(Uncounted') + upsets'
  <2>1. Cardinality(usage) <= coupon.used + Cardinality(Uncounted) + upsets
    BY <1>2 DEF DriftInv
  <2>2. QED
    BY <1>1, <1>2, <1>5, <2>1, DriftFinite
<1>10. \E limit \in Limits : Covers(limit)'
  <2>1. coupon'.limit = coupon.limit
    BY <1>1
  <2>2. QED
    BY <1>1, <1>2, <1>7, <2>1 DEF Covers
<1>11. \A p \in Requests : "usage" \in req'[p].todo => "count" \in req'[p].todo
  BY BeginEffect DEF DriftInv
<1>12. QED
  BY <1>6, <1>8, <1>9, <1>10, <1>11 DEF DriftInv

LEMMA CustomerDrift ==
  ASSUME IntakeAssumption, TypeOK, TypeOK', DriftInv, NEW q \in Requests, Customer(q)
  PROVE  DriftInv'
<1>1. PICK b \in Bookings : Create(q, b) \/ CreateWithCoupon(q, b)
                            \/ CreatePlan(q, b) \/ EnsurePayment(q, b)
  BY DEF Customer
<1>2. ASSUME NEW row, NEW todo, Begin(q, b, row, NoCoupon, todo), "usage" \notin todo
      PROVE  DriftInv'
  BY <1>2, BeginDrift
<1>3. CASE Create(q, b)
  <2>1. PICK row : Begin(q, b, row, NoCoupon, {"booking", "items", "payment", "record"})
    BY <1>3 DEF Create
  <2>2. QED
    BY <1>2, <2>1
<1>4. CASE CreateWithCoupon(q, b)
  <2>1. PICK row : Begin(q, b, row, NoCoupon,
                         {"booking", "items", "payment", "usage", "count", "record"})
    BY <1>4 DEF CreateWithCoupon
  <2>2. Redeemable(coupon)
    BY <1>4 DEF CreateWithCoupon
  <2>3. QED
    BY <2>1, <2>2, RedeemDrift
<1>5. CASE CreatePlan(q, b)
  <2>1. PICK row : Begin(q, b, row, NoCoupon, {"booking", "payment", "record"})
    BY <1>5 DEF CreatePlan
  <2>2. QED
    BY <1>2, <2>1
<1>6. CASE EnsurePayment(q, b)
  BY <1>2, <1>6 DEF EnsurePayment
<1>7. QED
  BY <1>1, <1>3, <1>4, <1>5, <1>6

\* A statement that is not counted, of a request that neither begins nor
\* inserts a usage row.  What an abort or a death leaves uncounted is paid for.
LEMMA QuietDrift ==
  ASSUME IntakeAssumption, TypeOK, TypeOK', DriftInv, NEW q \in Requests,
         \A p \in Requests : p # q => req'[p] = req[p],
         req[q].todo # {},
         req'[q].todo # {} /\ req'[q].coupon # NoCoupon =>
           /\ req[q].coupon # NoCoupon
           /\ req'[q].coupon.used = req[q].coupon.used,
         "usage" \in req'[q].todo => "usage" \in req[q].todo /\ "count" \in req'[q].todo,
         usage' = usage, upsets' \in {upsets, upsets + 1},
         \/ upsets' = upsets + 1
         \/ q \notin Uncounted
         \/ "count" \in req'[q].todo /\ req'[q].b = req[q].b,
         coupon' # NoCoupon =>
           \/ coupon # NoCoupon /\ coupon'.used = coupon.used
           \/ req[q].coupon # NoCoupon /\ coupon'.used = req[q].coupon.used
  PROVE  DriftInv'
<1>1. upsets \in Nat /\ upsets' \in Nat /\ upsets <= upsets'
  BY DEF TypeOK, IntakeAssumption
<1>2. Coming' \subseteq Coming
  BY DEF Coming
<1>3. /\ IsFiniteSet(Uncounted') /\ Cardinality(Uncounted') \in Nat
      /\ IsFiniteSet(Uncounted) /\ Cardinality(Uncounted) \in Nat
  <2>1. Uncounted' \subseteq Requests
    BY DEF Uncounted
  <2>2. QED
    BY <2>1, Fewer, DriftFinite DEF IntakeAssumption
<1>4. Cardinality(Uncounted) + upsets <= Cardinality(Uncounted') + upsets'
  <2>1. CASE upsets' = upsets + 1
    <3>1. Uncounted \subseteq Uncounted' \cup {q}
      BY DEF Uncounted
    <3>2. Cardinality(Uncounted) <= Cardinality(Uncounted') + 1
      BY <1>3, <3>1, AtMostOneMore
    <3>3. QED
      BY <1>1, <1>3, <2>1, <3>2
  <2>2. CASE \/ q \notin Uncounted
             \/ "count" \in req'[q].todo /\ req'[q].b = req[q].b
    <3>1. Uncounted \subseteq Uncounted'
      BY <2>2 DEF Uncounted
    <3>2. Cardinality(Uncounted) <= Cardinality(Uncounted')
      BY <1>3, <3>1, Fewer
    <3>3. QED
      BY <1>1, <1>3, <3>2
  <2>3. QED
    BY <2>1, <2>2
<1>5. ASSUME NEW p \in Requests, req[p].todo # {}, req[p].coupon # NoCoupon
      PROVE  CoversNext(req[p].coupon.used)
  <2>1. req[p].coupon.used \in Nat /\ Covers(req[p].coupon.used)
    BY <1>5, DriftFinite DEF DriftInv
  <2>2. QED
    BY <1>1, <2>1, StillCovers
<1>6. \A p \in Requests : req'[p].todo # {} /\ req'[p].coupon # NoCoupon =>
                          CoversNext(req'[p].coupon.used)
  BY <1>5
<1>7. coupon' # NoCoupon => \/ coupon # NoCoupon /\ coupon'.used = coupon.used
                            \/ CoversNext(coupon'.used)
  BY <1>5
<1>8. \A p \in Requests : "usage" \in req'[p].todo => "count" \in req'[p].todo
  BY DEF DriftInv
<1>9. QED
  BY <1>1, <1>2, <1>4, <1>6, <1>7, <1>8, DriftStays

\* The usage row comes before its count: until then the request is uncounted.
LEMMA UsageDrift ==
  ASSUME IntakeAssumption, TypeOK, TypeOK', IntakeInv, DriftInv, NEW q \in Requests,
         "usage" \in req[q].todo, req[q].coupon = NoCoupon, Done(q, "usage"),
         usage' = usage \cup {req[q].b}, UNCHANGED <<coupon, upsets>>
  PROVE  DriftInv'
<1>1. /\ \A p \in Requests : p # q => req'[p] = req[p]
      /\ req'[q].todo = req[q].todo \ {"usage"}
      /\ req'[q].todo # {} => req'[q].b = req[q].b /\ req'[q].coupon = NoCoupon
  BY DoneEffect
<1>2. req[q].b \notin usage /\ "count" \in req[q].todo
  BY DEF IntakeInv, CreateInv, DriftInv
<1>3. Cardinality(usage') = Cardinality(usage) + 1
  BY <1>2, DriftFinite, FS_AddElement
<1>4. Coming' = Coming \ {q} /\ q \in Coming
  BY <1>1 DEF Coming
<1>5. Cardinality(Coming') = Cardinality(Coming) - 1
  BY <1>4, DriftFinite, FS_RemoveElement
<1>6. Cardinality(Uncounted) + 1 <= Cardinality(Uncounted')
      /\ Cardinality(Uncounted') \in Nat
  <2>1. q \notin Uncounted /\ Uncounted \cup {q} \subseteq Uncounted'
    BY <1>1, <1>2 DEF Uncounted
  <2>2. Cardinality(Uncounted \cup {q}) = Cardinality(Uncounted) + 1
    BY <2>1, DriftFinite, FS_AddElement
  <2>3. IsFiniteSet(Uncounted')
    <3>1. Uncounted' \subseteq Requests
      BY DEF Uncounted
    <3>2. QED
      BY <3>1, Fewer DEF IntakeAssumption
  <2>4. QED
    BY <2>1, <2>2, <2>3, Fewer
<1>7. /\ Cardinality(usage') + Cardinality(Coming') = Cardinality(usage) + Cardinality(Coming)
      /\ upsets' = upsets
  BY <1>3, <1>5, DriftFinite
<1>8. coupon' # NoCoupon =>
        /\ Cardinality(usage') <= coupon'.used + Cardinality(Uncounted') + upsets'
        /\ Covers(coupon.used + 1)'
  BY <1>3, <1>6, <1>7, DriftFinite DEF DriftInv, Covers
<1>9. \A p \in Requests : req'[p].todo # {} /\ req'[p].coupon # NoCoupon =>
                          Covers(req[p].coupon.used)'
  BY <1>1, <1>7 DEF DriftInv, Covers
<1>10. \E limit \in Limits : Covers(limit)'
  BY <1>7 DEF DriftInv, Covers
<1>11. \A p \in Requests : "usage" \in req'[p].todo => "count" \in req'[p].todo
  BY <1>1 DEF DriftInv
<1>12. QED
  BY <1>8, <1>9, <1>10, <1>11 DEF DriftInv

LEMMA CountDrift ==
  ASSUME IntakeAssumption, TypeOK, TypeOK', DriftInv, NEW q \in Requests,
         CountRedemption(q), req[q].coupon = NoCoupon
  PROVE  DriftInv'
<1>1. /\ \A p \in Requests : p # q => req'[p] = req[p]
      /\ req'[q].todo = req[q].todo \ {"count"}
      /\ req'[q].todo # {} => req'[q].coupon = NoCoupon
      /\ usage' = usage /\ upsets' = upsets
      /\ "count" \in req[q].todo /\ "usage" \notin req[q].todo
  BY DoneEffect DEF CountRedemption, Turn, Rank
<1>2. Coming' = Coming
  BY <1>1 DEF Coming
<1>3. /\ Cardinality(Uncounted) <= Cardinality(Uncounted') + 1
      /\ Cardinality(Uncounted') \in Nat
  <2>1. Uncounted' \subseteq Requests /\ Uncounted \subseteq Uncounted' \cup {q}
    BY <1>1 DEF Uncounted
  <2>2. IsFiniteSet(Uncounted')
    BY <2>1, Fewer DEF IntakeAssumption
  <2>3. QED
    BY <2>1, <2>2, AtMostOneMore
<1>4. ASSUME coupon' # NoCoupon
      PROVE  coupon # NoCoupon /\ coupon.used \in Nat /\ coupon'.used = coupon.used + 1
  <2>1. coupon # NoCoupon /\ coupon' = [coupon EXCEPT !.used = @ + 1]
    BY <1>4 DEF CountRedemption
  <2>2. coupon \in Coupon
    BY <2>1 DEF TypeOK
  <2>3. QED
    BY <2>1, <2>2 DEF Coupon
<1>5. coupon' # NoCoupon =>
        /\ Cardinality(usage') <= coupon'.used + Cardinality(Uncounted') + upsets'
        /\ Covers(coupon.used + 1)'
  <2>1. coupon # NoCoupon =>
          /\ Cardinality(usage) <= coupon.used + Cardinality(Uncounted) + upsets
          /\ Cardinality(usage) + Cardinality(Coming) <= (coupon.used + 1) + upsets
    BY DEF DriftInv, Covers
  <2>2. QED
    BY <1>1, <1>2, <1>3, <1>4, <2>1, DriftFinite DEF Covers
<1>6. \A p \in Requests : req'[p].todo # {} /\ req'[p].coupon # NoCoupon =>
                          Covers(req[p].coupon.used)'
  BY <1>1, <1>2 DEF DriftInv, Covers
<1>7. \E limit \in Limits : Covers(limit)'
  BY <1>1, <1>2 DEF DriftInv, Covers
<1>8. \A p \in Requests : "usage" \in req'[p].todo => "count" \in req'[p].todo
  BY <1>1 DEF DriftInv
<1>9. QED
  BY <1>5, <1>6, <1>7, <1>8 DEF DriftInv

LEMMA InsertDrift ==
  ASSUME IntakeAssumption, TypeOK, TypeOK', IntakeInv, DriftInv,
         NEW q \in Requests, Insert(q)
  PROVE  DriftInv'
<1>1. req[q].todo # {} /\ req[q].coupon = NoCoupon
  <2>1. req[q].todo \cap OrderStatement # {}
    BY DEF Insert, InsertBooking, InsertItems, InsertPayment, InsertUsage,
       CountRedemption, RecordCreated, Turn, OrderStatement
  <2>2. QED
    BY <2>1, InFlightMemory DEF OrderRequest
<1>2. upsets' = upsets
  BY DEF Insert, InsertBooking, InsertItems, InsertPayment, InsertUsage,
     CountRedemption, RecordCreated, Turn
<1>3. ASSUME UNCHANGED <<coupon, usage>>,
             \/ Abort(q) /\ q \notin Uncounted
             \/ \E s \in {"booking", "items", "payment", "record"} : Done(q, s)
      PROVE  DriftInv'
  <2>1. /\ \A p \in Requests : p # q => req'[p] = req[p]
        /\ req'[q].todo # {} => req'[q].coupon = req[q].coupon
        /\ "usage" \in req'[q].todo => "usage" \in req[q].todo /\ "count" \in req'[q].todo
        /\ \/ q \notin Uncounted
           \/ "count" \in req'[q].todo /\ req'[q].b = req[q].b
    <3>1. CASE Abort(q) /\ q \notin Uncounted
      BY <3>1, AbortEffect
    <3>2. ASSUME NEW s \in {"booking", "items", "payment", "record"}, Done(q, s)
          PROVE  /\ \A p \in Requests : p # q => req'[p] = req[p]
                 /\ req'[q].todo # {} => req'[q].coupon = req[q].coupon
                 /\ "usage" \in req'[q].todo =>
                      "usage" \in req[q].todo /\ "count" \in req'[q].todo
                 /\ \/ q \notin Uncounted
                    \/ "count" \in req'[q].todo /\ req'[q].b = req[q].b
      BY <1>1, <3>2, DoneEffect DEF DriftInv, Uncounted
    <3>3. QED
      BY <1>3, <3>1, <3>2
  <2>2. QED
    BY <1>1, <1>2, <1>3, <2>1, QuietDrift
<1>4. CASE InsertBooking(q)
  <2>1. q \notin Uncounted
    <3>1. "booking" \in req[q].todo
      BY <1>4 DEF InsertBooking, Turn
    <3>2. req[q].b \notin usage
      BY <3>1 DEF IntakeInv, CreateInv
    <3>3. QED
      BY <3>2 DEF Uncounted
  <2>2. Abort(q) \/ Done(q, "booking")
    BY <1>4 DEF InsertBooking
  <2>3. UNCHANGED <<coupon, usage>>
    BY <1>4 DEF InsertBooking
  <2>4. QED
    BY <1>3, <2>1, <2>2, <2>3
<1>5. CASE InsertItems(q) \/ InsertPayment(q) \/ RecordCreated(q)
  BY <1>3, <1>5 DEF InsertItems, InsertPayment, RecordCreated
<1>6. CASE InsertUsage(q)
  <2>1. "usage" \in req[q].todo /\ UNCHANGED coupon
    BY <1>6 DEF InsertUsage, Turn
  <2>2. CASE Done(q, "usage") /\ usage' = usage \cup {req[q].b}
    BY <1>1, <1>2, <2>1, <2>2, UsageDrift
  <2>3. CASE Abort(q) /\ UNCHANGED usage
    <3>1. q \notin Uncounted
      BY <2>1 DEF IntakeInv, CreateInv, Uncounted
    <3>2. QED
      BY <1>3, <2>1, <2>3, <3>1
  <2>4. QED
    BY <1>6, <2>2, <2>3 DEF InsertUsage
<1>7. CASE CountRedemption(q)
  BY <1>1, <1>7, CountDrift
<1>8. QED
  BY <1>4, <1>5, <1>6, <1>7 DEF Insert

LEMMA AdminDrift ==
  ASSUME IntakeAssumption, NoneAssumption, TypeOK, TypeOK', DriftInv,
         NEW q \in Requests, Admin(q) \/ Crash(q)
  PROVE  DriftInv'
<1>1. CASE EditCoupon(q)
  <2>1. PICK active, offer, limit :
          Begin(q, NoBooking, NoRow,
                [coupon EXCEPT !.active = active, !.offer = offer,
                               !.limit = limit], {"select"})
    BY <1>1 DEF EditCoupon
  <2>2. coupon # NoCoupon
        /\ [coupon EXCEPT !.active = active, !.offer = offer, !.limit = limit].used
             = coupon.used
    BY <1>1 DEF EditCoupon, TypeOK, Coupon
  <2>3. QED
    BY <2>1, <2>2, BeginDrift
<1>2. CASE RemoveCoupon(q)
  BY <1>2, BeginDrift DEF RemoveCoupon
<1>3. CASE Crash(q)
  <2>1. /\ \A p \in Requests : p # q => req'[p] = req[p]
        /\ req[q].todo # {} /\ req'[q].todo = {}
        /\ UNCHANGED <<usage, coupon>> /\ upsets' = upsets + 1
    BY <1>3, AbortEffect DEF Crash, InFlight, Upset
  <2>2. QED
    BY <2>1, QuietDrift
<1> DEFINE Works == \/ CountUsage(q) \/ DeleteCoupon(q) \/ SelectCoupon(q)
                    \/ UpdateCoupon(q) \/ ReinsertCoupon(q)
<1>4. ASSUME Works
      PROVE  /\ req[q].todo # {} /\ req[q] \in CouponRequest
             /\ req[q].coupon # NoCoupon
             /\ usage' = usage /\ upsets' = upsets
             /\ q \notin Uncounted /\ "usage" \notin req[q].todo
  <2>1. req[q].todo \cap CouponStatement # {} /\ usage' = usage /\ upsets' = upsets
    BY <1>4, CouponStatements DEF CountUsage, DeleteCoupon, SelectCoupon,
       UpdateCoupon, ReinsertCoupon, Turn
  <2>2. req[q] \in CouponRequest
    BY <2>1, InFlightMemory
  <2>3. QED
    BY <2>1, <2>2, CouponStatements, NoneAssumption
    DEF CouponRequest, NoneAssumption, Uncounted
<1> DEFINE Kept == \/ coupon # NoCoupon /\ coupon'.used = coupon.used
                   \/ req[q].coupon # NoCoupon /\ coupon'.used = req[q].coupon.used
<1>5. ASSUME Works, coupon' # NoCoupon => Kept, Abort(q) \/ \E s : Done(q, s)
      PROVE  DriftInv'
  <2>1. /\ \A p \in Requests : p # q => req'[p] = req[p]
        /\ req'[q].todo \subseteq req[q].todo
        /\ req'[q].todo # {} => req'[q].coupon = req[q].coupon
    BY <1>4, <1>5, AbortEffect, DoneEffect
  <2>2. QED
    BY <1>4, <1>5, <2>1, QuietDrift
<1>6. ASSUME Works, UNCHANGED coupon, NEW r, Continue(q, r), "usage" \notin r.todo,
             r.coupon.used = req[q].coupon.used
      PROVE  DriftInv'
  <2>1. /\ \A p \in Requests : p # q => req'[p] = req[p]
        /\ req'[q].todo # {} => req'[q] = r
        /\ "usage" \notin req'[q].todo
    BY <1>6 DEF Continue, TypeOK, NoRequest
  <2>2. coupon' # NoCoupon => coupon # NoCoupon /\ coupon'.used = coupon.used
    BY <1>6
  <2>3. QED
    BY <1>4, <1>6, <2>1, <2>2, QuietDrift
<1>7. CASE CountUsage(q)
  <2>1. /\ [req[q] EXCEPT !.todo = {"delete"}].todo = {"delete"}
        /\ [req[q] EXCEPT !.todo = {"delete"}].coupon.used = req[q].coupon.used
    BY <1>4, <1>7 DEF CouponRequest
  <2>2. LET r == [req[q] EXCEPT !.todo = {"select"}, !.coupon.active = FALSE]
        IN  r.todo = {"select"} /\ r.coupon.used = req[q].coupon.used
    BY <1>4, <1>7 DEF CouponRequest, Coupon
  <2>3. UNCHANGED coupon
    BY <1>7 DEF CountUsage
  <2>4. QED
    BY <1>5, <1>6, <1>7, <2>1, <2>2, <2>3 DEF CountUsage
<1>8. CASE SelectCoupon(q)
  <2> DEFINE diff == {c \in Columns : coupon[c] # req[q].coupon[c]}
             todo == IF diff = {} THEN {} ELSE {"update"}
  <2>1. \/ Continue(q, [req[q] EXCEPT !.todo = {"reinsert"}])
        \/ Continue(q, [req[q] EXCEPT !.dirty = diff, !.todo = todo])
    BY <1>8 DEF SelectCoupon
  <2>2. "usage" \notin todo
    OBVIOUS
  <2> HIDE DEF diff, todo
  <2>3. /\ [req[q] EXCEPT !.todo = {"reinsert"}].todo = {"reinsert"}
        /\ [req[q] EXCEPT !.todo = {"reinsert"}].coupon = req[q].coupon
        /\ [req[q] EXCEPT !.dirty = diff, !.todo = todo].todo = todo
        /\ [req[q] EXCEPT !.dirty = diff, !.todo = todo].coupon = req[q].coupon
    BY <1>4, <1>8 DEF CouponRequest
  <2>4. UNCHANGED coupon
    BY <1>8 DEF SelectCoupon
  <2>5. QED
    BY <1>6, <1>8, <2>1, <2>2, <2>3, <2>4
<1>9. CASE UpdateCoupon(q)
  <2>1. coupon' # NoCoupon => Kept
    BY <1>4, <1>9 DEF UpdateCoupon, Overwrite
  <2>2. QED
    BY <1>5, <1>9, <2>1 DEF UpdateCoupon
<1>10. CASE ReinsertCoupon(q)
  <2>1. coupon' # NoCoupon => Kept
    BY <1>4, <1>10 DEF ReinsertCoupon
  <2>2. Abort(q) \/ Done(q, "reinsert")
    BY <1>10 DEF ReinsertCoupon
  <2>3. QED
    BY <1>5, <1>10, <2>1, <2>2
<1>11. CASE DeleteCoupon(q)
  <2>1. coupon' # NoCoupon => Kept
    BY <1>11 DEF DeleteCoupon
  <2>2. QED
    BY <1>5, <1>11, <2>1 DEF DeleteCoupon
<1>12. QED
  BY <1>1, <1>2, <1>3, <1>7, <1>8, <1>9, <1>10, <1>11 DEF Admin

LEMMA DriftInvariant == Spec => []DriftInv
<1>1. IntakeAssumption /\ Init => DriftInv
  <2> SUFFICES ASSUME IntakeAssumption, Init
               PROVE  DriftInv
    OBVIOUS
  <2>1. Coming = {} /\ Uncounted = {} /\ usage = {} /\ upsets = 0
        /\ \A q \in Requests : req[q].todo = {}
    BY DEF Init, Coming, Uncounted, NoRequest
  <2>2. /\ Cardinality(Coming) = 0 /\ Cardinality(Uncounted) = 0
        /\ Cardinality(usage) = 0
    BY <2>1, FS_EmptySet
  <2>3. coupon # NoCoupon /\ coupon.used = 0 /\ coupon.limit \in Limits
        /\ coupon.limit \in Nat
    <3>1. PICK offer \in Offers, limit \in Limits :
            coupon = [active |-> TRUE, offer |-> offer, limit |-> limit, used |-> 0]
      BY DEF Init
    <3>2. coupon \in Coupon
      BY <3>1 DEF Coupon
    <3>3. QED
      BY <3>1, <3>2, NoneAssumption DEF NoneAssumption, IntakeAssumption
  <2>4. QED
    BY <2>1, <2>2, <2>3 DEF DriftInv, Covers
<1>2. IntakeAssumption /\ NoneAssumption /\ TypeOK /\ TypeOK' /\ IntakeInv /\ DriftInv
        /\ [Next]_vars => DriftInv'
  <2> SUFFICES ASSUME IntakeAssumption, NoneAssumption, TypeOK, TypeOK', IntakeInv,
                      DriftInv, [Next]_vars
               PROVE  DriftInv'
    OBVIOUS
  <2>1. CASE UNCHANGED vars
    <3>1. UNCHANGED <<coupon, usage, req, upsets>>
      BY <2>1 DEF vars
    <3>2. UNCHANGED <<Coming, Uncounted>>
      BY <3>1 DEF Coming, Uncounted
    <3>3. QED
      BY <3>1, <3>2 DEF DriftInv, Covers
  <2>2. QED
    BY <2>1, CustomerDrift, InsertDrift, AdminDrift DEF Next
<1>3. IntakeAssumption /\ NoneAssumption
  BY IntakeAssumption, NoneAssumption
<1>4. TypeAndBills => TypeOK
  BY DEF TypeAndBills
<1>5. QED
  BY <1>1, <1>2, <1>3, <1>4, IntakeInvariant, PTL DEF Spec

\* The counter lags by what is uncounted, and the limit is overrun, by at most
\* one redemption for each overlap or death: for any number of requests.
THEOREM CouponDriftAlwaysBounded == Spec => []CouponDriftBounded
<1>1. IntakeAssumption /\ TypeOK /\ DriftInv => CouponDriftBounded
  <2> SUFFICES ASSUME IntakeAssumption, TypeOK, DriftInv
               PROVE  CouponDriftBounded
    OBVIOUS
  <2>1. PICK limit \in Limits : Covers(limit)
    BY DEF DriftInv
  <2>2. Cardinality(usage) <= limit + upsets
    BY <2>1, DriftFinite DEF Covers, IntakeAssumption
  <2>3. QED
    BY <2>2 DEF DriftInv, CouponDriftBounded
<1>2. IntakeAssumption
  BY IntakeAssumption
<1>3. TypeAndBills => TypeOK
  BY DEF TypeAndBills
<1>4. QED
  BY <1>1, <1>2, <1>3, IntakeInvariant, DriftInvariant, PTL

-----------------------------------------------------------------------------
(* What failed creates leave behind.                                       *)

LEMMA LeftFinite ==
  ASSUME IntakeAssumption
  PROVE  /\ IsFiniteSet(Left) /\ Cardinality(Left) \in Nat
         /\ IsFiniteSet(Coming) /\ Cardinality(Coming) \in Nat
         /\ IsFiniteSet(Busy) /\ Cardinality(Busy) \in Nat
         /\ \A b : /\ IsFiniteSet(PaymentComing(b))
                   /\ Cardinality(PaymentComing(b)) \in Nat
<1>1. /\ Left \in SUBSET Bookings /\ Coming \in SUBSET Requests
      /\ Busy \in SUBSET Requests /\ \A b : PaymentComing(b) \in SUBSET Requests
  BY DEF Left, Placed, Coming, Busy, PaymentComing
<1>2. IsFiniteSet(Bookings) /\ IsFiniteSet(Requests)
  BY DEF IntakeAssumption
<1>3. QED
  BY <1>1, <1>2, Fewer

LEMMA LeftFiniteNext ==
  ASSUME IntakeAssumption
  PROVE  /\ IsFiniteSet(Left') /\ Cardinality(Left') \in Nat
         /\ IsFiniteSet(Coming') /\ Cardinality(Coming') \in Nat
         /\ IsFiniteSet(Busy') /\ Cardinality(Busy') \in Nat
         /\ \A b : /\ IsFiniteSet(PaymentComing(b)')
                   /\ Cardinality(PaymentComing(b)') \in Nat
<1>1. /\ Left' \in SUBSET Bookings /\ Coming' \in SUBSET Requests
      /\ Busy' \in SUBSET Requests /\ \A b : PaymentComing(b)' \in SUBSET Requests
  BY DEF Left, Placed, Coming, Busy, PaymentComing
<1>2. IsFiniteSet(Bookings) /\ IsFiniteSet(Requests)
  BY DEF IntakeAssumption
<1>3. QED
  BY <1>1, <1>2, Fewer

\* A step that leaves no booking behind and begins nothing.
LEMMA LeftStays ==
  ASSUME IntakeAssumption, TypeOK, LeftInv, upsets' = upsets,
         Left' \subseteq Left, Coming' \subseteq Coming, Closing' => Closing
  PROVE  LeftInv'
<1>1. /\ Cardinality(Left') <= Cardinality(Left)
      /\ Cardinality(Coming') <= Cardinality(Coming)
  BY LeftFinite, Fewer
<1>2. upsets \in Nat
  BY DEF TypeOK, IntakeAssumption
<1>3. QED
  BY <1>1, <1>2, LeftFinite, LeftFiniteNext DEF LeftInv

\* A death leaves a booking behind, and is one.
LEMMA LeftByDeath ==
  ASSUME IntakeAssumption, TypeOK, LeftInv, upsets' = upsets + 1,
         NEW b, Left' \subseteq Left \cup {b}, Coming' \subseteq Coming,
         Closing' => Closing
  PROVE  LeftInv'
<1>1. /\ Cardinality(Left') <= Cardinality(Left) + 1
      /\ Cardinality(Coming') <= Cardinality(Coming)
  BY LeftFinite, Fewer, AtMostOneMore
<1>2. upsets \in Nat
  BY DEF TypeOK, IntakeAssumption
<1>3. QED
  BY <1>1, <1>2, LeftFinite, LeftFiniteNext DEF LeftInv

\* A redemption that finds its coupon gone leaves a booking behind, which the
\* coupon's remover has paid for.
LEMMA LeftByRefusal ==
  ASSUME IntakeAssumption, TypeOK, LeftInv, upsets' = upsets, Closing,
         NEW b, Left' \subseteq Left \cup {b},
         NEW q \in Coming, Coming' \subseteq Coming \ {q}
  PROVE  LeftInv'
<1>1. Cardinality(Left') <= Cardinality(Left) + 1
  BY LeftFinite, AtMostOneMore
<1>2. Cardinality(Coming') <= Cardinality(Coming) - 1
  <2>1. /\ IsFiniteSet(Coming \ {q})
        /\ Cardinality(Coming \ {q}) = Cardinality(Coming) - 1
    BY LeftFinite, FS_RemoveElement
  <2>2. QED
    BY <2>1, LeftFinite, Fewer
<1>3. upsets \in Nat
  BY DEF TypeOK, IntakeAssumption
<1>4. QED
  BY <1>1, <1>2, <1>3, LeftFinite, LeftFiniteNext DEF LeftInv

\* A handler begins.  Only a create with a coupon is one more to come, and it
\* has seen the coupon.
LEMMA BeginLeft ==
  ASSUME IntakeAssumption, TypeOK, LeftInv, NEW q \in Requests,
         NEW b, NEW row, NEW mem, NEW todo, Begin(q, b, row, mem, todo),
         "usage" \in todo => coupon # NoCoupon /\ {"countUsage", "delete"} \cap todo = {},
         coupon = NoCoupon => "usage" \notin todo
  PROVE  LeftInv'
<1>1. /\ UNCHANGED <<bookings, logged, coupon>> /\ req[q].todo = {}
      /\ \A p \in Requests : p # q => req'[p] = req[p]
      /\ req'[q].todo = todo
  BY BeginEffect DEF Begin, order
<1>2. Left' \subseteq Left
  BY <1>1 DEF Left, Placed, Creating
<1>3. Cardinality(Left') <= Cardinality(Left)
  BY <1>2, LeftFinite, Fewer
<1>4. /\ Coming' \subseteq Coming \cup {q}
      /\ "usage" \notin todo => Coming' \subseteq Coming
  BY <1>1 DEF Coming
<1>5. /\ Cardinality(Coming') <= Cardinality(Coming) + 1
      /\ "usage" \notin todo => Cardinality(Coming') <= Cardinality(Coming)
  BY <1>4, LeftFinite, Fewer, AtMostOneMore
<1>6. upsets \in Nat
  BY DEF TypeOK, IntakeAssumption
<1>7. CASE \A p \in Requests : ~InFlight(p)
  <2>1. Coming = {} /\ upsets' = upsets
    BY <1>7 DEF Coming, InFlight, Begin
  <2>2. Cardinality(Coming) = 0
    BY <2>1, FS_EmptySet
  <2>3. "usage" \in todo => ~Closing'
    BY <1>1, <1>7 DEF Closing, InFlight
  <2>4. QED
    BY <1>3, <1>5, <1>6, <2>1, <2>2, <2>3, LeftFinite, LeftFiniteNext DEF LeftInv
<1>8. CASE ~ \A p \in Requests : ~InFlight(p)
  <2>1. upsets' = upsets + 1
    BY <1>8 DEF Begin, Upset
  <2>2. "usage" \in todo => (Closing' => Closing)
    BY <1>1 DEF Closing
  <2>3. QED
    BY <1>3, <1>5, <1>6, <2>1, <2>2, LeftFinite, LeftFiniteNext DEF LeftInv
<1>9. QED
  BY <1>7, <1>8

LEMMA CustomerLeft ==
  ASSUME IntakeAssumption, TypeOK, LeftInv, NEW q \in Requests, Customer(q)
  PROVE  LeftInv'
<1>1. PICK b \in Bookings : Create(q, b) \/ CreateWithCoupon(q, b)
                            \/ CreatePlan(q, b) \/ EnsurePayment(q, b)
  BY DEF Customer
<1>2. ASSUME NEW row, NEW todo, Begin(q, b, row, NoCoupon, todo), "usage" \notin todo
      PROVE  LeftInv'
  BY <1>2, BeginLeft
<1>3. CASE Create(q, b)
  <2>1. PICK row : Begin(q, b, row, NoCoupon, {"booking", "items", "payment", "record"})
    BY <1>3 DEF Create
  <2>2. QED
    BY <1>2, <2>1
<1>4. CASE CreateWithCoupon(q, b)
  <2>1. PICK row : Begin(q, b, row, NoCoupon,
                         {"booking", "items", "payment", "usage", "count", "record"})
    BY <1>4 DEF CreateWithCoupon
  <2>2. coupon # NoCoupon
    BY <1>4 DEF CreateWithCoupon, Redeemable
  <2>3. QED
    BY <2>1, <2>2, BeginLeft
<1>5. CASE CreatePlan(q, b)
  <2>1. PICK row : Begin(q, b, row, NoCoupon, {"booking", "payment", "record"})
    BY <1>5 DEF CreatePlan
  <2>2. QED
    BY <1>2, <2>1
<1>6. CASE EnsurePayment(q, b)
  BY <1>2, <1>6 DEF EnsurePayment
<1>7. QED
  BY <1>1, <1>3, <1>4, <1>5, <1>6

LEMMA InsertLeft ==
  ASSUME IntakeAssumption, TypeOK, IntakeInv, LeftInv, NEW q \in Requests, Insert(q)
  PROVE  LeftInv'
<1>1. req[q].todo # {} /\ req[q].b \in Bookings
  <2>1. req[q].todo \cap OrderStatement # {}
    BY DEF Insert, InsertBooking, InsertItems, InsertPayment, InsertUsage,
       CountRedemption, RecordCreated, Turn, OrderStatement
  <2>2. QED
    BY <2>1, InFlightMemory DEF OrderRequest
<1>2. upsets' = upsets
  BY DEF Insert, InsertBooking, InsertItems, InsertPayment, InsertUsage,
     CountRedemption, RecordCreated, Turn
<1>3. ASSUME NEW s \in OrderStatement, Done(q, s)
      PROVE  /\ Coming' \subseteq Coming /\ (coupon' = coupon => (Closing' => Closing))
             /\ \A p \in Requests : Creating(p) /\ (p = q => s # "record") =>
                                    Creating(p)' /\ req'[p].b = req[p].b
  <2>1. /\ \A p \in Requests : p # q => req'[p] = req[p]
        /\ req'[q].todo = req[q].todo \ {s}
        /\ req'[q].todo # {} => req'[q].b = req[q].b
    BY <1>1, <1>3, DoneEffect
  <2>2. QED
    BY <2>1 DEF Coming, Closing, Creating
<1>4. CASE InsertBooking(q)
  <2>1. "booking" \in req[q].todo /\ Creating(q) /\ req[q].b \notin Placed
        /\ UNCHANGED <<logged, coupon>>
    BY <1>4 DEF InsertBooking, Turn, IntakeInv, CreateInv
  <2>2. CASE Done(q, "booking") /\ bookings' = [bookings EXCEPT ![req[q].b] = req[q].row]
    <3>1. \A b \in Bookings : b # req[q].b => bookings'[b] = bookings[b]
      BY <2>2 DEF TypeOK
    <3>2. \A p \in Requests : Creating(p) => Creating(p)' /\ req'[p].b = req[p].b
      BY <1>3, <2>2 DEF OrderStatement
    <3>3. Left' \subseteq Left
      BY <2>1, <3>1, <3>2 DEF Left, Placed
    <3>4. QED
      BY <1>2, <1>3, <2>1, <2>2, <3>3, LeftStays DEF OrderStatement
  <2>3. CASE Abort(q) /\ UNCHANGED bookings
    <3>1. /\ \A p \in Requests : p # q => req'[p] = req[p]
          /\ req'[q].todo = {}
      BY <2>3, AbortEffect
    <3>2. Left' \subseteq Left
      BY <2>1, <2>3, <3>1 DEF Left, Placed, Creating
    <3>3. Coming' \subseteq Coming /\ (Closing' => Closing)
      BY <2>1, <3>1 DEF Coming, Closing
    <3>4. QED
      BY <1>2, <3>2, <3>3, LeftStays
  <2>4. QED
    BY <1>4, <2>2, <2>3 DEF InsertBooking
<1>5. ASSUME NEW s \in {"items", "payment", "usage", "count"}, Done(q, s),
             UNCHANGED <<bookings, logged>>, coupon' = NoCoupon => coupon = NoCoupon
      PROVE  LeftInv'
  <2>1. \A p \in Requests : Creating(p) => Creating(p)' /\ req'[p].b = req[p].b
    BY <1>3, <1>5 DEF OrderStatement
  <2>2. Left' \subseteq Left
    BY <1>5, <2>1 DEF Left, Placed
  <2>3. /\ \A p \in Requests : p # q => req'[p] = req[p]
        /\ req'[q].todo = req[q].todo \ {s}
    BY <1>1, <1>5, DoneEffect
  <2>4. Coming' \subseteq Coming /\ (Closing' => Closing)
    BY <1>5, <2>3 DEF Coming, Closing
  <2>5. QED
    BY <1>2, <2>2, <2>4, LeftStays
<1>6. CASE InsertItems(q) \/ InsertPayment(q)
  BY <1>5, <1>6 DEF InsertItems, InsertPayment
<1>7. CASE CountRedemption(q)
  <2>1. ASSUME coupon # NoCoupon
        PROVE  coupon' # NoCoupon
    <3>1. coupon \in Coupon /\ coupon' = [coupon EXCEPT !.used = @ + 1]
      BY <1>7, <2>1 DEF CountRedemption, TypeOK
    <3>2. coupon' \in Coupon
      BY <3>1 DEF Coupon
    <3>3. QED
      BY <3>2, NoneAssumption DEF NoneAssumption
  <2>2. QED
    BY <1>5, <1>7, <2>1 DEF CountRedemption, order
<1>8. CASE InsertUsage(q)
  <2>1. UNCHANGED <<bookings, logged, coupon>> /\ "usage" \in req[q].todo
    BY <1>8 DEF InsertUsage, Turn, order
  <2>2. CASE Done(q, "usage")
    BY <1>5, <2>1, <2>2
  <2>3. CASE Abort(q) /\ coupon = NoCoupon
    <3>1. /\ \A p \in Requests : p # q => req'[p] = req[p]
          /\ req'[q].todo = {}
      BY <2>3, AbortEffect
    <3>2. Left' \subseteq Left \cup {req[q].b}
      BY <2>1, <3>1 DEF Left, Placed, Creating
    <3>3. q \in Coming /\ Coming' \subseteq Coming \ {q} /\ Closing
      BY <2>1, <2>3, <3>1 DEF Coming, Closing
    <3>4. QED
      BY <1>2, <3>2, <3>3, LeftByRefusal
  <2>4. QED
    BY <1>8, <2>2, <2>3 DEF InsertUsage
<1>9. CASE RecordCreated(q)
  <2>1. Done(q, "record") /\ UNCHANGED <<bookings, coupon>>
        /\ logged' = logged \cup {req[q].b}
    BY <1>9 DEF RecordCreated
  <2>2. \A p \in Requests : p # q => (Creating(p) => Creating(p)' /\ req'[p].b = req[p].b)
    BY <1>3, <2>1 DEF OrderStatement
  <2>3. Left' \subseteq Left
    BY <2>1, <2>2 DEF Left, Placed
  <2>4. QED
    BY <1>2, <1>3, <2>1, <2>3, LeftStays DEF OrderStatement
<1>10. QED
  BY <1>4, <1>6, <1>7, <1>8, <1>9 DEF Insert

\* What an admin's statement does to its request: it stays an admin's, and
\* only a remove goes on to delete.
LEMMA AdminWork ==
  ASSUME NoneAssumption, TypeOK, NEW q \in Requests,
         \/ CountUsage(q) \/ DeleteCoupon(q) \/ SelectCoupon(q)
         \/ UpdateCoupon(q) \/ ReinsertCoupon(q)
  PROVE  /\ UNCHANGED <<bookings, payments, logged, upsets>>
         /\ req[q] \in CouponRequest /\ req[q].todo # {}
         /\ \A p \in Requests : p # q => req'[p] = req[p]
         /\ req'[q].todo \subseteq CouponStatement
         /\ {"countUsage", "delete"} \cap req'[q].todo # {} =>
              {"countUsage", "delete"} \cap req[q].todo # {}
<1>1. UNCHANGED <<bookings, payments, logged, upsets>>
      /\ req[q].todo \cap CouponStatement # {}
  BY CouponStatements DEF CountUsage, DeleteCoupon, SelectCoupon, UpdateCoupon,
     ReinsertCoupon, Turn, order
<1>2. req[q] \in CouponRequest /\ req[q].todo \subseteq CouponStatement
  BY <1>1, InFlightMemory DEF CouponRequest
<1> DEFINE Goal == /\ \A p \in Requests : p # q => req'[p] = req[p]
                   /\ req'[q].todo \subseteq CouponStatement
                   /\ {"countUsage", "delete"} \cap req'[q].todo # {} =>
                        {"countUsage", "delete"} \cap req[q].todo # {}
<1>3. ASSUME Abort(q) \/ \E s : Done(q, s)
      PROVE  Goal
  BY <1>1, <1>2, <1>3, AbortEffect, DoneEffect
<1>4. ASSUME NEW r, Continue(q, r), r.todo \subseteq CouponStatement,
             {"countUsage", "delete"} \cap r.todo # {} =>
               {"countUsage", "delete"} \cap req[q].todo # {}
      PROVE  Goal
  <2>1. \A p \in Requests : p # q => req'[p] = req[p]
    BY <1>4 DEF Continue, TypeOK
  <2>2. req'[q] = IF r.todo = {} THEN NoRequest ELSE r
    BY <1>4 DEF Continue, TypeOK
  <2>3. req'[q].todo = r.todo
    BY <2>2 DEF NoRequest
  <2>4. QED
    BY <1>4, <2>1, <2>3
<1> HIDE DEF Goal
<1>5. ASSUME DeleteCoupon(q) \/ UpdateCoupon(q) \/ ReinsertCoupon(q)
      PROVE  Goal
  BY <1>3, <1>5 DEF DeleteCoupon, UpdateCoupon, ReinsertCoupon
<1>6. ASSUME CountUsage(q)
      PROVE  Goal
  <2>1. [req[q] EXCEPT !.todo = {"delete"}].todo = {"delete"}
    BY <1>2 DEF CouponRequest
  <2>2. [req[q] EXCEPT !.todo = {"select"}, !.coupon.active = FALSE].todo = {"select"}
    BY <1>2 DEF CouponRequest
  <2>3. "countUsage" \in req[q].todo
    BY <1>6 DEF CountUsage, Turn
  <2>4. QED
    BY <1>3, <1>4, <1>6, <2>1, <2>2, <2>3, CouponStatements DEF CountUsage
<1>7. ASSUME SelectCoupon(q)
      PROVE  Goal
  <2> DEFINE diff == {c \in Columns : coupon[c] # req[q].coupon[c]}
             todo == IF diff = {} THEN {} ELSE {"update"}
  <2>1. \/ Continue(q, [req[q] EXCEPT !.todo = {"reinsert"}])
        \/ Continue(q, [req[q] EXCEPT !.dirty = diff, !.todo = todo])
    BY <1>7 DEF SelectCoupon
  <2>2. [req[q] EXCEPT !.todo = {"reinsert"}].todo = {"reinsert"}
    BY <1>2 DEF CouponRequest
  <2>3. todo \subseteq {"update"}
    OBVIOUS
  <2> HIDE DEF diff, todo
  <2>4. [req[q] EXCEPT !.dirty = diff, !.todo = todo].todo = todo
    BY <1>2 DEF CouponRequest
  <2>5. QED
    BY <1>4, <2>1, <2>2, <2>3, <2>4, CouponStatements
<1>8. QED
  BY <1>1, <1>2, <1>5, <1>6, <1>7 DEF Goal, CouponRequest

LEMMA AdminLeft ==
  ASSUME IntakeAssumption, NoneAssumption, TypeOK, LeftInv, NEW q \in Requests,
         Admin(q) \/ Crash(q)
  PROVE  LeftInv'
<1>1. CASE EditCoupon(q)
  <2>1. PICK mem : Begin(q, NoBooking, NoRow, mem, {"select"})
    BY <1>1 DEF EditCoupon
  <2>2. QED
    BY <2>1, BeginLeft
<1>2. CASE RemoveCoupon(q)
  BY <1>2, BeginLeft DEF RemoveCoupon
<1>3. CASE Crash(q)
  <2>1. /\ \A p \in Requests : p # q => req'[p] = req[p]
        /\ req'[q].todo = {} /\ upsets' = upsets + 1
        /\ UNCHANGED <<bookings, logged, coupon>>
    BY <1>3, AbortEffect DEF Crash, Upset, order
  <2>2. Left' \subseteq Left \cup {req[q].b}
    BY <2>1 DEF Left, Placed, Creating
  <2>3. Coming' \subseteq Coming /\ (Closing' => Closing)
    BY <2>1 DEF Coming, Closing
  <2>4. QED
    BY <2>1, <2>2, <2>3, LeftByDeath
<1>4. CASE \/ CountUsage(q) \/ DeleteCoupon(q) \/ SelectCoupon(q)
           \/ UpdateCoupon(q) \/ ReinsertCoupon(q)
  <2>1. /\ UNCHANGED <<bookings, logged, upsets>>
        /\ \A p \in Requests : p # q => req'[p] = req[p]
        /\ {"usage", "record"} \cap (req[q].todo \cup req'[q].todo) = {}
        /\ req[q] \in CouponRequest
        /\ {"countUsage", "delete"} \cap req'[q].todo # {} =>
             {"countUsage", "delete"} \cap req[q].todo # {}
    BY <1>4, AdminWork, CouponStatements DEF CouponRequest
  <2>2. coupon' = NoCoupon => Closing
    <3>1. CASE DeleteCoupon(q)
      BY <3>1 DEF DeleteCoupon, Turn, Closing
    <3>2. CASE CountUsage(q) \/ SelectCoupon(q)
      BY <3>2 DEF CountUsage, SelectCoupon, Closing
    <3>3. CASE ReinsertCoupon(q)
      BY <2>1, <3>3, NoneAssumption
      DEF ReinsertCoupon, Closing, CouponRequest, NoneAssumption
    <3>4. CASE UpdateCoupon(q)
      <4>1. ASSUME coupon # NoCoupon
            PROVE  coupon' # NoCoupon
        <5>1. coupon \in Coupon /\ req[q].coupon \in Coupon
              /\ coupon' = Overwrite(coupon, req[q].coupon, req[q].dirty)
          BY <2>1, <3>4, <4>1 DEF UpdateCoupon, TypeOK, CouponRequest
        <5>2. coupon' \in Coupon
          BY <5>1 DEF Overwrite, Coupon
        <5>3. QED
          BY <5>2, NoneAssumption DEF NoneAssumption
      <4>2. QED
        BY <4>1 DEF Closing
    <3>5. QED
      BY <1>4, <3>1, <3>2, <3>3, <3>4
  <2>3. Left' \subseteq Left
    BY <2>1 DEF Left, Placed, Creating
  <2>4. Coming' \subseteq Coming /\ (Closing' => Closing)
    BY <2>1, <2>2 DEF Coming, Closing
  <2>5. QED
    BY <2>1, <2>3, <2>4, LeftStays
<1>5. QED
  BY <1>1, <1>2, <1>3, <1>4 DEF Admin

\* A step that begins nothing, pays nothing and unplaces nothing.
LEMMA PaymentStays ==
  ASSUME IntakeAssumption, TypeOK, TypeOK', PaymentInv, upsets <= upsets',
         UNCHANGED payments, Placed \subseteq Placed', NEW q \in Requests,
         \A p \in Requests : p # q => req'[p] = req[p], req[q].todo # {},
         "payment" \in req'[q].todo =>
           /\ "payment" \in req[q].todo /\ req'[q].b = req[q].b
           /\ Creating(q) => Creating(q)'
  PROVE  PaymentInv'
<1>1. upsets \in Nat /\ upsets' \in Nat
  BY DEF TypeOK, IntakeAssumption
<1>2. Busy' \subseteq Busy /\ \A b \in Bookings : PaymentComing(b)' \subseteq PaymentComing(b)
  BY DEF Busy, PaymentComing
<1>3. Cardinality(Busy') <= 1 + upsets'
  <2>1. Cardinality(Busy') <= Cardinality(Busy)
    BY <1>2, LeftFinite, Fewer
  <2>2. QED
    BY <1>1, <2>1, LeftFinite, LeftFiniteNext DEF PaymentInv
<1>4. ASSUME NEW b \in Bookings
      PROVE  /\ payments'[b] + Cardinality(PaymentComing(b)') <= 1 + upsets'
             /\ payments'[b] > 0 => b \in Placed'
  <2>1. Cardinality(PaymentComing(b)') <= Cardinality(PaymentComing(b))
    BY <1>2, LeftFinite, Fewer
  <2>2. payments'[b] \in Nat /\ payments'[b] = payments[b]
    BY DEF TypeOK
  <2>3. QED
    BY <1>1, <2>1, <2>2, LeftFinite, LeftFiniteNext DEF PaymentInv
<1>5. ASSUME NEW p \in Requests, "payment" \in req'[p].todo, ~Creating(p)'
      PROVE  req'[p].b \in Placed'
  BY <1>5 DEF PaymentInv, Creating
<1>6. QED
  BY <1>3, <1>4, <1>5 DEF PaymentInv

\* A handler begins: it pays, if at all, for a booking without a payment.
LEMMA BeginPayment ==
  ASSUME IntakeAssumption, TypeOK, TypeOK', PaymentInv, NEW q \in Requests,
         NEW b, NEW row, NEW mem, NEW todo, Begin(q, b, row, mem, todo),
         "payment" \in todo => /\ b \in Bookings /\ payments[b] = 0
                               /\ "record" \in todo \/ b \in Placed
  PROVE  PaymentInv'
<1>1. /\ UNCHANGED <<bookings, payments>> /\ req[q].todo = {}
      /\ \A p \in Requests : p # q => req'[p] = req[p]
      /\ req'[q].todo = todo /\ req'[q].b = b
  BY BeginEffect DEF Begin, order
<1>2. upsets \in Nat /\ upsets' \in Nat /\ upsets <= upsets'
  BY DEF TypeOK, IntakeAssumption, Begin, Upset
<1>3. Cardinality(Busy') <= 1 + upsets'
  <2>1. CASE \A p \in Requests : ~InFlight(p)
    <3>1. Busy = {} /\ Busy' \subseteq Busy \cup {q}
      BY <1>1, <2>1 DEF Busy, InFlight
    <3>2. Cardinality(Busy) = 0
      BY <3>1, FS_EmptySet
    <3>3. Cardinality(Busy') <= Cardinality(Busy) + 1
      BY <3>1, LeftFinite, AtMostOneMore
    <3>4. QED
      BY <1>2, <3>2, <3>3, LeftFiniteNext
  <2>2. CASE ~ \A p \in Requests : ~InFlight(p)
    <3>1. Busy' \subseteq Busy \cup {q}
      BY <1>1 DEF Busy
    <3>2. upsets' = upsets + 1
      BY <2>2 DEF Begin, Upset
    <3>3. Cardinality(Busy') <= Cardinality(Busy) + 1
      BY <3>1, LeftFinite, AtMostOneMore
    <3>4. QED
      BY <1>2, <3>2, <3>3, LeftFinite, LeftFiniteNext DEF PaymentInv
  <2>3. QED
    BY <2>1, <2>2
<1>4. ASSUME NEW c \in Bookings
      PROVE  payments'[c] + Cardinality(PaymentComing(c)') <= 1 + upsets'
  <2>1. payments[c] \in Nat /\ payments'[c] = payments[c]
    BY <1>1 DEF TypeOK
  <2>2. CASE "payment" \in todo /\ b = c
    <3>1. PaymentComing(c)' \subseteq Busy'
      BY DEF PaymentComing, Busy
    <3>2. Cardinality(PaymentComing(c)') <= Cardinality(Busy')
      BY <3>1, LeftFiniteNext, Fewer
    <3>3. QED
      BY <1>2, <1>3, <2>1, <2>2, <3>2, LeftFiniteNext
  <2>3. CASE ~("payment" \in todo /\ b = c)
    <3>1. PaymentComing(c)' \subseteq PaymentComing(c)
      BY <1>1, <2>3 DEF PaymentComing
    <3>2. Cardinality(PaymentComing(c)') <= Cardinality(PaymentComing(c))
      BY <3>1, LeftFinite, Fewer
    <3>3. QED
      BY <1>2, <2>1, <3>2, LeftFinite, LeftFiniteNext DEF PaymentInv
  <2>4. QED
    BY <2>2, <2>3
<1>5. Placed' = Placed
  BY <1>1 DEF Placed
<1>6. \A p \in Requests : "payment" \in req'[p].todo /\ ~Creating(p)' => req'[p].b \in Placed'
  BY <1>1, <1>5 DEF PaymentInv, Creating
<1>7. QED
  BY <1>1, <1>3, <1>4, <1>5, <1>6 DEF PaymentInv

LEMMA CustomerPayment ==
  ASSUME IntakeAssumption, TypeOK, TypeOK', PaymentInv, NEW q \in Requests, Customer(q)
  PROVE  PaymentInv'
<1>1. PICK b \in Bookings : Create(q, b) \/ CreateWithCoupon(q, b)
                            \/ CreatePlan(q, b) \/ EnsurePayment(q, b)
  BY DEF Customer
<1>2. ASSUME Fresh(b)
      PROVE  payments[b] = 0
  BY <1>2 DEF Fresh, PaymentInv, TypeOK
<1>3. ASSUME NEW row, NEW todo, Begin(q, b, row, NoCoupon, todo),
             Fresh(b), "record" \in todo
      PROVE  PaymentInv'
  BY <1>2, <1>3, BeginPayment
<1>4. CASE Create(q, b)
  <2>1. PICK row : Begin(q, b, row, NoCoupon, {"booking", "items", "payment", "record"})
    BY <1>4 DEF Create
  <2>2. QED
    BY <1>3, <1>4, <2>1 DEF Create
<1>5. CASE CreateWithCoupon(q, b)
  <2>1. PICK row : Begin(q, b, row, NoCoupon,
                         {"booking", "items", "payment", "usage", "count", "record"})
    BY <1>5 DEF CreateWithCoupon
  <2>2. QED
    BY <1>3, <1>5, <2>1 DEF CreateWithCoupon
<1>6. CASE CreatePlan(q, b)
  <2>1. PICK row : Begin(q, b, row, NoCoupon, {"booking", "payment", "record"})
    BY <1>6 DEF CreatePlan
  <2>2. QED
    BY <1>3, <1>6, <2>1 DEF CreatePlan
<1>7. CASE EnsurePayment(q, b)
  BY <1>7, BeginPayment DEF EnsurePayment
<1>8. QED
  BY <1>1, <1>4, <1>5, <1>6, <1>7

\* The payment row itself: a create inserts it after its booking.
LEMMA InsertPaymentBounded ==
  ASSUME IntakeAssumption, NoneAssumption, TypeOK, TypeOK', IntakeInv, PaymentInv,
         NEW q \in Requests, InsertPayment(q)
  PROVE  PaymentInv'
<1>1. /\ "payment" \in req[q].todo /\ "booking" \notin req[q].todo
      /\ req[q].todo # {} /\ Done(q, "payment") /\ UNCHANGED <<bookings, upsets>>
      /\ payments' = [payments EXCEPT ![req[q].b] = @ + 1]
  BY DEF InsertPayment, Turn, Rank
<1>2. req[q].b \in Bookings
  BY <1>1, InFlightMemory DEF OrderRequest, OrderStatement
<1>3. /\ \A p \in Requests : p # q => req'[p] = req[p]
      /\ req'[q].todo = req[q].todo \ {"payment"}
  BY <1>1, DoneEffect
<1>4. upsets \in Nat
  BY DEF TypeOK, IntakeAssumption
<1>5. req[q].b \in Placed
  <2>1. CASE Creating(q)
    BY <1>1, <1>2, <2>1, NoneAssumption
    DEF IntakeInv, CreateInv, Placed, NoneAssumption
  <2>2. CASE ~Creating(q)
    BY <1>1, <2>2 DEF PaymentInv
  <2>3. QED
    BY <2>1, <2>2
<1>6. ASSUME NEW b \in Bookings
      PROVE  /\ payments'[b] + Cardinality(PaymentComing(b)') <= 1 + upsets'
             /\ payments'[b] > 0 => b \in Placed'
  <2>1. payments[b] \in Nat /\ payments'[b] \in Nat /\ Placed' = Placed
    BY <1>1 DEF TypeOK, Placed
  <2>2. CASE b = req[q].b
    <3>1. PaymentComing(b)' = PaymentComing(b) \ {q} /\ q \in PaymentComing(b)
      BY <1>1, <1>3, <2>2 DEF PaymentComing
    <3>2. Cardinality(PaymentComing(b)') = Cardinality(PaymentComing(b)) - 1
      BY <3>1, LeftFinite, FS_RemoveElement
    <3>3. payments'[b] = payments[b] + 1
      BY <1>1, <1>2, <2>2 DEF TypeOK
    <3>4. QED
      BY <1>1, <1>4, <1>5, <2>1, <2>2, <3>2, <3>3, LeftFinite DEF PaymentInv
  <2>3. CASE b # req[q].b
    <3>1. payments'[b] = payments[b]
      BY <1>1, <2>3 DEF TypeOK
    <3>2. PaymentComing(b)' \subseteq PaymentComing(b)
      BY <1>3, <2>3 DEF PaymentComing
    <3>3. Cardinality(PaymentComing(b)') <= Cardinality(PaymentComing(b))
      BY <3>2, LeftFinite, Fewer
    <3>4. QED
      BY <1>1, <1>4, <2>1, <3>1, <3>3, LeftFinite, LeftFiniteNext DEF PaymentInv
  <2>4. QED
    BY <2>2, <2>3
<1>7. Cardinality(Busy') <= 1 + upsets'
  <2>1. Busy' \subseteq Busy
    BY <1>1, <1>3 DEF Busy
  <2>2. Cardinality(Busy') <= Cardinality(Busy)
    BY <2>1, LeftFinite, Fewer
  <2>3. QED
    BY <1>1, <1>4, <2>2, LeftFinite, LeftFiniteNext DEF PaymentInv
<1>8. \A p \in Requests : "payment" \in req'[p].todo /\ ~Creating(p)' => req'[p].b \in Placed'
  BY <1>1, <1>3 DEF PaymentInv, Creating, Placed
<1>9. QED
  BY <1>6, <1>7, <1>8 DEF PaymentInv

LEMMA StepPayment ==
  ASSUME IntakeAssumption, NoneAssumption, TypeOK, TypeOK', IntakeInv, PaymentInv,
         NEW q \in Requests, Insert(q) \/ Admin(q) \/ Crash(q)
  PROVE  PaymentInv'
<1>0. upsets \in Nat
  BY DEF TypeOK, IntakeAssumption
<1>1. ASSUME Abort(q), req[q].todo # {}, UNCHANGED <<bookings, payments>>,
             upsets' \in {upsets, upsets + 1}
      PROVE  PaymentInv'
  <2>1. /\ \A p \in Requests : p # q => req'[p] = req[p]
        /\ req'[q].todo = {}
    BY <1>1, AbortEffect
  <2>2. Placed' = Placed /\ upsets <= upsets'
    BY <1>0, <1>1 DEF Placed
  <2>3. QED
    BY <1>1, <2>1, <2>2, PaymentStays
<1>2. ASSUME NEW s, Done(q, s), s \in {"booking", "items", "usage", "count", "record"},
             Turn(q, s), UNCHANGED payments, Placed \subseteq Placed'
      PROVE  PaymentInv'
  <2>1. req[q].todo # {} /\ upsets' = upsets
    BY <1>2 DEF Turn
  <2>2. /\ \A p \in Requests : p # q => req'[p] = req[p]
        /\ req'[q].todo = req[q].todo \ {s}
        /\ req'[q].todo # {} => req'[q].b = req[q].b
    BY <1>2, <2>1, DoneEffect
  <2>3. "payment" \in req'[q].todo => s # "record"
    BY <1>2, <2>2 DEF Turn, Rank
  <2>4. QED
    BY <1>0, <1>2, <2>1, <2>2, <2>3, PaymentStays DEF Creating
<1>3. CASE InsertBooking(q)
  <2>1. Turn(q, "booking") /\ UNCHANGED payments
    BY <1>3 DEF InsertBooking
  <2>2. CASE Abort(q) /\ UNCHANGED bookings
    BY <1>0, <1>1, <2>1, <2>2 DEF Turn
  <2>3. CASE Done(q, "booking") /\ bookings' = [bookings EXCEPT ![req[q].b] = req[q].row]
    <3>1. req[q].row \in Row
      BY <2>1 DEF Turn, IntakeInv, CreateInv
    <3>2. Placed \subseteq Placed'
      BY <2>3, <3>1, NoneAssumption DEF TypeOK, Placed, NoneAssumption
    <3>3. QED
      BY <1>2, <2>1, <2>3, <3>2
  <2>4. QED
    BY <1>3, <2>2, <2>3 DEF InsertBooking
<1>4. CASE InsertPayment(q)
  BY <1>4, InsertPaymentBounded
<1>5. CASE InsertItems(q) \/ CountRedemption(q) \/ RecordCreated(q)
  BY <1>2, <1>5 DEF InsertItems, CountRedemption, RecordCreated, Placed, order
<1>6. CASE InsertUsage(q)
  <2>1. Turn(q, "usage") /\ UNCHANGED <<bookings, payments>>
    BY <1>6 DEF InsertUsage, order
  <2>2. CASE Abort(q)
    BY <1>0, <1>1, <2>1, <2>2 DEF Turn
  <2>3. CASE Done(q, "usage")
    BY <1>2, <2>1, <2>3 DEF Placed
  <2>4. QED
    BY <1>6, <2>2, <2>3 DEF InsertUsage
<1>7. CASE EditCoupon(q)
  <2>1. PICK mem : Begin(q, NoBooking, NoRow, mem, {"select"})
    BY <1>7 DEF EditCoupon
  <2>2. QED
    BY <2>1, BeginPayment
<1>8. CASE RemoveCoupon(q)
  BY <1>8, BeginPayment DEF RemoveCoupon
<1>9. CASE Crash(q)
  BY <1>1, <1>9 DEF Crash, InFlight, Upset, order
<1>10. CASE \/ CountUsage(q) \/ DeleteCoupon(q) \/ SelectCoupon(q)
            \/ UpdateCoupon(q) \/ ReinsertCoupon(q)
  <2>1. /\ UNCHANGED <<bookings, payments, upsets>> /\ req[q].todo # {}
        /\ \A p \in Requests : p # q => req'[p] = req[p]
        /\ "payment" \notin req'[q].todo
    BY <1>10, AdminWork, CouponStatements
  <2>2. Placed' = Placed
    BY <2>1 DEF Placed
  <2>3. QED
    BY <1>0, <2>1, <2>2, PaymentStays
<1>11. QED
  BY <1>3, <1>4, <1>5, <1>6, <1>7, <1>8, <1>9, <1>10 DEF Insert, Admin

LEMMA LeftoversInvariant == Spec => [](LeftInv /\ PaymentInv)
<1>1. IntakeAssumption /\ NoneAssumption /\ Init => LeftInv /\ PaymentInv
  <2> SUFFICES ASSUME IntakeAssumption, NoneAssumption, Init
               PROVE  LeftInv /\ PaymentInv
    OBVIOUS
  <2>1. \A q \in Requests : req[q].todo = {}
    BY DEF Init, NoRequest
  <2>2. Left = {} /\ Coming = {} /\ Busy = {} /\ \A b : PaymentComing(b) = {}
    BY <2>1 DEF Init, Left, Placed, Coming, Busy, PaymentComing
  <2>3. /\ Cardinality(Left) = 0 /\ Cardinality(Coming) = 0 /\ Cardinality(Busy) = 0
        /\ \A b : Cardinality(PaymentComing(b)) = 0
    BY <2>2, FS_EmptySet
  <2>4. QED
    BY <2>1, <2>3 DEF Init, LeftInv, PaymentInv
<1>2. IntakeAssumption /\ NoneAssumption /\ TypeOK /\ TypeOK' /\ IntakeInv
        /\ LeftInv /\ PaymentInv /\ [Next]_vars => LeftInv' /\ PaymentInv'
  <2> SUFFICES ASSUME IntakeAssumption, NoneAssumption, TypeOK, TypeOK', IntakeInv,
                      LeftInv, PaymentInv, [Next]_vars
               PROVE  LeftInv' /\ PaymentInv'
    OBVIOUS
  <2>1. CASE UNCHANGED vars
    <3>1. UNCHANGED <<bookings, payments, logged, coupon, req, upsets>>
      BY <2>1 DEF vars, order
    <3>2. UNCHANGED <<Left, Coming, Busy, Placed, Closing>>
          /\ \A b : PaymentComing(b)' = PaymentComing(b)
      BY <3>1 DEF Left, Placed, Creating, Coming, Busy, PaymentComing, Closing
    <3>3. QED
      BY <3>1, <3>2 DEF LeftInv, PaymentInv, Creating
  <2>2. QED
    BY <2>1, CustomerLeft, InsertLeft, AdminLeft, CustomerPayment, StepPayment DEF Next
<1>3. IntakeAssumption /\ NoneAssumption
  BY IntakeAssumption, NoneAssumption
<1>4. TypeAndBills => TypeOK
  BY DEF TypeAndBills
<1>5. QED
  BY <1>1, <1>2, <1>3, <1>4, IntakeInvariant, PTL DEF Spec

\* However many creates fail, what they leave behind is bounded by what has
\* overlapped or died, and so are the payments a booking gets.
THEOREM LeftoversAlwaysBounded == Spec => []LeftoversBounded
<1>1. IntakeAssumption /\ TypeOK /\ LeftInv /\ PaymentInv => LeftoversBounded
  <2> SUFFICES ASSUME IntakeAssumption, TypeOK, LeftInv, PaymentInv
               PROVE  LeftoversBounded
    OBVIOUS
  <2>1. upsets \in Nat
    BY DEF TypeOK, IntakeAssumption
  <2>2. Incomplete \subseteq Left
    BY DEF Incomplete, Left, Placed, Holds, InFlight, Creating
  <2>3. /\ Cardinality(Incomplete) <= Cardinality(Left)
        /\ Cardinality(Incomplete) \in Nat
    BY <2>2, LeftFinite, Fewer
  <2>4. Cardinality(Incomplete) <= upsets
    BY <2>1, <2>3, LeftFinite DEF LeftInv
  <2>5. \A b \in Bookings : payments[b] <= 1 + upsets
    BY <2>1, LeftFinite DEF PaymentInv, TypeOK
  <2>6. QED
    BY <2>4, <2>5 DEF LeftoversBounded
<1>2. IntakeAssumption
  BY IntakeAssumption
<1>3. TypeAndBills => TypeOK
  BY DEF TypeAndBills
<1>4. QED
  BY <1>1, <1>2, <1>3, IntakeInvariant, LeftoversInvariant, PTL
=============================================================================
