------------------------------ MODULE Pricing ------------------------------
(***************************************************************************)
(* What a booking costs.  The server computes in rupees with doubles and   *)
(* rounds every result to two decimals; here amounts are whole paise and   *)
(* percentages are hundredths of a percent, both Naturals.                 *)
(***************************************************************************)
EXTENDS Integers

CONSTANT NoCap   \* coupons.max_discount IS NULL

Least(a, b)    == IF a <= b THEN a ELSE b
Greatest(a, b) == IF a <= b THEN b ELSE a

\* round2 of n/d: the nearest integers.  Halfway between two, the double may
\* lie on either side, so both are possible.
Rounded(n, d) ==
  {r \in (n \div d)..(n \div d + 1) : 2 * d * r - 2 * n \in (-d)..d}

-----------------------------------------------------------------------------
(* Orders.                                                                 *)

\* priceItems: an hourly price, for some minutes, some times.
LineAmount(line) == Rounded(line.pricePerHour * line.minutes * line.quantity, 60)

\* Mutant: a FLAT coupon larger than the order is not cut down to it.
UnboundedDiscount(offer, subtotal) ==
  Rounded(IF offer.type = "PERCENT" THEN subtotal * offer.value
                                    ELSE 10000 * offer.value, 10000)

\* resolveCoupon: the discount of an offer, capped by the offer and by the
\* order before it is rounded.
CouponDiscount(offer, subtotal) ==
  LET raw    == IF offer.type = "PERCENT" THEN subtotal * offer.value
                                          ELSE 10000 * offer.value
      capped == IF offer.cap = NoCap THEN raw ELSE Least(raw, 10000 * offer.cap)
  IN  Rounded(Least(capped, 10000 * subtotal), 10000)

\* The bills of an order or a plan: tax is due on what the discount leaves.
Bills(subtotal, discount, taxRate) ==
  {[subtotal |-> subtotal, discount |-> discount, tax |-> tax,
    total |-> subtotal - discount + tax] :
     tax \in Rounded((subtotal - discount) * taxRate, 10000)}

-----------------------------------------------------------------------------
(* Plans.                                                                  *)

\* cookCharge: people who share a cook, clamped as the code clamps them.
CookPeople(people)   == Least(12, Greatest(1, people))
CookGross(cook)      == cook.rate * CookPeople(cook.people) + cook.cleaning
CookDiscounts(cook)  ==
  Rounded((CookPeople(cook.people) - 1) * cook.rate
            * Least(10000, Greatest(0, cook.percent)), 10000)

\* createPlan: a cook is priced per person, any other plan by its tier.
PlanCharges(plan) ==
  IF plan.cook THEN {[subtotal |-> CookGross(plan), discount |-> d] :
                       d \in CookDiscounts(plan)}
               ELSE {[subtotal |-> plan.rate, discount |-> 0]}
=============================================================================
