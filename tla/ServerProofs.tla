---------------------------- MODULE ServerProofs ----------------------------
(***************************************************************************)
(* What every handler's steps keep of the server: the type of what the     *)
(* requests have in memory, that there is one request at a time until the  *)
(* first overlap, and how many there are after some overlaps.              *)
(***************************************************************************)
EXTENDS Server, FiniteSets, FiniteSetTheorems, TLAPS

\* Every request is in S, whatever S is.
ServerTyped(S) == req \in [Requests -> S] /\ overlaps \in Nat /\ deaths \in Nat

LEMMA StartTyped ==
  ASSUME NEW S, ServerTyped(S), NEW q \in Requests, NEW r \in S, Start(q, r)
  PROVE  ServerTyped(S)'
BY DEF ServerTyped, Start

LEMMA GoTyped ==
  ASSUME NEW S, ServerTyped(S), NEW q \in Requests, NEW r \in S, Go(q, r)
  PROVE  ServerTyped(S)'
BY DEF ServerTyped, Go

LEMMA AnswerTyped ==
  ASSUME NEW S, ServerTyped(S), NEW q \in Requests, Idle \in S, Answer(q)
  PROVE  ServerTyped(S)'
BY GoTyped DEF Answer

LEMMA DieTyped ==
  ASSUME NEW S, ServerTyped(S), NEW q \in Requests, Idle \in S, Die(q)
  PROVE  ServerTyped(S)'
BY DEF ServerTyped, Die

-----------------------------------------------------------------------------
\* Without an overlap so far, one request is in flight at most.
Alone == overlaps = 0 => \A p, q \in Requests : InFlight(p) /\ InFlight(q) => p = q

\* The first request to start is the only one.
LEMMA StartAlone ==
  ASSUME NEW S, ServerTyped(S), NEW q \in Requests, NEW r, Start(q, r)
  PROVE  /\ Alone'
         /\ overlaps' = 0 => overlaps = 0 /\ Quiet
         /\ req'[q] = r /\ \A p \in Requests \ {q} : req'[p] = req[p]
<1>1. req'[q] = r /\ \A p \in Requests \ {q} : req'[p] = req[p]
  BY DEF ServerTyped, Start
<1>2. overlaps' = 0 => overlaps = 0 /\ Quiet
  BY DEF ServerTyped, Start
<1>3. Alone'
  BY <1>1, <1>2 DEF Alone, Quiet, InFlight
<1>4. QED
  BY <1>1, <1>2, <1>3

LEMMA GoAlone ==
  ASSUME NEW S, ServerTyped(S), Alone, NEW q \in Requests, InFlight(q), NEW r, Go(q, r)
  PROVE  /\ Alone'
         /\ overlaps' = overlaps
         /\ req'[q] = r /\ \A p \in Requests \ {q} : req'[p] = req[p]
BY DEF ServerTyped, Alone, InFlight, Go

LEMMA DieAlone ==
  ASSUME NEW S, ServerTyped(S), Alone, NEW q \in Requests, Die(q)
  PROVE  /\ Alone'
         /\ overlaps' = overlaps
         /\ req'[q] = Idle /\ \A p \in Requests \ {q} : req'[p] = req[p]
BY DEF ServerTyped, Alone, InFlight, Die

-----------------------------------------------------------------------------
(* Counting.                                                               *)

LEMMA Fewer ==
  ASSUME NEW T, IsFiniteSet(T), NEW S \in SUBSET T
  PROVE  /\ IsFiniteSet(S) /\ Cardinality(S) \in Nat /\ Cardinality(T) \in Nat
         /\ Cardinality(S) <= Cardinality(T)
BY FS_Subset, FS_CardinalityType

LEMMA OneMore ==
  ASSUME NEW T, IsFiniteSet(T), NEW x, NEW S \in SUBSET (T \cup {x})
  PROVE  /\ IsFiniteSet(S) /\ Cardinality(S) \in Nat /\ Cardinality(T) \in Nat
         /\ Cardinality(S) <= Cardinality(T) + 1
<1>1. IsFiniteSet(T \cup {x}) /\ Cardinality(T \cup {x}) <= Cardinality(T) + 1
      /\ Cardinality(T) \in Nat
  BY FS_AddElement, FS_CardinalityType
<1>2. /\ IsFiniteSet(S) /\ Cardinality(S) \in Nat /\ Cardinality(T \cup {x}) \in Nat
      /\ Cardinality(S) <= Cardinality(T \cup {x})
  BY <1>1, Fewer
<1>3. QED
  BY <1>1, <1>2

LEMMA OneLess ==
  ASSUME NEW T, IsFiniteSet(T), NEW x \in T, NEW S \in SUBSET (T \ {x})
  PROVE  /\ IsFiniteSet(S) /\ Cardinality(S) \in Nat /\ Cardinality(T) \in Nat
         /\ Cardinality(S) + 1 <= Cardinality(T)
<1>1. IsFiniteSet(T \ {x}) /\ Cardinality(T \ {x}) = Cardinality(T) - 1
      /\ Cardinality(T) \in Nat
  BY FS_RemoveElement, FS_CardinalityType
<1>2. /\ IsFiniteSet(S) /\ Cardinality(S) \in Nat
      /\ Cardinality(S) <= Cardinality(T \ {x})
  BY <1>1, Fewer
<1>3. QED
  BY <1>1, <1>2

\* What two sets that a budget n pays for, one for each of their elements,
\* may become when the budget is nn.
Affords(A, B, n, AA, BB, nn) ==
  \/ AA \subseteq A /\ BB \subseteq B /\ n <= nn
  \/ AA \subseteq A /\ BB \subseteq B /\ n <= nn + 1 /\ (AA # A \/ BB # B)
  \/ AA \subseteq A /\ (\E x : BB \subseteq B \cup {x}) /\ n + 1 <= nn
  \/ /\ \E x : AA \subseteq A \cup {x}
     /\ \E x \in B : BB \subseteq B \ {x}
     /\ n <= nn

LEMMA Afforded ==
  ASSUME NEW A, IsFiniteSet(A), NEW B, IsFiniteSet(B), NEW n \in Nat, NEW nn \in Nat,
         Cardinality(A) + Cardinality(B) <= n, NEW AA, NEW BB, Affords(A, B, n, AA, BB, nn)
  PROVE  Cardinality(AA) + Cardinality(BB) <= nn
<1>1. Cardinality(A) \in Nat /\ Cardinality(B) \in Nat
  BY FS_CardinalityType
<1>2. ASSUME AA \subseteq A
      PROVE  Cardinality(AA) \in Nat /\ Cardinality(AA) <= Cardinality(A)
  BY <1>2, Fewer
<1>3. ASSUME BB \subseteq B
      PROVE  Cardinality(BB) \in Nat /\ Cardinality(BB) <= Cardinality(B)
  BY <1>3, Fewer
<1>4. ASSUME NEW x, AA \subseteq A \cup {x}
      PROVE  Cardinality(AA) \in Nat /\ Cardinality(AA) <= Cardinality(A) + 1
  BY <1>4, OneMore
<1>5. ASSUME NEW x, BB \subseteq B \cup {x}
      PROVE  Cardinality(BB) \in Nat /\ Cardinality(BB) <= Cardinality(B) + 1
  BY <1>5, OneMore
<1>6. ASSUME NEW x \in A, AA \subseteq A \ {x}
      PROVE  Cardinality(AA) \in Nat /\ Cardinality(AA) + 1 <= Cardinality(A)
  BY <1>6, OneLess
<1>7. ASSUME NEW x \in B, BB \subseteq B \ {x}
      PROVE  Cardinality(BB) \in Nat /\ Cardinality(BB) + 1 <= Cardinality(B)
  BY <1>7, OneLess
<1>8. CASE AA \subseteq A /\ BB \subseteq B /\ n <= nn
  BY <1>1, <1>2, <1>3, <1>8
<1>9. CASE AA \subseteq A /\ BB \subseteq B /\ n <= nn + 1 /\ (AA # A \/ BB # B)
  <2>1. CASE AA # A
    <3>1. PICK x \in A : AA \subseteq A \ {x}
      BY <1>9, <2>1
    <3>2. QED
      BY <1>1, <1>3, <1>6, <1>9, <3>1
  <2>2. CASE BB # B
    <3>1. PICK x \in B : BB \subseteq B \ {x}
      BY <1>9, <2>2
    <3>2. QED
      BY <1>1, <1>2, <1>7, <1>9, <3>1
  <2>3. QED
    BY <1>9, <2>1, <2>2
<1>10. CASE AA \subseteq A /\ (\E x : BB \subseteq B \cup {x}) /\ n + 1 <= nn
  <2>1. PICK x : BB \subseteq B \cup {x}
    BY <1>10
  <2>2. /\ Cardinality(BB) \in Nat /\ Cardinality(BB) <= Cardinality(B) + 1
        /\ Cardinality(AA) \in Nat /\ Cardinality(AA) <= Cardinality(A)
    BY <1>2, <1>5, <1>10, <2>1
  <2>3. n + 1 <= nn
    BY <1>10
  <2>4. QED
    BY <1>1, <2>2, <2>3
<1>11. CASE /\ \E x : AA \subseteq A \cup {x}
            /\ \E x \in B : BB \subseteq B \ {x}
            /\ n <= nn
  <2>1. PICK x : AA \subseteq A \cup {x}
    BY <1>11
  <2>2. PICK y \in B : BB \subseteq B \ {y}
    BY <1>11
  <2>3. /\ Cardinality(AA) \in Nat /\ Cardinality(AA) <= Cardinality(A) + 1
        /\ Cardinality(BB) \in Nat /\ Cardinality(BB) + 1 <= Cardinality(B)
    BY <1>4, <1>7, <2>1, <2>2
  <2>4. n <= nn
    BY <1>11
  <2>5. QED
    BY <1>1, <2>3, <2>4
<1>12. QED
  BY <1>8, <1>9, <1>10, <1>11 DEF Affords

\* The requests in flight, but for one, have each started as an overlap.
Busy    == {q \in Requests : InFlight(q)}
BusyInv == IsFiniteSet(Busy) /\ Cardinality(Busy) <= 1 + overlaps

LEMMA StartBusy ==
  ASSUME NEW S, ServerTyped(S), BusyInv, NEW q \in Requests, NEW r, Start(q, r)
  PROVE  /\ BusyInv' /\ overlaps' \in Nat
         /\ overlaps' >= overlaps
         /\ Quiet \/ overlaps' = overlaps + 1
<1>1. \A p \in Requests \ {q} : req'[p] = req[p]
  BY DEF ServerTyped, Start
<1>2. Busy' \in SUBSET (Busy \cup {q})
  BY <1>1 DEF Busy, InFlight
<1>3. IsFiniteSet(Busy') /\ Cardinality(Busy') <= Cardinality(Busy) + 1
      /\ Cardinality(Busy') \in Nat /\ Cardinality(Busy) \in Nat
  BY <1>2, OneMore DEF BusyInv
<1>4. overlaps \in Nat /\ overlaps' = IF Quiet THEN overlaps ELSE overlaps + 1
  BY DEF ServerTyped, Start
<1>5. CASE Quiet
  <2>1. Busy = {}
    BY <1>5 DEF Busy, Quiet
  <2>2. Cardinality(Busy) = 0
    BY <2>1, FS_EmptySet
  <2>3. QED
    BY <1>3, <1>4, <1>5, <2>2 DEF BusyInv
<1>6. CASE ~Quiet
  BY <1>3, <1>4, <1>6 DEF BusyInv
<1>7. QED
  BY <1>4, <1>5, <1>6

LEMMA StepBusy ==
  ASSUME BusyInv, overlaps \in Nat, NEW q \in Requests, InFlight(q), overlaps' = overlaps,
         \A p \in Requests : p # q => req'[p] = req[p]
  PROVE  BusyInv'
<1>1. Busy' \in SUBSET Busy
  BY DEF Busy, InFlight
<1>2. QED
  BY <1>1, Fewer DEF BusyInv

LEMMA BusyAlone ==
  ASSUME BusyInv, overlaps = 0, NEW p \in Requests, NEW q \in Requests,
         InFlight(p), InFlight(q)
  PROVE  p = q
<1>1. p \in Busy /\ q \in Busy
  BY DEF Busy
<1>2. IsFiniteSet(Busy) /\ Cardinality(Busy) <= 1
  BY DEF BusyInv
<1>3. IsFiniteSet(Busy \ {p}) /\ Cardinality(Busy \ {p}) \in Nat
      /\ Cardinality(Busy \ {p}) + 1 <= Cardinality(Busy) /\ Cardinality(Busy) \in Nat
  BY <1>1, <1>2, OneLess
<1>4. Cardinality(Busy \ {p}) = 0
  BY <1>2, <1>3
<1>5. Busy \ {p} = {}
  BY <1>3, <1>4, FS_EmptySet
<1>6. QED
  BY <1>1, <1>5

-----------------------------------------------------------------------------
(* What goes wrong is paid for by the overlaps: o requests have started as *)
(* an overlap, those of B are in flight, n times it went wrong, and k is 1 *)
(* when it may go wrong once more, which is paid for already.              *)
Owes(B, o, n, k) == IF B = {} THEN n <= o ELSE n + Cardinality(B) + k <= o + 1

LEMMA OwesEnough ==
  ASSUME NEW B, IsFiniteSet(B), NEW o \in Nat, NEW n \in Nat, NEW k \in {0, 1},
         Owes(B, o, n, k)
  PROVE  n <= o
<1>1. B # {} => Cardinality(B) \in Nat /\ Cardinality(B) # 0
  BY FS_CardinalityType, FS_EmptySet
<1>2. QED
  BY <1>1 DEF Owes

\* A request starts: the first one, or one that overlaps.
Joins(B, o, k, oo, kk) ==
  oo = (IF B = {} THEN o ELSE o + 1) /\ kk <= k /\ (B = {} => kk = 0)

LEMMA OwesMore ==
  ASSUME NEW B, IsFiniteSet(B), NEW o \in Nat, NEW n \in Nat, NEW k \in {0, 1},
         Owes(B, o, n, k), NEW q, NEW BB \in SUBSET (B \cup {q}), NEW oo \in Nat,
         NEW kk \in {0, 1},
         Joins(B, o, k, oo, kk)
  PROVE  Owes(BB, oo, n, kk)
<1>0. oo = (IF B = {} THEN o ELSE o + 1) /\ kk <= k /\ (B = {} => kk = 0)
  BY DEF Joins
<1>1. /\ Cardinality(BB) \in Nat /\ Cardinality(B) \in Nat
      /\ Cardinality(BB) <= Cardinality(B) + 1
  BY OneMore
<1>2. CASE B = {}
  <2>1. Cardinality(B) = 0 /\ n <= o
    BY <1>2, FS_EmptySet DEF Owes
  <2>2. QED
    BY <1>0, <1>1, <1>2, <2>1 DEF Owes
<1>3. CASE B # {}
  <2>1. n + Cardinality(B) + k <= o + 1
    BY <1>3 DEF Owes
  <2>2. Cardinality(B) # 0
    BY <1>3, FS_EmptySet
  <2>3. QED
    BY <1>0, <1>1, <1>3, <2>1, <2>2 DEF Owes
<1>4. QED
  BY <1>2, <1>3

LEMMA OwesLater ==
  ASSUME NEW B, IsFiniteSet(B), NEW o \in Nat, NEW n \in Nat, NEW k \in {0, 1},
         Owes(B, o, n, k), NEW oo \in Nat, oo >= o
  PROVE  Owes(B, oo, n, k)
BY FS_CardinalityType DEF Owes

\* What the step of q, in flight, may change: nothing; or it is the last one
\* of q, so that BB are left in flight without it.
Pays(q, BB, n, k, nn, kk) ==
  \/ nn <= n /\ kk <= k
  \/ q \notin BB /\ nn <= n
  \/ q \notin BB /\ nn <= n + 1 /\ k = 1
  \/ q \notin BB /\ nn <= n + 1 /\ kk <= k /\ BB # {}

LEMMA OwesStill ==
  ASSUME NEW B, IsFiniteSet(B), NEW o \in Nat, NEW n \in Nat, NEW k \in {0, 1},
         Owes(B, o, n, k), NEW q \in B, NEW BB \in SUBSET B,
         NEW nn \in Nat, NEW kk \in {0, 1}, Pays(q, BB, n, k, nn, kk)
  PROVE  Owes(BB, o, nn, kk)
<1>1. n + Cardinality(B) + k <= o + 1
  BY DEF Owes
<1>2. /\ Cardinality(B) \in Nat /\ Cardinality(BB) \in Nat
      /\ Cardinality(BB) <= Cardinality(B)
  BY Fewer
<1>3. Cardinality(B \ {q}) \in Nat /\ Cardinality(B \ {q}) + 1 <= Cardinality(B)
  BY OneLess
<1>4. q \notin BB => Cardinality(BB) + 1 <= Cardinality(B)
  <2>1. q \notin BB => BB \in SUBSET (B \ {q})
    OBVIOUS
  <2>2. QED
    BY <2>1, OneLess
<1>5. CASE nn <= n /\ kk <= k
  BY <1>1, <1>2, <1>3, <1>5 DEF Owes
<1>6. CASE q \notin BB /\ nn <= n
  BY <1>1, <1>2, <1>4, <1>6 DEF Owes
<1>7. CASE q \notin BB /\ nn <= n + 1 /\ k = 1
  BY <1>1, <1>2, <1>4, <1>7 DEF Owes
<1>8. CASE q \notin BB /\ nn <= n + 1 /\ kk <= k /\ BB # {}
  BY <1>1, <1>2, <1>4, <1>8 DEF Owes
<1>9. QED
  BY <1>5, <1>6, <1>7, <1>8 DEF Pays
=============================================================================
