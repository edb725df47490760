-------------------------- MODULE FairCreditProofs --------------------------
(***************************************************************************)
(* Credit is conserved for every set of lanes and handles, every reserve   *)
(* and limit within the lane contract, and every word width.               *)
(*                                                                         *)
(* Conserved alone is not inductive: a refund computes what was borrowed   *)
(* from the lane's total, so it must know that the handle's amount is part *)
(* of that total.  That is HeldIsCarried, which in turn needs to know that *)
(* a handle that is not alive carries nothing and that an extension sits   *)
(* on a live grant of its own lane (HandlesAreSane).                       *)
(***************************************************************************)
EXTENDS FairCredit

HandlesAreSane ==
  \A h \in Handles :
    /\ kind[h] = "free" <=> lane[h] = NoLane
    /\ kind[h] = "extension" =>
         /\ target[h] # h
         /\ kind[target[h]] = "grant"
         /\ lane[target[h]] = lane[h]

IInv == TypeOK /\ HandlesAreSane /\ HeldIsCarried /\ Conserved

-----------------------------------------------------------------------------
(* The arithmetic of one axis. *)

\* Acquiring d raises what a lane borrows by exactly the demand.
LEMMA RequiredIsBorrowed ==
  ASSUME NEW h \in Nat, NEW r \in Nat, NEW d \in Nat
  PROVE  /\ Required(h, r, d) \in Nat
         /\ SubOrZero(h + d, r) = SubOrZero(h, r) + Required(h, r, d)
BY DEF Required, SubOrZero

LEMMA BorrowedType ==
  ASSUME TypeOK, NEW a \in Axes
  PROVE  /\ BorrowedOn(a) \in [Lanes -> 0..MaxWord]
         /\ \A l \in Lanes : BorrowedOn(a)[l] = SubOrZero(held[l][a], Reserve[l][a])
BY CreditAssumption DEF TypeOK, BorrowedOn, Borrowed, SubOrZero, Vector, Word

LEMMA CarriedType ==
  ASSUME TypeOK, NEW l \in Lanes, NEW a \in Axes
  PROVE  CarriedBy(l, a) \in [Handles -> 0..MaxWord]
BY CreditAssumption DEF TypeOK, CarriedBy, Vector, Word

\* Whatever a handle carries is part of what its lane holds.
LEMMA CarriedIsHeld ==
  ASSUME IInv, NEW h \in Handles, lane[h] \in Lanes, NEW a \in Axes
  PROVE  /\ amount[h][a] \in Nat /\ held[lane[h]][a] \in Nat
         /\ amount[h][a] <= held[lane[h]][a]
<1>1. CarriedBy(lane[h], a) \in [Handles -> 0..MaxWord]
  BY CarriedType DEF IInv
<1>2. CarriedBy(lane[h], a)[h] = amount[h][a]
  BY DEF CarriedBy
<1>3. amount[h][a] <= SumOf(CarriedBy(lane[h], a), MaxWord)
  BY <1>1, <1>2, SumOfBounds, CreditAssumption
<1>4. held[lane[h]][a] = SumOf(CarriedBy(lane[h], a), MaxWord)
  BY DEF IInv, HeldIsCarried
<1>5. amount[h][a] \in Nat /\ held[lane[h]][a] \in Nat
  BY CreditAssumption DEF IInv, TypeOK, Vector, Word
<1> QED
  BY <1>3, <1>4, <1>5

\* Two handles of a lane together carry no more than it holds.
LEMMA PairIsHeld ==
  ASSUME IInv, NEW g \in Handles, NEW h \in Handles, g # h,
         lane[g] \in Lanes, lane[h] = lane[g], NEW a \in Axes
  PROVE  amount[g][a] + amount[h][a] <= held[lane[g]][a]
<1> DEFINE f == CarriedBy(lane[g], a)
           m == [f EXCEPT ![h] = 0]
<1>1. f \in [Handles -> 0..MaxWord]
  BY CarriedType DEF IInv
<1>2. f[g] = amount[g][a] /\ f[h] = amount[h][a]
  BY DEF CarriedBy
<1>3. held[lane[g]][a] = SumOf(f, MaxWord)
  BY DEF IInv, HeldIsCarried
<1> HIDE DEF f
<1>4. m \in [Handles -> 0..MaxWord] /\ m[h] = 0 /\ m[g] = f[g]
      /\ \A y \in Handles \ {h} : m[y] = f[y]
  BY <1>1, CreditAssumption
<1> HIDE DEF m
<1>5. SumOf(m, MaxWord) = SumOf(f, MaxWord) + m[h] - f[h]
  BY <1>1, <1>4, SumOfUpdate, CreditAssumption
<1>6. m[g] <= SumOf(m, MaxWord)
  BY <1>4, SumOfBounds, CreditAssumption
<1>7. SumOf(f, MaxWord) \in Nat /\ SumOf(m, MaxWord) \in Nat
  BY <1>1, <1>4, UnitsFinite, CreditAssumption
<1>8. amount[g][a] \in Nat /\ amount[h][a] \in Nat
  BY CreditAssumption DEF IInv, TypeOK, Vector, Word
<1> QED
  BY <1>2, <1>3, <1>4, <1>5, <1>6, <1>7, <1>8

-----------------------------------------------------------------------------
(* What a step does to the accounts. *)

\* Held and surplus after an admitted acquisition of amt on lane l.
LEMMA AcquiredStep ==
  ASSUME IInv, NEW l \in Lanes, NEW amt \in Vector,
         \A a \in Axes : held[l][a] + amt[a] <= MaxWord /\ Demand(l, amt)[a] <= shared[a],
         Acquired(l, amt)
  PROVE  /\ held' \in [Lanes -> Vector] /\ shared' \in Vector
         /\ \A a \in Axes : held'[l][a] = held[l][a] + amt[a]
         /\ \A k \in Lanes \ {l} : held'[k] = held[k]
         /\ Conserved'
<1> USE CreditAssumption
<1>1. /\ held \in [Lanes -> Vector] /\ shared \in Vector
      /\ Reserve \in [Lanes -> Vector]
  BY DEF IInv, TypeOK
<1>2. \A a \in Axes : /\ amt[a] \in Nat /\ held[l][a] \in Nat /\ Reserve[l][a] \in Nat
                      /\ shared[a] \in Nat /\ shared[a] <= MaxWord /\ Limit[a] \in Nat
  BY <1>1 DEF Vector, Word
<1>3. \A a \in Axes : /\ held'[l][a] = held[l][a] + amt[a]
                      /\ held'[l][a] \in Word
  BY <1>1, <1>2 DEF Acquired, VPlus, Plus, Vector, Word
<1>4. \A k \in Lanes \ {l} : held'[k] = held[k]
  BY <1>1 DEF Acquired
<1>5. held'[l] \in Vector
  <2>1. held'[l] = VPlus(held[l], amt)
    BY <1>1 DEF Acquired
  <2> QED
    BY <2>1, <1>3 DEF VPlus, Vector
<1>6. held' \in [Lanes -> Vector]
  BY <1>1, <1>4, <1>5 DEF Acquired
<1>7. \A a \in Axes : /\ Demand(l, amt)[a] \in Nat
                      /\ Demand(l, amt)[a] = Required(held[l][a], Reserve[l][a], amt[a])
                      /\ shared'[a] = shared[a] - Demand(l, amt)[a]
  <2>1. \A a \in Axes : /\ Demand(l, amt)[a] = Required(held[l][a], Reserve[l][a], amt[a])
                        /\ Demand(l, amt)[a] \in Nat
    BY <1>2, RequiredIsBorrowed DEF Demand
  <2> QED
    BY <2>1, <1>2 DEF Acquired, VMinus, Minus
<1>8. shared' \in Vector
  BY <1>2, <1>7 DEF Acquired, VMinus, Vector, Word
<1>9. Conserved'
  <2> SUFFICES ASSUME NEW a \in Axes
               PROVE  shared'[a] + SumOf(BorrowedOn(a)', MaxWord) = Limit[a]
    BY DEF Conserved
  <2> DEFINE f == BorrowedOn(a)
             g == BorrowedOn(a)'
  <2>1. /\ f \in [Lanes -> 0..MaxWord]
        /\ \A k \in Lanes : f[k] = SubOrZero(held[k][a], Reserve[k][a])
    BY BorrowedType DEF IInv
  <2>2. /\ g \in [Lanes -> 0..MaxWord]
        /\ \A k \in Lanes : g[k] = SubOrZero(held'[k][a], Reserve[k][a])
    BY <1>1, <1>6 DEF BorrowedOn, Borrowed, SubOrZero, Vector, Word
  <2>3. \A k \in Lanes \ {l} : g[k] = f[k]
    BY <2>1, <2>2, <1>4
  <2>4. g[l] = f[l] + Demand(l, amt)[a]
    <3>1. /\ f[l] = SubOrZero(held[l][a], Reserve[l][a])
          /\ g[l] = SubOrZero(held[l][a] + amt[a], Reserve[l][a])
      BY <2>1, <2>2, <1>3
    <3>2. /\ held[l][a] \in Nat /\ Reserve[l][a] \in Nat /\ amt[a] \in Nat
          /\ Demand(l, amt)[a] = Required(held[l][a], Reserve[l][a], amt[a])
      BY <1>2, <1>7
    <3> HIDE DEF f, g
    <3> QED
      BY ONLY <3>1, <3>2 DEF Required, SubOrZero
  <2>5. shared[a] + SumOf(f, MaxWord) = Limit[a]
    BY DEF IInv, Conserved
  <2> HIDE DEF f, g
  <2>6. SumOf(g, MaxWord) = SumOf(f, MaxWord) + g[l] - f[l]
    <3>1. f \in [Lanes -> 0..MaxWord] /\ g \in [Lanes -> 0..MaxWord]
      BY <2>1, <2>2
    <3>2. IsFiniteSet(Lanes) /\ MaxWord \in Nat
      OBVIOUS
    <3> QED
      BY ONLY <3>1, <3>2, <2>3, SumOfUpdate, l \in Lanes
  <2>7. SumOf(f, MaxWord) \in Nat /\ SumOf(g, MaxWord) \in Nat
    BY <2>1, <2>2, UnitsFinite
  <2>8. f[l] \in Nat /\ g[l] \in Nat
    BY <2>1, <2>2
  <2>9. shared'[a] + SumOf(g, MaxWord) = Limit[a]
    BY <2>4, <2>5, <2>6, <2>7, <2>8, <1>2, <1>7
  <2> QED
    BY <2>9 DEF g
<1> QED
  BY <1>3, <1>4, <1>6, <1>8, <1>9

\* Held and surplus after the refund of all that a live handle carries.
LEMMA ReleasedStep ==
  ASSUME IInv, NEW h \in Handles, lane[h] \in Lanes,
         Released(lane[h], amount[h])
  PROVE  /\ held' \in [Lanes -> Vector] /\ shared' \in Vector
         /\ \A a \in Axes : held'[lane[h]][a] = held[lane[h]][a] - amount[h][a]
         /\ \A k \in Lanes \ {lane[h]} : held'[k] = held[k]
         /\ Conserved'
<1> USE CreditAssumption
<1> DEFINE l == lane[h]
           amt == amount[h]
<1>1. /\ held \in [Lanes -> Vector] /\ shared \in Vector
      /\ Reserve \in [Lanes -> Vector] /\ amt \in Vector
  BY DEF IInv, TypeOK
<1>2. \A a \in Axes : /\ amt[a] \in Nat /\ held[l][a] \in Nat /\ held[l][a] <= MaxWord
                      /\ amt[a] <= held[l][a] /\ Reserve[l][a] \in Nat
                      /\ shared[a] \in Nat /\ Limit[a] \in Nat /\ Limit[a] <= MaxWord
  BY <1>1, CarriedIsHeld DEF Vector, Word
<1>3. \A a \in Axes : held'[l][a] = held[l][a] - amt[a] /\ held'[l][a] \in Word
  BY <1>1, <1>2 DEF Released, VMinus, Minus, Vector, Word
<1>4. \A k \in Lanes \ {l} : held'[k] = held[k]
  BY <1>1 DEF Released
<1>5. held'[l] \in Vector
  <2>1. held'[l] = VMinus(held[l], amt)
    BY <1>1 DEF Released
  <2> QED
    BY <2>1, <1>3 DEF VMinus, Vector
<1>6. held' \in [Lanes -> Vector]
  BY <1>1, <1>4, <1>5 DEF Released
<1>7. \A a \in Axes :
        /\ Returned(l, amt)[a] = Least(SubOrZero(held[l][a], Reserve[l][a]), amt[a])
        /\ shared'[a] = Plus(shared[a], Returned(l, amt)[a])
  BY DEF Returned, Released, VPlus
<1>8. \A a \in Axes : /\ shared'[a] + SumOf(BorrowedOn(a)', MaxWord) = Limit[a]
                      /\ shared'[a] \in Word
  <2> SUFFICES ASSUME NEW a \in Axes
               PROVE  /\ shared'[a] + SumOf(BorrowedOn(a)', MaxWord) = Limit[a]
                      /\ shared'[a] \in Word
    OBVIOUS
  <2> DEFINE f == BorrowedOn(a)
             g == BorrowedOn(a)'
             back == Returned(l, amt)[a]
  <2>1. /\ f \in [Lanes -> 0..MaxWord]
        /\ \A k \in Lanes : f[k] = SubOrZero(held[k][a], Reserve[k][a])
    BY BorrowedType DEF IInv
  <2>2. /\ g \in [Lanes -> 0..MaxWord]
        /\ \A k \in Lanes : g[k] = SubOrZero(held'[k][a], Reserve[k][a])
    BY <1>1, <1>6 DEF BorrowedOn, Borrowed, SubOrZero, Vector, Word
  <2>3. \A k \in Lanes \ {l} : g[k] = f[k]
    BY <2>1, <2>2, <1>4
  <2>4. back \in Nat /\ back <= f[l] /\ g[l] = f[l] - back
    <3>1. /\ f[l] = SubOrZero(held[l][a], Reserve[l][a])
          /\ g[l] = SubOrZero(held[l][a] - amt[a], Reserve[l][a])
      BY <2>1, <2>2, <1>3
    <3>2. back = Least(SubOrZero(held[l][a], Reserve[l][a]), amt[a])
      BY <1>7
    <3>3. /\ held[l][a] \in Nat /\ Reserve[l][a] \in Nat
          /\ amt[a] \in Nat /\ amt[a] <= held[l][a]
      BY <1>2
    <3> HIDE DEF f, g, back, l, amt
    <3> QED
      BY ONLY <3>1, <3>2, <3>3 DEF Least, SubOrZero
  <2>5. shared[a] + SumOf(f, MaxWord) = Limit[a]
    BY DEF IInv, Conserved
  <2>6. shared'[a] = Plus(shared[a], back)
    BY <1>7
  <2> HIDE DEF f, g, back, l, amt
  <2>7. SumOf(g, MaxWord) = SumOf(f, MaxWord) + g[l] - f[l]
    <3>1. f \in [Lanes -> 0..MaxWord] /\ g \in [Lanes -> 0..MaxWord]
      BY <2>1, <2>2
    <3>2. IsFiniteSet(Lanes) /\ MaxWord \in Nat /\ l \in Lanes
      BY DEF l
    <3> QED
      BY ONLY <3>1, <3>2, <2>3, SumOfUpdate
  <2>8. SumOf(f, MaxWord) \in Nat /\ SumOf(g, MaxWord) \in Nat
    BY <2>1, <2>2, UnitsFinite
  <2>9. f[l] \in Nat /\ g[l] \in Nat /\ f[l] <= SumOf(f, MaxWord)
    BY <2>1, <2>2, SumOfBounds DEF l
  <2>10. shared'[a] = shared[a] + back
    BY <2>4, <2>5, <2>6, <2>8, <2>9, <1>2 DEF Plus
  <2>11. shared'[a] + SumOf(g, MaxWord) = Limit[a] /\ shared'[a] \in Word
    BY <2>4, <2>5, <2>7, <2>8, <2>9, <2>10, <1>2 DEF Word
  <2> QED
    BY <2>11 DEF g
<1>9. shared' \in Vector
  BY <1>8 DEF Released, VPlus, Vector
<1>10. Conserved'
  BY <1>8 DEF Conserved
<1> QED
  BY <1>3, <1>4, <1>6, <1>9, <1>10

-----------------------------------------------------------------------------
(* What a step does to the sums over handles. *)

LEMMA CarriedMove ==
  ASSUME TypeOK, TypeOK', NEW h \in Handles,
         \A x \in Handles \ {h} : lane'[x] = lane[x] /\ amount'[x] = amount[x]
  PROVE  \A l \in Lanes, a \in Axes :
           SumOf(CarriedBy(l, a)', MaxWord)
             = SumOf(CarriedBy(l, a), MaxWord)
                 + (IF lane'[h] = l THEN amount'[h][a] ELSE 0)
                 - (IF lane[h] = l THEN amount[h][a] ELSE 0)
<1> SUFFICES ASSUME NEW l \in Lanes, NEW a \in Axes
             PROVE  SumOf(CarriedBy(l, a)', MaxWord)
                      = SumOf(CarriedBy(l, a), MaxWord)
                          + (IF lane'[h] = l THEN amount'[h][a] ELSE 0)
                          - (IF lane[h] = l THEN amount[h][a] ELSE 0)
  OBVIOUS
<1> DEFINE f == CarriedBy(l, a)
           g == CarriedBy(l, a)'
<1>1. f \in [Handles -> 0..MaxWord]
  BY CarriedType
<1>2. g \in [Handles -> 0..MaxWord]
  BY CreditAssumption DEF TypeOK, CarriedBy, Vector, Word
<1>3. \A x \in Handles \ {h} : g[x] = f[x]
  BY DEF CarriedBy
<1>4. /\ f[h] = IF lane[h] = l THEN amount[h][a] ELSE 0
      /\ g[h] = IF lane'[h] = l THEN amount'[h][a] ELSE 0
  BY DEF CarriedBy
<1> HIDE DEF f, g
<1>5. SumOf(g, MaxWord) = SumOf(f, MaxWord) + g[h] - f[h]
  BY <1>1, <1>2, <1>3, SumOfUpdate, CreditAssumption
<1>6. SumOf(g, MaxWord)
        = SumOf(f, MaxWord) + (IF lane'[h] = l THEN amount'[h][a] ELSE 0)
                            - (IF lane[h] = l THEN amount[h][a] ELSE 0)
  BY <1>4, <1>5
<1> QED
  BY <1>6 DEF f, g

\* Amounts moving between two handles of a lane leave every sum as it was.
LEMMA CarriedShift ==
  ASSUME TypeOK, TypeOK', NEW g \in Handles, NEW h \in Handles, g # h,
         \A x \in Handles \ {g, h} : lane'[x] = lane[x] /\ amount'[x] = amount[x],
         \A l \in Lanes, a \in Axes :
             (IF lane'[g] = l THEN amount'[g][a] ELSE 0)
               + (IF lane'[h] = l THEN amount'[h][a] ELSE 0)
           = (IF lane[g] = l THEN amount[g][a] ELSE 0)
               + (IF lane[h] = l THEN amount[h][a] ELSE 0)
  PROVE  \A l \in Lanes, a \in Axes :
           SumOf(CarriedBy(l, a)', MaxWord) = SumOf(CarriedBy(l, a), MaxWord)
<1> SUFFICES ASSUME NEW l \in Lanes, NEW a \in Axes
             PROVE  SumOf(CarriedBy(l, a)', MaxWord) = SumOf(CarriedBy(l, a), MaxWord)
  OBVIOUS
<1> DEFINE p == CarriedBy(l, a)
           q == CarriedBy(l, a)'
<1>1. p \in [Handles -> 0..MaxWord]
  BY CarriedType
<1>2. q \in [Handles -> 0..MaxWord]
  BY CreditAssumption DEF TypeOK, CarriedBy, Vector, Word
<1>3. \A x \in Handles \ {g, h} : q[x] = p[x]
  BY DEF CarriedBy
<1>4. q[g] + q[h] = p[g] + p[h]
  BY DEF CarriedBy
<1> HIDE DEF p, q
<1>5. SumOf(q, MaxWord) = SumOf(p, MaxWord) + (q[g] - p[g]) + (q[h] - p[h])
  <2>1. IsFiniteSet(Handles) /\ MaxWord \in Nat
    BY CreditAssumption
  <2> QED
    BY <2>1, <1>1, <1>2, <1>3, SumOfUpdate2
<1>6. SumOf(p, MaxWord) \in Nat /\ p[g] \in Nat /\ p[h] \in Nat
      /\ q[g] \in Nat /\ q[h] \in Nat
  BY <1>1, <1>2, UnitsFinite, CreditAssumption
<1>7. SumOf(q, MaxWord) = SumOf(p, MaxWord)
  BY <1>4, <1>5, <1>6
<1> QED
  BY <1>7 DEF p, q

-----------------------------------------------------------------------------
(* Steps that several actions share. *)

\* An admitted request has no overflowing axis and enough surplus on each.
LEMMA Admitted ==
  ASSUME IInv, NEW l \in Lanes, NEW amt \in Vector, CanAcquire(l, amt)
  PROVE  \A a \in Axes : held[l][a] + amt[a] <= MaxWord /\ Demand(l, amt)[a] <= shared[a]
<1>1. \A a \in Axes : /\ held[l][a] \in Nat /\ amt[a] \in Nat /\ shared[a] \in Nat
                      /\ Reserve[l][a] \in Nat
  BY CreditAssumption DEF IInv, TypeOK, Vector, Word
<1>2. \A a \in Axes : Demand(l, amt)[a] \in Nat
  BY <1>1 DEF Demand, Required, SubOrZero
<1> QED
  BY <1>1, <1>2, CreditAssumption DEF CanAcquire, Denied, Overflows

\* A new handle carrying what was just acquired.
LEMMA AcquireStep ==
  ASSUME IInv, NEW h \in Handles, Free(h), NEW l \in Lanes, NEW amt \in Vector,
         NEW k \in {"charge", "extension"},
         \A a \in Axes : held[l][a] + amt[a] <= MaxWord /\ Demand(l, amt)[a] <= shared[a],
         Acquired(l, amt), Issue(h, k, l, amt), target' \in [Handles -> Handles]
  PROVE  TypeOK' /\ HeldIsCarried' /\ Conserved'
<1>1. /\ held' \in [Lanes -> Vector] /\ shared' \in Vector
      /\ \A a \in Axes : held'[l][a] = held[l][a] + amt[a]
      /\ \A x \in Lanes \ {l} : held'[x] = held[x]
      /\ Conserved'
  BY AcquiredStep
<1>2. TypeOK /\ TypeOK'
  BY <1>1 DEF IInv, TypeOK, Issue, Kinds
<1>3. /\ lane[h] = NoLane /\ lane'[h] = l /\ amount'[h] = amt
      /\ \A x \in Handles \ {h} : lane'[x] = lane[x] /\ amount'[x] = amount[x]
  BY DEF IInv, TypeOK, HandlesAreSane, Free, Issue
<1>4. \A x \in Lanes, a \in Axes :
        SumOf(CarriedBy(x, a)', MaxWord)
          = SumOf(CarriedBy(x, a), MaxWord)
              + (IF lane'[h] = x THEN amount'[h][a] ELSE 0)
              - (IF lane[h] = x THEN amount[h][a] ELSE 0)
  BY <1>2, <1>3, CarriedMove
<1>5. HeldIsCarried'
  <2> SUFFICES ASSUME NEW x \in Lanes, NEW a \in Axes
               PROVE  held'[x][a] = SumOf(CarriedBy(x, a)', MaxWord)
    BY DEF HeldIsCarried
  <2>1. held[x][a] = SumOf(CarriedBy(x, a), MaxWord) /\ held[x][a] \in Nat
    BY DEF IInv, HeldIsCarried, TypeOK, Vector, Word
  <2>2. lane[h] # x
    BY <1>3, CreditAssumption
  <2>3. CASE x = l
    <3>1. SumOf(CarriedBy(x, a)', MaxWord) = SumOf(CarriedBy(x, a), MaxWord) + amt[a] - 0
      BY <1>3, <1>4, <2>2, <2>3
    <3>2. amt[a] \in Nat
      BY DEF Vector, Word
    <3> QED
      BY <1>1, <2>1, <2>3, <3>1, <3>2
  <2>4. CASE x # l
    <3>1. SumOf(CarriedBy(x, a)', MaxWord) = SumOf(CarriedBy(x, a), MaxWord) + 0 - 0
      BY <1>3, <1>4, <2>2, <2>4
    <3> QED
      BY <1>1, <2>1, <2>4, <3>1
  <2> QED
    BY <2>3, <2>4
<1> QED
  BY <1>1, <1>2, <1>5

\* A handle that ends by refunding all it carries.
LEMMA RefundStep ==
  ASSUME IInv, NEW h \in Handles, lane[h] \in Lanes,
         Released(lane[h], amount[h]), Retire(h)
  PROVE  TypeOK' /\ HeldIsCarried' /\ Conserved'
<1>1. /\ held' \in [Lanes -> Vector] /\ shared' \in Vector
      /\ \A a \in Axes : held'[lane[h]][a] = held[lane[h]][a] - amount[h][a]
      /\ \A x \in Lanes \ {lane[h]} : held'[x] = held[x]
      /\ Conserved'
  BY ReleasedStep
<1>2. TypeOK /\ TypeOK'
  <2>1. Zero \in Vector
    BY CreditAssumption DEF Zero, Vector, Word
  <2> QED
    BY <1>1, <2>1 DEF IInv, TypeOK, Retire, Kinds
<1>3. /\ lane'[h] = NoLane
      /\ \A x \in Handles \ {h} : lane'[x] = lane[x] /\ amount'[x] = amount[x]
  BY DEF IInv, TypeOK, Retire
<1>4. \A x \in Lanes, a \in Axes :
        SumOf(CarriedBy(x, a)', MaxWord)
          = SumOf(CarriedBy(x, a), MaxWord)
              + (IF lane'[h] = x THEN amount'[h][a] ELSE 0)
              - (IF lane[h] = x THEN amount[h][a] ELSE 0)
  BY <1>2, <1>3, CarriedMove
<1>5. HeldIsCarried'
  <2> SUFFICES ASSUME NEW x \in Lanes, NEW a \in Axes
               PROVE  held'[x][a] = SumOf(CarriedBy(x, a)', MaxWord)
    BY DEF HeldIsCarried
  <2>1. /\ held[x][a] = SumOf(CarriedBy(x, a), MaxWord)
        /\ held[x][a] \in Nat /\ amount[h][a] \in Nat
    BY DEF IInv, HeldIsCarried, TypeOK, Vector, Word
  <2>2. lane'[h] # x
    BY <1>3, CreditAssumption
  <2>3. CASE x = lane[h]
    <3>1. SumOf(CarriedBy(x, a)', MaxWord)
            = SumOf(CarriedBy(x, a), MaxWord) + 0 - amount[h][a]
      BY <1>4, <2>2, <2>3
    <3> QED
      BY <1>1, <2>1, <2>3, <3>1
  <2>4. CASE x # lane[h]
    <3>1. SumOf(CarriedBy(x, a)', MaxWord) = SumOf(CarriedBy(x, a), MaxWord) + 0 - 0
      BY <1>4, <2>2, <2>4
    <3> QED
      BY <1>1, <2>1, <2>4, <3>1
  <2> QED
    BY <2>3, <2>4
<1> QED
  BY <1>1, <1>2, <1>5

\* A step that leaves the accounts alone and every lane's sum as it was.
LEMMA QuietStep ==
  ASSUME IInv, UNCHANGED Accounts,
         \A l \in Lanes, a \in Axes :
           SumOf(CarriedBy(l, a)', MaxWord) = SumOf(CarriedBy(l, a), MaxWord)
  PROVE  HeldIsCarried' /\ Conserved'
<1>1. shared' = shared /\ held' = held
  BY DEF Accounts
<1>2. HeldIsCarried'
  BY <1>1 DEF IInv, HeldIsCarried
<1>3. Conserved'
  BY <1>1 DEF IInv, Conserved, BorrowedOn, Borrowed
<1> QED
  BY <1>2, <1>3

-----------------------------------------------------------------------------
(* The inductive invariant. *)

LEMMA InitIInv == Init => IInv
<1> SUFFICES ASSUME Init PROVE IInv
  OBVIOUS
<1> USE CreditAssumption
<1>1. Zero \in Vector /\ \A a \in Axes : Zero[a] = 0
  BY DEF Zero, Vector, Word
<1>2. TypeOK
  BY <1>1 DEF Init, TypeOK, Kinds
<1>3. HandlesAreSane
  BY DEF Init, HandlesAreSane
<1>4. HeldIsCarried
  <2> SUFFICES ASSUME NEW l \in Lanes, NEW a \in Axes
               PROVE  held[l][a] = SumOf(CarriedBy(l, a), MaxWord)
    BY DEF HeldIsCarried
  <2>1. CarriedBy(l, a) \in [Handles -> 0..MaxWord]
    BY <1>2, CarriedType
  <2>2. \A h \in Handles : CarriedBy(l, a)[h] = 0
    BY <1>1 DEF Init, CarriedBy
  <2>3. SumOf(CarriedBy(l, a), MaxWord) = 0
    BY <2>1, <2>2, SumOfZero
  <2> QED
    BY <1>1, <2>3 DEF Init
<1>5. Conserved
  <2> SUFFICES ASSUME NEW a \in Axes
               PROVE  shared[a] + SumOf(BorrowedOn(a), MaxWord) = Limit[a]
    BY DEF Conserved
  <2>1. BorrowedOn(a) \in [Lanes -> 0..MaxWord]
    BY <1>2, BorrowedType
  <2>2. \A l \in Lanes : BorrowedOn(a)[l] = 0
    <3>1. \A l \in Lanes : held[l][a] = 0 /\ Reserve[l][a] \in Nat
      BY <1>1 DEF Init, Vector, Word
    <3> QED
      BY <1>2, <3>1, BorrowedType DEF SubOrZero
  <2>3. SumOf(BorrowedOn(a), MaxWord) = 0
    BY <2>1, <2>2, SumOfZero
  <2>4. shared[a] = Limit[a] /\ Limit[a] \in Nat
    BY DEF Init, Vector, Word
  <2> QED
    BY <2>3, <2>4
<1> QED
  BY <1>2, <1>3, <1>4, <1>5 DEF IInv

LEMMA NextIInv == IInv /\ [Next]_vars => IInv'
<1> SUFFICES ASSUME IInv, [Next]_vars PROVE IInv'
  OBVIOUS
<1>t. TypeOK /\ HandlesAreSane /\ Requests \subseteq Vector /\ Zero \in Vector /\ NoLane \notin Lanes
  BY CreditAssumption DEF IInv, Zero, Vector, Word
<1>l. \A h \in Handles : ~Free(h) => lane[h] \in Lanes
  BY <1>t DEF Free, HandlesAreSane, TypeOK
<1>1. ASSUME NEW h \in Handles, NEW l \in Lanes, NEW amt \in Requests, TryNew(h, l, amt)
      PROVE  IInv'
  <2>1. TypeOK' /\ HeldIsCarried' /\ Conserved'
    BY <1>1, <1>t, Admitted, AcquireStep DEF TryNew, TypeOK
  <2>2. HandlesAreSane'
    BY <1>1, <1>t DEF TryNew, Issue, Free, HandlesAreSane, TypeOK
  <2> QED
    BY <2>1, <2>2 DEF IInv
<1>2. ASSUME NEW h \in Handles, NEW l \in Lanes, NEW amt \in Requests, AcquireRaw(h, l, amt)
      PROVE  IInv'
  <2>1. TypeOK' /\ HeldIsCarried' /\ Conserved'
    BY <1>2, <1>t, AcquireStep DEF AcquireRaw, TypeOK
  <2>2. HandlesAreSane'
    BY <1>2, <1>t DEF AcquireRaw, Issue, Free, HandlesAreSane, TypeOK
  <2> QED
    BY <2>1, <2>2 DEF IInv
<1>3. ASSUME NEW h \in Handles, DropCharge(h)
      PROVE  IInv'
  <2>1. TypeOK' /\ HeldIsCarried' /\ Conserved'
    BY <1>3, <1>l, RefundStep DEF DropCharge, Free
  <2>2. HandlesAreSane'
    BY <1>3, <1>t DEF DropCharge, Retire, HandlesAreSane, TypeOK
  <2> QED
    BY <2>1, <2>2 DEF IInv
<1>4. ASSUME NEW h \in Handles, Detach(h)
      PROVE  IInv'
  <2>1. TypeOK'
    BY <1>4, <1>t DEF Detach, Accounts, TypeOK, Kinds
  <2>2. HeldIsCarried' /\ Conserved'
    BY <1>4, QuietStep DEF Detach, CarriedBy
  <2>3. HandlesAreSane'
    BY <1>4, <1>t DEF Detach, HandlesAreSane, TypeOK
  <2> QED
    BY <2>1, <2>2, <2>3 DEF IInv
<1>5. ASSUME NEW h \in Handles, NEW g \in Handles, NEW amt \in Requests, TryExtend(h, g, amt)
      PROVE  IInv'
  <2>1. lane[g] \in Lanes /\ g # h
    BY <1>5, <1>l DEF TryExtend, Usable, Free
  <2>2. target' \in [Handles -> Handles]
    BY <1>5, <1>t DEF TryExtend, TypeOK
  <2>3. TypeOK' /\ HeldIsCarried' /\ Conserved'
    BY <1>5, <1>t, <2>1, <2>2, Admitted, AcquireStep DEF TryExtend
  <2>4. HandlesAreSane'
    BY <1>5, <1>t, <2>1 DEF TryExtend, Usable, Issue, Free, HandlesAreSane, TypeOK
  <2> QED
    BY <2>3, <2>4 DEF IInv
<1>m. ASSUME NEW g \in Handles, NEW h \in Handles, g # h, lane[g] \in Lanes, lane[h] = lane[g],
             Merged(g, h)
      PROVE  TypeOK' /\ HeldIsCarried' /\ Conserved'
  <2>1. \A a \in Axes : /\ amount[g][a] \in Nat /\ amount[h][a] \in Nat
                        /\ amount[g][a] + amount[h][a] <= MaxWord
    <3>1. \A a \in Axes : amount[g][a] + amount[h][a] <= held[lane[g]][a]
      BY <1>m, PairIsHeld
    <3>2. \A a \in Axes : /\ amount[g][a] \in Nat /\ amount[h][a] \in Nat
                          /\ held[lane[g]][a] \in Nat /\ held[lane[g]][a] <= MaxWord
      BY <1>m, <1>t, CreditAssumption DEF TypeOK, Vector, Word
    <3> QED
      BY <3>1, <3>2, CreditAssumption
  <2>2. /\ amount'[g] = VPlus(amount[g], amount[h]) /\ amount'[h] = Zero
        /\ lane'[h] = NoLane /\ lane'[g] = lane[g]
        /\ \A x \in Handles \ {g, h} : lane'[x] = lane[x] /\ amount'[x] = amount[x]
    BY <1>m, <1>t DEF Merged, TypeOK
  <2>3. \A a \in Axes : VPlus(amount[g], amount[h])[a] = amount[g][a] + amount[h][a]
    BY <2>1 DEF VPlus, Plus
  <2>4. VPlus(amount[g], amount[h]) \in Vector
    BY <2>1, <2>3, CreditAssumption DEF VPlus, Vector, Word
  <2>5. TypeOK'
    BY <1>m, <1>t, <2>4 DEF Merged, Accounts, TypeOK, Kinds
  <2>6. \A l \in Lanes, a \in Axes :
             (IF lane'[g] = l THEN amount'[g][a] ELSE 0)
               + (IF lane'[h] = l THEN amount'[h][a] ELSE 0)
           = (IF lane[g] = l THEN amount[g][a] ELSE 0)
               + (IF lane[h] = l THEN amount[h][a] ELSE 0)
    BY <1>m, <1>t, <2>1, <2>2, <2>3
  <2>7. \A l \in Lanes, a \in Axes :
          SumOf(CarriedBy(l, a)', MaxWord) = SumOf(CarriedBy(l, a), MaxWord)
    BY <1>m, <1>t, <2>2, <2>5, <2>6, CarriedShift
  <2> QED
    BY <1>m, <2>5, <2>7, QuietStep DEF Merged
<1>6. ASSUME NEW h \in Handles, MergeExtension(h)
      PROVE  IInv'
  <2>1. /\ target[h] \in Handles /\ target[h] # h /\ lane[target[h]] = lane[h]
        /\ lane[h] \in Lanes
    BY <1>6, <1>t, <1>l DEF MergeExtension, HandlesAreSane, TypeOK, Free
  <2>2. TypeOK' /\ HeldIsCarried' /\ Conserved'
    BY <1>6, <1>m, <2>1 DEF MergeExtension
  <2>3. HandlesAreSane'
    BY <1>6, <1>t, <2>1 DEF MergeExtension, Merged, HandlesAreSane, TypeOK
  <2> QED
    BY <2>2, <2>3 DEF IInv
<1>7. ASSUME NEW g \in Handles, NEW h \in Handles, MergeGrant(g, h)
      PROVE  IInv'
  <2>1. g # h /\ lane[g] \in Lanes /\ lane[h] = lane[g]
    BY <1>7, <1>l DEF MergeGrant, Usable, Free
  <2>2. TypeOK' /\ HeldIsCarried' /\ Conserved'
    BY <1>7, <1>m, <2>1 DEF MergeGrant
  <2>3. HandlesAreSane'
    BY <1>7, <1>t, <2>1 DEF MergeGrant, Merged, Usable, HandlesAreSane, TypeOK
  <2> QED
    BY <2>2, <2>3 DEF IInv
<1>s. ASSUME NEW g \in Handles, NEW h \in Handles, g # h, Free(h), lane[g] \in Lanes,
             NEW keep \in Vector, NEW part \in Vector,
             \A a \in Axes : keep[a] + part[a] = amount[g][a],
             kind'   = [kind EXCEPT ![h] = "grant"],
             lane'   = [lane EXCEPT ![h] = lane[g]],
             amount' = [amount EXCEPT ![g] = keep, ![h] = part],
             UNCHANGED <<Accounts, target>>
      PROVE  TypeOK' /\ HeldIsCarried' /\ Conserved'
  <2>1. TypeOK'
    BY <1>s, <1>t DEF Accounts, TypeOK, Kinds
  <2>2. /\ amount'[g] = keep /\ amount'[h] = part /\ lane'[g] = lane[g] /\ lane'[h] = lane[g]
        /\ \A x \in Handles \ {g, h} : lane'[x] = lane[x] /\ amount'[x] = amount[x]
        /\ lane[h] = NoLane
    BY <1>s, <1>t DEF TypeOK, HandlesAreSane, Free
  <2>3. \A a \in Axes : keep[a] \in Nat /\ part[a] \in Nat /\ amount[g][a] \in Nat
    BY <1>t DEF TypeOK, Vector, Word
  <2>4. \A l \in Lanes, a \in Axes :
             (IF lane'[g] = l THEN amount'[g][a] ELSE 0)
               + (IF lane'[h] = l THEN amount'[h][a] ELSE 0)
           = (IF lane[g] = l THEN amount[g][a] ELSE 0)
               + (IF lane[h] = l THEN amount[h][a] ELSE 0)
    BY <1>s, <1>t, <2>2, <2>3
  <2>5. \A l \in Lanes, a \in Axes :
          SumOf(CarriedBy(l, a)', MaxWord) = SumOf(CarriedBy(l, a), MaxWord)
    BY <1>s, <1>t, <2>1, <2>2, <2>4, CarriedShift
  <2> QED
    BY <1>s, <2>1, <2>5, QuietStep
<1>8. ASSUME NEW g \in Handles, NEW h \in Handles, NEW part \in Requests, Split(g, h, part)
      PROVE  IInv'
  <2>1. g # h /\ Free(h) /\ lane[g] \in Lanes
    BY <1>8, <1>l DEF Split, Usable, Free
  <2>2. \A a \in Axes : /\ part[a] \in Nat /\ amount[g][a] \in Nat /\ amount[g][a] <= MaxWord
                        /\ part[a] <= amount[g][a]
    BY <1>8, <1>t, CreditAssumption DEF Split, TypeOK, Vector, Word
  <2>3. \A a \in Axes : VMinus(amount[g], part)[a] = amount[g][a] - part[a]
    BY <2>2 DEF VMinus, Minus
  <2>4. VMinus(amount[g], part) \in Vector /\ part \in Vector
    BY <1>t, <2>2, <2>3, CreditAssumption DEF VMinus, Vector, Word
  <2>5. \A a \in Axes : VMinus(amount[g], part)[a] + part[a] = amount[g][a]
    BY <2>2, <2>3
  <2>6. TypeOK' /\ HeldIsCarried' /\ Conserved'
    BY <1>8, <1>s, <1>t, <2>1, <2>4, <2>5, ZenonT(60) DEF Split, TypeOK
  <2>7. HandlesAreSane'
    BY <1>8, <1>t, <2>1 DEF Split, Usable, Free, HandlesAreSane, TypeOK
  <2> QED
    BY <2>6, <2>7 DEF IInv
<1>9. ASSUME NEW h \in Handles, NEW l \in Lanes, Empty(h, l)
      PROVE  IInv'
  <2>1. TypeOK'
    BY <1>9, <1>t DEF Empty, Issue, Accounts, TypeOK, Kinds
  <2>2. /\ amount'[h] = Zero /\ lane[h] = NoLane
        /\ \A x \in Handles \ {h} : lane'[x] = lane[x] /\ amount'[x] = amount[x]
    BY <1>9, <1>t DEF Empty, Issue, Free, HandlesAreSane, TypeOK
  <2>3. \A x \in Lanes, a \in Axes :
          SumOf(CarriedBy(x, a)', MaxWord)
            = SumOf(CarriedBy(x, a), MaxWord)
                + (IF lane'[h] = x THEN amount'[h][a] ELSE 0)
                - (IF lane[h] = x THEN amount[h][a] ELSE 0)
    BY <1>t, <2>1, <2>2, CarriedMove
  <2>4. \A x \in Lanes, a \in Axes :
          SumOf(CarriedBy(x, a)', MaxWord) = SumOf(CarriedBy(x, a), MaxWord)
    <3> SUFFICES ASSUME NEW x \in Lanes, NEW a \in Axes
                 PROVE  SumOf(CarriedBy(x, a)', MaxWord) = SumOf(CarriedBy(x, a), MaxWord)
      OBVIOUS
    <3>1. (IF lane'[h] = x THEN amount'[h][a] ELSE 0) = 0 /\ lane[h] # x
      BY <1>t, <2>2 DEF Zero
    <3>2. held[x][a] = SumOf(CarriedBy(x, a), MaxWord) /\ held[x][a] \in Nat
      BY <1>t DEF IInv, HeldIsCarried, TypeOK, Vector, Word
    <3>3. SumOf(CarriedBy(x, a)', MaxWord) = SumOf(CarriedBy(x, a), MaxWord) + 0 - 0
      BY <2>3, <3>1
    <3> QED
      BY <3>2, <3>3
  <2>5. HeldIsCarried' /\ Conserved'
    BY <1>9, <2>4, QuietStep DEF Empty
  <2>6. HandlesAreSane'
    BY <1>9, <1>t DEF Empty, Issue, Free, HandlesAreSane, TypeOK
  <2> QED
    BY <2>1, <2>5, <2>6 DEF IInv
<1>10. ASSUME NEW g \in Handles, NEW h \in Handles, Drain(g, h)
       PROVE  IInv'
  <2>1. g # h /\ Free(h) /\ lane[g] \in Lanes /\ amount[g] \in Vector
    BY <1>10, <1>l, <1>t DEF Drain, Usable, Free, TypeOK
  <2>2. \A a \in Axes : Zero[a] + amount[g][a] = amount[g][a]
    BY <2>1 DEF Zero, Vector, Word
  <2>3. amount' = [amount EXCEPT ![g] = Zero, ![h] = amount[g]]
    BY <1>10, <1>t, <2>1 DEF Drain, TypeOK
  <2>4. TypeOK' /\ HeldIsCarried' /\ Conserved'
    BY <1>10, <1>s, <1>t, <2>1, <2>2, <2>3, ZenonT(60) DEF Drain
  <2>5. HandlesAreSane'
    BY <1>10, <1>t, <2>1 DEF Drain, Usable, Free, HandlesAreSane, TypeOK
  <2> QED
    BY <2>4, <2>5 DEF IInv
<1>11. ASSUME NEW g \in Handles, Release(g)
       PROVE  IInv'
  <2>1. TypeOK' /\ HeldIsCarried' /\ Conserved'
    BY <1>11, <1>l, RefundStep DEF Release, Usable, Free
  <2>2. HandlesAreSane'
    BY <1>11, <1>t DEF Release, Usable, Retire, HandlesAreSane, TypeOK
  <2> QED
    BY <2>1, <2>2 DEF IInv
<1>12. ASSUME NEW h \in Handles, Forget(h)
       PROVE  IInv'
  <2>1. TypeOK'
    BY <1>12, <1>t DEF Forget, Accounts, TypeOK, Kinds
  <2>2. HeldIsCarried' /\ Conserved'
    BY <1>12, QuietStep DEF Forget, CarriedBy
  <2>3. HandlesAreSane'
    BY <1>12, <1>t DEF Forget, Usable, HandlesAreSane, TypeOK
  <2> QED
    BY <2>1, <2>2, <2>3 DEF IInv
<1>13. ASSUME Restart
       PROVE  IInv'
  <2>1. target' \in [Handles -> Handles]
    BY <1>13, <1>t DEF Restart, TypeOK
  <2>2. /\ TypeOK' /\ HandlesAreSane'
    BY <1>13, <1>t, <2>1, CreditAssumption DEF Restart, TypeOK, HandlesAreSane, Kinds
  <2>3. HeldIsCarried'
    <3> SUFFICES ASSUME NEW l \in Lanes, NEW a \in Axes
                 PROVE  held'[l][a] = SumOf(CarriedBy(l, a)', MaxWord)
      BY DEF HeldIsCarried
    <3>1. CarriedBy(l, a)' = [h \in Handles |-> 0]
      BY <1>13, <1>t DEF Restart, CarriedBy
    <3>2. SumOf([h \in Handles |-> 0], MaxWord) = 0
      BY SumOfZero, CreditAssumption
    <3> QED
      BY <1>13, <3>1, <3>2 DEF Restart, Zero
  <2>4. Conserved'
    <3> SUFFICES ASSUME NEW a \in Axes
                 PROVE  shared'[a] + SumOf(BorrowedOn(a)', MaxWord) = Limit[a]
      BY DEF Conserved
    <3>1. BorrowedOn(a)' = [l \in Lanes |-> 0]
      <4>1. \A l \in Lanes : held'[l][a] = 0 /\ Reserve[l][a] \in Nat
        BY <1>13, CreditAssumption DEF Restart, Zero, Vector, Word
      <4> QED
        BY <4>1 DEF BorrowedOn, Borrowed, SubOrZero
    <3>2. SumOf([l \in Lanes |-> 0], MaxWord) = 0
      BY SumOfZero, CreditAssumption
    <3>3. shared'[a] = Limit[a] /\ Limit[a] \in Nat
      BY <1>13, CreditAssumption DEF Restart, Vector, Word
    <3> QED
      BY <3>1, <3>2, <3>3
  <2> QED
    BY <2>2, <2>3, <2>4 DEF IInv
<1>14. ASSUME UNCHANGED vars
       PROVE  IInv'
  <2>1. UNCHANGED <<Accounts, kind, lane, amount, target>>
    BY <1>14 DEF vars, Accounts
  <2>2. TypeOK' /\ HandlesAreSane'
    BY <1>t, <2>1 DEF Accounts, TypeOK, HandlesAreSane
  <2>3. HeldIsCarried' /\ Conserved'
    BY <2>1, QuietStep DEF CarriedBy
  <2> QED
    BY <2>2, <2>3 DEF IInv
<1> QED
  BY <1>1, <1>2, <1>3, <1>4, <1>5, <1>6, <1>7, <1>8, <1>9, <1>10, <1>11, <1>12, <1>13, <1>14
  DEF Next

\* Every reachable state satisfies the inductive invariant.
THEOREM FairCreditInductive == Spec => []IInv
BY InitIInv, NextIInv, PTL DEF Spec

\* The shared surplus and what the lanes borrow always add up to the limit,
\* whatever is acquired, extended, split, drained, refunded or forgotten.
THEOREM CreditIsConserved == Spec => []Conserved
<1>1. IInv => Conserved
  BY DEF IInv
<1> QED
  BY <1>1, FairCreditInductive, PTL

\* A lane always holds what its handles carry.
THEOREM HoldingsAreCarried == Spec => []HeldIsCarried
<1>1. IInv => HeldIsCarried
  BY DEF IInv
<1> QED
  BY <1>1, FairCreditInductive, PTL

\* The unchecked addition of a merge never wraps.
THEOREM MergesNeverWrap == Spec => []MergeNeverWraps
<1>1. IInv => MergeNeverWraps
  <2> SUFFICES ASSUME IInv, NEW g \in Handles, NEW h \in Handles, g # h,
                      lane[g] = lane[h], lane[g] # NoLane, NEW a \in Axes
               PROVE  amount[g][a] + amount[h][a] <= MaxWord
    BY DEF MergeNeverWraps
  <2>1. lane[g] \in Lanes
    BY DEF IInv, TypeOK
  <2>2. amount[g][a] + amount[h][a] <= held[lane[g]][a]
    BY <2>1, PairIsHeld
  <2>3. /\ held[lane[g]][a] \in Nat /\ held[lane[g]][a] <= MaxWord
        /\ amount[g][a] \in Nat /\ amount[h][a] \in Nat
    BY <2>1, CreditAssumption DEF IInv, TypeOK, Vector, Word
  <2> QED
    BY <2>2, <2>3, CreditAssumption
<1> QED
  BY <1>1, FairCreditInductive, PTL

\* Admission by the local test is admission by the global one: no state lets a
\* lane in beyond the limit, and none turns away a request that would fit.
THEOREM AdmissionsAreExact == Spec => []AdmissionIsExact
<1>1. IInv => AdmissionIsExact
  <2> SUFFICES ASSUME IInv, NEW l \in Lanes, NEW amt \in Requests
               PROVE  CanAcquire(l, amt) <=>
                        \A a \in Axes : SumOf(BorrowedWith(l, amt, a), 2 * MaxWord) <= Limit[a]
    BY DEF AdmissionIsExact
  <2>t. /\ held \in [Lanes -> Vector] /\ shared \in Vector /\ amt \in Vector
        /\ Reserve \in [Lanes -> Vector] /\ Limit \in Vector
        /\ MaxWord \in Nat /\ 2 * MaxWord \in Nat /\ IsFiniteSet(Lanes)
    BY CreditAssumption DEF IInv, TypeOK
  <2>1. ASSUME NEW a \in Axes
        PROVE  (a \notin Denied(l, amt)) <=> SumOf(BorrowedWith(l, amt, a), 2 * MaxWord) <= Limit[a]
    <3> DEFINE f == BorrowedOn(a)
               g == BorrowedWith(l, amt, a)
               d == Demand(l, amt)[a]
    <3>1. /\ held[l][a] \in Nat /\ held[l][a] <= MaxWord /\ amt[a] \in Nat /\ amt[a] <= MaxWord
          /\ Reserve[l][a] \in Nat /\ shared[a] \in Nat /\ Limit[a] \in Nat
          /\ Reserve[l][a] + Limit[a] <= MaxWord
          /\ MaxWord \in Nat /\ 2 * MaxWord = MaxWord + MaxWord
      BY <2>t, LaneContract DEF Vector, Word
    <3>2. /\ f \in [Lanes -> 0..MaxWord]
          /\ \A k \in Lanes : f[k] = SubOrZero(held[k][a], Reserve[k][a])
      BY BorrowedType DEF IInv
    <3>3. g[l] = SubOrZero(held[l][a] + amt[a], Reserve[l][a])
      BY DEF BorrowedWith
    <3>4. \A k \in Lanes \ {l} : g[k] = f[k]
      BY DEF BorrowedWith, BorrowedOn
    <3>5. g[l] \in 0..(2 * MaxWord)
      <4>1. g[l] \in Nat /\ g[l] <= MaxWord + MaxWord
        BY ONLY <3>1, <3>3 DEF SubOrZero
      <4> QED
        BY <3>1, <4>1
    <3>6. f \in [Lanes -> 0..(2 * MaxWord)]
      BY <3>2, <2>t
    <3>7. g \in [Lanes -> 0..(2 * MaxWord)]
      <4>1. \A k \in Lanes : g[k] \in 0..(2 * MaxWord)
        BY <3>4, <3>5, <3>6
      <4> QED
        BY <4>1 DEF BorrowedWith
    <3>8. d \in Nat /\ g[l] = f[l] + d
      <4>1. d = Required(held[l][a], Reserve[l][a], amt[a])
        BY DEF Demand
      <4>2. f[l] = SubOrZero(held[l][a], Reserve[l][a])
        BY <3>2
      <4> HIDE DEF d, f, g
      <4> QED
        BY ONLY <3>1, <3>3, <4>1, <4>2 DEF Required, SubOrZero
    <3>9. shared[a] + SumOf(f, MaxWord) = Limit[a]
      BY DEF IInv, Conserved
    <3>10. Units(f, 2 * MaxWord) = Units(f, MaxWord)
      BY <3>2, <2>t DEF Units
    <3>11. SumOf(f, 2 * MaxWord) = SumOf(f, MaxWord)
      BY <3>10 DEF SumOf
    <3>12. a \notin Denied(l, amt) <=> (held[l][a] + amt[a] <= MaxWord /\ d <= shared[a])
      BY <3>1, <3>8, <2>t DEF Denied, Overflows
    <3>13. f[l] \in Nat /\ f[l] <= SumOf(f, MaxWord) /\ SumOf(f, MaxWord) \in Nat
      BY <3>2, <2>t, SumOfBounds, UnitsFinite, SMTT(60)
    <3>14. d <= shared[a] => held[l][a] + amt[a] <= MaxWord
      <4>1. SubOrZero(held[l][a] + amt[a], Reserve[l][a]) = f[l] + d
        BY <3>3, <3>8
      <4> HIDE DEF d, f, g
      <4> QED
        <5> DEFINE total == held[l][a] + amt[a]
        <5>1. total \in Nat
          BY ONLY <3>1
        <5> HIDE DEF total
        <5>2. total > MaxWord => SubOrZero(total, Reserve[l][a]) > Limit[a]
          BY ONLY <3>1, <5>1 DEF SubOrZero
        <5>3. d <= shared[a] => f[l] + d <= Limit[a]
          BY ONLY <3>1, <3>8, <3>9, <3>13
        <5>4. d <= shared[a] => SubOrZero(total, Reserve[l][a]) <= Limit[a]
          BY ONLY <4>1, <5>3 DEF total
        <5>5. SubOrZero(total, Reserve[l][a]) \in Nat
          BY ONLY <3>1, <5>1 DEF SubOrZero
        <5>6. d <= shared[a] => total <= MaxWord
          BY ONLY <3>1, <5>1, <5>2, <5>4, <5>5
        <5> QED
          BY <5>6 DEF total
    <3> HIDE DEF d, f, g
    <3>15. SumOf(g, 2 * MaxWord) = SumOf(f, 2 * MaxWord) + g[l] - f[l]
      BY <3>4, <3>6, <3>7, <2>t, SumOfUpdate
    <3>16. SumOf(g, 2 * MaxWord) = SumOf(f, MaxWord) + d
      BY <3>8, <3>11, <3>13, <3>15
    <3>17. d <= shared[a] <=> SumOf(g, 2 * MaxWord) <= Limit[a]
      BY <3>1, <3>8, <3>9, <3>13, <3>16
    <3> QED
      BY <3>12, <3>14, <3>17 DEF g
  <2>2. CanAcquire(l, amt) <=> \A a \in Axes : a \notin Denied(l, amt)
    BY DEF CanAcquire, Denied
  <2> QED
    BY <2>1, <2>2
<1> QED
  BY <1>1, FairCreditInductive, PTL

\* Lane::fits turns away nothing that could be granted: whatever is admitted
\* in any state is within the lane's reserve and the whole shared limit.
THEOREM AdmittedRequestsFit ==
  Spec => [](\A l \in Lanes, amt \in Requests : CanAcquire(l, amt) => Fits(l, amt))
<1>1. IInv => \A l \in Lanes, amt \in Requests : CanAcquire(l, amt) => Fits(l, amt)
  <2> SUFFICES ASSUME IInv, NEW l \in Lanes, NEW amt \in Requests, CanAcquire(l, amt),
                      NEW a \in Axes
               PROVE  amt[a] <= Plus(Limit[a], Reserve[l][a])
    BY DEF Fits
  <2>t. /\ held \in [Lanes -> Vector] /\ shared \in Vector /\ amt \in Vector
        /\ Reserve \in [Lanes -> Vector] /\ Limit \in Vector
        /\ MaxWord \in Nat /\ IsFiniteSet(Lanes)
    BY CreditAssumption DEF IInv, TypeOK
  <2>1. /\ held[l][a] \in Nat /\ amt[a] \in Nat /\ Reserve[l][a] \in Nat
        /\ shared[a] \in Nat /\ Limit[a] \in Nat
        /\ Reserve[l][a] + Limit[a] <= MaxWord /\ MaxWord \in Nat
    BY <2>t, LaneContract DEF Vector, Word
  <2>2. Required(held[l][a], Reserve[l][a], amt[a]) <= shared[a]
    <3>1. ~(Demand(l, amt)[a] > shared[a])
      BY DEF CanAcquire, Denied
    <3>2. Demand(l, amt)[a] = Required(held[l][a], Reserve[l][a], amt[a])
      BY DEF Demand
    <3>3. Required(held[l][a], Reserve[l][a], amt[a]) \in Nat
      BY <2>1 DEF Required, SubOrZero
    <3> QED
      BY ONLY <2>1, <3>1, <3>2, <3>3
  <2>3. shared[a] <= Limit[a]
    <3>1. BorrowedOn(a) \in [Lanes -> 0..MaxWord]
      BY BorrowedType DEF IInv
    <3>2. SumOf(BorrowedOn(a), MaxWord) \in Nat
      BY <3>1, <2>t, SumOfBounds, UnitsFinite
    <3>3. shared[a] + SumOf(BorrowedOn(a), MaxWord) = Limit[a]
      BY DEF IInv, Conserved
    <3> QED
      BY ONLY <2>1, <3>2, <3>3
  <2> QED
    BY ONLY <2>1, <2>2, <2>3 DEF Required, SubOrZero, Plus
<1> QED
  BY <1>1, FairCreditInductive, PTL
=============================================================================
