----------------------------- MODULE FairCredit -----------------------------
(***************************************************************************)
(* Fair, lane-partitioned credit (src/mem/raw: Pool, State, Lane, Balance, *)
(* Charge, Grant).  A pool holds a shared surplus; each lane bound to it   *)
(* has a protected reserve and a running total of what it holds.  Credit   *)
(* is a vector of N axes of machine words.  A Charge refunds when dropped; *)
(* detached into a Grant it stays charged until released, and a forgotten  *)
(* one stays charged for the rest of the epoch.                            *)
(*                                                                         *)
(* `Amount::get` runs before the accounts are read, in acquisition and in  *)
(* Drop alike, so work it reenters is a step of its own that comes first.  *)
(***************************************************************************)
EXTENDS Sums, TLC

CONSTANTS Lanes,      \* the lane states bound to the pool
          NoLane,     \* the source of a handle that is not alive
          Handles,    \* the Charge, Grant and Bound objects that can be alive
          N,          \* number of axes
          MaxWord,    \* largest value of the word type W
          Limit,      \* initial shared surplus, per axis
          Reserve,    \* protected reserve, per lane and axis
          Requests    \* the amounts callers ask for

Axes   == 1..N
Word   == 0..MaxWord
Vector == [Axes -> Word]

ASSUME CreditAssumption ==
  /\ IsFiniteSet(Lanes) /\ IsFiniteSet(Handles)
  /\ N \in Nat \ {0} /\ MaxWord \in Nat
  /\ Limit \in Vector
  /\ Reserve \in [Lanes -> Vector]
  /\ Requests \subseteq Vector
  /\ NoLane \notin Lanes

\* The contract of Pool::lane: every reserve plus the surplus fits the word.
ASSUME LaneContract == \A l \in Lanes, a \in Axes : Reserve[l][a] + Limit[a] <= MaxWord

VARIABLES shared,   \* Pool.shared
          held,     \* State.held of each lane
          kind,     \* what each handle is
          lane,     \* the lane (Source) a handle was issued by
          amount,   \* the vector a handle carries
          target    \* the grant an extension borrows exclusively

vars == <<shared, held, kind, lane, amount, target>>

Kinds == {"free", "charge", "grant", "extension", "lost"}
Zero  == [a \in Axes |-> 0]

-----------------------------------------------------------------------------
(* Word arithmetic: the release build wraps. *)

Plus(x, y)      == IF x + y <= MaxWord THEN x + y ELSE x + y - (MaxWord + 1)
Minus(x, y)     == IF y <= x THEN x - y ELSE x - y + (MaxWord + 1)
SubOrZero(x, y) == IF y <= x THEN x - y ELSE 0
Least(x, y)     == IF x <= y THEN x ELSE y

VPlus(v, w)  == [a \in Axes |-> Plus(v[a], w[a])]
VMinus(v, w) == [a \in Axes |-> Minus(v[a], w[a])]

-----------------------------------------------------------------------------
(* Balance: pure admission arithmetic over a copy of both accounts. *)

\* Mutant: forgets that part of the reserve is already in use.
RequiredIgnoresHeld(h, r, amt) == SubOrZero(amt, r)

\* Shared credit an acquisition draws beyond the unused reserve.
Required(h, r, amt) == SubOrZero(amt, SubOrZero(r, h))

Demand(l, amt) == [a \in Axes |-> Required(held[l][a], Reserve[l][a], amt[a])]

\* checked_add has no result on axis a.
Overflows(l, amt, a) == held[l][a] + amt[a] > MaxWord

\* The axes on which Balance::try_acquire would stop.
Denied(l, amt) == {a \in Axes : Overflows(l, amt, a) \/ Demand(l, amt)[a] > shared[a]}

\* The whole request is admitted only when no axis stops it.
CanAcquire(l, amt) == Denied(l, amt) = {}

\* Lane::fits: an upper bound on what the lane can ever be granted at once.
Fits(l, amt) == \A a \in Axes : amt[a] <= Plus(Limit[a], Reserve[l][a])

\* try_acquire (and acquire_raw) committed to both accounts.
Acquired(l, amt) ==
  /\ held'   = [held EXCEPT ![l] = VPlus(@, amt)]
  /\ shared' = VMinus(shared, Demand(l, amt))

\* Mutant: takes the refunded credit to be what exceeds the reserve by itself.
ReturnedAlone(l, amt) == [a \in Axes |-> SubOrZero(amt[a], Reserve[l][a])]

\* What release_raw hands back to the shared account.
Returned(l, amt) == [a \in Axes |-> Least(SubOrZero(held[l][a], Reserve[l][a]), amt[a])]

Released(l, amt) ==
  /\ held'   = [held EXCEPT ![l] = VMinus(@, amt)]
  /\ shared' = VPlus(shared, Returned(l, amt))

-----------------------------------------------------------------------------
(* Handles. *)

Free(h) == kind[h] = "free"

\* An extension borrows its grant mutably: nobody else can use the grant.
Usable(h) == kind[h] = "grant" /\ \A x \in Handles : kind[x] = "extension" => target[x] # h

\* Handle h comes into being as a k of lane l carrying v.
Issue(h, k, l, v) ==
  /\ kind'   = [kind EXCEPT ![h] = k]
  /\ lane'   = [lane EXCEPT ![h] = l]
  /\ amount' = [amount EXCEPT ![h] = v]

\* Handle h ends.
Retire(h) ==
  /\ kind'   = [kind EXCEPT ![h] = "free"]
  /\ lane'   = [lane EXCEPT ![h] = NoLane]
  /\ amount' = [amount EXCEPT ![h] = Zero]
  /\ target' = [target EXCEPT ![h] = h]

Accounts == <<shared, held>>

Init ==
  /\ shared = Limit
  /\ held = [l \in Lanes |-> Zero]
  /\ kind = [h \in Handles |-> "free"]
  /\ lane = [h \in Handles |-> NoLane]
  /\ amount = [h \in Handles |-> Zero]
  /\ target = [h \in Handles |-> h]

\* Charge::try_new.  A denied request leaves every account as it was.
TryNew(h, l, amt) ==
  /\ Free(h)
  /\ CanAcquire(l, amt)
  /\ Acquired(l, amt)
  /\ Issue(h, "charge", l, amt)
  /\ UNCHANGED target

\* Lane::acquire_raw: its caller has shown that every sum and demand fits.
AcquireRaw(h, l, amt) ==
  /\ Free(h)
  /\ \A a \in Axes : held[l][a] + amt[a] <= MaxWord /\ Demand(l, amt)[a] <= shared[a]
  /\ Acquired(l, amt)
  /\ Issue(h, "charge", l, amt)
  /\ UNCHANGED target

\* Drop of a Charge, on its own or inside the Bound of an extension.
DropCharge(h) ==
  /\ kind[h] \in {"charge", "extension"}
  /\ Released(lane[h], amount[h])
  /\ Retire(h)

\* Grant::from(charge) disarms the refund.
Detach(h) ==
  /\ kind[h] = "charge"
  /\ kind' = [kind EXCEPT ![h] = "grant"]
  /\ UNCHANGED <<Accounts, lane, amount, target>>

\* Grant::try_extend: a new charge of the grant's own source, bound to it.
TryExtend(h, g, amt) ==
  /\ Free(h) /\ Usable(g)
  /\ CanAcquire(lane[g], amt)
  /\ Acquired(lane[g], amt)
  /\ Issue(h, "extension", lane[g], amt)
  /\ target' = [target EXCEPT ![h] = g]

\* Add the amount of h to grant g (Sum::add_raw) and end h without a refund.
Merged(g, h) ==
  /\ kind'   = [kind EXCEPT ![h] = "free"]
  /\ lane'   = [lane EXCEPT ![h] = NoLane]
  /\ amount' = [amount EXCEPT ![g] = VPlus(@, amount[h]), ![h] = Zero]
  /\ target' = [target EXCEPT ![h] = h]
  /\ UNCHANGED Accounts

\* Bound<&mut Grant, Charge>::merge commits the extension.
MergeExtension(h) ==
  /\ kind[h] = "extension"
  /\ Merged(target[h], h)

\* Bound<&mut Grant, Grant>::merge; bind_mut asks for the same pool and lane.
MergeGrant(g, h) ==
  /\ g # h /\ Usable(g) /\ Usable(h) /\ lane[g] = lane[h]
  /\ Merged(g, h)

\* Bound::split: part leaves g as a grant of the same source.
Split(g, h, part) ==
  /\ Free(h) /\ Usable(g)
  /\ \A a \in Axes : part[a] <= amount[g][a]
  /\ kind'   = [kind EXCEPT ![h] = "grant"]
  /\ lane'   = [lane EXCEPT ![h] = lane[g]]
  /\ amount' = [amount EXCEPT ![g] = VMinus(@, part), ![h] = part]
  /\ UNCHANGED <<Accounts, target>>

\* Grant::empty: a zero acquisition, no credit moves.
Empty(h, l) ==
  /\ Free(h)
  /\ Issue(h, "grant", l, Zero)
  /\ UNCHANGED <<Accounts, target>>

\* Mutant: the drained grant keeps its amount.
DrainByCopy(g, h) ==
  /\ Free(h) /\ Usable(g)
  /\ Issue(h, "grant", lane[g], amount[g])
  /\ UNCHANGED <<Accounts, target>>

\* Grant::drain: all of g moves to h, and g stays behind, empty.
Drain(g, h) ==
  /\ Free(h) /\ Usable(g)
  /\ kind'   = [kind EXCEPT ![h] = "grant"]
  /\ lane'   = [lane EXCEPT ![h] = lane[g]]
  /\ amount' = [amount EXCEPT ![h] = amount[g], ![g] = Zero]
  /\ UNCHANGED <<Accounts, target>>

\* Grant::release returns the acquisition to its pool and lane.
Release(g) ==
  /\ Usable(g)
  /\ Released(lane[g], amount[g])
  /\ Retire(g)

\* mem::forget of any handle; a Grant that is merely dropped is lost too.
Forget(h) ==
  /\ kind[h] \in {"charge", "extension"} \/ Usable(h)
  /\ kind'   = [kind EXCEPT ![h] = "lost"]
  /\ target' = [target EXCEPT ![h] = h]
  /\ UNCHANGED <<Accounts, lane, amount>>

\* A new epoch: no handle is usable, so pool and states are rebuilt together.
Restart ==
  /\ \A h \in Handles : kind[h] \in {"free", "lost"}
  /\ \E h \in Handles : kind[h] = "lost"
  /\ shared' = Limit
  /\ held' = [l \in Lanes |-> Zero]
  /\ kind' = [h \in Handles |-> "free"]
  /\ lane' = [h \in Handles |-> NoLane]
  /\ amount' = [h \in Handles |-> Zero]
  /\ UNCHANGED target

Next ==
  \/ \E h \in Handles, l \in Lanes, amt \in Requests : TryNew(h, l, amt)
  \/ \E h \in Handles, l \in Lanes, amt \in Requests : AcquireRaw(h, l, amt)
  \/ \E h \in Handles : DropCharge(h)
  \/ \E h \in Handles : Detach(h)
  \/ \E h, g \in Handles, amt \in Requests : TryExtend(h, g, amt)
  \/ \E h \in Handles : MergeExtension(h)
  \/ \E g, h \in Handles : MergeGrant(g, h)
  \/ \E g, h \in Handles, part \in Requests : Split(g, h, part)
  \/ \E h \in Handles, l \in Lanes : Empty(h, l)
  \/ \E g, h \in Handles : Drain(g, h)
  \/ \E g \in Handles : Release(g)
  \/ \E h \in Handles : Forget(h)
  \/ Restart

Spec == Init /\ [][Next]_vars

-----------------------------------------------------------------------------
TypeOK ==
  /\ shared \in Vector
  /\ held \in [Lanes -> Vector]
  /\ kind \in [Handles -> Kinds]
  /\ lane \in [Handles -> Lanes \cup {NoLane}]
  /\ amount \in [Handles -> Vector]
  /\ target \in [Handles -> Handles]

\* What lane l uses of the shared surplus on axis a, by its holdings.
Borrowed(l, a)  == SubOrZero(held[l][a], Reserve[l][a])
BorrowedOn(a)   == [l \in Lanes |-> Borrowed(l, a)]

\* What the handles issued by lane l carry on axis a.
CarriedBy(l, a) == [h \in Handles |-> IF lane[h] = l THEN amount[h][a] ELSE 0]

\* On every axis the surplus plus what the lanes borrow is the pool's limit:
\* no order of acquisitions and refunds across lanes creates or loses credit,
\* although each refund decides by itself how much of it was borrowed.
Conserved ==
  \A a \in Axes : shared[a] + SumOf(BorrowedOn(a), MaxWord) = Limit[a]

\* A lane holds exactly what its charges, grants, extensions and forgotten
\* handles carry, so each refund pays back a part of what is still held.
HeldIsCarried ==
  \A l \in Lanes, a \in Axes : held[l][a] = SumOf(CarriedBy(l, a), MaxWord)

\* What the lanes would borrow on axis a if lane l were given amt more.
BorrowedWith(l, amt, a) ==
  [k \in Lanes |-> IF k = l THEN SubOrZero(held[l][a] + amt[a], Reserve[l][a])
                    ELSE Borrowed(k, a)]

\* Admission reads one lane and the surplus, and yet it admits a request
\* exactly when all lanes together would still borrow no more than the limit.
\* In particular the checked addition never decides: a sum that overflows the
\* word is one the surplus denies as well, so it only selects the cause.
AdmissionIsExact ==
  \A l \in Lanes, amt \in Requests :
    CanAcquire(l, amt) <=>
      \A a \in Axes : SumOf(BorrowedWith(l, amt, a), 2 * MaxWord) <= Limit[a]

\* Merging two handles of a lane never wraps a word: Sum::add_raw is unchecked
\* and relies on the lane's admitted total to bound every pair of its handles.
MergeNeverWraps ==
  \A g, h \in Handles : g # h /\ lane[g] = lane[h] /\ lane[g] # NoLane =>
    \A a \in Axes : amount[g][a] + amount[h][a] <= MaxWord

-----------------------------------------------------------------------------
(* The instance a run covers.  Axis 1 has a protected reserve on one lane   *)
(* and enough room to reach the word limit; axis 2 is scarce, so that a     *)
(* request can pass axis 1 and stop at axis 2.                              *)
SmallLimit    == <<2, 1>>
SmallReserve  == LET first == CHOOSE l \in Lanes : TRUE
                 IN [l \in Lanes |-> IF l = first THEN <<1, 0>> ELSE <<0, 2>>]
SmallRequests == {<<1, 0>>, <<0, 1>>, <<1, 2>>, <<3, 1>>}
HandleSymmetry == Permutations(Handles)
=============================================================================
