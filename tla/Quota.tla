------------------------------- MODULE Quota -------------------------------
(***************************************************************************)
(* Quota reservations (src/mem/quota.rs over src/mem/raw/state/account.rs).*)
(* A Ledger is one counter.  Open units, Leases and Shared reservations    *)
(* are drawn from it, child Leases from a Shared, and each gives back what *)
(* it did not use to the account it was drawn from.  Three operations call *)
(* out while the quota is in hand: Ledger::admit_with, Lease::admit_with   *)
(* and Shared::with.  The callback may use the ledger again, so a call and *)
(* its return are separate actions, and calls nest as frames of a stack.   *)
(***************************************************************************)
EXTENDS Sums, Sequences, TLC

CONSTANTS Root,      \* the Ledger
          Handles,   \* reservations and running calls that can be alive
          MaxWord,   \* usize::MAX
          Sizes,     \* the counts and limits callers ask for
          Starts,    \* the quotas a ledger is created or reset with
          MaxDepth   \* bound on nested callbacks

Accounts == {Root} \cup Handles
Word     == 0..MaxWord

ASSUME QuotaAssumption ==
  /\ Root \notin Handles
  /\ IsFiniteSet(Handles)
  /\ MaxWord \in Nat \ {0}
  /\ Sizes \subseteq Word
  /\ Starts \subseteq Word
  /\ MaxDepth \in Nat

VARIABLES rem,      \* what is left in the ledger and in each reservation
          kind,     \* what each handle is
          source,   \* the account a handle was drawn from
          budget,   \* ghost: what a reservation and its children may still use
          calls,    \* the handles whose callback is running, innermost first
          total,    \* ghost: the quota the ledger started with
          spent     \* ghost: units that were consumed or forgotten

vars == <<rem, kind, source, budget, calls, total, spent>>

Kinds == {"free",
          "unit",       \* Lease<Return, Open>
          "loose",      \* the Return of a taken-apart unit
          "shared",     \* Shared
          "running",    \* Shared::with, callback running
          "lease",      \* Lease
          "offering",   \* Lease::admit_with, callback running
          "admitting"}  \* Ledger::admit_with, callback running

-----------------------------------------------------------------------------
(* The account. *)

Plus(x, y)  == IF x + y <= MaxWord THEN x + y ELSE x + y - (MaxWord + 1)

Least(x, y) == IF x <= y THEN x ELSE y

\* Account::reserve has that much.
Affords(s, n) == n <= rem[s]

\* Handle h is created with n units of account s.
Draw(h, k, s, n) ==
  /\ kind[h] = "free"
  /\ rem'    = [rem EXCEPT ![s] = @ - n, ![h] = n]
  /\ kind'   = [kind EXCEPT ![h] = k]
  /\ source' = [source EXCEPT ![h] = s]
  /\ budget' = [budget EXCEPT ![h] = n]

\* n units of h were used up: neither h nor its parent may use them again.
Charged(h, n) ==
  [s \in Handles |-> IF s \in {h, source[h]} THEN budget[s] - n ELSE budget[s]]

\* Mutant: a child pays back to the ledger instead of to its parent.
SettleAtRoot(h, back) ==
  /\ rem'    = [rem EXCEPT ![Root] = Plus(@, back), ![h] = 0]
  /\ kind'   = [kind EXCEPT ![h] = "free"]
  /\ source' = [source EXCEPT ![h] = Root]
  /\ budget' = [Charged(h, rem[h] - back) EXCEPT ![h] = 0]
  /\ spent'  = spent + (rem[h] - back)

\* Handle h ends: back units return to its source, the others are spent.
Settle(h, back) ==
  /\ rem'    = [rem EXCEPT ![source[h]] = Plus(@, back), ![h] = 0]
  /\ kind'   = [kind EXCEPT ![h] = "free"]
  /\ source' = [source EXCEPT ![h] = Root]
  /\ budget' = [Charged(h, rem[h] - back) EXCEPT ![h] = 0]
  /\ spent'  = spent + (rem[h] - back)

\* A child borrows its Shared, which cannot move or end before it.
Childless(h) == \A c \in Handles : kind[c] # "free" => source[c] # h

Enter(h) ==
  /\ Len(calls) < MaxDepth
  /\ calls' = <<h>> \o calls

Leave(h) ==
  /\ calls # << >>
  /\ Head(calls) = h
  /\ calls' = Tail(calls)

-----------------------------------------------------------------------------
Init ==
  /\ \E left \in Starts :
       /\ rem = [x \in Accounts |-> IF x = Root THEN left ELSE 0]
       /\ total = left
  /\ kind = [h \in Handles |-> "free"]
  /\ source = [h \in Handles |-> Root]
  /\ budget = [h \in Handles |-> 0]
  /\ calls = << >>
  /\ spent = 0

\* Ledger::take consumes one unit for good.
Take ==
  /\ Affords(Root, 1)
  /\ rem' = [rem EXCEPT ![Root] = @ - 1]
  /\ spent' = spent + 1
  /\ UNCHANGED <<kind, source, budget, calls, total>>

\* Ledger::open.
Open(h) ==
  /\ Affords(Root, 1)
  /\ Draw(h, "unit", Root, 1)
  /\ UNCHANGED <<calls, total, spent>>

\* into_parts disarms the return, which its owner may still perform.
IntoParts(h) ==
  /\ kind[h] = "unit"
  /\ kind' = [kind EXCEPT ![h] = "loose"]
  /\ UNCHANGED <<rem, source, budget, calls, total, spent>>

\* Drop of an open unit, or return_item on its parts.
ReturnItem(h) ==
  /\ kind[h] \in {"unit", "loose"}
  /\ Settle(h, 1)
  /\ UNCHANGED <<calls, total>>

\* The parts of a unit are dropped without a return.
Consume(h) ==
  /\ kind[h] = "loose"
  /\ Settle(h, 0)
  /\ UNCHANGED <<calls, total>>

\* Ledger::admit_with debits the unit before it calls out.
BeginAdmit(h) ==
  /\ Affords(Root, 1)
  /\ Draw(h, "admitting", Root, 1)
  /\ Enter(h)
  /\ UNCHANGED <<total, spent>>

\* The callback returned an item, or nothing.
EndAdmit(h, item) ==
  /\ kind[h] = "admitting"
  /\ Leave(h)
  /\ Settle(h, IF item THEN 0 ELSE 1)
  /\ UNCHANGED total

\* Shared::reserve takes exactly n or nothing.
ReserveShared(h, n) ==
  /\ Affords(Root, n)
  /\ Draw(h, "shared", Root, n)
  /\ UNCHANGED <<calls, total, spent>>

\* Shared::reserve_up takes what there is, up to limit.
ReserveSharedUp(h, limit) ==
  /\ Draw(h, "shared", Root, Least(rem[Root], limit))
  /\ UNCHANGED <<calls, total, spent>>

\* Lease::reserve_up of the ledger, and Shared::lease_up_to.
LeaseUpTo(h, s, limit) ==
  /\ s \in {Root} \cup {x \in Handles : kind[x] = "shared"}
  /\ Draw(h, "lease", s, Least(rem[s], limit))
  /\ UNCHANGED <<calls, total, spent>>

\* Mutant: the exhausted lease calls out as well.
BeginOfferAnyway(h) ==
  /\ kind[h] = "lease"
  /\ Enter(h)
  /\ kind' = [kind EXCEPT ![h] = "offering"]
  /\ UNCHANGED <<rem, source, budget, total, spent>>

\* Lease::admit_with on a lease that is not exhausted.
BeginOffer(h) ==
  /\ kind[h] = "lease" /\ rem[h] # 0
  /\ Enter(h)
  /\ kind' = [kind EXCEPT ![h] = "offering"]
  /\ UNCHANGED <<rem, source, budget, total, spent>>

\* Only an item that was acquired is charged.
EndOffer(h, item) ==
  /\ kind[h] = "offering"
  /\ Leave(h)
  /\ kind' = [kind EXCEPT ![h] = "lease"]
  /\ rem' = [rem EXCEPT ![h] = IF item THEN @ - 1 ELSE @]
  /\ budget' = IF item THEN Charged(h, 1) ELSE budget
  /\ spent' = IF item THEN spent + 1 ELSE spent
  /\ UNCHANGED <<source, total>>

\* Drop of a Lease, or of a Shared that lends nothing, refunds what is left.
DropReservation(h) ==
  /\ kind[h] \in {"lease", "shared"} /\ Childless(h)
  /\ Settle(h, rem[h])
  /\ UNCHANGED <<calls, total>>

\* Shared::with moves the reservation into the call ...
BeginWith(h) ==
  /\ kind[h] = "shared" /\ Childless(h)
  /\ Enter(h)
  /\ kind' = [kind EXCEPT ![h] = "running"]
  /\ UNCHANGED <<rem, source, budget, total, spent>>

\* ... and settles it with the unused amount the callback proved.
EndWith(h, unused) ==
  /\ kind[h] = "running" /\ unused <= rem[h]
  /\ Leave(h)
  /\ Settle(h, unused)
  /\ UNCHANGED total

\* mem::forget of a handle: its borrow ends and its units are lost.
Forget(h) ==
  /\ kind[h] \in {"unit", "lease", "shared"} /\ Childless(h)
  /\ Settle(h, 0)
  /\ UNCHANGED <<calls, total>>

\* Mutant: the new quota is added to what is left.
ResetOntop(left) ==
  /\ \A h \in Handles : kind[h] = "free"
  /\ rem' = [rem EXCEPT ![Root] = Plus(@, left)]
  /\ total' = left
  /\ spent' = 0
  /\ UNCHANGED <<kind, source, budget, calls>>

\* Ledger::reset borrows the ledger mutably: every reservation has ended.
Reset(left) ==
  /\ \A h \in Handles : kind[h] = "free"
  /\ rem' = [rem EXCEPT ![Root] = left]
  /\ total' = left
  /\ spent' = 0
  /\ UNCHANGED <<kind, source, budget, calls>>

Next ==
  \/ Take
  \/ \E h \in Handles : Open(h)
  \/ \E h \in Handles : IntoParts(h)
  \/ \E h \in Handles : ReturnItem(h)
  \/ \E h \in Handles : Consume(h)
  \/ \E h \in Handles : BeginAdmit(h)
  \/ \E h \in Handles, item \in BOOLEAN : EndAdmit(h, item)
  \/ \E h \in Handles, n \in Sizes : ReserveShared(h, n)
  \/ \E h \in Handles, limit \in Sizes : ReserveSharedUp(h, limit)
  \/ \E h \in Handles, s \in Accounts, limit \in Sizes : LeaseUpTo(h, s, limit)
  \/ \E h \in Handles : BeginOffer(h)
  \/ \E h \in Handles, item \in BOOLEAN : EndOffer(h, item)
  \/ \E h \in Handles : DropReservation(h)
  \/ \E h \in Handles : BeginWith(h)
  \/ \E h \in Handles, unused \in Word : EndWith(h, unused)
  \/ \E h \in Handles : Forget(h)
  \/ \E left \in Starts : Reset(left)

Spec == Init /\ [][Next]_vars

\* Handles are interchangeable.
HandleSymmetry == Permutations(Handles)

-----------------------------------------------------------------------------
(* Properties. *)

\* Types; a handle that is not alive holds nothing and only a Shared is a
\* source besides the ledger.
TypeOK ==
  /\ rem \in [Accounts -> Word]
  /\ kind \in [Handles -> Kinds]
  /\ source \in [Handles -> Accounts]
  /\ budget \in [Handles -> Int]
  /\ calls \in Seq(Handles)
  /\ total \in Word
  /\ spent \in Nat

\* The ledger, its reservations and their children always hold exactly what
\* was not yet consumed or forgotten: no nesting of callbacks, refunds to
\* parent or ledger, or partial settlement creates or loses a unit, and since
\* the sum is a word, no refund ever wraps.
Conserved == SumOf(rem, MaxWord) + spent = total

\* What the live children of s hold.
LentBy(s) == [h \in Handles |-> IF source[h] = s THEN rem[h] ELSE 0]

\* A reservation and its children together hold exactly what was reserved for
\* them and not yet used, however often children are leased, partly used and
\* returned: one reservation never spends, or loses, the quota of another.
ReservationsAreClosed ==
  \A s \in Handles : rem[s] + SumOf(LentBy(s), MaxWord) = budget[s]

\* While a callback runs, the quota it will be charged for is in hand: the
\* decrement after it cannot underflow and the refund cannot be for a unit
\* that a reentrant call took meanwhile.
CallsAreBacked ==
  \A h \in Handles : kind[h] \in {"admitting", "offering"} => rem[h] >= 1
=============================================================================
