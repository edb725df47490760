------------------------------ MODULE Resident ------------------------------
(***************************************************************************)
(* Bounded waiting rooms (src/depot/queue/resident): resident::fifo::Fifo, *)
(* whose values are taken and whose takers may be cancelled, and           *)
(* resident::handoff::Registry, which also parks a grant in the slot of    *)
(* the waiter it serves.  A registration owns its slot from try_keep until *)
(* it cancels, takes its grant or is dropped, waiting or not.  All lanes   *)
(* take their turns in one ring: G is 1.                                   *)
(***************************************************************************)
EXTENDS Joins

CONSTANTS
  Regs,       \* registrations; each keeps itself as its value (its waker)
  Grants      \* affine grants a registry hands over

\* The free list is seeded in the order of the slots' indices.
ASSUME SlotsAreCounted == Slots = 0..(Cardinality(Slots) - 1)
ASSUME Distinct == /\ Regs \cap Grants = {} /\ None \notin Regs \cup Grants
                   /\ None \notin [slot : Slots, lane : Lanes]

VARIABLES
  kind,       \* which of the two owners this is
  free,       \* the free list's head
  payload,    \* what a slot's union holds; None is uninitialized
  reg,        \* what each registration's lease holds: a slot and its lane
  draining,
  held        \* grants in a caller's hands
RoomVars == <<kind, t, free, payload, reg, draining, held>>

Kinds == {"fifo", "handoff"}
Seeded == [previous |-> [i \in Slots |-> i],
           next     |-> [i \in Slots |-> IF i + 1 \in Slots THEN i + 1 ELSE END]]

RoomInit ==
  /\ kind \in Kinds
  /\ t = Empty(Seeded)
  /\ free = IF 0 \in Slots THEN 0 ELSE END
  /\ payload = [i \in Slots |-> None]
  /\ reg = [r \in Regs |-> None]
  /\ draining = FALSE
  /\ held = Grants

Active(r) == reg[r] # None
ParkedAt(i) == IsParked(t.hook, i)
Fill(i, v) == payload' = [payload EXCEPT ![i] = v]

Recycle(s, i) ==
  LET out == Recycled(s.hook, free, i)
  IN t' = [s EXCEPT !.hook = out.hook] /\ free' = out.free

-----------------------------------------------------------------------------
(* Lane::try_keep.                                                         *)

\* Mutant: a registration that already has a slot is kept while draining.
MayWait(r) == ~draining \/ reg[r] # None

Accepts(r) == ~draining

Keep(r, l, s, i) ==
  /\ t' = s
  /\ Fill(i, r)
  /\ reg' = [reg EXCEPT ![r] = [slot |-> i, lane |-> l]]

\* Mutant: a grant that awaits its taker is written over.
RelinkParked(r, l) ==
  LET i == reg[r].slot
      out == IF ~Linked(i) THEN Inserted(t, l, i)
             ELSE IF reg[r].lane = l THEN t
             ELSE Inserted(Removed(t, reg[r].lane, i), l, i)
  IN Active(r) /\ Keep(r, l, out, i) /\ UNCHANGED free

\* Lanes::relink_back: a waiter keeps its place in its own lane.
Relink(r, l) ==
  LET i == reg[r].slot
      out == IF ~Linked(i) THEN Inserted(t, l, i)
             ELSE IF reg[r].lane = l THEN t
             ELSE Inserted(Removed(t, reg[r].lane, i), l, i)
  IN /\ Active(r)
     /\ ~ParkedAt(i)
     /\ Keep(r, l, out, i)
     /\ UNCHANGED free

Register(r, l) ==
  LET out == Acquired(t.hook, free)
  IN /\ ~Active(r)
     /\ free # END
     /\ Keep(r, l, Inserted([t EXCEPT !.hook = out.hook], l, free), free)
     /\ free' = out.free

TryKeep(r, l) ==
  /\ Accepts(r)
  /\ Relink(r, l) \/ Register(r, l)
  /\ UNCHANGED <<kind, draining, held>>

-----------------------------------------------------------------------------
(* Taking and granting.                                                    *)

\* The front leaves its lane; its registration keeps the slot.
Take(l, rotate) ==
  LET i == Front(t, l)
  IN /\ t' = Idle(FrontRemoved(t, l, rotate), i)
     /\ Fill(i, None)

TakeOne(l) ==
  /\ Front(t, l) # END
  /\ Take(l, FALSE)
  /\ UNCHANGED <<kind, free, reg, draining, held>>

TakeNext ==
  /\ kind = "fifo"
  /\ ~draining
  /\ t.ring[0] # END
  /\ Take(t.ring[0], TRUE)
  /\ UNCHANGED <<kind, free, reg, draining, held>>

\* Lanes::park: the waiter's slot now holds the grant, out of every lane.
Park(l, g) ==
  LET i == Front(t, l)  s == FrontRemoved(t, l, FALSE)
  IN /\ t' = [s EXCEPT !.hook = Parked(@, i)]
     /\ Fill(i, g)

OfferOne(l, g) ==
  /\ kind = "handoff"
  /\ ~draining
  /\ Front(t, l) # END
  /\ Park(l, g)
  /\ held' = held \ {g}
  /\ UNCHANGED <<kind, free, reg, draining>>

TakeGrant(r) ==
  LET i == reg[r].slot
  IN /\ kind = "handoff"
     /\ Active(r)
     /\ ParkedAt(i)
     /\ Recycle(t, i)
     /\ held' = held \cup {payload[i]}
     /\ Fill(i, None)
     /\ reg' = [reg EXCEPT ![r] = None]
     /\ UNCHANGED <<kind, draining>>

-----------------------------------------------------------------------------
(* Cancelling and dropping: the lease is detached first.                   *)

\* Lanes::remove for each marker.  A value left behind is Copy.
RemoveLinked(r) ==
  /\ Linked(reg[r].slot)
  /\ Recycle(Removed(t, reg[r].lane, reg[r].slot), reg[r].slot)
  /\ UNCHANGED <<payload, held>>

\* A destroyed grant goes back to the callers, who may make another.
RemoveParked(r) ==
  LET i == reg[r].slot
  IN /\ ParkedAt(i)
     /\ Recycle(t, i)
     /\ held' = held \cup {payload[i]}
     /\ Fill(i, None)

RemoveEmpty(r) ==
  /\ ~Linked(reg[r].slot) /\ ~ParkedAt(reg[r].slot)
  /\ Recycle(t, reg[r].slot)
  /\ UNCHANGED <<payload, held>>

\* Registration::cancel after its value was taken takes the lane's next one.
RemoveAndPass(r) ==
  LET i == reg[r].slot  l == reg[r].lane
      out == Recycled(t.hook, free, i)
      s == [t EXCEPT !.hook = out.hook]
  IN /\ kind = "fifo"
     /\ ~Linked(i)
     /\ ~draining
     /\ Front(t, l) # END
     /\ free' = out.free
     /\ t' = Idle(FrontRemoved(s, l, FALSE), Front(t, l))
     /\ Fill(Front(t, l), None)
     /\ UNCHANGED held

Passes(r) == kind = "fifo" /\ ~draining /\ Front(t, reg[r].lane) # END

Cancel(r) ==
  /\ Active(r)
  /\ \/ RemoveLinked(r)
     \/ RemoveParked(r)
     \/ ~Passes(r) /\ RemoveEmpty(r)
     \/ RemoveAndPass(r)
  /\ reg' = [reg EXCEPT ![r] = None]
  /\ UNCHANGED <<kind, draining>>

\* Target::retire, by the lease's own drop.
Drop(r) ==
  /\ Active(r)
  /\ RemoveLinked(r) \/ RemoveParked(r) \/ RemoveEmpty(r)
  /\ reg' = [reg EXCEPT ![r] = None]
  /\ UNCHANGED <<kind, draining>>

-----------------------------------------------------------------------------
(* Draining.                                                               *)

BeginDrain ==
  /\ draining' = TRUE
  /\ UNCHANGED <<kind, t, free, payload, reg, held>>

DrainNext ==
  /\ draining
  /\ IF t.ring[0] = END THEN draining' = FALSE /\ UNCHANGED <<t, payload>>
     ELSE Take(t.ring[0], FALSE) /\ UNCHANGED draining
  /\ UNCHANGED <<kind, free, reg, held>>

RoomNext ==
  \/ \E r \in Regs : \/ \E l \in Lanes : TryKeep(r, l)
                     \/ Cancel(r)
                     \/ Drop(r)
                     \/ TakeGrant(r)
  \/ \E l \in Lanes : TakeOne(l) \/ \E g \in held : OfferOne(l, g)
  \/ TakeNext
  \/ BeginDrain
  \/ DrainNext

\* An owner that began to drain keeps calling drain_next.
RoomSpec == RoomInit /\ [][RoomNext]_RoomVars /\ WF_RoomVars(DrainNext)

-----------------------------------------------------------------------------
(* Properties.                                                             *)

Held == { reg[r].slot : r \in { q \in Regs : Active(q) } }
FreeSlots == { Walk(t.hook, free)[k] : k \in DOMAIN Walk(t.hook, free) }

\* Every slot has one owner, its registration or the free list, and every grant
\* one, a caller or the parked slot of one registration; a slot that waits is in
\* the lane its registration names and holds that registration's value, and a
\* parked one holds a grant: what take_value, take_grant and Entry::take assume
\* of an untagged union when they read it.
PayloadFollowsTopology ==
  /\ \A r, q \in Regs : Active(r) /\ Active(q) /\ reg[r].slot = reg[q].slot => r = q
  /\ FreeSlots = Slots \ Held
  /\ \A r \in Regs : Active(r) =>
       /\ \A l \in Lanes : StandsIn(reg[r].slot, l) <=> Linked(reg[r].slot) /\ reg[r].lane = l
       /\ Linked(reg[r].slot) => payload[reg[r].slot] = r
       /\ ParkedAt(reg[r].slot) => payload[reg[r].slot] \in Grants
  /\ \A g \in Grants \ held : \E i \in Held : ParkedAt(i) /\ payload[i] = g
  /\ \A i \in Slots : ParkedAt(i) => payload[i] \notin held

\* Draining comes to an end, with nobody left waiting ("ends draining at
\* quiescence"): nothing may enter a lane while it goes on.
DrainEnds == draining ~> (~draining /\ t.ring[0] = END)
=============================================================================
