------------------------------- MODULE Rounds -------------------------------
(***************************************************************************)
(* Fixed residents scheduled round robin (src/depot/queue/round): Lanes,   *)
(* whose slots hold what the caller likes, and values::Values, where a     *)
(* scheduled slot is always initialized.  Every handle is shared and       *)
(* revocable; a predicate and the payload's equality are the caller's code *)
(* and may call the queue again before they answer.                        *)
(***************************************************************************)
EXTENDS Joins, TLC

CONSTANTS
  Vals,       \* payloads of a Values
  MaxDepth    \* calls of the queue's that are waiting for a callback

ASSUME NoneIsNoPayload == None \notin Vals

VARIABLES
  shape,      \* which of the two owners this is
  cell,       \* the lane each slot was last put in (Block::values)
  value,      \* payloads of a Values; always None in Lanes
  calls,      \* calls waiting for a callback, the innermost first
  loan        \* the position an exclusive dequeue retains, in Lanes
vars == <<shape, t, cell, value, calls, loan>>

Shapes == {"lanes", "values"}
Payloads == IF shape = "values" THEN Vals ELSE {None}

Init ==
  /\ shape \in Shapes
  /\ t = Empty(Vacated(Slots))
  /\ cell = [i \in Slots |-> 0]
  /\ value = [i \in Slots |-> None]
  /\ calls = <<>>
  /\ loan = None

Put(i, v) == value' = [value EXCEPT ![i] = v]

-----------------------------------------------------------------------------
(* Slots and places.                                                       *)

\* Mutant: the new lane is recorded before the old one is read.
PushFromHere(i, l) ==
  /\ t' = Inserted(IF Linked(i) THEN Removed(t, l, i) ELSE t, l, i)
  /\ cell' = [cell EXCEPT ![i] = l]

\* lanes::push_from: from the recorded lane, if linked, to another's tail.
PushFrom(i, l) ==
  /\ t' = Inserted(IF Linked(i) THEN Removed(t, cell[i], i) ELSE t, l, i)
  /\ cell' = [cell EXCEPT ![i] = l]

\* Place::set leaves a slot that is already there where it stands.
Settle(i, l) ==
  IF Linked(i) /\ cell[i] = l THEN UNCHANGED <<t, cell>> ELSE PushFrom(i, l)

Clear(i) == t' = IF Linked(i) THEN Idle(Removed(t, cell[i], i), i) ELSE t

\* Slot::write, Slot::take and, in Lanes, Slot::clear.
Write(i) == \E v \in Payloads \cup {None} :
  Clear(i) /\ Put(i, v) /\ UNCHANGED <<shape, cell, calls, loan>>

\* Place::push: the payload is replaced before the move.
Push(i, l) == \E v \in Payloads :
  PushFrom(i, l) /\ Put(i, v) /\ UNCHANGED <<shape, calls, loan>>

\* Place::set, and a Values set whose callbacks leave the queue alone.
Set(i, l) ==
  /\ shape = "values" => value[i] # None
  /\ Settle(i, l)
  /\ UNCHANGED <<shape, value, calls, loan>>

-----------------------------------------------------------------------------
(* Fronts and turns.                                                       *)

\* A payload leaves with its slot.
Pop(l, rotate) ==
  /\ t' = Idle(FrontRemoved(t, l, rotate), Front(t, l))
  /\ Put(Front(t, l), None)

PopFront(l) ==
  /\ Front(t, l) # END
  /\ Pop(l, FALSE)
  /\ UNCHANGED <<shape, cell, calls, loan>>

GroupNext(g) ==
  /\ t.ring[g] # END
  /\ Pop(t.ring[g], TRUE)
  /\ UNCHANGED <<shape, cell, calls, loan>>

\* Location::rotate: the front goes to its lane's tail, the lane to its turn's.
Rotate(l) ==
  /\ Front(t, l) # END
  /\ t' = Inserted(FrontRemoved(t, l, TRUE), l, Front(t, l))
  /\ UNCHANGED <<shape, cell, value, calls, loan>>

-----------------------------------------------------------------------------
(* Calls that wait for a callback.                                         *)

Call == [kind : {"front", "turn", "test", "equal"}, slot : Slots, lane : Lanes]
Return == calls' = Tail(calls)
Begin(c) == Len(calls) < MaxDepth /\ calls' = <<c>> \o calls

\* Snapshot::resolve.
Resolves(c) ==
  /\ Front(t, c.lane) = c.slot
  /\ c.kind = "turn" => Turn(t, c.lane) = c.lane

\* Snapshot::pop_if: resolved, tested, resolved again, popped.
BeginPop(c) ==
  /\ c.kind \in {"front", "turn"}
  /\ Resolves(c)
  /\ Begin(c)
  /\ UNCHANGED <<shape, t, cell, value, loan>>

CommitPop(c) ==
  /\ c.kind \in {"front", "turn"}
  /\ Resolves(c)
  /\ Pop(c.lane, c.kind = "turn")
  /\ Return
  /\ UNCHANGED <<shape, cell, loan>>

\* values::Snapshot::set: tested, then compared, if it is still initialized.
BeginSet(c) ==
  /\ c.kind = "test"
  /\ value[c.slot] # None
  /\ Begin(c)
  /\ UNCHANGED <<shape, t, cell, value, loan>>

BeginEqual(c) ==
  /\ c.kind = "test"
  /\ value[c.slot] # None
  /\ calls' = [calls EXCEPT ![1].kind = "equal"]
  /\ UNCHANGED <<shape, t, cell, value, loan>>

\* Mutant: the payload is not looked at again after the comparison.
CommitSetUnchecked(c) ==
  /\ c.kind = "equal"
  /\ Settle(c.slot, c.lane)
  /\ Return
  /\ UNCHANGED <<shape, value, loan>>

CommitSet(c) ==
  /\ c.kind = "equal"
  /\ value[c.slot] # None
  /\ Settle(c.slot, c.lane)
  /\ Return
  /\ UNCHANGED <<shape, value, loan>>

\* The callback declined, or what it tested is gone.
Decline == Return /\ UNCHANGED <<shape, t, cell, value, loan>>

-----------------------------------------------------------------------------
(* The exclusive handle of Lanes.                                          *)

Dequeue(l) ==
  /\ shape = "lanes" /\ calls = <<>>
  /\ Front(t, l) # END
  /\ t' = Idle(FrontRemoved(t, l, TRUE), Front(t, l))
  /\ loan' = [slot |-> Front(t, l), lane |-> l]
  /\ UNCHANGED <<shape, cell, value, calls>>

PushBack ==
  /\ ~Linked(loan.slot)
  /\ t' = Inserted(t, loan.lane, loan.slot)
  /\ UNCHANGED <<shape, cell, value, calls, loan>>

RemoveAgain ==
  /\ Linked(loan.slot)
  /\ t' = Idle(Removed(t, loan.lane, loan.slot), loan.slot)
  /\ UNCHANGED <<shape, cell, value, calls, loan>>

EndLoan == loan' = None /\ UNCHANGED <<shape, t, cell, value, calls>>

Shared ==
  \/ \E i \in Slots : Write(i) \/ \E l \in Lanes : Push(i, l) \/ Set(i, l)
  \/ \E l \in Lanes : PopFront(l) \/ Rotate(l) \/ Dequeue(l)
  \/ \E g \in Groups : GroupNext(g)
  \/ \E c \in Call : BeginPop(c) \/ BeginSet(c)

Next ==
  \/ loan = None /\ Shared
  \/ calls # <<>> /\ (CommitPop(calls[1]) \/ BeginEqual(calls[1])
                       \/ CommitSet(calls[1]) \/ Decline)
  \/ loan # None /\ (PushBack \/ RemoveAgain \/ EndLoan)

Spec == Init /\ [][Next]_vars

\* Slots are interchangeable.
SlotSymmetry == Permutations(Slots)

\* What can be read again: the lane of a slot is only asked for while it is linked.
Recorded == <<shape, t, [i \in Slots |-> IF Linked(i) THEN cell[i] ELSE 0], value, calls, loan>>

-----------------------------------------------------------------------------
(* Properties.                                                             *)

Place(order, x) == CHOOSE k \in DOMAIN order : order[k] = x

\* A slot that reads as linked stands in the lane recorded for it and in no
\* other, and in a Values it is initialized, also while callbacks run: what
\* Head::get, linked_lane and every unchecked removal rely on.
ScheduledIsInitialized ==
  /\ cell \in [Slots -> Lanes]
  /\ \A i \in Slots :
     /\ \A l \in Lanes : StandsIn(i, l) <=> Linked(i) /\ cell[i] = l
     /\ Linked(i) /\ shape = "values" => value[i] # None

\* A lane that nobody touches never moves back in its turn, whatever is pushed,
\* moved, rotated or served in other lanes.  A lane of one slot may be touched
\* and look the same: rotate takes its only slot out and in.
WaitersKeepTheirTurn ==
  [][\A l \in Lanes :
       Len(LaneOrder(t)[l]) > 1 /\ LaneOrder(t)'[l] = LaneOrder(t)[l] =>
         Place(TurnOrder(t)[Group(l)]', l) <= Place(TurnOrder(t)[Group(l)], l)]_vars
=============================================================================
