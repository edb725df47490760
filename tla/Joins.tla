------------------------------- MODULE Joins -------------------------------
(***************************************************************************)
(* round::Join, the one place where a slot enters or leaves a lane: a slot *)
(* plane, a chain for each lane, a lane plane, and for each group the      *)
(* cycle of its nonempty lanes (src/depot/queue/round/join.rs).  Rounds    *)
(* and Resident are its two users.                                         *)
(***************************************************************************)
EXTENDS Hooks

CONSTANTS
  Slots,      \* the slots of one owner
  Lanes,      \* 0..n, its lanes
  G,          \* the groups the lanes are dealt to
  None        \* no payload, registration or loan

ASSUME SlotsAreNodes == END \notin Slots /\ IsFiniteSet(Slots)
ASSUME LanesAreIndices == /\ END \notin Lanes /\ IsFiniteSet(Lanes)
                          /\ Lanes \subseteq Nat /\ 0 \in Lanes /\ G \in Nat \ {0}

VARIABLE t    \* the join: lanes and their turns

Groups == 0..(G - 1)
Group(l) == l % G

Vacated(nodes) == [previous |-> [i \in nodes |-> i], next |-> [i \in nodes |-> END]]
Empty(slots) ==
  [hook  |-> slots,
   chain |-> [l \in Lanes |-> EmptyChain],
   track |-> Vacated(Lanes),
   ring  |-> [g \in Groups |-> END]]

WithTrack(u, l, out) == [u EXCEPT !.track = out.hook, !.ring[Group(l)] = out.ring]
WithChain(u, l, out) == [u EXCEPT !.hook = out.hook, !.chain[l] = out.chain]
Turn(u, l) == u.ring[Group(l)]

\* Join::push: the first slot of a lane puts the lane in the turn.
Inserted(u, l, i) ==
  LET s == WithChain(u, l, Pushed(u.hook, u.chain[l], i))
  IN IF u.chain[l].first # END THEN s
     ELSE WithTrack(s, l, Joined(u.track, Turn(u, l), l))

Deactivated(u, l) == WithTrack(u, l, Left(u.track, Turn(u, l), l))

\* Join::remove: the last one takes it out, wherever the turn stands.
Removed(u, l, i) ==
  LET s == WithChain(u, l, Unlinked(u.hook, u.chain[l], i))
  IN IF s.chain[l].first = END THEN Deactivated(s, l) ELSE s

\* Mutant: the lane is turned before it is known to be empty.
FrontTurnsFirst(u, l, rotate) ==
  LET s == WithChain(u, l, Popped(u.hook, u.chain[l]))
  IN IF rotate THEN WithTrack(s, l, CycledBack(u.track, Turn(u, l), l))
     ELSE IF s.chain[l].first = END THEN Deactivated(s, l) ELSE s

\* Join::remove_front: pop, active and head.
FrontRemoved(u, l, rotate) ==
  LET s == WithChain(u, l, Popped(u.hook, u.chain[l]))
  IN IF s.chain[l].first = END THEN Deactivated(s, l)
     ELSE IF rotate THEN WithTrack(s, l, CycledBack(u.track, Turn(u, l), l)) ELSE s

Idle(u, i) == [u EXCEPT !.hook = Idled(@, i)]
Front(u, l) == u.chain[l].first

Linked(i) == IsLinked(t.hook, i)

-----------------------------------------------------------------------------
(* What a join promises its users.                                         *)

\* The orders the words spell.
LaneOrder(u) == [l \in Lanes |-> Walk(u.hook, u.chain[l].first)]
TurnOrder(u) == [g \in Groups |-> Walk(u.track, u.ring[g])]
StandsIn(i, l) == \E k \in DOMAIN LaneOrder(t)[l] : LaneOrder(t)[l][k] = i

\* The lanes are first in first out and the turns fair, whatever the users of a
\* join do in between: insert, take, move, rotate, cancel or drain, by revoked
\* handles, or from inside one another's callbacks.
Promise == INSTANCE FairLanes WITH lane <- LaneOrder(t), turn <- TurnOrder(t)
ImplementsFairLanes == Promise!Spec
=============================================================================
