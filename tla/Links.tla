------------------------------- MODULE Links -------------------------------
(***************************************************************************)
(* One plane of hooks shared by every kind of list o3 keeps on it: plain   *)
(* chains and counted ones (queue/links/chain.rs), cycles (cycle.rs),      *)
(* head-only lists (list.rs) and the free list (free.rs).  Each operation  *)
(* is unsafe and asks its caller to hold the hook in a given state; `at`   *)
(* is that contract, written down: the list a node is linked in, or free,  *)
(* parked, vacant, or stale (detached with its old words still in place).  *)
(***************************************************************************)
EXTENDS Hooks

CONSTANTS
  Capacity,   \* the hooks of the plane
  Plain,      \* Chain<()>
  Counted,    \* Chain<u32>
  Rings,      \* Cycle
  Lists,      \* List
  Free,       \* the name of the free list
  NoUndo

Nodes == 0..(Capacity - 1)
Chains == Plain \cup Counted
States == {"parked", "vacant", "stale"}
Places == Chains \cup Rings \cup Lists

ASSUME CapacityAssumption == Capacity \in Nat /\ END \notin Nodes
ASSUME PlaceAssumption ==
  /\ Plain \cap Counted = {}
  /\ Chains \cap (Rings \cup Lists) = {}
  /\ Rings \cap Lists = {}
  /\ Places \cap (States \cup {Free}) = {}
  /\ Free \notin States

VARIABLES hook, chain, count, ring, list, free, at, undo
vars == <<hook, chain, count, ring, list, free, at, undo>>

\* Hook::vacant(i, i + 1), and Free::seeded.
Seeded == [previous |-> [i \in Nodes |-> i],
           next     |-> [i \in Nodes |-> IF i + 1 \in Nodes THEN i + 1 ELSE END]]

Init ==
  /\ hook = Seeded
  /\ free = IF Capacity = 0 THEN END ELSE 0
  /\ chain = [c \in Chains |-> EmptyChain]
  /\ count = [c \in Counted |-> 0]
  /\ ring = [r \in Rings |-> END]
  /\ list = [l \in Lists |-> END]
  /\ at = [i \in Nodes |-> Free]
  /\ undo = NoUndo

Loose == { i \in Nodes : at[i] \in {"vacant", "stale"} }
Place(i, where) == at' = [at EXCEPT ![i] = where]

\* Chain::len follows the members of a counted chain.
Counts(c, n) == count' = IF c \in Counted THEN [count EXCEPT ![c] = n] ELSE count

-----------------------------------------------------------------------------
(* Free list and marks.                                                    *)

Acquire ==
  LET out == Acquired(hook, free)
  IN /\ free # END
     /\ hook' = out.hook /\ free' = out.free
     /\ Place(free, "vacant")
     /\ undo' = NoUndo
     /\ UNCHANGED <<chain, count, ring, list>>

Recycle(i) ==
  LET out == Recycled(hook, free, i)
  IN /\ hook' = out.hook /\ free' = out.free
     /\ Place(i, Free)
     /\ undo' = NoUndo
     /\ UNCHANGED <<chain, count, ring, list>>

Mark(i, h, where) ==
  /\ hook' = h
  /\ Place(i, where)
  /\ undo' = NoUndo
  /\ UNCHANGED <<chain, count, ring, list, free>>

Idle(i) == Mark(i, Idled(hook, i), "vacant")
Park(i) == Mark(i, Parked(hook, i), "parked")

\* Hook::try_unpark reads the words, not the contract.
TryUnpark(i) == IsParked(hook, i) /\ Mark(i, Idled(hook, i), "vacant")

-----------------------------------------------------------------------------
(* Chains.                                                                 *)

ChainPush(c, i) ==
  LET out == Pushed(hook, chain[c], i)
  IN /\ hook' = out.hook
     /\ chain' = [chain EXCEPT ![c] = out.chain]
     /\ Counts(c, count[c] + 1)
     /\ Place(i, c)
     /\ undo' = NoUndo
     /\ UNCHANGED <<ring, list, free>>

ChainUnlink(c, i) ==
  LET out == Unlinked(hook, chain[c], i)
  IN /\ at[i] = c
     /\ hook' = out.hook
     /\ chain' = [chain EXCEPT ![c] = out.chain]
     /\ Counts(c, count[c] - 1)
     /\ Place(i, "stale")
     /\ undo' = IF c \in Plain
                THEN [list |-> c, node |-> i, was |-> Walk(hook, chain[c].first)]
                ELSE NoUndo
     /\ UNCHANGED <<ring, list, free>>

\* Detach::restore is called while the removal's gap is still there.
ChainRestore ==
  LET c == undo.list  i == undo.node  out == Restored(hook, chain[c], i)
  IN /\ undo # NoUndo
     /\ hook' = out.hook
     /\ chain' = [chain EXCEPT ![c] = out.chain]
     /\ Place(i, c)
     /\ undo' = NoUndo
     /\ UNCHANGED <<count, ring, list, free>>

ChainPop(c) ==
  LET i == chain[c].first  out == Popped(hook, chain[c])
  IN /\ i # END
     /\ hook' = out.hook
     /\ chain' = [chain EXCEPT ![c] = out.chain]
     /\ Counts(c, count[c] - 1)
     /\ Place(i, "stale")
     /\ undo' = NoUndo
     /\ UNCHANGED <<ring, list, free>>

ChainAppend(target, source) ==
  LET out == Spliced(hook, chain[target], chain[source])
  IN /\ target # source
     /\ chain[source].first # END
     /\ hook' = out.hook
     /\ chain' = [chain EXCEPT ![target] = out.chain, ![source] = EmptyChain]
     /\ at' = [i \in Nodes |-> IF at[i] = source THEN target ELSE at[i]]
     /\ undo' = NoUndo
     /\ UNCHANGED <<count, ring, list, free>>

ChainMoveBack(source, target, i) ==
  LET out == Unlinked(hook, chain[source], i)
      rest == [chain EXCEPT ![source] = out.chain]
      into == Pushed(out.hook, rest[target], i)
  IN /\ at[i] = source
     /\ chain[target].last # i
     /\ hook' = into.hook
     /\ chain' = [rest EXCEPT ![target] = into.chain]
     /\ Place(i, target)
     /\ undo' = NoUndo
     /\ UNCHANGED <<count, ring, list, free>>

-----------------------------------------------------------------------------
(* Cycles and lists.                                                       *)

Ringed(r, out, i, where) ==
  /\ hook' = out.hook
  /\ ring' = [ring EXCEPT ![r] = out.ring]
  /\ Place(i, where)
  /\ undo' = NoUndo
  /\ UNCHANGED <<chain, count, list, free>>

RingPush(r, i)     == Ringed(r, Joined(hook, ring[r], i), i, r)
RingUnlink(r, i)   == at[i] = r /\ Ringed(r, Left(hook, ring[r], i), i, "vacant")
RingMoveBack(r, i) == at[i] = r /\ Ringed(r, CycledBack(hook, ring[r], i), i, r)

RingStep(r) ==
  /\ ring[r] # END
  /\ ring' = [ring EXCEPT ![r] = Stepped(hook, ring[r])]
  /\ undo' = NoUndo
  /\ UNCHANGED <<hook, chain, count, list, free, at>>

Heads(l, out, i, where) ==
  /\ hook' = out.hook
  /\ list' = [list EXCEPT ![l] = out.list]
  /\ Place(i, where)
  /\ undo' = NoUndo
  /\ UNCHANGED <<chain, count, ring, free>>

ListPush(l, i)   == Heads(l, Listed(hook, list[l], i), i, l)
ListUnlink(l, i) == at[i] = l /\ Heads(l, Unlisted(hook, list[l], i), i, "vacant")

Enter(i) ==
  \/ Recycle(i) \/ Idle(i) \/ Park(i)
  \/ \E c \in Chains : ChainPush(c, i)
  \/ \E r \in Rings : RingPush(r, i)
  \/ \E l \in Lists : ListPush(l, i)

Move(i) ==
  \/ TryUnpark(i)
  \/ \E c \in Chains : ChainUnlink(c, i)
  \/ \E source, target \in Plain : ChainMoveBack(source, target, i)
  \/ \E r \in Rings : RingUnlink(r, i) \/ RingMoveBack(r, i)
  \/ \E l \in Lists : ListUnlink(l, i)

Next ==
  \/ \E i \in Loose : Enter(i)
  \/ \E i \in Nodes : Move(i)
  \/ \E c \in Chains : ChainPop(c)
  \/ \E target, source \in Plain : ChainAppend(target, source)
  \/ \E r \in Rings : RingStep(r)
  \/ Acquire
  \/ ChainRestore

Spec == Init /\ [][Next]_vars

\* What can be read again: of a hook whose removal nobody can undo, no word is
\* read before both are written, but for try_unpark's test.
CanReturn(i) == IF undo = NoUndo THEN FALSE ELSE undo.node = i
Readable ==
  <<[i \in Nodes |-> IF at[i] = "stale" /\ ~ CanReturn(i) THEN <<IsParked(hook, i)>>
                     ELSE <<hook.previous[i], hook.next[i]>>],
    chain, count, ring, list, free, at, undo>>

-----------------------------------------------------------------------------
(* Properties.                                                             *)

Words == Nodes \cup {END}
Ends == [first : Words, last : Words]

\* Types: every word is a node or END.
TypeOK ==
  /\ hook \in Plane(Nodes)
  /\ chain \in [Chains -> Ends]
  /\ count \in [Counted -> Nat]
  /\ ring \in [Rings -> Words]
  /\ list \in [Lists -> Words]
  /\ free \in Words
  /\ at \in [Nodes -> Places \cup States \cup {Free}]

\* A neighbour named by a word of i is linked where i is, and names i back.
Answered(i) ==
  /\ hook.previous[i] # END =>
       /\ hook.previous[i] \in Nodes
       /\ at[hook.previous[i]] = at[i]
       /\ hook.next[hook.previous[i]] = i
  /\ hook.next[i] # END =>
       /\ hook.next[i] \in Nodes
       /\ at[hook.next[i]] = at[i]
       /\ hook.previous[hook.next[i]] = i

ChainReciprocal(c) ==
  /\ chain[c].first = END <=> chain[c].last = END
  /\ chain[c].first # END =>
       /\ at[chain[c].first] = c /\ hook.previous[chain[c].first] = END
       /\ at[chain[c].last] = c  /\ hook.next[chain[c].last] = END
  /\ \A i \in Nodes : at[i] = c =>
       /\ Answered(i)
       /\ hook.previous[i] = END => chain[c].first = i
       /\ hook.next[i] = END => chain[c].last = i

ListReciprocal(l) ==
  /\ list[l] # END => at[list[l]] = l /\ hook.previous[list[l]] = END
  /\ \A i \in Nodes : at[i] = l =>
       /\ Answered(i)
       /\ hook.previous[i] = END => list[l] = i

\* A node alone in its cycle has END on both sides, and never itself.
RingReciprocal(r) ==
  /\ ring[r] # END => at[ring[r]] = r
  /\ \A i \in Nodes : at[i] = r =>
       /\ Answered(i)
       /\ hook.previous[i] = END <=> hook.next[i] = END
       /\ hook.next[i] # i

\* Every edge is written on both sides: whatever was pushed, popped, spliced,
\* moved or restored before, the neighbour a hook names belongs to the same
\* list and names it back, a missing neighbour is an end of the list, and the
\* ends are what the chain, cycle or list says (the "reciprocal" contract of
\* every unsafe operation in queue/links and raw/hooks).
Reciprocal ==
  /\ \A c \in Chains : ChainReciprocal(c)
  /\ \A l \in Lists : ListReciprocal(l)
  /\ \A r \in Rings : RingReciprocal(r)

\* A hook answers for itself: is_linked holds exactly of the members of some
\* list, try_unpark finds exactly the parked hooks, even those a cycle or list
\* just dropped or the free list threads, and a counted chain's len is its
\* membership.  A stale hook, between its removal and its next use, may lie.
MarksAreTrue ==
  /\ \A i \in Nodes : at[i] # "stale" =>
       /\ IsLinked(hook, i) <=> at[i] \in Places
       /\ IsParked(hook, i) <=> at[i] = "parked"
  /\ \A c \in Counted : count[c] = Cardinality({i \in Nodes : at[i] = c})

HeadOf(l) ==
  IF l \in Chains THEN chain[l].first
  ELSE IF l \in Rings THEN ring[l]
  ELSE IF l \in Lists THEN list[l] ELSE free

\* The walks are the orders the operations promise: first in, first out for
\* chains and cycles, last in, first out for lists and the free list, splicing
\* keeps both orders, and a restored node is back in its old place.
Promise == INSTANCE Orders WITH
  Fifos <- Chains \cup Rings, Stacks <- Lists \cup {Free}, Pool <- Free, Bulk <- FALSE,
  order <- [l \in Places \cup {Free} |-> Walk(hook, HeadOf(l))],
  loose <- {i \in Nodes : at[i] \in States}

ImplementsOrders == Promise!Spec
=============================================================================
