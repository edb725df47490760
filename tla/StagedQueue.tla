----------------------------- MODULE StagedQueue -----------------------------
(***************************************************************************)
(* A table whose slots are vacant, queued in order or parked               *)
(* (src/depot/queue/indexed/fifo/staged, raw/arena/staged).  The first of  *)
(* a list is told by naming itself in previous; a guard carries the        *)
(* previous it read, and unlinks by it.                                    *)
(***************************************************************************)
EXTENDS Naturals, Sequences, SequencesExt, FiniteSets

CONSTANTS Capacity, None

VARIABLES node,    \* slot -> previous, next, phase and the field its value is in
          state,   \* head, tail, parked and occupied
          slot     \* the guard: index, phase and the previous it carries

vars == <<node, state, slot>>

Indices == 0..(Capacity - 1)
NoSlot == [phase |-> "none", index |-> 0, previous |-> 0]

\* StagedNode::new and StagedState::new.
Init ==
  /\ node = [i \in Indices |-> [previous |-> i, next |-> None, phase |-> "vacant", field |-> "none"]]
  /\ state = [head |-> None, tail |-> None, parked |-> None, occupied |-> 0]
  /\ slot = NoSlot

Holding(phase) == slot.phase = phase
Held(i, phase, previous) == slot' = [index |-> i, phase |-> phase, previous |-> previous]

-----------------------------------------------------------------------------
(* Lists.                                                                  *)

\* Mutant: the one that becomes first keeps the previous it had.
UnlinkedStale(n, s, i, queued, previous) ==
  LET next == n[i].next  first == previous = i
  IN [node  |-> IF first THEN n ELSE [n EXCEPT ![previous].next = next],
      state |-> [s EXCEPT
        !.head = IF first /\ queued THEN next ELSE @,
        !.parked = IF first /\ ~ queued THEN next ELSE @,
        !.tail = IF queued /\ next = None THEN (IF first THEN None ELSE previous) ELSE @]]
\* StagedPhase::unlink.
Unlinked(n, s, i, queued, previous) ==
  LET next == n[i].next
      first == previous = i
      before == IF first THEN n ELSE [n EXCEPT ![previous].next = next]
  IN [node  |-> IF next = None THEN before
                ELSE [before EXCEPT ![next].previous = IF first THEN next ELSE previous],
      state |-> [s EXCEPT
        !.head = IF first /\ queued THEN next ELSE @,
        !.parked = IF first /\ ~ queued THEN next ELSE @,
        !.tail = IF queued /\ next = None THEN (IF first THEN None ELSE previous) ELSE @]]

\* StagedMove::store: the back of the queue, the front of the parked ones.
Stored(n, s, i, queued) ==
  LET previous == IF queued /\ s.tail # None THEN s.tail ELSE i
      next == IF queued THEN None ELSE s.parked
      beside == IF queued /\ s.tail # None THEN [n EXCEPT ![s.tail].next = i]
                ELSE IF ~ queued /\ s.parked # None THEN [n EXCEPT ![s.parked].previous = i]
                ELSE n
  IN [node  |-> [beside EXCEPT ![i].previous = previous, ![i].next = next,
                               ![i].phase = IF queued THEN "queued" ELSE "parked"],
      state |-> [s EXCEPT !.head = IF queued /\ s.tail = None THEN i ELSE @,
                          !.tail = IF queued THEN i ELSE @,
                          !.parked = IF queued THEN @ ELSE i],
      previous |-> previous]

-----------------------------------------------------------------------------
(* Operations.                                                             *)

\* Table::entry, vacant and from_source: what the node says it is.
Entry(i) ==
  /\ Holding("none")
  /\ Held(i, node[i].phase, IF node[i].phase = "vacant" THEN i ELSE node[i].previous)
  /\ UNCHANGED <<node, state>>

\* Slot::first: the first one is taken to name itself.
First(queued) ==
  LET i == IF queued THEN state.head ELSE state.parked
  IN /\ Holding("none") /\ i # None
     /\ Held(i, IF queued THEN "queued" ELSE "parked", i)
     /\ UNCHANGED <<node, state>>
Release == ~ Holding("none") /\ slot' = NoSlot /\ UNCHANGED <<node, state>>

\* Slot::push_back and insert, by StagedMove::insert and commit or store.
PushBack(kept) ==
  /\ Holding("vacant")
  /\ LET out == Stored([node EXCEPT ![slot.index].field = "queued"],
                       [state EXCEPT !.occupied = @ + 1], slot.index, TRUE)
     IN /\ node' = out.node /\ state' = out.state
        /\ IF kept THEN Held(slot.index, "queued", out.previous) ELSE slot' = NoSlot

\* Slot::park and resume: the field changes, then the list.
Replace(queued) ==
  LET from == IF queued THEN "parked" ELSE "queued"
      to == IF queued THEN "queued" ELSE "parked"
      left == Unlinked([node EXCEPT ![slot.index].field = to], state,
                       slot.index, ~ queued, slot.previous)
      out == Stored(left.node, left.state, slot.index, queued)
  IN /\ Holding(from)
     /\ node' = out.node /\ state' = out.state
     /\ Held(slot.index, to, out.previous)

\* Slot::retire, of remove and clear: the count that was read before.
Retired(n, s, i, queued, previous) ==
  LET out == Unlinked(n, s, i, queued, previous)
  IN [node  |-> [out.node EXCEPT ![i].phase = "vacant", ![i].field = "none"],
      state |-> [out.state EXCEPT !.occupied = s.occupied - 1]]
Retire(kept) ==
  /\ slot.phase \in {"queued", "parked"}
  /\ LET out == Retired(node, state, slot.index, slot.phase = "queued", slot.previous)
     IN node' = out.node /\ state' = out.state
  /\ IF kept THEN Held(slot.index, "vacant", slot.index) ELSE slot' = NoSlot

\* Table::clear: the queue from its front, then the parked ones.
Clear ==
  /\ Holding("none")
  /\ LET emptied[n \in 0..Capacity] ==
           IF n = 0 THEN [node |-> node, state |-> state]
           ELSE LET t == emptied[n - 1] IN
                IF t.state.head # None
                THEN Retired(t.node, t.state, t.state.head, TRUE, t.state.head)
                ELSE IF t.state.parked # None
                THEN Retired(t.node, t.state, t.state.parked, FALSE, t.state.parked)
                ELSE t
     IN node' = emptied[Capacity].node /\ state' = emptied[Capacity].state
  /\ UNCHANGED slot

Next ==
  \/ \E i \in Indices : Entry(i)
  \/ \E b \in BOOLEAN : First(b) \/ PushBack(b) \/ Replace(b) \/ Retire(b)
  \/ Release \/ Clear
Spec == Init /\ [][Next]_vars

-----------------------------------------------------------------------------
(* Properties.                                                             *)

WalkNext(start) ==
  LET from[left \in 0..Capacity, i \in Indices \cup {None}] ==
        IF left = 0 \/ i = None THEN <<>> ELSE <<i>> \o from[left - 1, node[i].next]
  IN from[Capacity, start]
Queue == WalkNext(state.head)
Parked == WalkNext(state.parked)
InOrder(list) == \A n \in 1..Len(list) :
  node[list[n]].previous = IF n = 1 THEN list[n] ELSE list[n - 1]

\* The phase of a slot tells its list and the field its value is in (drop and
\* clear free by it); both lists read the same both ways, the first naming
\* itself; and the previous a guard carries is the slot's (occupied.rs:42).
StagesAreTold ==
  /\ InOrder(Queue) /\ InOrder(Parked)
  /\ state.tail = IF Queue = <<>> THEN None ELSE Last(Queue)
  /\ ToSet(Queue) = {i \in Indices : node[i].phase = "queued"}
  /\ ToSet(Parked) = {i \in Indices : node[i].phase = "parked"}
  /\ state.occupied = Len(Queue) + Len(Parked)
  /\ \A i \in Indices : node[i].field = IF node[i].phase = "vacant" THEN "none" ELSE node[i].phase
  /\ slot.phase # "none" => node[slot.index].phase = slot.phase
  /\ slot.phase \in {"queued", "parked"} => node[slot.index].previous = slot.previous
=============================================================================
