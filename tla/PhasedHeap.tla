----------------------------- MODULE PhasedHeap -----------------------------
(* depot/heap/indexed/resident: every resident is one of five payloads in a   *)
(* union, told apart by a four-valued tag and by whether the resident is in   *)
(* the heap. Control and Data residents stand in a queue each through their   *)
(* one hook; Active ones are counted. A slot held between two calls changes   *)
(* nothing, so that each call on it is a step.                                *)
EXTENDS Hooks, Integers, Functions, TLC

CONSTANTS Capacity, Priorities, NONE

VARIABLES heap, tag, control, data, hook, active,
          field       \* the payload last written into the union, which the code does not keep

vars == <<heap, tag, control, data, hook, active, field>>

Indices      == 0 .. Capacity - 1
Stored(i, p) == [identity |-> i, priority |-> p]
IndexOf(e)   == e.identity
Lt(a, b)     == a.priority < b.priority

H == INSTANCE HoleHeap

TagOf(phase) == IF phase \in {"Scheduled", "Idle"} THEN "Common" ELSE phase
InHeap(i)    == heap.positions[i] # NONE

\* view: which field the tag and the membership say is there.
Told(i) == IF tag[i] # "Common" THEN tag[i] ELSE IF InHeap(i) THEN "Scheduled" ELSE "Idle"

\* try_repeat: everyone is scheduled at one priority.
Init ==
  /\ \E p \in Priorities :
       heap = [order |-> [i \in Indices |-> Stored(i, p)], positions |-> [i \in Indices |-> i]]
  /\ tag = [i \in Indices |-> "Common"] /\ field = [i \in Indices |-> "Scheduled"]
  /\ hook = [previous |-> [i \in Indices |-> i], next |-> [i \in Indices |-> END]]
  /\ control = EmptyChain /\ data = EmptyChain /\ active = 0

Queues == [hook |-> hook, control |-> control, data |-> data, active |-> active]

Leave(q, from, i) ==
  IF from = "Control" THEN LET u == Unlinked(q.hook, q.control, i)
                           IN [q EXCEPT !.hook = u.hook, !.control = u.chain]
  ELSE IF from = "Data" THEN LET u == Unlinked(q.hook, q.data, i)
                             IN [q EXCEPT !.hook = u.hook, !.data = u.chain]
  ELSE IF from = "Active" THEN [q EXCEPT !.active = @ - 1] ELSE q

Enter(q, to, i) ==
  IF to = "Control" THEN LET u == Pushed(q.hook, q.control, i)
                         IN [q EXCEPT !.hook = u.hook, !.control = u.chain]
  ELSE IF to = "Data" THEN LET u == Pushed(q.hook, q.data, i)
                           IN [q EXCEPT !.hook = u.hook, !.data = u.chain]
  ELSE IF to = "Active" THEN [q EXCEPT !.active = @ + 1] ELSE q

\* Held::change from the phase the slot was told to hold: a slot whose tag does
\* not change keeps its place in its queue.
Transition(i, from, to) ==
  LET q == IF TagOf(from) = TagOf(to) THEN Queues
           ELSE Enter(Leave(Queues, TagOf(from), i), TagOf(to), i)
  IN /\ hook' = q.hook /\ control' = q.control /\ data' = q.data /\ active' = q.active
     /\ tag' = [tag EXCEPT ![i] = TagOf(to)] /\ field' = [field EXCEPT ![i] = to]

\* How a slot is had: by index, or as the head of the control or data queue.
Entry(i)       == i \in Indices
ControlHead(i) == i = control.first
DataHead(i)    == i = data.first
Held(i)        == Entry(i) \/ ControlHead(i) \/ DataHead(i)

\* Slot::change, into the phases the heap membership admits (Retained).
Retained(i) == IF InHeap(i) THEN {"Scheduled"} ELSE {"Idle", "Control", "Data", "Active"}
Change(i, to) == Held(i) /\ to \in Retained(i) /\ Transition(i, Told(i), to) /\ UNCHANGED heap

Replace(i, p) == /\ Held(i) /\ InHeap(i)
                 /\ heap' = H!Replaced(heap, heap.positions[i], Stored(i, p))
                 /\ UNCHANGED <<tag, control, data, hook, active, field>>

\* Slot::retire: out of the heap, and Idle.
Retire(i) == /\ Held(i) /\ InHeap(i)
             /\ heap' = H!Removed(heap, heap.positions[i])
             /\ Transition(i, Told(i), "Idle")

\* Slot::schedule: into the heap, with its control event pending.
Schedule(i, p) == /\ Held(i) /\ ~InHeap(i)
                  /\ heap' = H!Appended(heap, Stored(i, p))
                  /\ Transition(i, Told(i), "Control")

\* Mutant of Clear: whoever is in the heap becomes Idle, whatever its tag.
ClearAll ==
  /\ H!Len(heap) # 0
  /\ field' = [i \in Indices |-> IF InHeap(i) THEN "Idle" ELSE field[i]]
  /\ heap' = [order |-> <<>>, positions |-> [i \in Indices |-> NONE]]
  /\ UNCHANGED <<tag, control, data, hook, active>>

\* clear: Common residents of the heap become Idle, then everyone leaves it; the
\* pending events stay.
Clear ==
  /\ H!Len(heap) # 0
  /\ field' = [i \in Indices |-> IF InHeap(i) /\ tag[i] = "Common" THEN "Idle" ELSE field[i]]
  /\ heap' = [order |-> <<>>, positions |-> [i \in Indices |-> NONE]]
  /\ UNCHANGED <<tag, control, data, hook, active>>

Next == \/ \E i \in Indices : \/ \E to \in {"Scheduled", "Idle", "Control", "Data", "Active"} :
                                   Change(i, to)
                              \/ \E p \in Priorities : Replace(i, p) \/ Schedule(i, p)
                              \/ Retire(i)
        \/ Clear

Spec == Init /\ [][Next]_vars

(* Properties *)

\* The field the tag and the heap tell is the one last written, for every
\* resident after every transition: a read through the wrong one would be of
\* another type. The minimum peek() shows is a scheduled or a blocked one, the
\* queues hold just the residents with their events and the count the active.
FieldIsTold ==
  /\ \A i \in Indices : tag[i] \in {"Data", "Active"} => ~InHeap(i)
  /\ \A i \in Indices : Told(i) = field[i]
  /\ H!Reciprocal(heap) /\ H!Ordered(heap)
  /\ Range(Walk(hook, control.first)) = {i \in Indices : tag[i] = "Control"}
  /\ Range(Walk(hook, data.first)) = {i \in Indices : tag[i] = "Data"}
  /\ active = Cardinality({i \in Indices : tag[i] = "Active"})
=============================================================================
