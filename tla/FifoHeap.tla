------------------------------ MODULE FifoHeap ------------------------------
(* depot/heap/queue.rs: values in FIFO order whose minimum priority can be    *)
(* removed independently. One slot has a heap entry, a hook in the ready      *)
(* chain or in the free stack, and storage that holds a value while it is     *)
(* ready. A sweep visits as many heads as there were when it began.           *)
EXTENDS Hooks, Integers, Functions, TLC, SequencesExt

CONSTANTS Capacity, Priorities, NONE

VARIABLES heap, hook, ready, free, written, sweep

vars == <<heap, hook, ready, free, written, sweep>>

Slots        == 0 .. Capacity - 1
Stored(i, p) == [identity |-> i, priority |-> p]
IndexOf(e)   == e.identity
Lt(a, b)     == a.priority < b.priority
H == INSTANCE HoleHeap

Init == /\ heap = [order |-> <<>>, positions |-> [i \in Slots |-> NONE]]
        /\ hook = [previous |-> [i \in Slots |-> i],
                   next |-> [i \in Slots |-> IF i + 1 = Capacity THEN END ELSE i + 1]]
        /\ ready = EmptyChain /\ free = 0 /\ written = {} /\ sweep = 0

\* Vacant::push_back: ordered first, then off the free stack, written, linked.
PushBack(p) ==
  LET out == Acquired(hook, free)
      in  == Pushed(out.hook, ready, free)
  IN /\ sweep = 0 /\ free # END
     /\ heap' = H!Appended(heap, Stored(free, p))
     /\ free' = out.free /\ written' = written \cup {free}
     /\ hook' = in.hook /\ ready' = in.chain /\ UNCHANGED sweep

\* Occupied::remove: the front finds its heap position, the minimum knows it.
Removes(i, position) ==
  LET out  == Unlinked(hook, ready, i)
      back == Recycled(out.hook, free, i)
  IN /\ heap' = H!Removed(heap, position)
     /\ written' = written \ {i}
     /\ hook' = back.hook /\ free' = back.free /\ ready' = out.chain

\* Occupied::move_to_back.
MovesToBack(i) ==
  LET out == Unlinked(hook, ready, i)
      in  == Pushed(out.hook, out.chain, i)
  IN /\ IF ready.last = i THEN UNCHANGED <<hook, ready>>
        ELSE hook' = in.hook /\ ready' = in.chain
     /\ UNCHANGED <<heap, free, written>>

FrontEntry(op) == /\ sweep = 0 /\ ready.first # END /\ UNCHANGED sweep
             /\ \/ op = "remove" /\ Removes(ready.first, heap.positions[ready.first])
                \/ op = "rotate" /\ MovesToBack(ready.first)

MinEntry(op) == /\ sweep = 0 /\ H!Len(heap) # 0 /\ UNCHANGED sweep
                /\ \/ op = "remove" /\ Removes(heap.order[0].identity, 0)
                   \/ op = "rotate" /\ MovesToBack(heap.order[0].identity)

\* try_sweep: the visits that follow are of the heads, and no push is among them.
Sweep == /\ sweep = 0 /\ H!Len(heap) # 0 /\ sweep' = H!Len(heap)
         /\ UNCHANGED <<heap, hook, ready, free, written>>

\* A visit removes the head, turns it, leaves it, or breaks off the sweep.
Visit(op) ==
  /\ sweep > 0 /\ sweep' = IF op = "break" THEN 0 ELSE sweep - 1
  /\ \/ op = "remove" /\ Removes(ready.first, heap.positions[ready.first])
     \/ op = "rotate" /\ MovesToBack(ready.first)
     \/ op \in {"leave", "break"} /\ UNCHANGED <<heap, hook, ready, free, written>>

Next == \/ \E p \in Priorities : PushBack(p)
        \/ \E op \in {"remove", "rotate"} : FrontEntry(op) \/ MinEntry(op)
        \/ Sweep
        \/ \E op \in {"remove", "rotate", "leave", "break"} : Visit(op)

Spec == Init /\ [][Next]_vars

(* Properties *)

FreeStack == Walk(hook, free)
Order     == Walk(hook, ready.first)

\* Every slot is on exactly one side: free, or ready with a value and one heap
\* entry; a sweep that has visits left has a head to visit.
SlotsAreWhole ==
  /\ H!Reciprocal(heap) /\ H!Ordered(heap)
  /\ IsInjective(FreeStack) /\ IsInjective(Order)
  /\ ToSet(Order) = written /\ ToSet(FreeStack) = Slots \ written
  /\ \A i \in Slots : heap.positions[i] # NONE <=> i \in written
  /\ ready.last = (IF Order = <<>> THEN END ELSE Last(Order))
  /\ sweep <= Len(Order)
=============================================================================
