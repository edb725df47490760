----------------------------- MODULE IndexedHeap -----------------------------
(* depot/heap/indexed: a minimum heap over 0..n-1 with at most one entry for  *)
(* each index. The caller holds an entry (a position) or a vacancy (an index) *)
(* across calls. The order is the caller's: where it is not an order, every   *)
(* comparison may answer anything and a hole may stop anywhere on its path.   *)
EXTENDS Integers, FiniteSets, Functions, TLC

CONSTANTS Indices, Priorities, NONE

VARIABLES ordered,   \* whether Ord keeps its word
          heap, held

vars == <<ordered, heap, held>>

Stored(i, p) == [identity |-> i, priority |-> p]
IndexOf(e)   == e.identity
Lt(a, b)     == a.priority < b.priority

H == INSTANCE HoleHeap

Len       == H!Len(heap)
Idle      == [kind |-> "none", at |-> NONE, index |-> NONE]
\* index is what the caller asked for; the handle itself keeps only at.
Occupied(position, i) == [kind |-> "occupied", at |-> position, index |-> i]
Vacant(i)             == [kind |-> "vacant", at |-> i, index |-> i]
Ends(end, start, len) == IF ordered THEN {end} ELSE H!Reach(start, len)

Full(p) == [order     |-> [i \in Indices |-> Stored(i, p)],
            positions |-> [i \in Indices |-> i]]
Empty   == [order |-> <<>>, positions |-> [i \in Indices |-> NONE]]

Init == /\ ordered \in BOOLEAN /\ held = Idle
        /\ heap \in {Empty} \cup {Full(p) : p \in Priorities}

Keep == UNCHANGED ordered

\* try_entry, and the proofs that resolve one index without the bounds check.
TryEntry(i) ==
  /\ held = Idle /\ Keep /\ UNCHANGED heap
  /\ held' = IF heap.positions[i] = NONE THEN Vacant(i) ELSE Occupied(heap.positions[i], i)

FirstEntry == /\ held = Idle /\ Len # 0 /\ Keep /\ UNCHANGED heap
              /\ held' = Occupied(0, heap.order[0].identity)

Release == held # Idle /\ held' = Idle /\ Keep /\ UNCHANGED heap

\* Vacant::set and Vacant::insert, which keeps the entry where its hole ended.
Insert(p, keep) ==
  /\ held.kind = "vacant" /\ Keep
  /\ LET v == Stored(held.at, p) IN
     \E end \in Ends(H!Up(heap.order, Len, v), Len, Len + 1) :
       /\ end <= Len /\ heap' = H!AppendedAt(heap, end, v)
       /\ held' = IF keep THEN Occupied(end, held.at) ELSE Idle

\* Occupied::replace.
Replace(p) ==
  /\ held.kind = "occupied" /\ Keep
  /\ LET v == Stored(heap.order[held.at].identity, p) IN
     \E end \in Ends(H!Repair(heap.order, held.at, Len, v), held.at, Len) :
       /\ heap' = H!Placed(heap, held.at, end, v)
       /\ held' = [held EXCEPT !.at = end]

\* Occupied::set.
Set(p) ==
  /\ held.kind = "occupied" /\ Keep /\ held' = Idle
  /\ LET v == Stored(heap.order[held.at].identity, p) IN
     \E end \in Ends(H!UpdateEnd(heap, held.at, v), held.at, Len) :
       heap' = H!UpdatedAt(heap, held.at, end, v)

\* Occupied::retire and take, and Occupied::remove, which keeps the vacancy.
Remove(keep) ==
  /\ held.kind = "occupied" /\ Keep
  /\ \E end \in IF held.at = Len - 1 THEN {held.at}
                ELSE Ends(H!RemoveEnd(heap, held.at), held.at, Len - 1) :
       heap' = H!RemovedAt(heap, held.at, end)
  /\ held' = IF keep THEN Vacant(heap.order[held.at].identity) ELSE Idle

Clear == held = Idle /\ heap' = Empty /\ UNCHANGED <<ordered, held>>

Next == \/ \E i \in Indices : TryEntry(i)
        \/ FirstEntry \/ Release \/ Clear
        \/ \E p \in Priorities, keep \in BOOLEAN : Insert(p, keep)
        \/ \E p \in Priorities : Replace(p) \/ Set(p)
        \/ \E keep \in BOOLEAN : Remove(keep)

Spec == Init /\ [][Next]_vars

(* Properties *)

\* The entries and the reverse map stay inverse whatever the comparisons say,
\* and while they say the truth the heap is one; a held position or vacancy is
\* the asked index's, through every move of other entries.
IndexedPlanes ==
  /\ H!Reciprocal(heap)
  /\ ordered => H!Ordered(heap)
  /\ held.kind = "occupied" => heap.positions[held.index] = held.at
  /\ held.kind = "vacant" => heap.positions[held.index] = NONE
=============================================================================
