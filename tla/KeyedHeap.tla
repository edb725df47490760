------------------------------ MODULE KeyedHeap ------------------------------
(* depot/heap/keyed and depot/heap/resident: a minimum heap over a fixed      *)
(* domain of indices whose keys also carry a generation. The heap of each     *)
(* index is one entry at most, of whatever generation claimed it last.        *)
EXTENDS Integers, FiniteSets, Functions, TLC

CONSTANTS Generations, Priorities,
          Kinds,        \* "keyed" or "resident": whether indices have residents
          Capacity(_),  \* the indices of a heap of a kind
          NONE

VARIABLES kind, heap,
          residents,    \* the value of every index, kept while it is absent
          reported      \* the Change the last operation answered with, if any

vars == <<kind, heap, residents, reported>>

Indices == 0 .. Capacity(kind) - 1
Keys    == Indices \X Generations
Entry(key, p) == [key |-> key, priority |-> p]
IndexOf(e)    == e.key[1]

\* Equal priorities are ordered by index.
Lt(a, b) == a.priority < b.priority \/ (a.priority = b.priority /\ IndexOf(a) < IndexOf(b))

H == INSTANCE HoleHeap

At(key)       == heap.positions[key[1]]
IsVacant(key) == At(key) = NONE
Current(key)  == heap.order[At(key)]
Occupied(key) == ~IsVacant(key) /\ Current(key).key = key
Conflict(key) == ~IsVacant(key) /\ Current(key).key # key

Root == IF DOMAIN heap.order = {} THEN {} ELSE {heap.order[0]}

Init == /\ kind \in Kinds
        /\ heap = [order |-> <<>>, positions |-> [i \in Indices |-> NONE]]
        /\ residents = [i \in Indices |-> NONE] /\ reported = "none"

Silent == reported' = "none" /\ UNCHANGED kind
Becomes(h) == heap' = h /\ UNCHANGED residents
Holds(i, r) == residents' = [residents EXCEPT ![i] = r]

(* By key, through an entry *)

\* keyed::Vacant::insert; a resident's comes with its value, in Update.
Insert(key, p) == /\ kind = "keyed" /\ IsVacant(key) /\ Silent
                  /\ Becomes(H!Appended(heap, Entry(key, p)))
\* Occupied::set.
Set(key, p)    == Occupied(key) /\ Silent /\ Becomes(H!Updated(heap, At(key), Entry(key, p)))

\* Slot::replace: whatever generation is there gives way.
Replace(key, p) ==
  /\ kind = "keyed" /\ Silent
  /\ Becomes(IF IsVacant(key) THEN H!Appended(heap, Entry(key, p))
             ELSE H!Replaced(heap, At(key), Entry(key, p)))

\* resident::Entry::update: a new generation brings its own resident.
Update(key, p) ==
  /\ kind = "resident" /\ Silent
  /\ \/ IsVacant(key) /\ heap' = H!Appended(heap, Entry(key, p)) /\ Holds(key[1], key[2])
     \/ Occupied(key) /\ Becomes(H!Updated(heap, At(key), Entry(key, p)))
     \/ /\ Conflict(key) /\ heap' = H!Replaced(heap, At(key), Entry(key, p))
        /\ Holds(key[1], key[2])

\* resident::Entry::clear: a conflicting generation is left as it is.
ClearEntry(key) ==
  /\ kind = "resident" /\ Silent
  /\ \/ IsVacant(key) /\ Holds(key[1], NONE) /\ UNCHANGED heap
     \/ Occupied(key) /\ Holds(key[1], NONE) /\ heap' = H!Removed(heap, At(key))
     \/ Conflict(key) /\ UNCHANGED <<heap, residents>>

\* Slot::clear drops any generation, Slot::retire only its own.
ClearSlot(key) == /\ kind = "keyed" /\ ~IsVacant(key) /\ Silent
                  /\ Becomes(H!Removed(heap, At(key)))
Retire(key)    == Occupied(key) /\ Silent /\ Becomes(H!Removed(heap, At(key)))

\* Removed::reinsert: the entry leaves and the same identity returns.
Reinsert(key, p) ==
  /\ kind = "resident" /\ Occupied(key) /\ Silent
  /\ Becomes(H!Appended(H!Removed(heap, At(key)), Entry(key, p)))

(* With a report of what became of the minimum *)

\* Entry::set_min_slot.
SetMin(key, p) ==
  LET next == H!Replaced(heap, At(key), Entry(key, p)) IN
  /\ kind = "resident" /\ Occupied(key) /\ UNCHANGED kind /\ Becomes(next)
  /\ reported' = IF At(key) = 0
                 THEN IF Current(key).priority = p THEN "Contents" ELSE "Minimum"
                 ELSE IF next.positions[key[1]] = 0 THEN "Minimum" ELSE "Contents"

\* Mutant of RetireMin: the entry is asked where it stands when it is gone.
RetireMinAfter(key) ==
  /\ Occupied(key) /\ UNCHANGED kind /\ Becomes(H!Removed(heap, At(key)))
  /\ reported' = IF heap'.positions[key[1]] = 0 THEN "Minimum" ELSE "Contents"

\* Entry::retire_min.
RetireMin(key) ==
  /\ Occupied(key) /\ UNCHANGED kind /\ Becomes(H!Removed(heap, At(key)))
  /\ reported' = IF At(key) = 0 THEN "Minimum" ELSE "Contents"

\* Min::first_entry_if, and remove.
RemoveFirst(p) == /\ \E e \in Root : e.priority <= p
                  /\ Silent /\ Becomes(H!Removed(heap, 0))

Next == \/ \E key \in Keys, p \in Priorities :
             \/ Insert(key, p) \/ Set(key, p) \/ Replace(key, p) \/ Update(key, p)
             \/ Reinsert(key, p) \/ SetMin(key, p)
        \/ \E key \in Keys : ClearEntry(key) \/ ClearSlot(key) \/ Retire(key) \/ RetireMin(key)
        \/ \E p \in Priorities : RemoveFirst(p)

Spec == Init /\ [][Next]_vars

(* Properties *)

\* The planes are inverse to each other and the root precedes everyone. A
\* generation in the heap of residents finds there what it brought: no clear or
\* retirement by another generation took it.
KeyedPlanes ==
  /\ H!Reciprocal(heap) /\ H!Ordered(heap)
  /\ kind = "resident" =>
       \A i \in Indices : heap.positions[i] # NONE =>
         residents[i] = heap.order[heap.positions[i]].key[2]

EntryAt(i) == IF heap.positions[i] = NONE THEN {} ELSE {heap.order[heap.positions[i]]}

OneChange == /\ Cardinality({i \in Indices : EntryAt(i)' # EntryAt(i)}) <= 1
             /\ reported' # "none" => (reported' = "Minimum") = (Root' # Root)
=============================================================================
