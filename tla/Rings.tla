------------------------------- MODULE Rings -------------------------------
(***************************************************************************)
(* Ring queues (src/depot/queue/ring).  A ring is a head and a length over *)
(* a block of entries; the entries of its logical range hold values and no *)
(* others do.  It is edited by its owner, or shared, with a counter of the *)
(* places not yet leased, where a lease is a place that is neither free    *)
(* nor holds a value.  The inline pool threads its entries through two     *)
(* lists instead, and lends an entry with its value.                       *)
(***************************************************************************)
EXTENDS Integers, Sequences, SequencesExt

CONSTANTS Capacities, Values, NoValue, END,
          Kinds     \* of "owned", "leased", "inline"

VARIABLES kind, capacity,
          ring,      \* head and length
          entries,   \* position -> value
          free,      \* places not leased, of a shared ring
          leases,    \* how many leases are out, or which entries are lent
          listed     \* the inline lists: next of every entry, and their ends

vars == <<kind, capacity, ring, entries, free, leases, listed>>

Positions == 0 .. (capacity - 1)
Empty == [head |-> 0, len |-> 0]
NoEnds == [head |-> END, tail |-> END]

Init ==
  /\ kind \in Kinds
  /\ capacity \in Capacities
  /\ ring = Empty
  /\ entries = [p \in Positions |-> NoValue]
  /\ free = capacity
  /\ leases = IF kind = "inline" THEN {} ELSE 0
  /\ listed = [next |-> [p \in Positions |-> IF p + 1 < capacity THEN p + 1 ELSE END],
               free |-> IF capacity = 0 THEN NoEnds ELSE [head |-> 0, tail |-> capacity - 1],
               pending |-> NoEnds]

-----------------------------------------------------------------------------
(* State.                                                                  *)

\* Mutant: the place after the last one is not the first.
PositionLinear(r, offset) == r.head + offset
Position(r, offset) ==
  LET suffix == capacity - r.head
  IN IF offset < suffix THEN r.head + offset ELSE offset - suffix
\* State::prefix: the two runs of so many entries from the head.
Prefix(r, n) ==
  LET first == IF n < capacity - r.head THEN n ELSE capacity - r.head
  IN {r.head + k : k \in 0 .. (first - 1)} \cup (0 .. (n - first - 1))
PushedBack(r) == [place |-> Position(r, r.len), ring |-> [r EXCEPT !.len = @ + 1]]
PushedFront(r) ==
  LET head == IF r.head = 0 THEN capacity - 1 ELSE r.head - 1
  IN [place |-> head, ring |-> [head |-> head, len |-> r.len + 1]]
Popped(r) == [head |-> IF r.head + 1 = capacity THEN 0 ELSE r.head + 1, len |-> r.len - 1]

Order == [n \in 1..ring.len |-> entries[Position(ring, n - 1)]]

-----------------------------------------------------------------------------
(* Operations.  Values are told apart, so each is in one place at most.    *)

Fresh(v) == \A p \in Positions : entries[p] # v
Write(out, v) == ring' = out.ring /\ entries' = [entries EXCEPT ![out.place] = v]
Fixed == UNCHANGED <<kind, capacity, listed>>

Push(v, out) ==
  /\ kind = "owned" /\ ring.len < capacity /\ Fresh(v)
  /\ Write(out, v)
  /\ UNCHANGED <<free, leases>> /\ Fixed
PushBack(v) == Push(v, PushedBack(ring))
PushFront(v) == Push(v, PushedFront(ring))

TakeFirst ==
  /\ ring.len > 0
  /\ ring' = Popped(ring)
  /\ entries' = [entries EXCEPT ![ring.head] = NoValue]
\* The vacancy Front::take leaves may be dropped or filled from either end.
PopFront == kind = "owned" /\ TakeFirst /\ UNCHANGED <<free, leases>> /\ Fixed
\* Both runs are dropped, and only they.
Clear ==
  /\ kind = "owned" /\ ring.len > 0
  /\ entries' = [p \in Positions |-> IF p \in Prefix(ring, ring.len) THEN NoValue ELSE entries[p]]
  /\ ring' = Empty
  /\ UNCHANGED <<free, leases>> /\ Fixed

\* Pool::try_reserve counts a place; which one is decided by the push.
TryReserve ==
  /\ kind = "leased" /\ free > 0
  /\ free' = free - 1 /\ leases' = leases + 1
  /\ UNCHANGED <<ring, entries>> /\ Fixed
LeasePush(v, back) ==
  /\ kind = "leased" /\ leases > 0 /\ Fresh(v)
  /\ Write(IF back THEN PushedBack(ring) ELSE PushedFront(ring), v)
  /\ leases' = leases - 1
  /\ UNCHANGED free /\ Fixed
LeaseRelease ==
  /\ kind = "leased" /\ leases > 0
  /\ leases' = leases - 1 /\ free' = free + 1
  /\ UNCHANGED <<ring, entries>> /\ Fixed
\* Mutant: the place of the value taken is free at once.
TakeFrontFree ==
  /\ kind = "leased" /\ TakeFirst
  /\ leases' = leases + 1 /\ free' = free + 1 /\ Fixed
\* Shared::take_front: the place becomes the lease that comes with the value.
TakeFront ==
  /\ kind = "leased" /\ TakeFirst
  /\ leases' = leases + 1
  /\ UNCHANGED free /\ Fixed

-----------------------------------------------------------------------------
(* The inline pool.                                                        *)

Linked(l, which, p) ==
  LET tail == l[which].tail
      marked == [l EXCEPT !.next[p] = END]
  IN [(IF tail = END THEN marked ELSE [marked EXCEPT !.next[tail] = p])
      EXCEPT ![which] = [head |-> IF tail = END THEN p ELSE @.head, tail |-> p]]
Unlinked(l, which) ==
  LET n == l.next[l[which].head]
  IN [l EXCEPT ![which] = [head |-> n, tail |-> IF n = END THEN END ELSE @.tail]]

Inline == kind = "inline" /\ UNCHANGED <<kind, capacity, ring, free>>
TryAcquire ==
  /\ Inline /\ listed.free.head # END
  /\ leases' = leases \cup {listed.free.head}
  /\ listed' = Unlinked(listed, "free") /\ UNCHANGED entries
InlinePop ==
  /\ Inline /\ listed.pending.head # END
  /\ leases' = leases \cup {listed.pending.head}
  /\ listed' = Unlinked(listed, "pending")
  /\ entries' = [entries EXCEPT ![listed.pending.head] = NoValue]
InlinePush(p, v) ==
  /\ Inline /\ p \in leases /\ Fresh(v)
  /\ entries' = [entries EXCEPT ![p] = v]
  /\ leases' = leases \ {p} /\ listed' = Linked(listed, "pending", p)
InlineRelease(p) ==
  /\ Inline /\ p \in leases
  /\ leases' = leases \ {p} /\ listed' = Linked(listed, "free", p) /\ UNCHANGED entries

Next ==
  \/ PopFront \/ Clear \/ TryReserve \/ LeaseRelease \/ TakeFront \/ TryAcquire \/ InlinePop
  \/ \E v \in Values :
       \/ PushBack(v) \/ PushFront(v)
       \/ \E back \in BOOLEAN : LeasePush(v, back)
       \/ \E p \in Positions : InlinePush(p, v)
  \/ \E p \in Positions : InlineRelease(p)
Spec == Init /\ [][Next]_vars

-----------------------------------------------------------------------------
(* Properties.                                                             *)

Listed(which) ==
  LET from[left \in 0..capacity, p \in Positions \cup {END}] ==
        IF left = 0 \/ p = END THEN <<>> ELSE <<p>> \o from[left - 1, listed.next[p]]
  IN from[capacity, listed[which].head]

\* The values are in the logical range and nowhere else, so that none is
\* overwritten and the two runs dropped are all there are (ring/state.rs:53);
\* every place is free, leased or holds a value (ring/pool.rs:44), so that a
\* lease pushes without looking; and an inline entry is in one list or lent.
PlacesAreKept ==
  IF kind = "inline"
  THEN LET all == Listed("free") \o Listed("pending")
       IN /\ IsInjective(all) /\ ToSet(all) = Positions \ leases
          /\ \A which \in {"free", "pending"} :
               listed[which].tail = IF Listed(which) = <<>> THEN END ELSE Last(Listed(which))
          /\ ToSet(Listed("pending")) = {p \in Positions : entries[p] # NoValue}
  ELSE /\ capacity > 0 => ring.head < capacity
       /\ Prefix(ring, ring.len) = {p \in Positions : entries[p] # NoValue}
       /\ kind = "leased" => free + leases + ring.len = capacity
=============================================================================
