------------------------------ MODULE HoleHeap ------------------------------
(* Binary heaps as depot/heap moves them: every comparison is made first and  *)
(* names the path a hole takes; then the hole is opened, each entry on the    *)
(* path moves once with its reverse position, and the hole is filled. A heap  *)
(* is [order, positions]: the entries by heap position, and for every index   *)
(* of the domain the position of its entry or NONE.                           *)
EXTENDS Integers, FiniteSets, Functions, TLC

CONSTANTS NONE,
          Lt(_, _),     \* the stored order of two entries
          IndexOf(_)    \* the index an entry occupies

Len(h)    == Cardinality(DOMAIN h.order)
Parent(i) == (i - 1) \div 2

\* Path::up: the highest position the value may take.
Up(order, start, v) ==
  LET end[i \in 0 .. start] ==
        IF i = 0 \/ ~Lt(v, order[Parent(i)]) THEN i ELSE end[Parent(i)]
  IN end[start]

\* The child a hole would take its next entry from: the right one if smaller.
Child(order, i, len) ==
  LET left == 2 * i + 1
  IN IF left + 1 < len /\ Lt(order[left + 1], order[left]) THEN left + 1 ELSE left

\* Path::down, in the first len positions.
Down(order, start, len, v) ==
  LET end[i \in 0 .. len] ==
        IF len < 2 \/ i > (len - 2) \div 2 \/ ~Lt(order[Child(order, i, len)], v)
        THEN i ELSE end[Child(order, i, len)]
  IN end[start]

\* Path::repair: up if the value precedes the parent, else down.
Repair(order, start, len, v) ==
  IF start # 0 /\ Lt(v, order[Parent(start)])
  THEN Up(order, Parent(start), v) ELSE Down(order, start, len, v)

\* The ancestor d levels up, read off the bits of the one-based position.
Ancestor(i, d) == ((i + 1) \div 2 ^ d) - 1
Level(i) == CHOOSE d \in 0 .. i : 2 ^ d <= i + 1 /\ i + 1 < 2 ^ (d + 1)

\* Which position each position of the path is filled from.
Moves(start, end) ==
  IF end < start
  THEN [p \in {Ancestor(start, d) : d \in 0 .. Level(start) - Level(end) - 1} |-> Parent(p)]
  ELSE LET depth == Level(end) - Level(start)
       IN [p \in {Ancestor(end, d) : d \in 1 .. depth} |->
             CHOOSE c \in {Ancestor(end, d) : d \in 0 .. depth - 1} : Parent(c) = p]

\* Step::shift along the path; what stood at the start has been read out.
Shifted(h, start, end) ==
  LET from == Moves(start, end)
      move == [p \in DOMAIN from |-> h.order[from[p]]]
  IN [order     |-> move @@ h.order,
      positions |-> [i \in DOMAIN h.positions |->
                       IF \E p \in DOMAIN move : IndexOf(move[p]) = i
                       THEN CHOOSE p \in DOMAIN move : IndexOf(move[p]) = i
                       ELSE h.positions[i]]]

\* Finish: the hole is filled; its position is published unless it never moved.
Filled(h, hole, v) == [order |-> (hole :> v) @@ h.order,
                       positions |-> [h.positions EXCEPT ![IndexOf(v)] = hole]]

Placed(h, start, end, v) == Filled(Shifted(h, start, end), end, v)

\* Hole::append.
AppendedAt(h, end, v) == Placed(h, Len(h), end, v)
Appended(h, v)        == AppendedAt(h, Up(h.order, Len(h), v), v)

\* Hole::replace, and Hole::prepare, which drops the old entry.
Replaced(h, at, v) == Placed(h, at, Repair(h.order, at, Len(h), v), v)

\* Hole::update: the direction is one comparison with the entry itself, and the
\* position of an entry that stays is not written.
UpdateEnd(h, at, v) ==
  IF Lt(v, h.order[at]) THEN Up(h.order, at, v)
  ELSE IF Lt(h.order[at], v) THEN Down(h.order, at, Len(h), v) ELSE at
UpdatedAt(h, at, end, v) ==
  IF end = at THEN [h EXCEPT !.order[at] = v] ELSE Placed(h, at, end, v)
Updated(h, at, v) == UpdatedAt(h, at, UpdateEnd(h, at, v), v)

\* Hole::remove: the tail entry takes the hole that the others leave it.
RemoveEnd(h, at) == LET tail == Len(h) - 1 IN
  IF at = tail THEN at ELSE Repair(h.order, at, tail, h.order[tail])
RemovedAt(h, at, end) ==
  LET tail == Len(h) - 1
      gone == [h EXCEPT !.positions[IndexOf(h.order[at])] = NONE]
      kept == IF at = tail THEN gone
              ELSE Filled(Shifted(gone, at, end), end, h.order[tail])
  IN [kept EXCEPT !.order = Restrict(@, 0 .. tail - 1)]
Removed(h, at) == RemovedAt(h, at, RemoveEnd(h, at))

\* Every end a comparison could choose, however wrongly it orders.
Reach(start, len) ==
  {e \in 0 .. len - 1 : \/ \E d \in 0 .. Level(start) : Ancestor(start, d) = e
                        \/ e > start /\ \E d \in 0 .. Level(e) : Ancestor(e, d) = start}

\* The reverse map is the inverse of the initialized prefix.
Reciprocal(h) ==
  /\ DOMAIN h.order = 0 .. Len(h) - 1
  /\ \A p \in DOMAIN h.order : h.positions[IndexOf(h.order[p])] = p
  /\ \A i \in DOMAIN h.positions : h.positions[i] # NONE =>
       h.positions[i] \in DOMAIN h.order /\ IndexOf(h.order[h.positions[i]]) = i

Ordered(h) == \A p \in DOMAIN h.order \ {0} : ~Lt(h.order[p], h.order[Parent(p)])
=============================================================================
