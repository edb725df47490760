---------------------------- MODULE LinkedSlots ----------------------------
(***************************************************************************)
(* Slots shared by singly linked lists (src/depot/arena/linked and         *)
(* depot/queue/pool).  A slot that holds nothing is named by its own link: *)
(* the last free slot and a claimed empty one link to themselves, and the  *)
(* drop of the store reads there what to drop.  The credit a claim needs   *)
(* is counted apart from the slots: in the store, or, for fair lanes, in a *)
(* balance that keeps one unit for every lane and lends the rest through   *)
(* permits.                                                                *)
(***************************************************************************)
EXTENDS Naturals, Sequences, SequencesExt, FiniteSetsExt

CONSTANTS Shapes,    \* records of kind ("lanes", "sorted", "fixed", "fair"), slots and lanes
          Values, NoValue, END

VARIABLES shape,
          store,     \* next, content, made (slots initialized), free, available
          lane,      \* lane -> head, tail and length
          hand,      \* lane -> what the loan of the lane holds
          account    \* lane -> units charged and permits handed out, of fair lanes

vars == <<shape, store, lane, hand, account>>

Slots == 0 .. (shape.slots - 1)
Lanes == 1 .. shape.lanes
Kind == shape.kind
Tracks == Kind # "fair"

Idle == [at |-> "idle"]
Holding(at, i) == [at |-> at, slot |-> i]

Init ==
  /\ shape \in Shapes
  /\ store = [next |-> [i \in Slots |-> i], content |-> [i \in Slots |-> NoValue],
              made |-> 0, free |-> END,
              available |-> IF Tracks THEN shape.slots ELSE shape.slots - shape.lanes]
  /\ lane = [l \in Lanes |-> [head |-> END, tail |-> END, len |-> 0]]
  /\ hand = [l \in Lanes |-> Idle]
  /\ account = [l \in Lanes |-> [held |-> 0, out |-> 0]]

-----------------------------------------------------------------------------
(* The store.                                                              *)

Claimable(s) == IF s.free = END THEN s.made ELSE s.free

\* Free::pop: the slot that links to itself was the last one.
Claimed(s, live) ==
  LET i == Claimable(s)
      marked == [s EXCEPT !.next[i] = IF live THEN END ELSE i]
  IN IF s.free = END THEN [marked EXCEPT !.made = @ + 1]
     ELSE [marked EXCEPT !.free = IF s.next[i] = i THEN END ELSE s.next[i]]

\* Mutant: the last free slot ends the list with the mark of a live one.
RecycledPlain(s, i) == [s EXCEPT !.next[i] = s.free, !.free = i]
Recycled(s, i) == [s EXCEPT !.next[i] = IF s.free = END THEN i ELSE s.free, !.free = i]

Reserved(s, n) == [s EXCEPT !.available = IF Tracks THEN @ - n ELSE @]
Refunded(s, n) == [s EXCEPT !.available = IF Tracks THEN @ + n ELSE @]

Filled(s, i, v) == [s EXCEPT !.content[i] = v, !.next[i] = END]
Emptied(s, i) == [s EXCEPT !.content[i] = NoValue, !.next[i] = i]
\* Store::take: straight from the list to the free slots.
Taken(s, i) == Refunded(Recycled([s EXCEPT !.content[i] = NoValue], i), 1)

\* A value is written and its slot linked, both in one call.
Appended(s, q, i) ==
  [store |-> IF q.tail = END THEN s ELSE [s EXCEPT !.next[q.tail] = i],
   lane |-> [head |-> IF q.tail = END THEN i ELSE q.head, tail |-> i, len |-> q.len + 1]]
Prepended(s, q, i) ==
  [store |-> [s EXCEPT !.next[i] = q.head],
   lane |-> [head |-> i, tail |-> IF q.head = END THEN i ELSE q.tail, len |-> q.len + 1]]
\* Mutant: the list that lost its last slot keeps its tail.
DetachedTail(s, q) == [q EXCEPT !.head = s.next[@], !.len = @ - 1]
Detached(s, q) ==
  LET n == s.next[q.head]
  IN [head |-> n, tail |-> IF n = END THEN END ELSE q.tail,
      len |-> IF Kind = "sorted" THEN 0 ELSE q.len - 1]

Put(l, out) == store' = out.store /\ lane' = [lane EXCEPT ![l] = out.lane]
Hold(l, what) == hand' = [hand EXCEPT ![l] = what]

-----------------------------------------------------------------------------
(* Lanes and fifos whose credit the store counts.                          *)

Loan(l) == hand[l] = Idle /\ Kind \in {"lanes", "sorted"}
Plain == UNCHANGED <<shape, account>>
First(l) == lane[l].head

\* Lane::vacant: the slot is claimed at once.
Vacant(l) ==
  /\ Loan(l) /\ Kind = "lanes" /\ store.available > 0
  /\ store' = Claimed(Reserved(store, 1), FALSE)
  /\ Hold(l, Holding("vacant", Claimable(store)))
  /\ UNCHANGED lane /\ Plain
\* Vacant::append, and Return::return_item of the lease a removal gave.
Fill(l, v, back) ==
  /\ hand[l].at = "vacant" /\ Kind = "lanes"
  /\ LET i == hand[l].slot
         s == Filled(store, i, v)
     IN Put(l, IF back THEN Appended(s, lane[l], i) ELSE Prepended(s, lane[l], i))
  /\ Hold(l, Idle) /\ Plain
DropVacant(l) ==
  /\ hand[l].at = "vacant"
  /\ store' = Refunded(Recycled(store, hand[l].slot), 1)
  /\ Hold(l, Idle) /\ UNCHANGED lane /\ Plain

\* Lane::insert and Permit::claim: claimed live and linked.
Insert(l, v) ==
  /\ Loan(l) /\ Kind = "lanes" /\ store.available > 0
  /\ LET i == Claimable(store)
         s == [Claimed(Reserved(store, 1), TRUE) EXCEPT !.content[i] = v]
     IN Put(l, Appended(s, lane[l], i))
  /\ UNCHANGED hand /\ Plain

\* Front::pop, remove (the value leaves, the slot stays in hand) and detach.
Pop(l) ==
  /\ Loan(l) /\ First(l) # END
  /\ store' = Taken(store, First(l))
  /\ lane' = [lane EXCEPT ![l] = Detached(store, @)]
  /\ UNCHANGED hand /\ Plain
RemoveFront(l) ==
  /\ Loan(l) /\ First(l) # END
  /\ store' = Emptied(store, First(l))
  /\ lane' = [lane EXCEPT ![l] = Detached(store, @)]
  /\ Hold(l, Holding("vacant", First(l))) /\ Plain
DetachFront(l) ==
  /\ Loan(l) /\ Kind = "lanes" /\ First(l) # END
  /\ lane' = [lane EXCEPT ![l] = Detached(store, @)]
  /\ Hold(l, Holding("live", First(l))) /\ UNCHANGED store /\ Plain
\* The value is dropped before its slot is free.
DropLive(l) ==
  /\ hand[l].at = "live"
  /\ store' = Refunded(Recycled([store EXCEPT !.content[hand[l].slot] = NoValue], hand[l].slot), 1)
  /\ Hold(l, Idle) /\ UNCHANGED lane /\ Plain

\* Lane::try_extend and linked::Batch: the credit of the whole batch first.
StartBatch(l, n) ==
  /\ Loan(l) /\ n > 0 /\ n <= store.available
  /\ store' = Reserved(store, n)
  /\ Hold(l, [at |-> "batch", left |-> n]) /\ UNCHANGED lane /\ Plain
BatchItem(l, v) ==
  /\ hand[l].at = "batch" /\ hand[l].left > 0 /\ Kind = "lanes"
  /\ LET i == Claimable(store)
     IN Put(l, Appended(Filled(Claimed(store, FALSE), i, v), lane[l], i))
  /\ hand' = [hand EXCEPT ![l].left = @ - 1] /\ Plain
\* Reserve::recycle: the credit of a slot freed meanwhile joins the batch.
BatchRecycle(l) ==
  /\ hand[l].at = "batch" /\ First(l) # END
  /\ store' = Recycled(Emptied(store, First(l)), First(l))
  /\ lane' = [lane EXCEPT ![l] = Detached(store, @)]
  /\ hand' = [hand EXCEPT ![l].left = @ + 1] /\ Plain
EndBatch(l) ==
  /\ hand[l].at = "batch"
  /\ store' = Refunded(store, hand[l].left)
  /\ Hold(l, Idle) /\ UNCHANGED lane /\ Plain

\* ends::Exclusive::append_chain: one list goes behind another.
Join(l, m) ==
  /\ Loan(l) /\ Loan(m) /\ l # m /\ Kind = "lanes" /\ First(m) # END
  /\ store' = IF lane[l].tail = END THEN store
              ELSE [store EXCEPT !.next[lane[l].tail] = First(m)]
  /\ lane' = [lane EXCEPT ![l] = [head |-> IF @.tail = END THEN First(m) ELSE @.head,
                                  tail |-> lane[m].tail, len |-> @.len + lane[m].len],
                          ![m] = [head |-> END, tail |-> END, len |-> 0]]
  /\ UNCHANGED hand /\ Plain

\* slots::Cursor over a list with a head alone; its claims come from a batch.
Sorted(l) == hand[l].at = "batch" /\ Kind = "sorted"
Walk(q) ==
  LET from[left \in 0..shape.slots, i \in Slots \cup {END}] ==
        IF left = 0 \/ i = END THEN <<>> ELSE <<i>> \o from[left - 1, store.next[i]]
  IN from[shape.slots, q.head]
CursorInsert(l, v, n) ==
  LET before == Walk(lane[l])
      i == Claimable(store)
      s == [Claimed(store, TRUE) EXCEPT !.content[i] = v]
  IN /\ Sorted(l) /\ hand[l].left > 0 /\ n <= Len(before)
     /\ IF n = 0 THEN Put(l, [store |-> [s EXCEPT !.next[i] = First(l)],
                              lane |-> [lane[l] EXCEPT !.head = i]])
        ELSE Put(l, [store |-> [s EXCEPT !.next[before[n]] = i, !.next[i] = store.next[before[n]]],
                     lane |-> lane[l]])
     /\ hand' = [hand EXCEPT ![l].left = @ - 1] /\ Plain

-----------------------------------------------------------------------------
(* slots::Fixed: nodes named by bare indices.                              *)

Untaken == hand[1].nodes
StartFixed(n) ==
  LET claim[k \in 0..n] ==
        IF k = 0 THEN [s |-> [store EXCEPT !.available = @ - n], got |-> <<>>]
        ELSE [s |-> Claimed(claim[k - 1].s, TRUE),
              got |-> Append(claim[k - 1].got, Claimable(claim[k - 1].s))]
  IN /\ Kind = "fixed" /\ hand[1] = Idle /\ n <= store.available
     /\ store' = claim[n].s
     /\ Hold(1, [at |-> "fixed", nodes |-> claim[n].got])
     /\ UNCHANGED lane /\ Plain
TakeFixed(v) ==
  /\ hand[1].at = "fixed" /\ Untaken # <<>>
  /\ store' = [store EXCEPT !.content[Head(Untaken)] = v]
  /\ hand' = [hand EXCEPT ![1].nodes = Tail(@)] /\ UNCHANGED lane /\ Plain
EndFixed ==
  /\ hand[1].at = "fixed"
  /\ store' = Refunded(FoldLeft(Recycled, store, Untaken), Len(Untaken))
  /\ Hold(1, Idle) /\ UNCHANGED lane /\ Plain
\* Fixed::live: any index may be asked for, a removed one is refused.
FixedLive(i) == i < store.made /\ store.next[i] = END
RemoveFixed(i) ==
  /\ Kind = "fixed" /\ hand[1] = Idle /\ FixedLive(i)
  /\ store' = Refunded(Recycled([store EXCEPT !.content[i] = NoValue], i), 1)
  /\ UNCHANGED <<lane, hand>> /\ Plain

-----------------------------------------------------------------------------
(* Fair lanes.                                                             *)

\* Balance with one unit of every lane kept for it.
Charged(l) ==
  /\ store' = [store EXCEPT !.available = @ - (IF account[l].held = 0 THEN 0 ELSE 1)]
  /\ account' = [account EXCEPT ![l].held = @ + 1, ![l].out = @ + 1]
\* Binding::reserve: no token, so it may come between front_entry and its closure.
Permit(l) ==
  /\ Kind = "fair" /\ (account[l].held > 0 => store.available > 0)
  /\ Charged(l) /\ UNCHANGED <<shape, lane, hand>>
\* Mutant: every unit goes back to the shared ones.
RefundShared(l) ==
  /\ Kind = "fair" /\ account[l].out > 0
  /\ store' = [store EXCEPT !.available = @ + 1]
  /\ account' = [account EXCEPT ![l].held = @ - 1, ![l].out = @ - 1]
  /\ UNCHANGED <<shape, lane, hand>>
Refund(l) ==
  /\ Kind = "fair" /\ account[l].out > 0
  /\ store' = [store EXCEPT !.available = @ + (IF account[l].held > 1 THEN 1 ELSE 0)]
  /\ account' = [account EXCEPT ![l].held = @ - 1, ![l].out = @ - 1]
  /\ UNCHANGED <<shape, lane, hand>>
\* The token is lent to one closure at most, whatever its lane.
Token == \A l \in Lanes : hand[l] = Idle
PushPermit(l, v, back) ==
  /\ Kind = "fair" /\ Token /\ account[l].out > 0
  /\ LET i == Claimable(store)
         s == Filled(Claimed(store, FALSE), i, v)
     IN Put(l, IF back THEN Appended(s, lane[l], i) ELSE Prepended(s, lane[l], i))
  /\ account' = [account EXCEPT ![l].out = @ - 1]
  /\ UNCHANGED <<shape, hand>>
FrontEntry(l) ==
  /\ Kind = "fair" /\ Token /\ First(l) # END
  /\ Hold(l, Holding("front", First(l)))
  /\ UNCHANGED <<shape, store, lane, account>>
\* The closure: pop without credit, and the unit becomes a permit.
TakeFront(l) ==
  /\ hand[l].at = "front"
  /\ store' = Taken(store, hand[l].slot)
  /\ lane' = [lane EXCEPT ![l] = Detached(store, [@ EXCEPT !.head = hand[l].slot])]
  /\ account' = [account EXCEPT ![l].out = @ + 1]
  /\ Hold(l, Idle) /\ UNCHANGED shape
DropFront(l) == hand[l].at = "front" /\ Hold(l, Idle) /\ UNCHANGED <<shape, store, lane, account>>

Next ==
  \/ \E l \in Lanes :
       \/ Vacant(l) \/ DropVacant(l) \/ Pop(l) \/ RemoveFront(l) \/ DetachFront(l) \/ DropLive(l)
       \/ BatchRecycle(l) \/ EndBatch(l)
       \/ Permit(l) \/ Refund(l) \/ FrontEntry(l) \/ TakeFront(l) \/ DropFront(l)
       \/ \E n \in 1..shape.slots : StartBatch(l, n)
       \/ \E m \in Lanes : Join(l, m)
       \/ \E v \in Values :
            \/ Insert(l, v) \/ BatchItem(l, v)
            \/ \E back \in BOOLEAN : Fill(l, v, back) \/ PushPermit(l, v, back)
            \/ \E n \in 0..shape.slots : CursorInsert(l, v, n)
  \/ \E n \in 1..shape.slots : StartFixed(n)
  \/ \E v \in Values : TakeFixed(v)
  \/ EndFixed
  \/ \E i \in Slots : RemoveFixed(i)
Spec == Init /\ [][Next]_vars

-----------------------------------------------------------------------------
(* Properties.                                                             *)

Order(l) == Walk(lane[l])
FreeSlots ==
  LET from[left \in 0..shape.slots, i \in Slots \cup {END}] ==
        IF left = 0 \/ i = END THEN <<>>
        ELSE <<i>> \o (IF store.next[i] = i THEN <<>> ELSE from[left - 1, store.next[i]])
  IN from[shape.slots, store.free]
InHand(l) ==
  CASE hand[l].at \in {"vacant", "live"} -> <<hand[l].slot>>
    [] OTHER -> <<>>
\* Store::drop_values: what is marked empty once the free list is walked.
Dropped ==
  {i \in 0 .. (store.made - 1) : i \notin ToSet(FreeSlots) /\ store.next[i] # i}
Waiting(l) ==
  IF hand[l].at = "batch" THEN hand[l].left ELSE account[l].out
Total(f) == MapThenSumSet(LAMBDA l : f[l], Lanes)

\* Every slot is free, in one list or in one hand; the drop of the store finds
\* just the values there are (store/mod.rs:179); and whoever was given credit
\* finds a slot when it claims without looking (store/mod.rs:103, fair/mod.rs:216),
\* also when permits come and go while a front waits to be taken (fair/mod.rs:154).
SlotsAreCovered ==
  LET fixed == IF Kind = "fixed" THEN {i \in 0 .. (store.made - 1) : store.next[i] = END} ELSE {}
      held == FlattenSeq([l \in Lanes |-> Order(l) \o InHand(l)]) \o FreeSlots
  IN /\ IsInjective(held)
     /\ ToSet(held) \cup fixed = 0 .. (store.made - 1) /\ ToSet(held) \cap fixed = {}
     /\ Kind # "fixed" => Dropped = {i \in Slots : store.content[i] # NoValue}
     /\ \A l \in Lanes : /\ hand[l].at = "front" => hand[l].slot = First(l)
                         /\ Kind # "sorted" => /\ lane[l].len = Len(Order(l))
                                               /\ lane[l].tail = IF Order(l) = <<>> THEN END
                                                                 ELSE Last(Order(l))
     /\ IF Kind = "fair"
        THEN /\ \A l \in Lanes : account[l].held = lane[l].len + account[l].out
             /\ store.available + Total([l \in Lanes |->
                  IF account[l].held = 0 THEN 1 ELSE account[l].held]) = shape.slots
        ELSE store.available + Total([l \in Lanes |-> Waiting(l)])
               = shape.slots - store.made + Len(FreeSlots)
     /\ Total([l \in Lanes |-> Waiting(l)]) <= shape.slots - store.made + Len(FreeSlots)
=============================================================================
