---------------------------- MODULE IndexedSlab ----------------------------
(***************************************************************************)
(* A bounded slab whose entries keep an order (src/depot/queue/indexed/    *)
(* slab, raw/arena/indexed).  The hook of a slot is all that tells what it *)
(* is: linked it holds a value, naming itself in previous it does not, and *)
(* then next is the free list, or the slot itself once its generations are *)
(* spent.  A chain is one lane; the others have a lane for each endpoint.  *)
(* Every guard borrows the slab, so one loan is out at a time.             *)
(***************************************************************************)
EXTENDS Hooks, SequencesExt

CONSTANTS Capacity, MaxGeneration, LaneCount, BatchSizes

VARIABLES kind,    \* "chain" or "tagged"
          block,   \* hooks, heads, IndexedState, generations, initialized values
          loan,    \* the guard the program holds, and the slots still reserved
          ended    \* history: keys whose identity has ended

vars == <<kind, block, loan, ended>>

Slots == 0..(Capacity - 1)
Lanes == 0..(LaneCount[kind] - 1)
NoLoan == [phase |-> "none"]

\* IndexedBlock::try_new.
Init ==
  /\ kind \in {k \in DOMAIN LaneCount : TagFits(Capacity, LaneCount[k])}
  /\ block = TagPlane(Capacity, LaneCount[kind]) @@
             [free |-> END, initialized |-> 0, len |-> 0, available |-> Capacity,
              gen |-> [i \in Slots |-> 0], filled |-> {}]
  /\ loan = NoLoan /\ ended = {}

-----------------------------------------------------------------------------
(* Reservations.                                                           *)

\* Reserved::into_parts, one slot.
Index(b) == IF b.free = END THEN b.initialized ELSE b.free
Taken(b) ==
  IF b.free = END
  THEN [TagCleared(b, b.initialized) EXCEPT !.initialized = @ + 1, !.gen[b.initialized] = 1]
  ELSE [TagCleared(b, b.free) EXCEPT !.free = b.next[b.free]]
\* All of them at once, and one decrement.
Reserved(b, m) ==
  LET part[n \in 0..m] ==
        IF n = 0 THEN [block |-> b, slots |-> <<>>]
        ELSE [block |-> Taken(part[n - 1].block),
              slots |-> Append(part[n - 1].slots, Index(part[n - 1].block))]
  IN [part[m] EXCEPT !.block.available = @ - m]

\* Slot::release, the generation kept.
Released(b, i) ==
  [TagHooked(b, i, i, b.free) EXCEPT !.free = i, !.available = @ + 1]
\* Slot::release, the generation advanced: the last one retires the slot.
Retired(b, i) ==
  IF b.gen[i] = MaxGeneration THEN TagHooked(b, i, i, i)
  ELSE Released([b EXCEPT !.gen[i] = @ + 1], i)

Key(i) == <<i, block.gen[i]>>
EndKey(i) == ended' = ended \cup {Key(i)}

\* What is left of a batch when its first vacancy has been used.
Rest == IF loan.rest = <<>> THEN NoLoan
        ELSE [phase |-> "vacant", slot |-> Head(loan.rest), rest |-> Tail(loan.rest)]
Vacancy == loan.phase = "vacant"
Target(l) == loan.phase = "target" /\ loan.lane = l
Occupied == loan.phase = "occupied"
OnChain == kind = "chain"
OnTagged == kind = "tagged"

\* Slab::vacant and Batch::new.
Reserve(m) ==
  /\ loan = NoLoan /\ m <= block.available
  /\ LET r == Reserved(block, m) IN
     /\ block' = r.block
     /\ loan' = [phase |-> "vacant", slot |-> Head(r.slots), rest |-> Tail(r.slots)]
  /\ UNCHANGED <<kind, ended>>

\* Slot::drop of a vacancy.
DropVacant ==
  /\ loan.phase \in {"vacant", "target"}
  /\ block' = Released(block, loan.slot)
  /\ loan' = Rest
  /\ UNCHANGED <<kind, ended>>

\* Vacant::try_insert when the value is not built: its key was shown.
TryInsertFails ==
  /\ Vacancy /\ OnChain
  /\ EndKey(loan.slot)
  /\ block' = Retired(block, loan.slot)
  /\ loan' = Rest
  /\ UNCHANGED kind

\* Vacant::write.
Written(b, i) == [b EXCEPT !.filled = @ \cup {i}, !.len = @ + 1]

\* The entry stays borrowed or, once its batch goes on, does not.
Holding(i) == loan' \in {Rest, IF loan.rest = <<>> THEN [phase |-> "occupied", slot |-> i] ELSE Rest}

\* Vacant::fill, insert and insert_with.
Insert ==
  /\ Vacancy /\ OnChain
  /\ block' = TagPushed(Written(block, loan.slot), 0, loan.slot)
  /\ Holding(loan.slot)
  /\ UNCHANGED <<kind, ended>>

\* Vacant::select.
Select(l) ==
  /\ Vacancy /\ OnTagged /\ l \in Lanes
  /\ loan' = [phase |-> "target", slot |-> loan.slot, rest |-> loan.rest, lane |-> l]
  /\ UNCHANGED <<kind, block, ended>>

\* Vacant::insert of a target, publish and link.
InsertTarget(l) ==
  /\ Target(l)
  /\ block' = TagPushed(Written(block, loan.slot), l, loan.slot)
  /\ Holding(loan.slot)
  /\ UNCHANGED <<kind, ended>>

-----------------------------------------------------------------------------
(* Entries.                                                                *)

\* Mutant: an entry of an earlier generation is let through.
ResolveAny(k) ==
  IF k[1] >= block.initialized THEN "uninitialized"
  ELSE IF ~ TagLinked(block, k[1]) THEN IF block.next[k[1]] = k[1] THEN "retired" ELSE "free"
  ELSE "live"
\* Handle::resolve.
Resolve(k) ==
  IF k[1] >= block.initialized THEN "uninitialized"
  ELSE IF ~ TagLinked(block, k[1]) THEN IF block.next[k[1]] = k[1] THEN "retired" ELSE "free"
  ELSE IF block.gen[k[1]] # k[2] THEN "generation" ELSE "live"

\* Target::append: behind the last of the lane, if the predecessor still lives.
AppendTo(l, k) ==
  /\ Target(l)
  /\ block' = IF Resolve(k) = "live"
              THEN TagPushed(Written(block, loan.slot), l, loan.slot)
              ELSE Released(block, loan.slot)
  /\ loan' = Rest
  /\ UNCHANGED <<kind, ended>>

\* Slab::entry and try_entry; Slab::select and front_pair.
Entry(k) ==
  /\ loan = NoLoan /\ Resolve(k) = "live"
  /\ loan' = [phase |-> "occupied", slot |-> k[1]]
  /\ UNCHANGED <<kind, block, ended>>
SelectFront(order) ==
  /\ loan = NoLoan /\ OnTagged
  /\ \E n \in DOMAIN order :
       /\ block.first[order[n]] # END
       /\ \A m \in 1..(n - 1) : block.first[order[m]] = END
       /\ loan' = [phase |-> "occupied", slot |-> block.first[order[n]]]
  /\ UNCHANGED <<kind, block, ended>>
DropEntry == Occupied /\ loan' = NoLoan /\ UNCHANGED <<kind, block, ended>>

\* Slot::push_back.
PushBack ==
  /\ Occupied /\ OnChain
  /\ block' = IF block.last[0] = loan.slot THEN block
              ELSE TagPushed(TagDetached(block, loan.slot), 0, loan.slot)
  /\ loan' = NoLoan
  /\ UNCHANGED <<kind, ended>>

\* Slot::move_back.
MoveBack(l) ==
  /\ Occupied /\ OnTagged /\ l \in Lanes
  /\ block' = TagPushed(TagDetached(block, loan.slot), l, loan.slot)
  /\ loan' = NoLoan
  /\ UNCHANGED <<kind, ended>>

\* Slot::into_spare.
Spared(b, i) == [b EXCEPT !.filled = @ \ {i}, !.len = @ - 1]
\* Slot::detach, into_spare and cancel.
Removed(b, i) == Retired(Spared(TagDetached(b, i), i), i)

\* Slot::remove and discard.
RemoveEntry ==
  /\ Occupied
  /\ EndKey(loan.slot)
  /\ block' = Removed(block, loan.slot)
  /\ loan' = NoLoan
  /\ UNCHANGED kind

\* Slab::pop_front.
PopFront ==
  /\ loan = NoLoan /\ OnChain /\ block.first[0] # END
  /\ EndKey(block.first[0])
  /\ block' = Removed(block, block.first[0])
  /\ UNCHANGED <<kind, loan>>

\* Slot::take: the value is out, and the key waits for another one.
Take(l) ==
  /\ Occupied /\ OnTagged /\ l \in Lanes
  /\ block' = Spared(TagDetached(block, loan.slot), loan.slot)
  /\ loan' = [phase |-> "restore", slot |-> loan.slot, lane |-> l]
  /\ UNCHANGED <<kind, ended>>
Restore ==
  /\ loan.phase = "restore"
  /\ block' = TagPushedFront(Written(block, loan.slot), loan.lane, loan.slot)
  /\ loan' = NoLoan
  /\ UNCHANGED <<kind, ended>>
\* Mutant: a vacancy that was taken is dropped as if its key had not been shown.
DropTakenKeeps ==
  /\ loan.phase = "restore"
  /\ EndKey(loan.slot)
  /\ block' = Released(block, loan.slot)
  /\ loan' = NoLoan
  /\ UNCHANGED kind
DropTaken ==
  /\ loan.phase = "restore"
  /\ EndKey(loan.slot)
  /\ block' = Retired(block, loan.slot)
  /\ loan' = NoLoan
  /\ UNCHANGED kind

-----------------------------------------------------------------------------
(* Cursors and scopes, over a chain.                                       *)

\* A slot and the neighbour the program says it has.
OpenCursor(i, parent) ==
  /\ loan = NoLoan /\ OnChain
  /\ TagLinked(block, i) /\ parent \in {END} \cup (block.filled \ {i})
  /\ loan' = [phase |-> "cursor", slot |-> i, parent |-> parent]
  /\ UNCHANGED <<kind, block, ended>>

\* Slab::vacant and Splice::insert.
Grown == LET r == Reserved(block, 1)  i == Head(r.slots)
         IN [block |-> TagPushed(Written(r.block, i), 0, i), slot |-> i]

\* Cursor::try_insert and try_prepend; a full slab consumes the cursor.
CursorInsert(parent) ==
  /\ loan.phase = "cursor" /\ parent \in {loan.slot, loan.parent}
  /\ IF block.available = 0 THEN loan' = NoLoan /\ UNCHANGED block
     ELSE /\ block' = Grown.block
          /\ loan' = [phase |-> "cursor", slot |-> Grown.slot, parent |-> parent]
  /\ UNCHANGED <<kind, ended>>

\* Cursor::remove: the neighbour sees the value before the slot is given back.
CursorRemove ==
  /\ loan.phase = "cursor"
  /\ loan.parent \in {END} \cup block.filled
  /\ EndKey(loan.slot)
  /\ block' = Removed(block, loan.slot)
  /\ loan' = NoLoan
  /\ UNCHANGED kind

\* Scope::with.
OpenScope ==
  /\ loan = NoLoan /\ OnChain
  /\ loan' = [phase |-> "scope", first |-> END, slot |-> END]
  /\ UNCHANGED <<kind, block, ended>>

\* Scope::try_insert, try_splice and inserted.
ScopeInsert ==
  /\ loan.phase = "scope" /\ block.available > 0
  /\ block' = Grown.block
  /\ loan' = [loan EXCEPT !.first = IF @ = END THEN Grown.slot ELSE @, !.slot = Grown.slot]
  /\ UNCHANGED <<kind, ended>>

\* Scope::commit.
Commit == loan.phase = "scope" /\ loan' = NoLoan /\ UNCHANGED <<kind, block, ended>>

\* Scope::drop: back along previous, from the last insertion to the first.
DropScope ==
  /\ loan.phase = "scope"
  /\ LET back[n \in 0..Capacity] ==
           IF n = 0 THEN [block |-> block, slot |-> loan.slot, keys |-> {}]
           ELSE LET s == back[n - 1] IN
                IF s.slot = END THEN s
                ELSE [block |-> Removed(s.block, s.slot),
                      slot  |-> IF s.slot = loan.first THEN END ELSE s.block.previous[s.slot],
                      keys  |-> s.keys \cup {Key(s.slot)}]
     IN block' = back[Capacity].block /\ ended' = ended \cup back[Capacity].keys
  /\ loan' = NoLoan
  /\ UNCHANGED kind

-----------------------------------------------------------------------------
Keys == Slots \X (1..MaxGeneration)
Guards ==
  \/ \E m \in BatchSizes : Reserve(m)
  \/ DropVacant \/ TryInsertFails \/ Insert
  \/ \E l \in Lanes : Select(l) \/ InsertTarget(l) \/ \E k \in Keys : AppendTo(l, k)
Entries ==
  \/ \E k \in Keys : Entry(k)
  \/ \E l, m \in Lanes : l # m /\ SelectFront(<<l, m>>)
  \/ DropEntry \/ PushBack \/ RemoveEntry \/ PopFront
  \/ \E l \in Lanes : MoveBack(l) \/ Take(l)
  \/ Restore \/ DropTaken
Edits ==
  \/ \E i \in Slots : \E parent \in Slots \cup {END} :
       OpenCursor(i, parent) \/ CursorInsert(parent)
  \/ CursorRemove
  \/ OpenScope \/ ScopeInsert \/ Commit \/ DropScope
Next == Guards \/ Entries \/ Edits
Spec == Init /\ [][Next]_vars

-----------------------------------------------------------------------------
(* Properties.                                                             *)

Reservations ==
  (IF loan.phase \in {"vacant", "target"} THEN {loan.slot} \cup ToSet(loan.rest) ELSE {})
  \cup (IF loan.phase = "restore" THEN {loan.slot} ELSE {})
Spent == {i \in Slots : i < block.initialized /\ block.next[i] = i}
Vacancies == {i \in Slots : i < block.initialized /\ ~ TagLinked(block, i)}
FreeList ==
  LET from[left \in 0..Capacity, i \in 0..END] ==
        IF left = 0 \/ i = END THEN <<>> ELSE <<i>> \o from[left - 1, block.next[i]]
  IN from[Capacity, block.free]

\* The hook words tell it all (Handle::resolve, IndexedBlock::drop): linked
\* slots are the ones with a value; every other slot is on the free list,
\* reserved, or retired, just one of them; the counters count them; and a key
\* that has ended resolves to nothing, for the reason the error names.
SlabIsTold ==
  /\ TagsAreReciprocal(block)
  /\ block.filled = {i \in Slots : TagLinked(block, i)}
  /\ block.len = Cardinality(block.filled)
  /\ IsInjective(FreeList)
  /\ ToSet(FreeList) = Vacancies \ (Spent \cup Reservations)
  /\ Spent \cap Reservations = {}
  /\ block.available = Len(FreeList) + Capacity - block.initialized
  /\ \A i \in Spent : block.gen[i] = MaxGeneration
  /\ \A k \in ended : Resolve(k) \in {"retired", "free", "generation"}
  /\ \A i \in Slots : Resolve(<<i, 1>>) = "retired" <=> i \in Spent
=============================================================================
