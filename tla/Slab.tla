-------------------------------- MODULE Slab --------------------------------
(***************************************************************************)
(* The generational slab (src/depot/arena/slab): slots threaded on doubly  *)
(* linked free lists, a dense plane of live slots, and a generation per    *)
(* slot that makes the keys of removed values stale.  One core serves      *)
(* three owners: Store (exclusive loans), Cell (shared, with a Busy state  *)
(* that excludes reentry) and Pinned (exclusive, never moves a value).     *)
(*                                                                         *)
(* Guards are the values handed to callers; any of them may be dropped,    *)
(* consumed or forgotten, in any order.                                    *)
(***************************************************************************)
EXTENDS Integers, FiniteSets, Sequences

CONSTANTS Cap,       \* slots of the allocation
          MaxGen,    \* MAX: the last generation of a slot
          Shapes,    \* the instantiations of Core under study
          NONE       \* u32::MAX: no index

ASSUME SlabAssumption ==
  /\ Cap \in Nat /\ MaxGen \in Nat \ {0}
  /\ NONE \notin Int
  /\ Shapes \subseteq [parts : {1, 2}, owner : {"Store", "Cell", "Pinned"},
                       lazy : BOOLEAN, recycle : BOOLEAN]

VARIABLE shape   \* the type parameters of this slab; they never change

Parts   == shape.parts     \* PARTITIONS
Owner   == shape.owner
Lazy    == shape.lazy      \* storage::Lazy: slots are built on first use
Recycle == shape.recycle   \* RECYCLE: generations never advance

Slots       == 0..(Cap - 1)
Generations == 1..MaxGen
Partitions  == 0..(Parts - 1)
Reentrant   == Owner = "Cell"

VARIABLES
  state,      \* Slot.state; "Unbuilt" beyond the built prefix of lazy storage
  gen,        \* Slot.generation
  content,    \* the Links/value union of each slot
  heads,      \* Core.free
  tail, len,  \* the dense plane, of which the first len entries are live
  position,   \* Slot.position: where the slot stands in the dense plane
  built,      \* number of slots constructed
  retired,    \* the plane's retirement count
  guard,      \* the guard a caller holds on each slot
  loan,       \* what the owner is borrowed for
  cursor,     \* next slot of an `entries` iteration
  nest,       \* slots whose value's destructor is running, innermost last
  spent       \* history: the keys whose identity has ended

vars == <<shape, state, gen, content, heads, tail, len, position, built, retired,
          guard, loan, cursor, nest, spent>>

list  == <<content, heads>>
dense == <<tail, len, position>>
ident == <<gen, retired, spent>>
owner == <<loan, cursor, nest>>

States == {"Unbuilt", "Free", "Reserved", "Occupied", "Busy", "Retired"}
Guards == {"none", "vacancy", "issued", "held", "staged", "dropping"}
Loans  == {"none", "vacancies", "entries", "split", "clear", "gone"}

-----------------------------------------------------------------------------
(* The slot union.  Writing one member overwrites the other. *)

Links(n, p) == [tag |-> "links", next |-> n, prev |-> p]
Value       == [tag |-> "value", next |-> NONE, prev |-> NONE]
Moved       == [tag |-> "moved", next |-> NONE, prev |-> NONE]

SetNext(c, i, n) == IF i = NONE THEN c ELSE [c EXCEPT ![i] = Links(n, c[i].prev)]
SetPrev(c, i, p) == IF i = NONE THEN c ELSE [c EXCEPT ![i] = Links(c[i].next, p)]

HalfUp       == (Cap + 1) \div 2                         \* div_ceil(2)
Boundary     == IF Parts = 1 THEN Cap ELSE HalfUp
Partition(i) == IF Parts = 1 \/ i < HalfUp THEN 0 ELSE 1
IsEdge(i)    == i = Cap \/ (Parts = 2 /\ i = Boundary)

InitLinks(i) == Links(IF IsEdge(i + 1) THEN NONE ELSE i + 1,
                      IF i = 0 \/ IsEdge(i) THEN NONE ELSE i - 1)
InitHead(p)  == LET first == IF p = 0 THEN 0 ELSE Boundary
                IN  IF Lazy \/ first >= Cap THEN NONE ELSE first

Init ==
  /\ shape \in Shapes
  /\ state    = [i \in Slots |-> IF Lazy THEN "Unbuilt" ELSE "Free"]
  /\ gen      = [i \in Slots |-> 1]
  /\ content  = [i \in Slots |-> IF Lazy THEN Moved ELSE InitLinks(i)]
  /\ heads    = [p \in Partitions |-> InitHead(p)]
  /\ tail     = [i \in Slots |-> NONE]
  /\ len      = 0
  /\ position = [i \in Slots |-> 0]
  /\ built    = IF Lazy THEN 0 ELSE Cap
  /\ retired  = 0
  /\ guard    = [i \in Slots |-> "none"]
  /\ loan     = "none" /\ cursor = 0 /\ nest = <<>>
  /\ spent    = {}

\* A new loan of the owner: Store and Pinned are borrowed exclusively.
Open == loan = "none" /\ (Reentrant \/ \A i \in Slots : guard[i] = "none")

-----------------------------------------------------------------------------
(* Taking a free slot. *)

Reserve(i) ==
  /\ state' = [state EXCEPT ![i] = "Reserved"]
  /\ guard' = [guard EXCEPT ![i] = "vacancy"]
  /\ UNCHANGED <<dense, ident>>

\* Mutant: the new head keeps its link to the slot just taken.
HeadAtKeepsBack(p) ==
  LET i == heads[p] IN
  /\ i # NONE
  /\ heads' = [heads EXCEPT ![p] = content[i].next]
  /\ Reserve(i)
  /\ UNCHANGED <<content, built>>

\* head_at: pop the head of one partition.
HeadAt(p) ==
  LET i == heads[p] next == content[i].next IN
  /\ i # NONE
  /\ content' = SetPrev(content, next, NONE)
  /\ heads' = [heads EXCEPT ![p] = next]
  /\ Reserve(i)
  /\ UNCHANGED built

\* Lazy storage constructs its next slot once every free list is empty.
Push ==
  /\ Lazy /\ built < Cap /\ \A p \in Partitions : heads[p] = NONE
  /\ built' = built + 1
  /\ content' = [content EXCEPT ![built] = Links(NONE, NONE)]
  /\ Reserve(built)
  /\ UNCHANGED heads

TakeAny == \/ HeadAt(0)
           \/ Parts = 2 /\ heads[0] = NONE /\ HeadAt(1)
           \/ Push

\* Mutant: the successor keeps its old back link.
UnlinkedKeepsBack(i) == SetNext(content, content[i].prev, content[i].next)

\* Free::take: unlink a slot from the middle of its list.
Unlinked(i) == SetPrev(SetNext(content, content[i].prev, content[i].next),
                       content[i].next, content[i].prev)
Take(i) ==
  /\ content' = Unlinked(i)
  /\ heads' = IF content[i].prev = NONE
              THEN [heads EXCEPT ![Partition(i)] = content[i].next] ELSE heads
  /\ Reserve(i)
  /\ UNCHANGED built

\* The lowest free slot of a range, by scanning the built slots.
InRange(lo, hi) == {i \in Slots : lo <= i /\ i < hi /\ i < built}
Scan(lo, hi, excluded) ==
  LET free == {i \in InRange(lo, hi) \ {excluded} : state[i] = "Free"}
  IN  IF free = {} THEN NONE ELSE CHOOSE i \in free : \A j \in free : i <= j

\* Store::try_vacant, Cell::vacancy, Pinned::vacant.
Vacancy == Open /\ TakeAny /\ UNCHANGED owner

\* Store::vacant_at, and Cell::vacancy_at for external identities.
VacantAt(i) ==
  /\ Owner = "Store" \/ (Owner = "Cell" /\ Recycle)
  /\ Open
  /\ i < built /\ state[i] = "Free"
  /\ Take(i) /\ UNCHANGED owner

\* Store::vacant_in: the whole extent and each partition are answered from the heads.
VacantIn(lo, hi) ==
  /\ Owner = "Store" /\ Open
  /\ IF lo = 0 /\ hi = Cap THEN TakeAny
     ELSE IF Parts = 2 /\ lo = 0 /\ hi = HalfUp THEN HeadAt(0)
     ELSE IF Parts = 2 /\ lo = HalfUp /\ hi = Cap THEN HeadAt(1)
     ELSE LET i == Scan(lo, hi, NONE) IN i # NONE /\ Take(i)
  /\ UNCHANGED owner

-----------------------------------------------------------------------------
(* Returning a slot. *)

\* Pending::drop: the slot becomes the head of its partition.
Freed(i, c) == LET head == heads[Partition(i)]
               IN  SetPrev([c EXCEPT ![i] = Links(head, NONE)], head, i)
PushFree(i, c) ==
  /\ content' = Freed(i, c)
  /\ heads' = [heads EXCEPT ![Partition(i)] = i]
  /\ state' = [state EXCEPT ![i] = "Free"]

\* Mutant: one generation too many.
ExhaustedLate(g) == ~Recycle /\ g > MaxGen
\* Policy::next.
Exhausted(g) == ~Recycle /\ g = MaxGen
Advanced(g)  == IF Recycle THEN g ELSE g + 1

Ended(i) == IF Recycle THEN spent ELSE spent \cup {<<i, gen[i]>>}

\* Pending::reject: the identity ends; the slot is freed under the next one or retired.
Reject(i, c) ==
  /\ spent' = Ended(i)
  /\ \/ /\ ~Exhausted(gen[i])
        /\ gen' = [gen EXCEPT ![i] = Advanced(@)]
        /\ PushFree(i, c)
        /\ UNCHANGED retired
     \/ /\ Exhausted(gen[i])
        /\ state' = [state EXCEPT ![i] = "Retired"]
        /\ retired' = retired + 1
        /\ content' = c
        /\ UNCHANGED <<gen, heads>>

Release(i) == guard' = [guard EXCEPT ![i] = "none"]

\* An unused vacancy is dropped: nothing was issued, the generation stays.
DropVacancy(i) ==
  /\ guard[i] = "vacancy"
  /\ PushFree(i, content) /\ Release(i)
  /\ UNCHANGED <<dense, ident, built, owner>>

\* Cell: Vacant::reject.
RejectVacancy(i) ==
  /\ Reentrant /\ guard[i] = "vacancy"
  /\ Reject(i, content) /\ Release(i)
  /\ UNCHANGED <<dense, built, owner>>

\* Mutant: a dropped lease frees the slot as if nothing had been issued.
DropIssuedUnspent(i) ==
  /\ guard[i] = "issued"
  /\ PushFree(i, content) /\ Release(i)
  /\ UNCHANGED <<dense, ident, built, owner>>

\* Dropping an issued reservation or a withdrawn slot (the lease returns its Pending).
DropIssued(i) ==
  /\ guard[i] = "issued"
  /\ Reject(i, content) /\ Release(i)
  /\ UNCHANGED <<dense, built, owner>>

\* Cell: Vacant::reserve.
IssueKey(i) ==
  /\ Reentrant /\ guard[i] = "vacancy"
  /\ guard' = [guard EXCEPT ![i] = "issued"]
  /\ UNCHANGED <<state, list, dense, ident, built, owner>>

-----------------------------------------------------------------------------
(* Installing and finding values. *)

Taken == IF Reentrant THEN "Busy" ELSE "Occupied"

\* Pending::install, leaving guard g; the guard dropped at once leaves an Occupied slot.
Install(i, g) ==
  /\ content' = [content EXCEPT ![i] = Value]
  /\ tail' = [tail EXCEPT ![len] = i]
  /\ len' = len + 1
  /\ position' = [position EXCEPT ![i] = len]
  /\ state' = [state EXCEPT ![i] = IF g = "none" THEN "Occupied" ELSE Taken]
  /\ guard' = [guard EXCEPT ![i] = g]
  /\ UNCHANGED <<heads, ident, built, owner>>

Insert(i) == guard[i] = "vacancy" /\ Install(i, "none")     \* insert, insert_with
Stage(i)  == /\ Owner # "Pinned" /\ guard[i] = "vacancy"    \* stage, stage_with
             /\ Install(i, "staged")
Occupy(i) == /\ \/ guard[i] = "vacancy" /\ Owner # "Store"  \* Vacant::occupy, Anchor::occupy
                \/ guard[i] = "issued"                      \* Reserved::occupy, Withdrawn::insert
             /\ Install(i, "held")

\* Occupied::at and State::classify.
Admits(i, g) == i < built /\ state[i] = "Occupied" /\ gen[i] = g

\* Occupied::take.
Hold(i) ==
  /\ guard' = [guard EXCEPT ![i] = "held"]
  /\ state' = [state EXCEPT ![i] = Taken]
  /\ UNCHANGED <<list, dense, ident, built>>

\* entry, try_entry, get_mut, update, anchor; entry_at finds the current generation.
Lookup(i, g) == Open /\ Admits(i, g) /\ Hold(i) /\ UNCHANGED owner

\* Vacant::try_split: a root reservation and another, occupied slot.
Split(i, j, g) ==
  /\ Owner = "Store" /\ loan = "none"
  /\ guard[i] = "vacancy" /\ Admits(j, g)
  /\ Hold(j)
  /\ loan' = "split"
  /\ UNCHANGED <<cursor, nest>>

\* Dropping a borrow, publishing or committing a staged value.
Settle(i, g) ==
  /\ guard' = [guard EXCEPT ![i] = g]
  /\ state' = [state EXCEPT ![i] = IF g = "none" THEN "Occupied" ELSE @]
  /\ UNCHANGED <<list, dense, ident, built, owner>>
DropHeld(i) == guard[i] = "held" /\ Settle(i, "none")
Publish(i)  == guard[i] = "staged" /\ Settle(i, "none")
Commit(i)   == Owner = "Store" /\ guard[i] = "staged" /\ Settle(i, "held")

-----------------------------------------------------------------------------
(* Removing values. *)

\* Mutant: the entry that moves does not learn its new position.
DetachKeepsPosition(i) ==
  /\ len' = len - 1
  /\ tail' = [tail EXCEPT ![position[i]] = tail[len - 1]]
  /\ UNCHANGED position

\* Busy::detach: the last live entry moves into the hole.
Detach(i) ==
  LET pos == position[i] last == tail[len - 1] IN
  /\ len' = len - 1
  /\ IF pos = len - 1 THEN UNCHANGED <<tail, position>>
     ELSE /\ tail' = [tail EXCEPT ![pos] = last]
          /\ position' = [position EXCEPT ![last] = pos]

Emptied(i) == [content EXCEPT ![i] = Moved]

\* Busy::remove: the value leaves before the slot is retired.
Remove(i) ==
  /\ guard[i] = "held" \/ (guard[i] = "staged" /\ Owner = "Store")
  /\ Owner # "Pinned"
  /\ Detach(i) /\ Reject(i, Emptied(i)) /\ Release(i)
  /\ UNCHANGED <<built, owner>>

\* Busy::discard through an exclusive loan: the destructor cannot reach the owner.
Discard(i) ==
  /\ ~Reentrant /\ guard[i] \in {"held", "staged"}
  /\ Detach(i) /\ Reject(i, Emptied(i)) /\ Release(i)
  /\ UNCHANGED <<built, owner>>

\* Busy::discard of a Cell: the destructor runs first and may use the Cell.
BeginDiscard(i) ==
  /\ Reentrant /\ guard[i] \in {"held", "staged"}
  /\ content' = Emptied(i)
  /\ guard' = [guard EXCEPT ![i] = "dropping"]
  /\ nest' = Append(nest, i)
  /\ UNCHANGED <<state, heads, dense, ident, built, loan, cursor>>

EndDiscard ==
  /\ nest # <<>>
  /\ LET i == nest[Len(nest)] IN Detach(i) /\ Reject(i, content) /\ Release(i)
  /\ nest' = SubSeq(nest, 1, Len(nest) - 1)
  /\ UNCHANGED <<built, loan, cursor>>

\* Busy::withdraw: the value leaves, its identity stays issued.
Withdraw(i) ==
  /\ Owner = "Store" /\ guard[i] = "held"
  /\ Detach(i)
  /\ content' = Emptied(i)
  /\ state' = [state EXCEPT ![i] = "Reserved"]
  /\ guard' = [guard EXCEPT ![i] = "issued"]
  /\ UNCHANGED <<heads, ident, built, owner>>

\* Reuse::try_from and replace.
Replace(i) ==
  /\ Owner = "Store" /\ Parts = 1 /\ ~Recycle
  /\ guard[i] = "held" /\ gen[i] < MaxGen
  /\ gen' = [gen EXCEPT ![i] = @ + 1]
  /\ spent' = Ended(i)
  /\ UNCHANGED <<state, list, dense, retired, guard, built, owner>>

\* mem::forget on a guard.
Forget(i) ==
  /\ guard[i] \in {"vacancy", "issued", "held", "staged"}
  /\ Release(i)
  /\ spent' = IF guard[i] = "issued" THEN Ended(i) ELSE spent
  /\ UNCHANGED <<state, list, dense, gen, retired, built, owner>>

-----------------------------------------------------------------------------
(* Loans that yield several guards, clearing and dropping the owner. *)

Begin(kind) ==
  /\ Owner = "Store" /\ Open
  /\ kind = "entries" => Parts = 1 /\ ~Recycle
  /\ loan' = kind /\ cursor' = 0
  /\ UNCHANGED <<state, list, dense, ident, guard, built, nest>>

NextVacancy == loan = "vacancies" /\ TakeAny /\ UNCHANGED owner

\* Store::entries: free slots are reserved, occupied ones held, the rest skipped.
NextEntry ==
  /\ loan = "entries" /\ cursor < Cap
  /\ \/ state[cursor] = "Free" /\ Take(cursor)
     \/ state[cursor] = "Occupied" /\ Hold(cursor)
     \/ /\ state[cursor] \in {"Reserved", "Retired"}
        /\ UNCHANGED <<state, list, dense, ident, guard, built>>
  /\ cursor' = cursor + 1
  /\ UNCHANGED <<loan, nest>>

\* The iterator and every guard it yielded are gone.
EndLoan ==
  /\ loan \in {"vacancies", "entries", "split"}
  /\ \A i \in Slots : guard[i] = "none"
  /\ loan' = "none" /\ cursor' = 0
  /\ UNCHANGED <<state, list, dense, ident, guard, built, nest>>

\* One turn of Core::clear: discard the last live entry.
ClearStep ==
  /\ loan = "clear" /\ len > 0
  /\ LET i == tail[len - 1] IN Detach(i) /\ Reject(i, Emptied(i))
  /\ UNCHANGED <<guard, built, owner>>

ClearEnd ==
  /\ loan = "clear" /\ len = 0
  /\ loan' = "none"
  /\ UNCHANGED <<state, list, dense, ident, guard, built, cursor, nest>>

\* Core::drop: every value of the live prefix, forgotten borrows included.
DropCore ==
  /\ loan = "none" /\ \A i \in Slots : guard[i] = "none"
  /\ loan' = "gone"
  /\ content' = [i \in Slots |-> IF \E p \in 0..(len - 1) : tail[p] = i
                                 THEN Moved ELSE content[i]]
  /\ UNCHANGED <<state, heads, dense, ident, guard, built, cursor, nest>>

PerSlot(i) ==
  \/ VacantAt(i)
  \/ DropVacancy(i) \/ RejectVacancy(i) \/ DropIssued(i) \/ IssueKey(i)
  \/ Insert(i) \/ Stage(i) \/ Occupy(i)
  \/ DropHeld(i) \/ Publish(i) \/ Commit(i)
  \/ Remove(i) \/ Discard(i) \/ BeginDiscard(i) \/ Withdraw(i) \/ Replace(i)
  \/ Forget(i)

Next == UNCHANGED shape /\
  \/ Vacancy
  \/ \E lo, hi \in 0..(Cap + 1) : VacantIn(lo, hi)
  \/ \E i \in Slots : PerSlot(i)
  \/ \E i \in Slots, g \in Generations : Lookup(i, g)
  \/ \E i, j \in Slots, g \in Generations : Split(i, j, g)
  \/ EndDiscard
  \/ \E kind \in {"vacancies", "entries", "clear"} : Begin(kind)
  \/ NextVacancy \/ NextEntry \/ EndLoan
  \/ ClearStep \/ ClearEnd
  \/ DropCore

Spec == Init /\ [][Next]_vars

-----------------------------------------------------------------------------
(* Properties *)

Content == [tag : {"links", "value", "moved"}, next : Slots \cup {NONE}, prev : Slots \cup {NONE}]

\* Every cell holds a value of its type; lengths and counters stay within the capacity.
TypeOK ==
  /\ state \in [Slots -> States] /\ gen \in [Slots -> Generations]
  /\ content \in [Slots -> Content]
  /\ heads \in [Partitions -> Slots \cup {NONE}]
  /\ tail \in [Slots -> Slots \cup {NONE}] /\ position \in [Slots -> Slots \cup {0}]
  /\ len \in 0..Cap /\ built \in 0..Cap /\ retired \in 0..Cap
  /\ guard \in [Slots -> Guards] /\ loan \in Loans /\ cursor \in 0..Cap
  /\ nest \in Seq(Slots)
  /\ spent \subseteq Slots \X Generations

Live(i) == state[i] \in {"Occupied", "Busy"}

\* Busy::detach and Pending::install keep the dense plane a bijection: its
\* prefix lists exactly the occupied and borrowed slots, each where its
\* position says, whatever the order of removals and nested destructors.
DensePlaneIsLive ==
  /\ \A p \in 0..(len - 1) : /\ tail[p] \in Slots
                             /\ Live(tail[p]) /\ position[tail[p]] = p
  /\ \A i \in Slots : Live(i) => position[i] < len /\ tail[position[i]] = i

\* The union member each unsafe access relies on is the active one: links while
\* free, a value exactly while the slot is live and its destructor has not
\* begun; so each value is dropped once, by its remover, `clear` or the core.
UnionMatchesState ==
  /\ \A i \in Slots : state[i] = "Free" => content[i].tag = "links"
  /\ \A i \in Slots : content[i].tag = "value" <=>
       Live(i) /\ guard[i] # "dropping" /\ loan # "gone"

\* Two callers never get the same slot: whatever a vacancy, a lookup or an
\* iteration could hand out next has no outstanding guard.
HandedOutOnce ==
  \A i \in Slots :
    /\ state[i] = "Free" => guard[i] = "none"
    /\ Reentrant /\ state[i] = "Occupied" => guard[i] = "none"
    /\ loan = "entries" /\ i >= cursor => guard[i] = "none"

\* Whatever order removals and nested destructors take, the dense plane lists
\* the live slots, each live slot holds the value it claims to hold, and no
\* slot has two holders.
PlanesAgree == DensePlaneIsLive /\ UnionMatchesState /\ HandedOutOnce

\* The slot reached from a head after n links.
Walk(p) == LET step[n \in 0..Cap] ==
                 IF n = 0 THEN heads[p]
                 ELSE IF step[n - 1] = NONE THEN NONE ELSE content[step[n - 1]].next
           IN  step

\* Each free list ends, links back correctly, and holds exactly the free slots
\* of its own partition: no free slot is ever lost or listed twice.
FreeListsAreSound ==
  \A p \in Partitions :
    LET walk == Walk(p)
        members == {walk[n] : n \in 0..Cap} \ {NONE}
    IN  /\ walk[Cap] = NONE
        /\ members = {i \in Slots : state[i] = "Free" /\ Partition(i) = p}
        /\ \A n \in 0..Cap : walk[n] # NONE =>
             content[walk[n]].prev = IF n = 0 THEN NONE ELSE walk[n - 1]

\* Mutant: slots not yet built are not counted as room.
IsFullIgnoresUnbuilt == \A p \in Partitions : heads[p] = NONE

\* Core::is_full and Core::refusal.
IsFull == built >= Cap /\ \A p \in Partitions : heads[p] = NONE
Refusal == IF Cap # 0 /\ Cap - retired = 0 THEN "IdentityExhausted" ELSE "Full"

\* try_ready, which reserves nothing, gives the answer try_vacant would; and a
\* refusal is called permanent exactly when every slot has used up its generations.
RefusalIsExact ==
  /\ IsFull <=> built = Cap /\ \A i \in Slots : state[i] # "Free"
  /\ Cap # 0 => (Refusal = "IdentityExhausted" <=> \A i \in Slots : state[i] = "Retired")

\* Nothing done through other slots disturbs a slot someone holds: neighbours'
\* relinking never writes into it, and only its holder can end its identity.
GuardsAreIsolated ==
  [][\A i \in Slots : guard[i] # "none" /\ guard'[i] = guard[i] =>
       /\ state'[i] = state[i] /\ content'[i] = content[i]
       /\ gen'[i] = gen[i] \/ (guard[i] = "held" /\ <<i, gen[i]>> \in spent')]_vars

\* The keys callers may still use.
LiveKeys == IF loan = "gone" THEN {}
            ELSE {<<i, gen[i]>> : i \in {j \in Slots : Live(j) \/ guard[j] = "issued"}}

-----------------------------------------------------------------------------
(***************************************************************************)
(* Slabs with logical identities (src/depot/arena/slab/external).  The     *)
(* physical generation never advances; instead the owner issues an epoch   *)
(* from one counter that never wraps, and every value is stamped with its  *)
(* own.  Exclusive (a Store), shared::Storage (a Cell) and Pinned differ   *)
(* in when an epoch is spent: a shared vacancy spends it at once, an       *)
(* exclusive grant only when it is reserved, a pinned one when occupied.   *)
(***************************************************************************)
CONSTANT MaxEpoch   \* the last epoch of the generation type

ASSUME EpochAssumption == MaxEpoch \in Nat \ {0}

Epochs == 1..MaxEpoch

VARIABLES nextEpoch,   \* next: the epoch to issue, NONE once exhausted
          epoch,       \* the epoch a reservation or a stamped value carries
          ended        \* history: the logical keys whose identity has ended

evars == <<vars, nextEpoch, epoch, ended>>

EInit == Init /\ nextEpoch = 1 /\ epoch = [i \in Slots |-> NONE] /\ ended = {}

\* Generation::next.
Succ(e) == IF e = MaxEpoch THEN NONE ELSE e + 1

\* Exactly slot i changed hands: it was free and carries a vacancy now.
Granted(i) == guard[i] = "none" /\ guard'[i] = "vacancy"

\* Reservation::issue and shared issue.
IssueEpoch(i) == /\ epoch' = [epoch EXCEPT ![i] = nextEpoch]
                 /\ nextEpoch' = Succ(nextEpoch)

\* The identity slot i carries comes to an end.
EndKey(i) == /\ epoch' = [epoch EXCEPT ![i] = NONE]
             /\ ended' = IF epoch[i] = NONE THEN ended ELSE ended \cup {<<i, epoch[i]>>}
             /\ UNCHANGED nextEpoch
KeepKeys == UNCHANGED <<nextEpoch, epoch, ended>>

-----------------------------------------------------------------------------
(* Selecting a slot outside an excluded one. *)

\* Mutant: the excluded head is selected all the same.
CandidateIgnoresExclusion(p, excluded) == heads[p]
\* The head of a partition, or its successor when the head is excluded.
Candidate(p, excluded) ==
  IF heads[p] = excluded /\ heads[p] # NONE THEN content[heads[p]].next ELSE heads[p]

\* Free::in_range.
Except(lo, hi, excluded) ==
  LET end    == IF hi < Cap THEN hi ELSE Cap
      groups == IF lo = 0 /\ end = Cap THEN Partitions
                ELSE IF Parts = 2 /\ lo = 0 /\ end = HalfUp THEN {0}
                ELSE IF Parts = 2 /\ lo = HalfUp /\ end = Cap THEN {1} ELSE {}
      found  == {p \in groups : Candidate(p, excluded) # NONE}
  IN  IF groups = {} THEN Scan(lo, end, excluded)
      ELSE IF found = {} THEN NONE
      ELSE Candidate(CHOOSE p \in found : \A q \in found : p <= q, excluded)

-----------------------------------------------------------------------------
(* Exclusive and Pinned: a grant holds the slot, its epoch still unspent. *)

Grantable == Owner # "Cell" /\ nextEpoch # NONE

\* Mutant: the grant itself spends the epoch.
TryGrantSpends == /\ Grantable /\ Vacancy
                  /\ nextEpoch' = Succ(nextEpoch) /\ UNCHANGED <<epoch, ended>>
\* try_grant.
TryGrant == Grantable /\ Vacancy /\ KeepKeys
TryGrantAt(i) == Grantable /\ VacantAt(i) /\ KeepKeys
TryGrantIn(lo, hi) == Grantable /\ VacantIn(lo, hi) /\ KeepKeys
TryExcept(lo, hi, excluded) ==
  LET i == Except(lo, hi, excluded) IN
  /\ Grantable /\ Owner = "Store" /\ Open /\ i # NONE
  /\ Take(i) /\ UNCHANGED owner /\ KeepKeys

\* Grant::reserve.
ReserveGrant(i) ==
  /\ Owner = "Store" /\ guard[i] = "vacancy" /\ epoch[i] = NONE
  /\ IssueEpoch(i) /\ UNCHANGED <<vars, ended>>

\* Anchor::occupy: issue and install in one call.
OccupyGrant(i) ==
  /\ Owner = "Pinned" /\ Occupy(i) /\ guard[i] = "vacancy"
  /\ IssueEpoch(i) /\ UNCHANGED ended

\* Exclusive::advance_to.
AdvanceTo(floor) ==
  /\ Owner = "Store" /\ Open
  /\ nextEpoch' = IF nextEpoch = NONE \/ floor = NONE THEN NONE
                  ELSE IF nextEpoch < floor THEN floor ELSE nextEpoch
  /\ UNCHANGED <<vars, epoch, ended>>

\* shared::Storage: the epoch is spent with the vacancy.
SharedVacancy ==
  /\ Owner = "Cell" /\ nextEpoch # NONE
  /\ Vacancy \/ \E i \in Slots : VacantAt(i)
  /\ \E i \in Slots : Granted(i) /\ IssueEpoch(i)
  /\ UNCHANGED ended

-----------------------------------------------------------------------------
(* The stamped phases. *)

Issued(i) == epoch[i] # NONE

InstallStamped(i) ==
  /\ Issued(i) /\ Owner # "Pinned"
  /\ Insert(i) \/ Stage(i)
  /\ KeepKeys

\* A lookup that finds another epoch puts the borrow back and changes nothing.
Matches(i, e) == epoch[i] = e

\* try_occupied, occupied, try_entry; occupied_at and try_entry_at take what is there.
Finds(i, e) == i < built /\ state[i] = "Occupied" /\ Matches(i, e)
Find(i, e) ==
  /\ Open /\ Finds(i, e)
  /\ Hold(i) /\ UNCHANGED owner /\ KeepKeys

\* Dropping a borrow; publishing or committing a staged value.
SettleStamped(i) == (DropHeld(i) \/ Publish(i) \/ Commit(i)) /\ KeepKeys

\* try_remove: the value is withdrawn for the callback, which may give it back.
TryRemove(i) == Withdraw(i) /\ KeepKeys
Restore(i)   == Owner = "Store" /\ Occupy(i) /\ guard[i] = "issued" /\ KeepKeys

\* Mutant: a rejected value leaves its stamp on the slot.
EndStampedKeepsKey(i) ==
  /\ \/ DropVacancy(i) \/ DropIssued(i)
     \/ Remove(i) \/ Discard(i)
  /\ KeepKeys
\* Every way an identity ends.
EndStamped(i) ==
  /\ \/ DropVacancy(i) \/ DropIssued(i)
     \/ Remove(i) \/ Discard(i)
  /\ EndKey(i)

\* The stamp is dropped with its value, before the slot is retired.
BeginDiscardStamped(i) == BeginDiscard(i) /\ EndKey(i)
EndDiscardStamped == EndDiscard /\ KeepKeys

\* A forgotten reservation leaks its slot; a forgotten value keeps its stamp.
ForgetStamped(i) ==
  /\ Forget(i)
  /\ IF guard[i] \in {"vacancy", "issued"} THEN EndKey(i) ELSE KeepKeys

DropStamped == DropCore /\ KeepKeys

ENext == UNCHANGED shape /\
  \/ TryGrant
  \/ \E lo, hi \in 0..(Cap + 1) : TryGrantIn(lo, hi)
  \/ \E lo, hi \in 0..(Cap + 1), x \in Slots : TryExcept(lo, hi, x)
  \/ \E i \in Slots : \/ TryGrantAt(i) \/ ReserveGrant(i) \/ OccupyGrant(i)
                      \/ InstallStamped(i) \/ SettleStamped(i)
                      \/ TryRemove(i) \/ Restore(i)
                      \/ EndStamped(i) \/ BeginDiscardStamped(i) \/ ForgetStamped(i)
  \/ \E floor \in Epochs \cup {NONE} : AdvanceTo(floor)
  \/ SharedVacancy
  \/ \E i \in Slots, e \in Epochs : Find(i, e)
  \/ EndDiscardStamped
  \/ DropStamped

\* A slab has the physical keys of its generations or the logical ones of epochs.
Plain   == ~ Recycle /\ Next /\ KeepKeys
Stamped == Recycle /\ ENext
ESpec == EInit /\ [][Plain \/ Stamped]_evars

-----------------------------------------------------------------------------
(* Properties *)

ETypeOK == /\ TypeOK
           /\ nextEpoch \in Epochs \cup {NONE}
           /\ epoch \in [Slots -> Epochs \cup {NONE}]
           /\ ended \subseteq Slots \X Epochs

\* A stamp is there exactly as long as its value or its reservation is.
StampsAreCarried ==
  Recycle => \A i \in Slots :
                   /\ content[i].tag = "value" => epoch[i] # NONE
                   /\ state[i] \in {"Free", "Unbuilt"} => epoch[i] = NONE

\* try_except never selects the excluded slot, never leaves the range, and says
\* Full only when no other slot of the range is free.
ExclusionIsExact ==
  Recycle => \A lo, hi \in 0..(Cap + 1), x \in Slots :
    LET i == Except(lo, hi, x)
        candidates == {j \in InRange(lo, hi) \ {x} : state[j] = "Free"}
    IN  IF candidates = {} THEN i = NONE ELSE i \in candidates

\* Only advance_to skips an epoch: any other step that moves the counter gives
\* exactly that epoch to a slot, so refused or abandoned grants cost nothing.
NothingIsBurned ==
  [][nextEpoch' # nextEpoch /\ (epoch' # epoch \/ guard' # guard) =>
       /\ \E i \in Slots : epoch[i] = NONE /\ epoch'[i] = nextEpoch
       /\ nextEpoch' = Succ(nextEpoch)]_evars

\* Of a stamped slab, the keys name epochs.
LogicalKeys == IF loan = "gone" THEN {}
               ELSE {<<i, epoch[i]>> : i \in {j \in Slots : epoch[j] # NONE}}

\* Every behaviour of a slab, stamped or not, is one of the abstract key space:
\* a key that has ended is refused for ever, whoever has the slot by then.
Contract == INSTANCE KeySpace WITH
  live <- IF Recycle THEN LogicalKeys ELSE LiveKeys,
  spent <- IF Recycle THEN ended ELSE spent,
  open <- (loan # "gone"), Generations <- Generations \cup Epochs
ImplementsKeySpace == Contract!Spec

-----------------------------------------------------------------------------
(* What a later step can still read of the planes: the live prefix of the   *)
(* dense plane, the position of a live slot, the links of a free one.  The  *)
(* words left behind are overwritten before they are read again, so states  *)
(* that differ only there have the same futures and TLC may take one of them. *)
WordsInUse ==
  <<shape, state, gen, heads, len, built, retired, guard, loan, cursor, nest, spent,
    [i \in Slots |-> IF state[i] = "Free" THEN content[i] ELSE content[i].tag],
    [p \in Slots |-> IF p < len THEN tail[p] ELSE NONE],
    [i \in Slots |-> IF Live(i) THEN position[i] ELSE 0],
    nextEpoch, epoch, ended>>

-----------------------------------------------------------------------------
(* The shapes a run covers: every owner, with physical keys and with       *)
(* logical ones.  The Store of one part iterates over every slot, clears   *)
(* and replaces in place; the Store of two searches within its parts.      *)
EveryOwner ==
  {[parts |-> 1, owner |-> "Cell",   lazy |-> FALSE, recycle |-> FALSE],
   [parts |-> 1, owner |-> "Store",  lazy |-> FALSE, recycle |-> FALSE],
   [parts |-> 1, owner |-> "Pinned", lazy |-> TRUE,  recycle |-> FALSE],
   [parts |-> 1, owner |-> "Cell",   lazy |-> FALSE, recycle |-> TRUE],
   [parts |-> 2, owner |-> "Store",  lazy |-> FALSE, recycle |-> TRUE],
   [parts |-> 1, owner |-> "Pinned", lazy |-> TRUE,  recycle |-> TRUE]}
=============================================================================
