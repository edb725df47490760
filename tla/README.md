# A verification project for o3

o3 (version 0.37) is a Rust library of "shared-nothing primitives": containers,
queues, credit accounts and byte buffers for one thread. Its layers are
`base < alloc < mem < depot < buffer`. Nothing in it runs in parallel. What
makes it hard is that most structures are intrusive and untagged (a word is a
free-list successor now and an account key later, a union's contents are told by
two link words), that every guard it hands out may be dropped, consumed or
forgotten with `mem::forget` in any order (the tests do so throughout), and that
several operations run caller code in the middle (destructors, predicates,
equality, `admit_with` callbacks), which may call back.

The modules in this directory model that protocol. They are translated from the
source, not from its documentation. Release builds are the reference: arithmetic
wraps unless the code checks it, and since the release profile aborts on panic
and nothing catches one, unwinding is out of scope.

Run a model with `tlc -config X.cfg Module`, a proof with `tlapm Module.tla`.
`PROJECT.json` lists components, runs, mutants, theorems and hazards, and maps
each definition to the lines it models.

## Inventory

### Modelled

| Component | Source | State it keeps | Operations | What is hard, and what makes it correct |
|---|---|---|---|---|
| Fair credit | `mem/raw` (`charge`, `grant`, `balance`, `lane`, `pool`) | shared surplus; per lane a reserve and a running total; handles that carry vectors | acquire, extend, merge, split, drain, release, drop, forget, restart | admission looks at one lane and one counter, yet must be exact for all; additions are unchecked. Credit is conserved, admission exact, no merge wraps |
| Quota | `mem/quota.rs`, `mem/raw/state/account.rs` | a counter per ledger and reservation | take, open, reserve, lease, offer, admit, settle, reset | callbacks run with a unit in hand and may use the ledger; two levels of give-back. Units are conserved, reservations closed, calls backed |
| Slab | `depot/arena/slab` | slot states, generations, doubly linked free lists, dense plane, guards | vacancy (any, at, in range, except), insert, lookup, remove, withdraw, replace, iterate, split, clear, drop | many guards at once, nested destructors, generations that end. The planes agree, no slot is handed out twice, stale keys stay dead |
| External slab | `depot/arena/slab/external` | an epoch counter and a stamp per value over the slab | grant (any, at, range, except), reserve, occupy, insert, remove with restore, advance | when an epoch is spent; the end of the epochs; `except` trusts one link. Ended keys are refused, nothing is burned |
| Buffer pool | `buffer/pool` (`owners`, `span`) | header, slots, accounts; one word is a link or a key | create, seed, acquire, retain, bind, grow, drop, forget | no count keeps an allocation alive: each drop tests whether it was last. Tables agree, memory is freed by its last user |
| Resident domain | `buffer/resident/domain` | charged bytes and a capacity per domain | budget, charge, resize, refund | failures half way, forgotten charges. The total is what is alive |
| Staging | `buffer/resident/staging`, `buffer/bytes/window` | per buffer a backing, head and end; views | append, reserve, grow, consume, clear, retain, drop | bytes move between three backings under views. Bytes are kept, warm slots and ceilings are available |
| Growing pool (partly) | `buffer/pool/growing.rs` | groups of doubling size in an array sized once, a hint | take, grow, return | the allocator is called with the pool in hand and may grow it first. No group is written past the plan, no vacant buffer is lost |
| Segments (partly) | `buffer/segments` | pools of nodes and descriptors; a chain is a key of none, one or many | append, pop, split, join, move between pools, grow, consume, fifo | bytes, memory and number are kept in the descriptor and never recounted. Totals are told, no byte is lost or moved |
| Queue links | `depot/raw/hooks`, `depot/queue/links` | two words per hook; ends of chains, rings, lists, free list | link, unlink, restore, splice, move, rotate, park, recycle | sentinels: a hook naming itself is vacant or parked, detached hooks keep stale words. Edges are reciprocal, walks give the promised order |
| Resident waiting rooms | `depot/queue/resident` | lanes in a ring, slots with an untagged payload, registrations | register, relink, take, offer, take grant, cancel, drop, drain | four operations of two actors rewrite the words that tell what a slot holds. Payload follows topology; fair order; drains end |
| Round-robin lanes and values | `depot/queue/round` | lanes in one ring per group, shared revocable slots | set, push, pop, pop_if, move, rotate, clear, exclusive dequeue | predicates and equality call back before the call commits. A scheduled slot is initialized; waiters keep their turn |
| Hash directories and maps | `depot/map` | control bytes and buckets; records, nodes, generations, a heap | find, insert, admit, remove, scopes with rollback, clear | backshift across the wrap, Robin Hood order, several tables that name each other. No entry is cut off from its home |
| Hash arena | `depot/arena/hash` | slots with a key, a dense row, a directory | insert, lend, unindex, reserve, remove | an entry moves in the row, in the directory and in the slots. Each names the others |
| Index sets and bitmaps | `depot/index` | levels of words, planes, a cursor | find, take, give, clear | an upper bit says which lower word is empty. It says so truly after every write |
| Heaps | `depot/heap` | heap order, position of each index, chains of control and data residents | insert, remove, update, transitions, sweep | the caller's order may be inconsistent; payloads are an untagged union. Order and positions stay inverse |
| Indexed FIFO planes (partly) | `depot/queue/indexed` | slots, hooks in several planes, a lane table, a map of keys | insert, take, sweep, restore, batches, scopes | the hook alone tells what a slot is; sweeps run callbacks. A slot waits once, and where it is said to |
| Tagged lanes | `depot/queue/links`, `queue/indexed/planes/group` | a head, its first hook names the endpoint | push, remove, restore, clear | head and plain members are told apart by sentinels |
| Group queues | `depot/queue/group` | lanes, owners in a tree of branches, batches | insert, take, batch, undo, clear | an undo in the middle of a batch removes branches that others hang below. Every owner is found |
| Slot pools and fair permits | `depot/queue/pool`, `depot/arena/linked` | one word per slot, lanes, credit | claim, reserve, permit, release, sort, batches | credit is counted apart from slots. A slot is free, in a lane or in a hand |
| Ring queues | `depot/queue/ring` | head, length, leased places | push, pop, truncate, extend, lease, move | callbacks between two updates. What is in the range holds values, nothing else |
| Arena pool | `depot/arena/pool` | a word per entry: the free list, or the pool | take, share, release, retire | the value's own code runs while the entry is neither free nor lent |

The components meet as follows. `mem` supplies the credit that `depot` queues
and `buffer` domains charge. The slab keeps its free lists on its own links;
every other queue of `depot` threads `raw/hooks` words, and `queue/join.rs`
composes a chain per lane with a ring of the lanes that are not empty. The maps
keep records of their own beside a directory, and the planes, the priority map and
the hash arena add a list, a heap or a row that names the same records.
`buffer` pools charge a resident domain as they are created, grown and bound to
accounts, staging buffers move between a warm pool, exact blocks with an
account table, and local windows, and segments keep what either produced.
Interaction is by call and by borrowed handle; there are no messages.

### Not modelled

`PROJECT.json` has a row with its reason for each. In short:

- Planned: the round-robin set, shared resident buffers, pool cursors, provided
  storage, write plans, ranges of holds, window rings, bounded numbers; of the
  modelled components, the keyed lanes and the fixed fifo of lanes
  (`queue/indexed`), `Charge::try_split`, the collection of foreign segments,
  and the `u32` count of a chain of more than 2^32 segments.
- Read-only operations (iterators, cursors, scatter copies) appear only where
  they are held across changes; elsewhere they read what the invariants relate.
- Left out: brands, endpoint proofs and typestate (compile time only; every
  module assumes what they enforce), raw allocation (every module lets an
  allocation succeed or fail), capacity domains, fixed arrays and pool layout
  arithmetic (no protocol), `Lease`/`Return` (inlined where used), scatter lists,
  the SIMD forms of a group read (modelled by what `simd/scalar.rs` computes).

## Modules

| Module | Role |
|---|---|
| `Sums` | sums over a finite set, walks along a function, and lemmas about both |
| `FairCredit`, `FairCreditProofs` | fair credit, and its theorems |
| `Quota`, `QuotaProofs` | quota reservations, and its theorems |
| `KeySpace` | abstract: keys that are issued, ended, never issued again |
| `Slab`, `SlabProofs` | the slab, with physical keys and with external ones; theorems about both |
| `BufferPool`, `Staging`, `BuffersProofs` | pools with their resident domain; staging buffers; theorems about both |
| `Pools`, `Segments` | arena entries and groups of pools; chains and fifos of segments |
| `Hooks`, `HooksProofs` | pure operators: one hook operation each, tagged lanes included; what each does to the sequence a list spells |
| `Orders`, `Links`, `LinksProofs` | abstract orders; every list on one plane, and its theorems |
| `Joins` | pure operators: chains joined to a ring of turns |
| `FairLanes` | abstract: a sequence per lane, a sequence of turns per group |
| `Resident`, `Rounds`, `JoinsProofs` | waiting rooms and round-robin queues on `Joins`, and theorems about both |
| `Dictionary` | abstract: a bounded function and the answer of its last operation |
| `Probing` | pure operators: linear probing and backshift |
| `FlatTable`, `ResidentTable`, `PriorityTable`, `PlaneMap`, `HashArena` | what stands on a probed directory |
| `CompactTable`, `DirectTable` | the Robin Hood directory; the direct map |
| `IndexSets` | bitmaps and the sets made of them |
| `HoleHeap` | pure operators: the path of a hole and the moves along it |
| `KeyedHeap`, `IndexedHeap`, `PhasedHeap`, `FifoHeap` | what stands on it; `PriorityTable` and `PlaneSet` use heaps too |
| `IndexedSlab`, `SlotQueues`, `StagedQueue`, `LaneTable`, `PlaneSet` | the queues over indexed slots |
| `Ledger`, `LinkedSlots`, `Rings` | group queues, slot pools, rings |
| `MCMaps`, `MCQueues` | one map, or one queue, in each behaviour |

In `Slab` each external operation conjoins what it adds to the slab's own
action. `Links`, `Resident`, `Rounds`, `IndexedSlab`, `SlotQueues`,
`LaneTable`, `PlaneSet` and `PlaneMap` use the same `Hooks` operators, so what
`HooksProofs` proves of them holds where they are composed.

### FairCredit

`shared`, `held` are `Pool.shared` and each lane's `State.held`; a handle is
free, a charge, a grant, an extension of a grant, or lost (forgotten). `Acquired`
and `Released` are the two account updates of `charge.rs`; actions are the public
methods. A denied request is a stutter, because the code updates a copy of the
balance and writes it only on success. `Amount::get` runs before the accounts
are read, so work it reenters is a step before. `Plus` and `Minus` wrap.

### Quota

`rem[Root]` is the ledger's counter and `rem[h]` that of a reservation.
`admit_with`, `Lease::admit_with` and `Shared::with` are two actions each, and
`calls` is the stack of running callbacks; anything may happen between. `budget`,
`total` and `spent` are ghosts. The `unused` amount of `Shared::with` is any
amount up to the reservation, which the unsafe contract of the callback allows.

### Slab

`content` is the links/value union. `shape` chooses the owner (`Store`: exclusive
loans; `Cell`: shared, with a Busy state; `Pinned`), the partitions, lazy storage
and recycled generations. `guard` is what a caller holds on each slot, `loan` what
the owner is borrowed for, `nest` the stack of running destructors. `Lookup`
is enabled only for a key the code admits. `spent` is a history of ended keys.
Dropping a guard follows the code's order: the Cell marks Busy, runs the
destructor (any steps), then detaches and pushes free. The second half is the slab
with external identities: `nextEpoch` is the counter, `epoch` the stamp of a
reservation or value.

### BufferPool and Staging

A `core` is one allocation with header, slot and account tables; `handle` is a
`Pool`, `Edge`/`Span` or `Registered`. There is no action that frees: every drop
computes `Retire` as the code does. `resident` and `limit` are the domain.
Failing paths (`NewPoolFails`, `TryGrowFails`) are actions, since they charge and
refund. In `Staging` counts and accounts are abstracted to "something names the
block" (`BufferPool` shows that they are that); bytes carry their buffer and
how many it received before, which tells lost, repeated and foreign bytes
apart. A refused call changes nothing except that `Stage` has already cleared
an empty buffer; an allocator refusal is the retry with the size that is needed.

### Links, Resident, Rounds

`Links` holds every kind of list on one plane and moves nodes among them. `at`
is the ghost of each operation's contract: which list holds a node, or whether
it is free, parked, vacant or stale (detached, with its words still in place for
`restore`). `Resident` is one owner, fifo or handoff: `t` lanes and turn,
`payload` the union, `reg` a registration's lease. Registrations bound to another
owner are rejected before anything changes and are left out. `Rounds` adds
`calls`, the queue's own calls that wait for a callback. A callback's effect is a
sequence of the atomic operations. Equality and predicates answer arbitrarily.
The exclusive dequeue (`loan`) exists in `Lanes` only.

### Maps, arena and index sets

A directory is a function on its occupied buckets; `Probing` has the search, the
search of a known member, and `Hole::remove` with its backshift. `hashOf` is chosen
once, so that every pattern of equal and wrapping homes occurs. A borrowed answer
(`Found`, `Vacant`) excludes every other call, so a query and its use are one step;
what outlives a call is state: `scope`, `leases` and rollback tokens of
`ResidentTable`, `held` of `DirectTable` and `HashArena`. `CompactTable` keeps
its control bytes literally, with the repeated ones, because its three ways to search
read different bytes. `PriorityTable` and `PlaneMap` have a heap and hooked lists
beside the directory. In `IndexSets`, `words` is plane, word, bits, levels in one row.

### Heaps

`HoleHeap` splits an operation as `hole/path.rs` does: comparisons first name a
path, then entries move along it. Where a comparison is the caller's, `IndexedHeap`
lets it lie, and the path may stop anywhere. `PhasedHeap.field` is a ghost, the
payload last written into the union. `reported` is the answer about the minimum.

### Queues over slots

`IndexedSlab.block` is the hooks, heads and counters of one slab, with the guard in
`loan`; a batch, a scope and a cursor are loans with a remainder. In `SlotQueues` and
`FifoHeap` a `sweep` is the visit under way, between whose steps the visitor acts.
`StagedQueue.slot` and `LaneTable.guard` are the guards with what they remember.
`PlaneSet` and `Ledger` keep `scope` and `guard`. `LinkedSlots` has one word per
slot; `hand` and `account` are loans and permits. `Rings` has three owners. In
`Pools`, `retiring` and `calls` are stacks of calls that wait for the caller's code
or the allocator. In `Segments` an item is the bytes of a segment, as
identities, and the memory it keeps alive; a pool is the counts of free nodes and
descriptors; growing past the plan is a chain with a pool of its own.

### Abstract specifications and refinements

- `KeySpace`: a key is fresh, live, then spent, never live again. `Slab`
  implements it with physical generations or with epochs (`SlabKeys` proves it for every
  capacity), and so do the resident map
  and the hash arena (in `ImplementsMaps`).
- `Orders`: named sequences that change by one push, take, splice, move or undo; in
  bulk, one call may take several. `Links` implements it, mapping each list to the
  walk of its hooks, and so do the queues of `MCQueues`.
- `FairLanes`: a lane's slots in order and a group's lanes in turn; a lane enters
  the turn with its first slot, leaves with its last, and serving rotates only the
  front. `Resident` and `Rounds` implement it.
- `Dictionary`: a function on the present keys, a capacity, and the answer of the
  last operation. The flat, resident and priority maps and the planes' map implement it.

## Runs

| Run | Instance | Question |
|---|---|---|
| `fair_credit` | 2 axes, 2 lanes, 4 handles, words 0..3 | `Conserved`: surplus and borrowings add up to the limit. `AdmissionIsExact`: the one-lane test equals the global one. `MergeNeverWraps` |
| `quota` | 5 handles, words 0..5, 3 nested calls | `Conserved`, `ReservationsAreClosed` (a reservation and its children never spend more than it), `CallsAreBacked` |
| `slab` | 3 slots, 2 generations, 3 epochs; a Cell, a Store and a lazy Pinned with generations; a Cell, a two-part Store and a lazy Pinned with epochs | `PlanesAgree`, `FreeListsAreSound`, `RefusalIsExact`, `ExclusionIsExact`, `StampsAreCarried`, `NothingIsBurned`, `GuardsAreIsolated` (a step touches only the slots it names), `ImplementsKeySpace`; `ETypeOK` bounds the counters and epochs |
| `buffer_pool` | 1 allocation, 0, 2 or 3 slots, 0 or 2 accounts, 5 handles, count limit 2; or 2 allocations of 2 slots, or of 1 slot that grows, 1 account each, 3 handles, 2 domains, capacities 2 and 5 | `TablesAgree`, `SpansAreSole`, `FreeListsAreExact`, `FreedWithItsLastUser`, `ResidentIsExact` |
| `staging` | 2 buffers, 2 views, 3 of them in use at once, warm 2, ceiling 4, both modes | `BytesAreKept`, `WarmIsReserved`, `CeilingIsReserved` |
| `links` | 4 hooks; 2 chains, a counted chain, a ring, a list, the free list | `Reciprocal`, `MarksAreTrue`, `ImplementsOrders` |
| `resident` | 3 slots, 2 lanes, 4 registrations, 1 grant | `PayloadFollowsTopology`, `ImplementsFairLanes`, `DrainEnds` |
| `rounds` | 4 slots, 3 lanes in 2 groups, 1 payload, 1 waiting call | `ScheduledIsInitialized`, `WaitersKeepTheirTurn`, `ImplementsFairLanes` |
| `maps` | 3 keys, 2 or 3 hashes each, capacities 0 to 3 | `PlanesAreSound`: directory, records, nodes, rows and bitmaps name each other. `ImplementsMaps` |
| `queues` | 3 or 4 slots, 1 or 2 lanes, 3 owners, heaps of 3 and 4 | `QueuesAreSound`, `HeapsAreSound`, `GroupsAreSound`, `ImplementsQueues`, `ChangesAreReported` |

All of them hold. The comment above each property says what it means.
`PROJECT.json` names for each a change of one definition, of the kind a
plausible bug would make, under which the same run reports a violation.

`MCMaps` and `MCQueues` check many small components side by side. `which` is chosen
in the first state and says whose specification the behaviour follows; variables of
the same name are shared, and what a component does not have is `NONE`, so the state
space is the sum of theirs and not the product. Each property is a case on `which`;
each case is the invariant the component's module states and comments.
`slab` chooses its owner in the first state, as `shape`.

### Bounds, and why they are enough

- Credit and quota: two lanes with unequal reserves, a word that the largest
  request nearly fills, and a first axis that can be denied while the second is
  not, are the cases the code distinguishes. The theorems remove these bounds.
- Slab: three slots give a free list with a first, an inner and a last element and
  a dense plane where the moved last entry is not the removed one. Two generations
  give a first, a last and a retirement; nesting three deep uses every slot. Only the
  Store of one part iterates over every slot and replaces in place.
- Buffer pool: three slots give inner free entries; two accounts give both a
  linked and an empty account list; the count limit of two lets the count refuse.
  The constraint `Scope` is the union of two scopes, many handles on one allocation
  and few handles on two; a state in neither is not continued, so a behaviour is
  followed for as long as it stays within one of them or in both.
- Staging: a ceiling of four over a warm size of two separates in place, compaction,
  rotation and spill, and an exact block of three can still grow; two views pin two
  backings at once. `FewInHand` keeps three buffers and views in use at once: two
  buffers under a view, or one under two. Blocks always suffice.
- Links: four hooks let a list of three change in the middle while another list
  has one, and a ring shrink from three to one.
- Resident: two lanes are enough for a slot to leave one lane for another and for a
  turn to pass on; one waiting room has one ring of lanes, and rings of three are
  those of `rounds`. Four registrations compete for three slots.
- Rounds: three lanes give a ring with a lane neither first nor last.
  In `rounds` one waiting call is enough because what a nested call does is a
  sequence of atomic operations that the outer callback may already perform.
  Two lanes of one group and one of another show that turns are per group.
- Maps: three entries among four or more buckets give a chain of three that a hole
  opens at its first, inner and last place and that wraps past the last bucket, and
  an entry at home between two that are not. Two generations give reuse and the end.
- Heaps: four entries make a path of two levels and a right child of a left one.
- Queues: three slots give a first, an inner and a last; keys of the ledger differ in
  each of three bits, so branches are inserted above, below and between others.
- Growing: plans up to seven need three groups; three nested calls let the outer find
  its group already written, twice. Segments: four items and two pools let a chain
  lose and regain its descriptor, and a pool run out of nodes and of descriptors apart.

Deadlock is not checked for the slabs, pools, links and queues: there a program may
destroy the owner, spend every identity or forget every handle, and then stop.
Two reductions make the spaces small, and neither is used where the run has a
liveness property. Symmetry: handles, slots, keys, buffers and views are model
values that no definition tells apart. Views, each beside the state it abbreviates
and with its reason: two states that differ only in words nothing reads before they
are written have the same futures. `WordsInUse` drops the dense words past the
length and the links of live slots; `Interchanged` counts handles instead of naming
them; `Legible` says whether bytes are the right ones and not which they are,
and knows a backing by those that name it;
`Recorded` drops the lane of a slot in no lane; `Readable` drops the stale words
of a hook whose removal can no longer be undone.

### Fairness

One run has a liveness property. `Resident` assumes weak fairness of `DrainNext`
alone: an owner that began to drain keeps asking for the next value until there
is none, as `tests/depot_queue_resident.rs` and
`tests/depot_queue_resident_handoff.rs` call `drain_next`. The library must do the
rest: while draining nothing new is admitted, so the calls come to an end. No
other action is assumed to happen.

## Theorems

`tlapm` checks these for every value of the constants that satisfies the named
assumptions; the runs of the same names show them on small instances.

- `FairCreditProofs`, from `CreditAssumption` (types, finitely many lanes and
  handles) and `LaneContract` (each reserve plus the limit fits a word, which
  `Pool::lane` demands of its caller). `Conserved` is not inductive: a refund is
  right only if the lane's total is what its handles carry. The inductive invariant
  adds the typing, `HeldIsCarried` and the link from an extension to its grant.
  Steps are grouped by what they do to the accounts: acquire, release, transfer
  between handles, nothing. `CreditIsConserved`, `HoldingsAreCarried`,
  `MergesNeverWrap`, `AdmissionsAreExact` and `AdmittedRequestsFit` follow.
- `QuotaProofs`, from `QuotaAssumption`. The invariant joins conservation, closed
  reservations, the shape of the source relation and the call stack; each action
  draws from an account, settles to one, or moves units inside a reservation.
  `QuotaIsConserved`, `ReservationsStayClosed`, `CallsStayBacked` follow.
- `LinksProofs`, from `CapacityAssumption` and `PlaceAssumption` (END is no node,
  names of lists and states differ). `Reciprocal` is not inductive: edges written
  on both sides do not exclude a hook that names itself, which `try_unpark` would
  take for a parked one. The inductive invariant says of each list, over its own
  set of members, that it is closed, reciprocal and, but for cycles, ordered (some
  rank grows along `next`); that no free hook is threaded twice; what the words of
  vacant, free and parked hooks are; that undoing the last removal gives a well
  formed chain; and that counts follow. Lemmas about `Hooks` alone show that each
  operation keeps the list it works on; `Frame` keeps every other list; each
  action is then one case. `LinksInductive`, `LinksAreReciprocal`, `MarksStayTrue`
  follow. The order of the walks is a second induction over the same states
  (`OrderInv`): each list's words spell a sequence, just its members stand in it
  (`Told`), and restoring the last removal would spell what the list was before it
  (`UndoTold`). What an operation does to that sequence is a lemma of `HooksProofs`;
  `Moves` and `Touches` say that a step changes one list, or some, and no word of
  another's members, so the others still spell theirs (`ToldOne`, `ToldFrame`); and
  the sequence is what `Walk` reads (`ToldIs`). Each action is then one action of
  `Orders`: `LinksOrders`.
- `HooksProofs`: the words of a plane against a sequence, in the way of each kind of
  list. A chain spells it (`Spells`), a cycle closes it (`Circles`), a list without a
  last word piles it (`Piled`), a free list stacks it by `next` alone (`Stacked`). One
  lemma for each operation of `Hooks` says what the sequence becomes, and one for each
  kind that `Walk` reads it back. `LinksProofs` and `JoinsProofs` rest on it.
- `JoinsProofs`, from the assumptions of `Rounds` and `Resident`: `SlotsAreNodes`
  and `LanesAreIndices` (finitely many of each, END is none), `NoneIsNoPayload`, and for
  waiting rooms `SlotsAreCounted` (slots are numbered from 0) and `Distinct`. Neither `ScheduledIsInitialized` nor
  `PayloadFollowsTopology` is inductive: each reads a slot's state off one word, and a
  removal is right about the next slot only if the words on both sides of it are. The
  inductive invariants (`RoundsInv`, `RoomInv`) say that the words spell the promise:
  there is a sequence for each lane and one for each group's turns, its members'
  words name their neighbours (`Spells`, `Circles`), every lane with a slot is in its
  group's turn once and no other is, and a slot in no sequence has the words of one
  that waits for nothing. A lane's order is a witness here and not a walk, so nothing
  is said by recursion; that the walk of the words is the witness (`HooksProofs`) takes
  the least step at which they would differ. Lemmas show that each operation of `Joins`
  does to the words what an operator of `FairLanes` does to the sequences
  (push at the end, remove anywhere, serve and rotate). Then each action keeps the
  invariant and is a step of `FairLanes` or none: `RoundsInvariant`, `RoundsSchedule`,
  `RoundsTurns`, `RoundsFair`; `RoomInvariant`, `RoomsFollow`, `RoomsFair`.
- `SlabProofs`, from `SlabAssumption` (a capacity, at least one generation, NONE is
  no slot). `PlanesAgree` is not inductive: a removal trusts the position of its slot
  and a vacancy the links of a free one. The inductive invariant adds that the free
  links are written on both sides among the free slots of a part (`FreeLinks`), that
  the dense plane counts the live slots, what each guard tells of its slot
  (`SlotFits`, with the nested destructors in `NestFits`), and that an ended key is
  older than its slot (`SpentFits`). With epochs there are three more: stamps fit
  their slots, no epoch from the counter on was ever used, and while a grant is
  between its slot and its stamp nobody else can issue one (`Sole`). Each action
  then keeps each part, in one lemma for each kind of change. `SlabTypes`,
  `SlabPlanes`, `SlabStamps`, `SlabBurnsNothing` follow, and `SlabKeys`: every step is
  one of `KeySpace` or none. Back links never run in a circle (some rank falls along
  them), so the free slot of least rank is the head of its part, or follows the
  excluded one: a slab refuses exactly when it must (`SlabRefusals`,
  `SlabExclusions`). Relinking never reaches a slot somebody holds (`SlabGuards`).
  A walk of a whole free list meets every vacancy of its part once and ends
  (`SlabFreeLists`). That would be induction over data; instead of an induction the
  proof takes the least slot count at which the walk would go wrong (`LeastOf`).
- `BuffersProofs`, on pools, from the assumptions of `BufferPool` (`PoolAssumption` and what
  it says of spans and charges). None of the five invariants is inductive alone: a
  release trusts the count of its allocation, the count trusts the handles, and the
  resident total trusts both. The inductive invariant is `IInv`: the tables, spans
  and free lists of each allocation (`CoreFits`); each allocation's counts against
  the handles that name it (`HolderFits`); the charges of each domain
  (`ResidentFits`); and that a forgotten handle was one. Lemmas say what each
  operation does to one core, or to one core and one handle, and the step lemmas put
  them together; growing a span in place is proved as giving it back and taking a
  longer one. `PoolTables`, `PoolSpans`, `PoolFreeLists`, `PoolFreed` and
  `PoolResident` follow.
- `BuffersProofs`, on staging, from `StagingAssumption` (finitely many buffers and views, more
  backings than both, a warm size within the ceiling). The code tests one thing
  before it moves bytes in place, that nothing shares the backing; that this is
  enough rests on what `StagingInv` adds: no two buffers have one
  backing, a view of a buffer's backing ends before the byte that comes next, the
  accounts bound the warm slots that views pin, and every backing in use has a name.
  A step puts something in a new place (`RewrittenFits`, `MovedFits`, `ShrunkFits`,
  `ViewedFits`) and then sweeps what nothing names (`SweptKeeps`). `StagingBytes`
  follows; `StagingWarm` by counting the slots that are pinned and those of the other
  buffers; `StagingCeiling` because whatever is charged beyond what views hold and the
  buffer's own backing belongs to another buffer, a ceiling at most for each
  (`SumExceeds`).
- `Sums`: sums and walks. `SumOf` counts pairs, so that the library's theorems on
  cardinality apply to it. For `SumFunction` of the community modules, which is a fold,
  it proves that it moves by the change at a point (`SumChanges`), and that one sum
  exceeds another by no more than the terms do (`SumExceeds`): not by induction, but from
  the smallest set on which it would fail. A bounded walk along an injective function
  visits a finite set once and ends (`StepsCover`).

Model-checked only: that drains end (`DrainEnds`), since liveness is out of the
prover's reach; and the properties of maps and queues (`PlanesAreSound`,
`ImplementsMaps`, `QueuesAreSound`, `HeapsAreSound`, `GroupsAreSound`,
`ChangesAreReported`, `ImplementsQueues`). Each of those is a case on many small components, and what most of them promise is what a
recursive function (a probe, a backshift, the path of a hole) computes for every
input. The invariants that the proofs rest on are not runs of their own: that they
hold is what is proved.

## Plan

The core (credit, quota, slab, pools, staging, links, resident, rounds) came first,
then maps, heaps, queues over slots, and segments. What is left, in this order:

1. The round-robin set: `Slab` and the cycle of `Links` under one exclusive loan.
2. Shared resident buffers (`buffer/resident/shared`), window rings and their
   snapshots, on `Staging`.
3. Provided storage, write plans, ranges of holds and pool cursors, on `BufferPool`.
4. The keyed lanes and the fixed fifo of lanes in `queue/indexed`.
5. Bounded numbers as pure operators against integers.

Theorems planned, in this order: heap and positions inverse after any path in `HoleHeap`; totals of
`Segments` on `Sums`; the planes of the maps that have no recursion.
