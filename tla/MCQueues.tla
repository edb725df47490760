------------------------------ MODULE MCQueues ------------------------------
(* The queues over shared slots, the heaps, the planes of sets and groups,    *)
(* and the segment chains (with two pools, or fed by a fifo), one in each     *)
(* behaviour: which names it, the variables of the same name are shared and   *)
(* those it does not have are NONE. Four entries of a heap make a path of two *)
(* levels, and fill the right child of a left one; the keys of the ledger     *)
(* differ in each of three bits. The largest ledger only fills up: it is      *)
(* there for the batches that fail after several owners were made.            *)
EXTENDS Integers, Sequences, SequencesExt, TLC

CONSTANTS NONE, END, TOP, MCValues

VARIABLES which, kind, block, loan, ended, hook, chain, count, value, sweep, node, state,
          slot, key, tag, lane, guard, shape, store, hand, account, capacity, ring,
          entries, free, leases, listed, references, owners, retiring, plan, room, groups,
          vacant, allocated, hint, calls, heap, residents, reported, ordered, held,
          control, data, active, field, ready, written, size, timer, limit, records, scope,
          length, entry, tree

KeyedCapacity(k) == IF k = "keyed" THEN 4 ELSE 3
LedgerShapes ==
  {[lanes |-> 1, capacity |-> 4, owners |-> 3, branches |-> 3],
   [lanes |-> 1, capacity |-> 3, owners |-> 3, branches |-> 3],
   [lanes |-> 1, capacity |-> 3, owners |-> 2, branches |-> 3],
   [lanes |-> 2, capacity |-> 3, owners |-> 3, branches |-> 1]}
SegmentPlans == <<[nodes |-> 4, descriptors |-> 2], [nodes |-> 1, descriptors |-> 0]>>
SegmentItems == {[bytes |-> <<1, 2>>, mem |-> 3], [bytes |-> <<3>>, mem |-> 1]}
SegmentPolicies ==
  {[min |-> 1, factor |-> 1], [min |-> 1, factor |-> 2], [min |-> 2, factor |-> 2]}
LinkedShapes ==
  {[kind |-> "lanes", slots |-> 3, lanes |-> 2], [kind |-> "sorted", slots |-> 3, lanes |-> 2],
   [kind |-> "fixed", slots |-> 3, lanes |-> 1], [kind |-> "fair", slots |-> 4, lanes |-> 2]}

Slab == INSTANCE IndexedSlab
  WITH Capacity <- 3, MaxGeneration <- 2, BatchSizes <- {1, 2},
       LaneCount <- [chain |-> 1, tagged |-> 2], END <- TOP
Sweeps == INSTANCE SlotQueues
  WITH Capacity <- 3, Queues <- {1, 2}, Values <- MCValues, NoValue <- NONE,
       Kinds <- {"list", "shared"}, END <- TOP
Staged == INSTANCE StagedQueue
  WITH Capacity <- 3, None <- NONE
Table == INSTANCE LaneTable
  WITH Capacity <- 3, Lanes <- {1, 2}, Generations <- {1}, NoLane <- 0, END <- TOP
Linked == INSTANCE LinkedSlots
  WITH Shapes <- LinkedShapes, Values <- {1}, NoValue <- NONE, END <- TOP
Ring == INSTANCE Rings
  WITH Capacities <- {0, 3}, Values <- 1..4, NoValue <- NONE, END <- TOP,
       Kinds <- {"owned", "leased", "inline"}
Lent == INSTANCE Pools
  WITH Entries <- 1..3, POOL <- 98, END <- TOP, LIMIT <- 3,
       Plans <- {0, 1, 3, 5, 7}, MaxDepth <- 3
Keyed == INSTANCE KeyedHeap
  WITH Generations <- {1, 2}, Priorities <- {0, 1}, Kinds <- {"keyed", "resident"},
       Capacity <- KeyedCapacity
Indexed == INSTANCE IndexedHeap
  WITH Indices <- 0 .. 3, Priorities <- {0, 1}
Phased == INSTANCE PhasedHeap
  WITH Capacity <- 3, Priorities <- {0, 1}
Fifo == INSTANCE FifoHeap
  WITH Capacity <- 4, Priorities <- {0, 1}
Planes == INSTANCE PlaneSet
  WITH Limits <- {1, 2}, Planes <- {0, 1}, Excluded <- 0, N <- 2, TOP <- 9, END <- 99
Segs == INSTANCE Segments
  WITH Plans <- SegmentPlans, Chains <- {1, 2}, Items <- SegmentItems,
       Policies <- SegmentPolicies, Room <- [bytes |-> 0, segments |-> 0], LIMIT <- 4
Feed == INSTANCE Segments
  WITH Plans <- <<[nodes |-> 3, descriptors |-> 1]>>, Chains <- {1}, Items <- SegmentItems,
       Policies <- SegmentPolicies, Room <- [bytes |-> 4, segments |-> 3], LIMIT <- 5
Group == INSTANCE Ledger
  WITH Shapes <- LedgerShapes, Keys <- {0, 1, 3, 4}, Masks <- {1, 2, 4}, Batches <- {1, 3},
       None <- NONE

SlabInit ==
  /\ which = "slab" /\ Slab!Init
  /\ hook = NONE /\ chain = NONE /\ count = NONE /\ value = NONE /\ sweep = NONE
  /\ node = NONE /\ state = NONE /\ slot = NONE /\ key = NONE /\ tag = NONE /\ lane = NONE
  /\ guard = NONE /\ shape = NONE /\ store = NONE /\ hand = NONE /\ account = NONE
  /\ capacity = NONE /\ ring = NONE /\ entries = NONE /\ free = NONE /\ leases = NONE
  /\ listed = NONE /\ references = NONE /\ owners = NONE /\ retiring = NONE /\ plan = NONE
  /\ room = NONE /\ groups = NONE /\ vacant = NONE /\ allocated = NONE /\ hint = NONE
  /\ calls = NONE /\ heap = NONE /\ residents = NONE /\ reported = NONE /\ ordered = NONE
  /\ held = NONE /\ control = NONE /\ data = NONE /\ active = NONE /\ field = NONE
  /\ ready = NONE /\ written = NONE /\ size = NONE /\ timer = NONE /\ limit = NONE
  /\ records = NONE /\ scope = NONE /\ length = NONE /\ entry = NONE /\ tree = NONE
SlabStep ==
  /\ which = "slab" /\ Slab!Next /\ UNCHANGED which
  /\ UNCHANGED <<hook, chain, count, value, sweep, node, state, slot, key, tag, lane,
                 guard, shape, store, hand, account, capacity, ring, entries, free, leases,
                 listed, references, owners, retiring, plan, room, groups, vacant,
                 allocated, hint, calls, heap, residents, reported, ordered, held, control,
                 data, active, field, ready, written, size, timer, limit, records, scope,
                 length, entry, tree>>

SweepsInit ==
  /\ which = "slots" /\ Sweeps!Init
  /\ block = NONE /\ loan = NONE /\ ended = NONE /\ node = NONE /\ state = NONE
  /\ slot = NONE /\ key = NONE /\ tag = NONE /\ lane = NONE /\ guard = NONE /\ shape = NONE
  /\ store = NONE /\ hand = NONE /\ account = NONE /\ capacity = NONE /\ ring = NONE
  /\ entries = NONE /\ free = NONE /\ leases = NONE /\ listed = NONE /\ references = NONE
  /\ owners = NONE /\ retiring = NONE /\ plan = NONE /\ room = NONE /\ groups = NONE
  /\ vacant = NONE /\ allocated = NONE /\ hint = NONE /\ calls = NONE /\ heap = NONE
  /\ residents = NONE /\ reported = NONE /\ ordered = NONE /\ held = NONE /\ control = NONE
  /\ data = NONE /\ active = NONE /\ field = NONE /\ ready = NONE /\ written = NONE
  /\ size = NONE /\ timer = NONE /\ limit = NONE /\ records = NONE /\ scope = NONE
  /\ length = NONE /\ entry = NONE /\ tree = NONE
SweepsStep ==
  /\ which = "slots" /\ Sweeps!Next /\ UNCHANGED which
  /\ UNCHANGED <<block, loan, ended, node, state, slot, key, tag, lane, guard, shape,
                 store, hand, account, capacity, ring, entries, free, leases, listed,
                 references, owners, retiring, plan, room, groups, vacant, allocated, hint,
                 calls, heap, residents, reported, ordered, held, control, data, active,
                 field, ready, written, size, timer, limit, records, scope, length, entry,
                 tree>>

StagedInit ==
  /\ which = "staged" /\ Staged!Init
  /\ kind = NONE /\ block = NONE /\ loan = NONE /\ ended = NONE /\ hook = NONE
  /\ chain = NONE /\ count = NONE /\ value = NONE /\ sweep = NONE /\ key = NONE
  /\ tag = NONE /\ lane = NONE /\ guard = NONE /\ shape = NONE /\ store = NONE
  /\ hand = NONE /\ account = NONE /\ capacity = NONE /\ ring = NONE /\ entries = NONE
  /\ free = NONE /\ leases = NONE /\ listed = NONE /\ references = NONE /\ owners = NONE
  /\ retiring = NONE /\ plan = NONE /\ room = NONE /\ groups = NONE /\ vacant = NONE
  /\ allocated = NONE /\ hint = NONE /\ calls = NONE /\ heap = NONE /\ residents = NONE
  /\ reported = NONE /\ ordered = NONE /\ held = NONE /\ control = NONE /\ data = NONE
  /\ active = NONE /\ field = NONE /\ ready = NONE /\ written = NONE /\ size = NONE
  /\ timer = NONE /\ limit = NONE /\ records = NONE /\ scope = NONE /\ length = NONE
  /\ entry = NONE /\ tree = NONE
StagedStep ==
  /\ which = "staged" /\ Staged!Next /\ UNCHANGED which
  /\ UNCHANGED <<kind, block, loan, ended, hook, chain, count, value, sweep, key, tag,
                 lane, guard, shape, store, hand, account, capacity, ring, entries, free,
                 leases, listed, references, owners, retiring, plan, room, groups, vacant,
                 allocated, hint, calls, heap, residents, reported, ordered, held, control,
                 data, active, field, ready, written, size, timer, limit, records, scope,
                 length, entry, tree>>

TableInit ==
  /\ which = "lanes" /\ Table!Init
  /\ kind = NONE /\ block = NONE /\ loan = NONE /\ ended = NONE /\ count = NONE
  /\ value = NONE /\ sweep = NONE /\ node = NONE /\ state = NONE /\ slot = NONE
  /\ shape = NONE /\ store = NONE /\ hand = NONE /\ account = NONE /\ capacity = NONE
  /\ ring = NONE /\ entries = NONE /\ free = NONE /\ leases = NONE /\ listed = NONE
  /\ references = NONE /\ owners = NONE /\ retiring = NONE /\ plan = NONE /\ room = NONE
  /\ groups = NONE /\ vacant = NONE /\ allocated = NONE /\ hint = NONE /\ calls = NONE
  /\ heap = NONE /\ residents = NONE /\ reported = NONE /\ ordered = NONE /\ held = NONE
  /\ control = NONE /\ data = NONE /\ active = NONE /\ field = NONE /\ ready = NONE
  /\ written = NONE /\ size = NONE /\ timer = NONE /\ limit = NONE /\ records = NONE
  /\ scope = NONE /\ length = NONE /\ entry = NONE /\ tree = NONE
TableStep ==
  /\ which = "lanes" /\ Table!Next /\ UNCHANGED which
  /\ UNCHANGED <<kind, block, loan, ended, count, value, sweep, node, state, slot, shape,
                 store, hand, account, capacity, ring, entries, free, leases, listed,
                 references, owners, retiring, plan, room, groups, vacant, allocated, hint,
                 calls, heap, residents, reported, ordered, held, control, data, active,
                 field, ready, written, size, timer, limit, records, scope, length, entry,
                 tree>>

LinkedInit ==
  /\ which = "linked" /\ Linked!Init
  /\ kind = NONE /\ block = NONE /\ loan = NONE /\ ended = NONE /\ hook = NONE
  /\ chain = NONE /\ count = NONE /\ value = NONE /\ sweep = NONE /\ node = NONE
  /\ state = NONE /\ slot = NONE /\ key = NONE /\ tag = NONE /\ guard = NONE
  /\ capacity = NONE /\ ring = NONE /\ entries = NONE /\ free = NONE /\ leases = NONE
  /\ listed = NONE /\ references = NONE /\ owners = NONE /\ retiring = NONE /\ plan = NONE
  /\ room = NONE /\ groups = NONE /\ vacant = NONE /\ allocated = NONE /\ hint = NONE
  /\ calls = NONE /\ heap = NONE /\ residents = NONE /\ reported = NONE /\ ordered = NONE
  /\ held = NONE /\ control = NONE /\ data = NONE /\ active = NONE /\ field = NONE
  /\ ready = NONE /\ written = NONE /\ size = NONE /\ timer = NONE /\ limit = NONE
  /\ records = NONE /\ scope = NONE /\ length = NONE /\ entry = NONE /\ tree = NONE
LinkedStep ==
  /\ which = "linked" /\ Linked!Next /\ UNCHANGED which
  /\ UNCHANGED <<kind, block, loan, ended, hook, chain, count, value, sweep, node, state,
                 slot, key, tag, guard, capacity, ring, entries, free, leases, listed,
                 references, owners, retiring, plan, room, groups, vacant, allocated, hint,
                 calls, heap, residents, reported, ordered, held, control, data, active,
                 field, ready, written, size, timer, limit, records, scope, length, entry,
                 tree>>

RingInit ==
  /\ which = "rings" /\ Ring!Init
  /\ block = NONE /\ loan = NONE /\ ended = NONE /\ hook = NONE /\ chain = NONE
  /\ count = NONE /\ value = NONE /\ sweep = NONE /\ node = NONE /\ state = NONE
  /\ slot = NONE /\ key = NONE /\ tag = NONE /\ lane = NONE /\ guard = NONE /\ shape = NONE
  /\ store = NONE /\ hand = NONE /\ account = NONE /\ references = NONE /\ owners = NONE
  /\ retiring = NONE /\ plan = NONE /\ room = NONE /\ groups = NONE /\ vacant = NONE
  /\ allocated = NONE /\ hint = NONE /\ calls = NONE /\ heap = NONE /\ residents = NONE
  /\ reported = NONE /\ ordered = NONE /\ held = NONE /\ control = NONE /\ data = NONE
  /\ active = NONE /\ field = NONE /\ ready = NONE /\ written = NONE /\ size = NONE
  /\ timer = NONE /\ limit = NONE /\ records = NONE /\ scope = NONE /\ length = NONE
  /\ entry = NONE /\ tree = NONE
RingStep ==
  /\ which = "rings" /\ Ring!Next /\ UNCHANGED which
  /\ UNCHANGED <<block, loan, ended, hook, chain, count, value, sweep, node, state, slot,
                 key, tag, lane, guard, shape, store, hand, account, references, owners,
                 retiring, plan, room, groups, vacant, allocated, hint, calls, heap,
                 residents, reported, ordered, held, control, data, active, field, ready,
                 written, size, timer, limit, records, scope, length, entry, tree>>

ArenaInit ==
  /\ which = "pool" /\ Lent!EntriesInit
  /\ kind = NONE /\ block = NONE /\ loan = NONE /\ ended = NONE /\ hook = NONE
  /\ chain = NONE /\ count = NONE /\ sweep = NONE /\ node = NONE /\ slot = NONE
  /\ key = NONE /\ tag = NONE /\ lane = NONE /\ guard = NONE /\ shape = NONE
  /\ store = NONE /\ hand = NONE /\ account = NONE /\ capacity = NONE /\ ring = NONE
  /\ entries = NONE /\ leases = NONE /\ listed = NONE /\ plan = NONE /\ room = NONE
  /\ groups = NONE /\ vacant = NONE /\ allocated = NONE /\ hint = NONE /\ calls = NONE
  /\ heap = NONE /\ residents = NONE /\ reported = NONE /\ ordered = NONE /\ held = NONE
  /\ control = NONE /\ data = NONE /\ active = NONE /\ field = NONE /\ ready = NONE
  /\ written = NONE /\ size = NONE /\ timer = NONE /\ limit = NONE /\ records = NONE
  /\ scope = NONE /\ length = NONE /\ entry = NONE /\ tree = NONE
ArenaStep ==
  /\ which = "pool" /\ Lent!EntriesNext /\ UNCHANGED which
  /\ UNCHANGED <<kind, block, loan, ended, hook, chain, count, sweep, node, slot, key, tag,
                 lane, guard, shape, store, hand, account, capacity, ring, entries, leases,
                 listed, plan, room, groups, vacant, allocated, hint, calls, heap,
                 residents, reported, ordered, held, control, data, active, field, ready,
                 written, size, timer, limit, records, scope, length, entry, tree>>

GroupsInit ==
  /\ which = "growing" /\ Lent!GroupsInit
  /\ kind = NONE /\ block = NONE /\ loan = NONE /\ ended = NONE /\ hook = NONE
  /\ chain = NONE /\ count = NONE /\ value = NONE /\ sweep = NONE /\ node = NONE
  /\ state = NONE /\ slot = NONE /\ key = NONE /\ tag = NONE /\ lane = NONE /\ guard = NONE
  /\ shape = NONE /\ store = NONE /\ hand = NONE /\ account = NONE /\ capacity = NONE
  /\ ring = NONE /\ entries = NONE /\ free = NONE /\ leases = NONE /\ listed = NONE
  /\ references = NONE /\ owners = NONE /\ retiring = NONE /\ heap = NONE
  /\ residents = NONE /\ reported = NONE /\ ordered = NONE /\ held = NONE /\ control = NONE
  /\ data = NONE /\ active = NONE /\ field = NONE /\ ready = NONE /\ written = NONE
  /\ size = NONE /\ timer = NONE /\ limit = NONE /\ records = NONE /\ scope = NONE
  /\ length = NONE /\ entry = NONE /\ tree = NONE
GroupsStep ==
  /\ which = "growing" /\ Lent!GroupsNext /\ UNCHANGED which
  /\ UNCHANGED <<kind, block, loan, ended, hook, chain, count, value, sweep, node, state,
                 slot, key, tag, lane, guard, shape, store, hand, account, capacity, ring,
                 entries, free, leases, listed, references, owners, retiring, heap,
                 residents, reported, ordered, held, control, data, active, field, ready,
                 written, size, timer, limit, records, scope, length, entry, tree>>

KeyedInit ==
  /\ which = "keyed" /\ Keyed!Init
  /\ block = NONE /\ loan = NONE /\ ended = NONE /\ hook = NONE /\ chain = NONE
  /\ count = NONE /\ value = NONE /\ sweep = NONE /\ node = NONE /\ state = NONE
  /\ slot = NONE /\ key = NONE /\ tag = NONE /\ lane = NONE /\ guard = NONE /\ shape = NONE
  /\ store = NONE /\ hand = NONE /\ account = NONE /\ capacity = NONE /\ ring = NONE
  /\ entries = NONE /\ free = NONE /\ leases = NONE /\ listed = NONE /\ references = NONE
  /\ owners = NONE /\ retiring = NONE /\ plan = NONE /\ room = NONE /\ groups = NONE
  /\ vacant = NONE /\ allocated = NONE /\ hint = NONE /\ calls = NONE /\ ordered = NONE
  /\ held = NONE /\ control = NONE /\ data = NONE /\ active = NONE /\ field = NONE
  /\ ready = NONE /\ written = NONE /\ size = NONE /\ timer = NONE /\ limit = NONE
  /\ records = NONE /\ scope = NONE /\ length = NONE /\ entry = NONE /\ tree = NONE
KeyedStep ==
  /\ which = "keyed" /\ Keyed!Next /\ UNCHANGED which
  /\ UNCHANGED <<block, loan, ended, hook, chain, count, value, sweep, node, state, slot,
                 key, tag, lane, guard, shape, store, hand, account, capacity, ring,
                 entries, free, leases, listed, references, owners, retiring, plan, room,
                 groups, vacant, allocated, hint, calls, ordered, held, control, data,
                 active, field, ready, written, size, timer, limit, records, scope, length,
                 entry, tree>>

IndexedInit ==
  /\ which = "indexed" /\ Indexed!Init
  /\ kind = NONE /\ block = NONE /\ loan = NONE /\ ended = NONE /\ hook = NONE
  /\ chain = NONE /\ count = NONE /\ value = NONE /\ sweep = NONE /\ node = NONE
  /\ state = NONE /\ slot = NONE /\ key = NONE /\ tag = NONE /\ lane = NONE /\ guard = NONE
  /\ shape = NONE /\ store = NONE /\ hand = NONE /\ account = NONE /\ capacity = NONE
  /\ ring = NONE /\ entries = NONE /\ free = NONE /\ leases = NONE /\ listed = NONE
  /\ references = NONE /\ owners = NONE /\ retiring = NONE /\ plan = NONE /\ room = NONE
  /\ groups = NONE /\ vacant = NONE /\ allocated = NONE /\ hint = NONE /\ calls = NONE
  /\ residents = NONE /\ reported = NONE /\ control = NONE /\ data = NONE /\ active = NONE
  /\ field = NONE /\ ready = NONE /\ written = NONE /\ size = NONE /\ timer = NONE
  /\ limit = NONE /\ records = NONE /\ scope = NONE /\ length = NONE /\ entry = NONE
  /\ tree = NONE
IndexedStep ==
  /\ which = "indexed" /\ Indexed!Next /\ UNCHANGED which
  /\ UNCHANGED <<kind, block, loan, ended, hook, chain, count, value, sweep, node, state,
                 slot, key, tag, lane, guard, shape, store, hand, account, capacity, ring,
                 entries, free, leases, listed, references, owners, retiring, plan, room,
                 groups, vacant, allocated, hint, calls, residents, reported, control,
                 data, active, field, ready, written, size, timer, limit, records, scope,
                 length, entry, tree>>

PhasedInit ==
  /\ which = "phased" /\ Phased!Init
  /\ kind = NONE /\ block = NONE /\ loan = NONE /\ ended = NONE /\ chain = NONE
  /\ count = NONE /\ value = NONE /\ sweep = NONE /\ node = NONE /\ state = NONE
  /\ slot = NONE /\ key = NONE /\ lane = NONE /\ guard = NONE /\ shape = NONE
  /\ store = NONE /\ hand = NONE /\ account = NONE /\ capacity = NONE /\ ring = NONE
  /\ entries = NONE /\ free = NONE /\ leases = NONE /\ listed = NONE /\ references = NONE
  /\ owners = NONE /\ retiring = NONE /\ plan = NONE /\ room = NONE /\ groups = NONE
  /\ vacant = NONE /\ allocated = NONE /\ hint = NONE /\ calls = NONE /\ residents = NONE
  /\ reported = NONE /\ ordered = NONE /\ held = NONE /\ ready = NONE /\ written = NONE
  /\ size = NONE /\ timer = NONE /\ limit = NONE /\ records = NONE /\ scope = NONE
  /\ length = NONE /\ entry = NONE /\ tree = NONE
PhasedStep ==
  /\ which = "phased" /\ Phased!Next /\ UNCHANGED which
  /\ UNCHANGED <<kind, block, loan, ended, chain, count, value, sweep, node, state, slot,
                 key, lane, guard, shape, store, hand, account, capacity, ring, entries,
                 free, leases, listed, references, owners, retiring, plan, room, groups,
                 vacant, allocated, hint, calls, residents, reported, ordered, held, ready,
                 written, size, timer, limit, records, scope, length, entry, tree>>

FifoInit ==
  /\ which = "fifo" /\ Fifo!Init
  /\ kind = NONE /\ block = NONE /\ loan = NONE /\ ended = NONE /\ chain = NONE
  /\ count = NONE /\ value = NONE /\ node = NONE /\ state = NONE /\ slot = NONE
  /\ key = NONE /\ tag = NONE /\ lane = NONE /\ guard = NONE /\ shape = NONE
  /\ store = NONE /\ hand = NONE /\ account = NONE /\ capacity = NONE /\ ring = NONE
  /\ entries = NONE /\ leases = NONE /\ listed = NONE /\ references = NONE /\ owners = NONE
  /\ retiring = NONE /\ plan = NONE /\ room = NONE /\ groups = NONE /\ vacant = NONE
  /\ allocated = NONE /\ hint = NONE /\ calls = NONE /\ residents = NONE /\ reported = NONE
  /\ ordered = NONE /\ held = NONE /\ control = NONE /\ data = NONE /\ active = NONE
  /\ field = NONE /\ size = NONE /\ timer = NONE /\ limit = NONE /\ records = NONE
  /\ scope = NONE /\ length = NONE /\ entry = NONE /\ tree = NONE
FifoStep ==
  /\ which = "fifo" /\ Fifo!Next /\ UNCHANGED which
  /\ UNCHANGED <<kind, block, loan, ended, chain, count, value, node, state, slot, key,
                 tag, lane, guard, shape, store, hand, account, capacity, ring, entries,
                 leases, listed, references, owners, retiring, plan, room, groups, vacant,
                 allocated, hint, calls, residents, reported, ordered, held, control, data,
                 active, field, size, timer, limit, records, scope, length, entry, tree>>

PlanesInit ==
  /\ which = "planes" /\ Planes!Init
  /\ kind = NONE /\ block = NONE /\ loan = NONE /\ ended = NONE /\ sweep = NONE
  /\ node = NONE /\ state = NONE /\ slot = NONE /\ key = NONE /\ tag = NONE /\ lane = NONE
  /\ guard = NONE /\ shape = NONE /\ store = NONE /\ hand = NONE /\ account = NONE
  /\ capacity = NONE /\ ring = NONE /\ entries = NONE /\ free = NONE /\ leases = NONE
  /\ listed = NONE /\ references = NONE /\ owners = NONE /\ retiring = NONE /\ plan = NONE
  /\ room = NONE /\ groups = NONE /\ vacant = NONE /\ allocated = NONE /\ hint = NONE
  /\ calls = NONE /\ heap = NONE /\ residents = NONE /\ reported = NONE /\ ordered = NONE
  /\ held = NONE /\ control = NONE /\ data = NONE /\ active = NONE /\ field = NONE
  /\ ready = NONE /\ written = NONE /\ length = NONE /\ entry = NONE /\ tree = NONE
PlanesStep ==
  /\ which = "planes" /\ Planes!Next /\ UNCHANGED which
  /\ UNCHANGED <<kind, block, loan, ended, sweep, node, state, slot, key, tag, lane, guard,
                 shape, store, hand, account, capacity, ring, entries, free, leases,
                 listed, references, owners, retiring, plan, room, groups, vacant,
                 allocated, hint, calls, heap, residents, reported, ordered, held, control,
                 data, active, field, ready, written, length, entry, tree>>

SegsInit ==
  /\ which = "segments" /\ Segs!Init
  /\ kind = NONE /\ block = NONE /\ loan = NONE /\ ended = NONE /\ hook = NONE
  /\ count = NONE /\ value = NONE /\ sweep = NONE /\ node = NONE /\ state = NONE
  /\ slot = NONE /\ key = NONE /\ tag = NONE /\ lane = NONE /\ guard = NONE /\ shape = NONE
  /\ hand = NONE /\ account = NONE /\ capacity = NONE /\ ring = NONE /\ free = NONE
  /\ leases = NONE /\ listed = NONE /\ references = NONE /\ owners = NONE
  /\ retiring = NONE /\ plan = NONE /\ room = NONE /\ groups = NONE /\ vacant = NONE
  /\ allocated = NONE /\ hint = NONE /\ calls = NONE /\ heap = NONE /\ residents = NONE
  /\ reported = NONE /\ ordered = NONE /\ held = NONE /\ control = NONE /\ data = NONE
  /\ active = NONE /\ field = NONE /\ ready = NONE /\ written = NONE /\ size = NONE
  /\ timer = NONE /\ limit = NONE /\ records = NONE /\ scope = NONE /\ entry = NONE
  /\ tree = NONE
SegsStep ==
  /\ which = "segments" /\ Segs!Next /\ UNCHANGED which
  /\ UNCHANGED <<kind, block, loan, ended, hook, count, value, sweep, node, state, slot,
                 key, tag, lane, guard, shape, hand, account, capacity, ring, free, leases,
                 listed, references, owners, retiring, plan, room, groups, vacant,
                 allocated, hint, calls, heap, residents, reported, ordered, held, control,
                 data, active, field, ready, written, size, timer, limit, records, scope,
                 entry, tree>>

FeedInit ==
  /\ which = "feed" /\ Feed!Init
  /\ kind = NONE /\ block = NONE /\ loan = NONE /\ ended = NONE /\ hook = NONE
  /\ count = NONE /\ value = NONE /\ sweep = NONE /\ node = NONE /\ state = NONE
  /\ slot = NONE /\ key = NONE /\ tag = NONE /\ lane = NONE /\ guard = NONE /\ shape = NONE
  /\ hand = NONE /\ account = NONE /\ capacity = NONE /\ ring = NONE /\ free = NONE
  /\ leases = NONE /\ listed = NONE /\ references = NONE /\ owners = NONE
  /\ retiring = NONE /\ plan = NONE /\ room = NONE /\ groups = NONE /\ vacant = NONE
  /\ allocated = NONE /\ hint = NONE /\ calls = NONE /\ heap = NONE /\ residents = NONE
  /\ reported = NONE /\ ordered = NONE /\ held = NONE /\ control = NONE /\ data = NONE
  /\ active = NONE /\ field = NONE /\ ready = NONE /\ written = NONE /\ size = NONE
  /\ timer = NONE /\ limit = NONE /\ records = NONE /\ scope = NONE /\ entry = NONE
  /\ tree = NONE
FeedStep ==
  /\ which = "feed" /\ Feed!Next /\ UNCHANGED which
  /\ UNCHANGED <<kind, block, loan, ended, hook, count, value, sweep, node, state, slot,
                 key, tag, lane, guard, shape, hand, account, capacity, ring, free, leases,
                 listed, references, owners, retiring, plan, room, groups, vacant,
                 allocated, hint, calls, heap, residents, reported, ordered, held, control,
                 data, active, field, ready, written, size, timer, limit, records, scope,
                 entry, tree>>

GroupInit ==
  /\ which = "group" /\ Group!Init
  /\ kind = NONE /\ block = NONE /\ loan = NONE /\ ended = NONE /\ hook = NONE
  /\ chain = NONE /\ count = NONE /\ value = NONE /\ sweep = NONE /\ node = NONE
  /\ state = NONE /\ slot = NONE /\ key = NONE /\ tag = NONE /\ store = NONE /\ hand = NONE
  /\ account = NONE /\ capacity = NONE /\ ring = NONE /\ entries = NONE /\ free = NONE
  /\ leases = NONE /\ listed = NONE /\ references = NONE /\ owners = NONE
  /\ retiring = NONE /\ plan = NONE /\ room = NONE /\ groups = NONE /\ vacant = NONE
  /\ allocated = NONE /\ hint = NONE /\ calls = NONE /\ heap = NONE /\ residents = NONE
  /\ reported = NONE /\ ordered = NONE /\ held = NONE /\ control = NONE /\ data = NONE
  /\ active = NONE /\ field = NONE /\ ready = NONE /\ written = NONE /\ size = NONE
  /\ timer = NONE /\ limit = NONE /\ records = NONE /\ scope = NONE
GroupStep ==
  /\ which = "group" /\ Group!Next /\ UNCHANGED which
  /\ shape.capacity = 4 => guard' = Group!NoGuard /\ Len(lane'[0]) >= Len(lane[0])
  /\ UNCHANGED <<kind, block, loan, ended, hook, chain, count, value, sweep, node, state,
                 slot, key, tag, store, hand, account, capacity, ring, entries, free,
                 leases, listed, references, owners, retiring, plan, room, groups, vacant,
                 allocated, hint, calls, heap, residents, reported, ordered, held, control,
                 data, active, field, ready, written, size, timer, limit, records, scope>>

Init == SlabInit \/ SweepsInit \/ StagedInit \/ TableInit \/ LinkedInit \/ RingInit \/ ArenaInit \/ GroupsInit \/ KeyedInit \/ IndexedInit \/ PhasedInit \/ FifoInit \/ PlanesInit \/ SegsInit \/ FeedInit \/ GroupInit
Next == SlabStep \/ SweepsStep \/ StagedStep \/ TableStep \/ LinkedStep \/ RingStep \/ ArenaStep \/ GroupsStep \/ KeyedStep \/ IndexedStep \/ PhasedStep \/ FifoStep \/ PlanesStep \/ SegsStep \/ FeedStep \/ GroupStep

vars == <<which, kind, block, loan, ended, hook, chain, count, value, sweep, node, state,
          slot, key, tag, lane, guard, shape, store, hand, account, capacity, ring,
          entries, free, leases, listed, references, owners, retiring, plan, room, groups,
          vacant, allocated, hint, calls, heap, residents, reported, ordered, held,
          control, data, active, field, ready, written, size, timer, limit, records, scope,
          length, entry, tree>>
Spec == Init /\ [][Next]_vars

\* What each queue keeps of its parts, in the words of its own module.
QueuesAreSound ==
  CASE which = "slab"   -> Slab!SlabIsTold
    [] which = "slots"  -> Sweeps!SlotsWaitOnce
    [] which = "staged" -> Staged!StagesAreTold
    [] which = "lanes"  -> Table!LanesAreNamed
    [] which = "linked" -> Linked!SlotsAreCovered
    [] which = "rings"  -> Ring!PlacesAreKept
    [] which = "pool"   -> Lent!EntriesAreLent
    [] which = "growing" -> Lent!GroupsFit
    [] which = "segments" -> Segs!TotalsAreTold
    [] which = "feed"   -> Feed!TotalsAreTold
    [] OTHER -> TRUE

\* What each heap keeps of its planes.
HeapsAreSound ==
  CASE which = "keyed"   -> Keyed!KeyedPlanes
    [] which = "indexed" -> Indexed!IndexedPlanes
    [] which = "phased"  -> Phased!FieldIsTold
    [] which = "fifo"    -> Fifo!SlotsAreWhole
    [] OTHER -> TRUE

\* What the sets and the ledgers of several planes keep of them.
GroupsAreSound ==
  CASE which = "planes" -> Planes!PartsAgree
    [] which = "group"  -> Group!LedgerIsSound
    [] OTHER -> TRUE

\* Moving a path changes nobody's entry but the one asked about, and a caller
\* told that only contents changed has the minimum it had before; splitting,
\* joining and moving segments keeps every byte, in order, that was not consumed.
ChangesAreReported ==
  [][CASE which = "keyed"    -> Keyed!OneChange
       [] which = "segments" -> Segs!OrderIsKept
       [] which = "feed"     -> Feed!OrderIsKept
       [] OTHER -> TRUE]_vars

-----------------------------------------------------------------------------
\* Every queue is a set of lists of which one call moves just what it names;
\* a slab, a sweep and a clear may take several, and the withdrawal of a lane
\* table may be undone.  The nodes are the slots, for a ring its values, for an
\* entry pool the free entries.
AllNodes == (0..2) \X (0..4)
Slots(l) ==
  CASE which = "slab" /\ l \in Slab!Lanes -> Slab!TagOrder(block, l)
    [] which = "slots" /\ l \in Sweeps!Used -> Sweeps!Order(l)
    [] which = "staged" /\ l = 1 -> Staged!Queue
    [] which = "staged" /\ l = 2 -> Staged!Parked
    [] which = "lanes" /\ l \in 1..2 -> Table!Order(l)
    [] which = "linked" /\ shape.kind \in {"lanes", "fair"} /\ l \in Linked!Lanes -> Linked!Order(l)
    [] which = "rings" /\ l = 1 -> IF kind = "inline"
                                   THEN LET places == Ring!Listed("pending")
                                        IN [n \in DOMAIN places |-> entries[places[n]]]
                                   ELSE Ring!Order
    [] which = "pool" /\ l = 3 -> Lent!FreeEntries
    [] OTHER -> <<>>
\* A slot may wait in several lists of the slots alone.
Named(l, i) == <<IF which = "slots" THEN l ELSE 0, i>>
ListOf(l) == LET slots == Slots(l) IN [n \in DOMAIN slots |-> Named(l, slots[n])]
Withdrawn ==
  LET rest == ListOf(guard.lane)
      gone == Named(guard.lane, guard.slot)
      at == IF guard.next = TOP THEN Len(rest) + 1
            ELSE CHOOSE n \in DOMAIN rest : rest[n] = Named(guard.lane, guard.next)
  IN IF which = "lanes" /\ ~ Table!Free /\ guard.lane # 0
     THEN [list |-> guard.lane, node |-> gone, was |-> InsertAt(rest, at, gone)]
     ELSE <<>>
Lists ==
  INSTANCE Orders
    WITH Nodes <- AllNodes, Fifos <- 0..3, Stacks <- 0..3, Pool <- 3, NoUndo <- <<>>, Bulk <- TRUE,
         order <- [l \in 0..3 |-> ListOf(l)],
         loose <- AllNodes \ UNION {ToSet(ListOf(l)) : l \in 0..3},
         undo <- Withdrawn
HasLists == which \in {"slab", "slots", "staged", "lanes", "linked", "rings", "pool"}
ImplementsQueues == Lists!Init /\ [][HasLists => Lists!Next]_(Lists!vars)
=============================================================================
