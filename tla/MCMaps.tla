------------------------------- MODULE MCMaps -------------------------------
(* The five maps of depot/map, the one of queue/indexed/planes, the hash      *)
(* arena and the index sets, one in each behaviour: which names it, the       *)
(* variables of the same name are shared and those it does not have are NONE. *)
(* Hashes are chosen so that homes collide and the last bucket wraps around   *)
(* to the first.                                                              *)
EXTENDS Integers, Sequences, FiniteSets, Functions, TLC

CONSTANTS NONE, END, MCKeys, MCValues

VARIABLES which, capacity, buckets, hashOf, table, len, reply, planned, records, directory,
          free, available, scope, held, leases, fresh, domain, controls, payloads, indexed,
          nodes, heap, next, record, hook, chain, count, keys, values, form, meta, value,
          dense, mode, size, words, cursor, hand

Flat == INSTANCE FlatTable
  WITH Keys <- MCKeys, Values <- MCValues, Hashes <- {6, 7, 15}, Capacities <- {0, 2, 3}
Resident == INSTANCE ResidentTable
  WITH Ids <- MCKeys, Values <- MCValues, Hashes <- {2, 3}, Planned <- {0, 2}, MAX <- 1
Compact == INSTANCE CompactTable
  WITH Width <- 4, Byte <- 2, Domains <- {3, 4}, Hashes <- {2, 7, 15}
Priority == INSTANCE PriorityTable
  WITH Keys <- MCKeys, Values <- MCValues, Priorities <- {0, 1}, Hashes <- {7, 15},
       Capacities <- {0, 2, 3}
Planed == INSTANCE PlaneMap
  WITH Keys <- MCKeys, Values <- MCValues, Hashes <- {3, 7}, Capacities <- {2},
       Slots <- 1..3, Planes <- {1}
Direct == INSTANCE DirectTable
  WITH Capacity <- 3, Generations <- {1, 2}
Hashed == INSTANCE HashArena
  WITH Ids <- MCKeys, Hashes <- {3, 7}, Capacities <- {0, 2}, MAX <- 1
Sets == INSTANCE IndexSets
  WITH Radix <- 2, Sizes <- [planar |-> {0, 3}, disjoint |-> {0, 1, 3, 5}],
       Planes <- {0, 1}, MaxHand <- [n \in 0 .. 5 |-> IF n = 5 THEN 1 ELSE 2]

FlatInit ==
  /\ which = "flat" /\ Flat!Init
  /\ planned = NONE /\ records = NONE /\ directory = NONE /\ free = NONE
  /\ available = NONE /\ scope = NONE /\ held = NONE /\ leases = NONE /\ fresh = NONE
  /\ domain = NONE /\ controls = NONE /\ payloads = NONE /\ indexed = NONE /\ nodes = NONE
  /\ heap = NONE /\ next = NONE /\ record = NONE /\ hook = NONE /\ chain = NONE
  /\ count = NONE /\ keys = NONE /\ values = NONE /\ form = NONE /\ meta = NONE
  /\ value = NONE /\ dense = NONE /\ mode = NONE /\ size = NONE /\ words = NONE
  /\ cursor = NONE /\ hand = NONE
FlatStep ==
  /\ which = "flat" /\ Flat!Next /\ UNCHANGED which
  /\ UNCHANGED <<planned, records, directory, free, available, scope, held, leases, fresh,
                 domain, controls, payloads, indexed, nodes, heap, next, record, hook,
                 chain, count, keys, values, form, meta, value, dense, mode, size, words,
                 cursor, hand>>

ResidentInit ==
  /\ which = "resident" /\ Resident!Init
  /\ capacity = NONE /\ table = NONE /\ len = NONE /\ domain = NONE /\ controls = NONE
  /\ payloads = NONE /\ indexed = NONE /\ nodes = NONE /\ heap = NONE /\ next = NONE
  /\ record = NONE /\ hook = NONE /\ chain = NONE /\ count = NONE /\ keys = NONE
  /\ values = NONE /\ form = NONE /\ meta = NONE /\ value = NONE /\ dense = NONE
  /\ mode = NONE /\ size = NONE /\ words = NONE /\ cursor = NONE /\ hand = NONE
ResidentStep ==
  /\ which = "resident" /\ Resident!Next /\ UNCHANGED which
  /\ UNCHANGED <<capacity, table, len, domain, controls, payloads, indexed, nodes, heap,
                 next, record, hook, chain, count, keys, values, form, meta, value, dense,
                 mode, size, words, cursor, hand>>

CompactInit ==
  /\ which = "compact" /\ Compact!Init
  /\ capacity = NONE /\ table = NONE /\ len = NONE /\ reply = NONE /\ planned = NONE
  /\ records = NONE /\ directory = NONE /\ free = NONE /\ available = NONE /\ scope = NONE
  /\ held = NONE /\ leases = NONE /\ fresh = NONE /\ nodes = NONE /\ heap = NONE
  /\ next = NONE /\ record = NONE /\ hook = NONE /\ chain = NONE /\ count = NONE
  /\ keys = NONE /\ values = NONE /\ form = NONE /\ meta = NONE /\ value = NONE
  /\ dense = NONE /\ mode = NONE /\ size = NONE /\ words = NONE /\ cursor = NONE
  /\ hand = NONE
CompactStep ==
  /\ which = "compact" /\ Compact!Next /\ UNCHANGED which
  /\ UNCHANGED <<capacity, table, len, reply, planned, records, directory, free, available,
                 scope, held, leases, fresh, nodes, heap, next, record, hook, chain, count,
                 keys, values, form, meta, value, dense, mode, size, words, cursor, hand>>

PriorityInit ==
  /\ which = "priority" /\ Priority!Init
  /\ len = NONE /\ planned = NONE /\ records = NONE /\ directory = NONE /\ available = NONE
  /\ scope = NONE /\ held = NONE /\ leases = NONE /\ fresh = NONE /\ domain = NONE
  /\ controls = NONE /\ payloads = NONE /\ indexed = NONE /\ record = NONE /\ hook = NONE
  /\ chain = NONE /\ count = NONE /\ keys = NONE /\ values = NONE /\ form = NONE
  /\ meta = NONE /\ value = NONE /\ dense = NONE /\ mode = NONE /\ size = NONE
  /\ words = NONE /\ cursor = NONE /\ hand = NONE
PriorityStep ==
  /\ which = "priority" /\ Priority!Next /\ UNCHANGED which
  /\ UNCHANGED <<len, planned, records, directory, available, scope, held, leases, fresh,
                 domain, controls, payloads, indexed, record, hook, chain, count, keys,
                 values, form, meta, value, dense, mode, size, words, cursor, hand>>

PlanedInit ==
  /\ which = "planes" /\ Planed!Init
  /\ buckets = NONE /\ table = NONE /\ len = NONE /\ planned = NONE /\ records = NONE
  /\ free = NONE /\ available = NONE /\ scope = NONE /\ held = NONE /\ leases = NONE
  /\ fresh = NONE /\ domain = NONE /\ controls = NONE /\ payloads = NONE /\ indexed = NONE
  /\ nodes = NONE /\ heap = NONE /\ next = NONE /\ keys = NONE /\ values = NONE
  /\ form = NONE /\ meta = NONE /\ value = NONE /\ dense = NONE /\ mode = NONE
  /\ size = NONE /\ words = NONE /\ cursor = NONE /\ hand = NONE
PlanedStep ==
  /\ which = "planes" /\ Planed!Next /\ UNCHANGED which
  /\ UNCHANGED <<buckets, table, len, planned, records, free, available, scope, held,
                 leases, fresh, domain, controls, payloads, indexed, nodes, heap, next,
                 keys, values, form, meta, value, dense, mode, size, words, cursor, hand>>

DirectInit ==
  /\ which = "direct" /\ Direct!Init
  /\ capacity = NONE /\ buckets = NONE /\ hashOf = NONE /\ table = NONE /\ reply = NONE
  /\ planned = NONE /\ records = NONE /\ directory = NONE /\ free = NONE
  /\ available = NONE /\ scope = NONE /\ leases = NONE /\ fresh = NONE /\ domain = NONE
  /\ controls = NONE /\ payloads = NONE /\ indexed = NONE /\ nodes = NONE /\ heap = NONE
  /\ next = NONE /\ record = NONE /\ hook = NONE /\ chain = NONE /\ count = NONE
  /\ form = NONE /\ meta = NONE /\ value = NONE /\ dense = NONE /\ mode = NONE
  /\ size = NONE /\ words = NONE /\ cursor = NONE /\ hand = NONE
DirectStep ==
  /\ which = "direct" /\ Direct!Next /\ UNCHANGED which
  /\ UNCHANGED <<capacity, buckets, hashOf, table, reply, planned, records, directory,
                 free, available, scope, leases, fresh, domain, controls, payloads,
                 indexed, nodes, heap, next, record, hook, chain, count, form, meta, value,
                 dense, mode, size, words, cursor, hand>>

HashedInit ==
  /\ which = "hash" /\ Hashed!Init
  /\ table = NONE /\ len = NONE /\ planned = NONE /\ records = NONE /\ available = NONE
  /\ scope = NONE /\ leases = NONE /\ fresh = NONE /\ domain = NONE /\ controls = NONE
  /\ payloads = NONE /\ indexed = NONE /\ nodes = NONE /\ heap = NONE /\ next = NONE
  /\ record = NONE /\ hook = NONE /\ chain = NONE /\ count = NONE /\ keys = NONE
  /\ values = NONE /\ mode = NONE /\ size = NONE /\ words = NONE /\ cursor = NONE
  /\ hand = NONE
HashedStep ==
  /\ which = "hash" /\ Hashed!Next /\ UNCHANGED which
  /\ UNCHANGED <<table, len, planned, records, available, scope, leases, fresh, domain,
                 controls, payloads, indexed, nodes, heap, next, record, hook, chain,
                 count, keys, values, mode, size, words, cursor, hand>>

SetsInit ==
  /\ which = "sets" /\ Sets!Init
  /\ capacity = NONE /\ buckets = NONE /\ hashOf = NONE /\ table = NONE /\ len = NONE
  /\ reply = NONE /\ planned = NONE /\ records = NONE /\ directory = NONE /\ free = NONE
  /\ available = NONE /\ scope = NONE /\ held = NONE /\ leases = NONE /\ fresh = NONE
  /\ domain = NONE /\ controls = NONE /\ payloads = NONE /\ indexed = NONE /\ nodes = NONE
  /\ heap = NONE /\ next = NONE /\ record = NONE /\ hook = NONE /\ chain = NONE
  /\ count = NONE /\ keys = NONE /\ values = NONE /\ form = NONE /\ meta = NONE
  /\ value = NONE /\ dense = NONE
SetsStep ==
  /\ which = "sets" /\ Sets!Next /\ UNCHANGED which
  /\ UNCHANGED <<capacity, buckets, hashOf, table, len, reply, planned, records, directory,
                 free, available, scope, held, leases, fresh, domain, controls, payloads,
                 indexed, nodes, heap, next, record, hook, chain, count, keys, values,
                 form, meta, value, dense>>

Init == FlatInit \/ ResidentInit \/ CompactInit \/ PriorityInit \/ PlanedInit \/ DirectInit \/ HashedInit \/ SetsInit
Next == FlatStep \/ ResidentStep \/ CompactStep \/ PriorityStep \/ PlanedStep \/ DirectStep \/ HashedStep \/ SetsStep

vars == <<which, capacity, buckets, hashOf, table, len, reply, planned, records, directory,
          free, available, scope, held, leases, fresh, domain, controls, payloads, indexed,
          nodes, heap, next, record, hook, chain, count, keys, values, form, meta, value,
          dense, mode, size, words, cursor, hand>>
Spec == Init /\ [][Next]_vars

\* What each map keeps of its planes: the probed ones find what they hold and
\* end every search, the records, nodes and slots are the ones named, and the
\* words above a bitmap say which words below are empty.
PlanesAreSound ==
  CASE which = "flat"     -> Flat!Directed
    [] which = "resident" -> Resident!RecordsAgree /\ Resident!TokensNameTheirRecord
    [] which = "compact"  -> Compact!Ordered /\ Compact!QueriesAreExact
    [] which = "priority" -> Priority!NodesAreNamed
    [] which = "direct"   -> Direct!SlotsTellValues
    [] which = "planes"   -> Planed!PlanesFollowRecords
    [] which = "hash"     -> Hashed!EntriesAreNamed
    [] which = "sets"     -> Sets!SetsAreSearched

\* The maps with keys of the caller's are bounded dictionaries, in what they
\* hold and in every answer; the generations of the resident one and of the hash
\* arena are never given twice.
Dictionaries ==
  INSTANCE Dictionary
    WITH Keys <- MCKeys,
         Values <- MCValues \cup (MCValues \X {0, 1}),
         capacity <- CASE which \in {"flat", "priority", "planes"} -> capacity
                       [] which = "resident" -> available + Cardinality(Resident!Live)
                       [] OTHER -> 0,
         content <- CASE which = "flat" -> Flat!Content
                      [] which = "resident" -> Resident!Content
                      [] which = "priority" -> Priority!Held
                      [] which = "planes" -> Planed!Content
                      [] OTHER -> <<>>,
         reply <- IF which \in {"compact", "direct", "hash", "sets"} THEN <<"none">> ELSE reply
Generations ==
  INSTANCE KeySpace
    WITH Slots <- 1 .. 2, Generations <- 0 .. 1, open <- TRUE,
         live <- CASE which = "resident" -> {Resident!KeyOf(i) : i \in Resident!Live}
                   [] which = "hash" -> {Hashed!KeyOf(i) : i \in Hashed!Live}
                   [] OTHER -> {},
         spent <- CASE which = "resident" -> Resident!Spent
                    [] which = "hash" -> Hashed!Spent
                    [] OTHER -> {}
ImplementsMaps == Dictionaries!Spec /\ Generations!Spec

\* The keys differ only in the hashes a behaviour begins with.
Symmetry == Permutations(MCKeys)
=============================================================================
