------------------------------ MODULE HashArena ------------------------------
(* depot/arena/hash: entries in slots that a key of a slot and a generation   *)
(* names, a dense row of the live slots, and a probed directory that finds an *)
(* entry by its hash. A map keeps every entry in the directory; a registry    *)
(* takes an entry out of it and puts it back without giving up its key.       *)
EXTENDS Integers, Sequences, FiniteSets, Functions, TLC

CONSTANTS Ids, Hashes, Capacities,
          MAX,            \* the last generation
          END,            \* Meta::FREE: no next free slot
          NONE            \* Bucket::NONE

VARIABLES form,           \* "map" or "registry"
          capacity, buckets, hashOf,
          directory,      \* occupied bucket -> [hash, index]
          meta,           \* slot -> [generation, live, slot, bucket]
          value,          \* slot -> the identity in it
          dense, free,
          held,           \* {} or the vacancy or reservation that borrows the core
          reply

storage == <<directory, meta, value, dense, free>>
vars == <<form, capacity, buckets, hashOf, storage, held, reply>>

INSTANCE Probing WITH Buckets <- buckets

Indices     == DOMAIN meta
PlanBuckets(n) == IF n = 0 THEN 1 ELSE NextPowerOfTwo(2 * n)
HashAt      == [c \in Range(directory) |-> c.hash]
Query(id)   == Scan(directory, hashOf[id],
                    {b \in DOMAIN directory : /\ directory[b].hash = hashOf[id]
                                              /\ value[directory[b].index] = id})
KeyOf(i)    == <<i, meta[i].generation>>
Keys        == (1 .. capacity) \X (0 .. MAX)
\* Position::try_live: the slot is live and has the key's generation.
Admits(key) == /\ key[1] \in Indices /\ meta[key[1]].live
               /\ meta[key[1]].generation = key[2]
Live        == {i \in Indices : meta[i].live}
Indexed     == {i \in Live : meta[i].bucket # NONE}

Init ==
  /\ form \in {"map", "registry"} /\ capacity \in Capacities
  /\ buckets = PlanBuckets(capacity) /\ hashOf \in [Ids -> Hashes]
  /\ directory = <<>> /\ dense = <<>> /\ held = {}
  /\ meta = [i \in 1 .. capacity |-> [generation |-> 0, live |-> FALSE,
               slot |-> IF i = capacity THEN END ELSE i + 1, bucket |-> NONE]]
  /\ value = [i \in 1 .. capacity |-> NONE]
  /\ free = IF capacity = 0 THEN END ELSE 1
  /\ reply = <<"none">>

Keep == UNCHANGED <<form, capacity, buckets, hashOf>>
Answer(r) == reply' = r /\ UNCHANGED storage
Idle == held = {} /\ UNCHANGED held /\ Keep

\* Vacant::insert then Live::index: the first free slot goes to the end of the
\* dense row, and into the directory when there is a bucket for it.
InsertAt(id, b) ==
  /\ value' = [value EXCEPT ![free] = id]
  /\ dense' = Append(dense, free)
  /\ free' = meta[free].slot
  /\ meta' = [meta EXCEPT ![free].live = TRUE, ![free].slot = Len(dense) + 1,
                          ![free].bucket = b]
  /\ directory' = IF b = NONE THEN directory
                  ELSE directory @@ (b :> [hash |-> hashOf[id], index |-> free])
  /\ reply' = <<"key", KeyOf(free)>>

\* Core::shift tells every entry that moved its bucket; the one taken has none.
Told(d, i) ==
  [j \in Indices |->
     IF j = i THEN [meta[j] EXCEPT !.bucket = NONE]
     ELSE IF \E b \in DOMAIN d : d[b].index = j
          THEN [meta[j] EXCEPT !.bucket = CHOOSE b \in DOMAIN d : d[b].index = j]
          ELSE meta[j]]
Retired(i) == IF meta[i].bucket = NONE THEN directory
              ELSE Vacated(directory, meta[i].bucket, HashAt)

\* Live::vacate: the last of the dense row takes the hole, and the slot is free
\* again unless its generations ran out.
Vacate(i, m) ==
  LET position == m[i].slot
      last     == dense[Len(dense)]
      moved    == [m EXCEPT ![last].slot = position]
      spare    == m[i].generation < MAX
  IN /\ dense' = SubSeq([dense EXCEPT ![position] = last], 1, Len(dense) - 1)
     /\ meta' = [moved EXCEPT ![i] = [generation |-> IF spare THEN @.generation + 1
                                                     ELSE @.generation,
                                      live |-> FALSE, slot |-> IF spare THEN free ELSE END,
                                      bucket |-> NONE]]
     /\ free' = IF spare THEN i ELSE free
     /\ value' = [value EXCEPT ![i] = NONE]

Remove(i) == /\ directory' = Retired(i) /\ Vacate(i, Told(Retired(i), i))
             /\ reply' = <<"value", value[i]>>

\* A vacancy keeps the free slot, or the staged entry, with the bucket and hash.
Lend(i, b, id) == /\ held = {} /\ held' = {[index |-> i, bucket |-> b, id |-> id]}
                  /\ Keep /\ Answer(<<"vacant">>)

(* Either form *)

\* Store::key.
Key(id) ==
  LET s == Query(id) IN
  /\ Idle /\ Answer(IF s.kind = "Occupied" THEN <<"key", KeyOf(directory[s.bucket].index)>>
                    ELSE <<"absent">>)
RemoveKey(key) ==
  /\ Idle
  /\ \/ Admits(key) /\ Remove(key[1])
     \/ ~ Admits(key) /\ Answer(<<"stale">>)

(* Map *)

\* Vacancy::try_new: the twin is looked for before the free slot.
Place(id) ==
  LET s == Query(id)
  IN [kind |-> IF s.kind = "Occupied" THEN "occupied" ELSE IF free = END THEN "full" ELSE "place",
      bucket |-> s.bucket]

\* try_insert and try_create.
TryInsert(id) ==
  LET p == Place(id) IN
  /\ form = "map" /\ Idle
  /\ \/ p.kind # "place" /\ Answer(<<p.kind>>)
     \/ p.kind = "place" /\ InsertAt(id, p.bucket)

\* try_entry: the vacancy keeps the bucket and the hash while it borrows the core.
TryEntry(id) ==
  LET p == Place(id) IN
  /\ form = "map" /\ p.kind = "place" /\ Lend(free, p.bucket, id)
InsertEntry == /\ form = "map" /\ Keep /\ held' = {}
               /\ \E h \in held : InsertAt(h.id, h.bucket)

(* Registry *)

Insert(id) ==
  /\ form = "registry" /\ Idle
  /\ \/ free = END /\ Answer(<<"full">>)
     \/ free # END /\ InsertAt(id, NONE)

\* Live::unindex: the entry keeps its slot and its key.
Unindex(key) ==
  /\ form = "registry" /\ Idle /\ Admits(key) /\ key[1] \in Indexed
  /\ directory' = Retired(key[1]) /\ meta' = Told(Retired(key[1]), key[1])
  /\ reply' = <<"staged">> /\ UNCHANGED <<value, dense, free>>

\* get_mut of a staged entry may change what it is found by.
Rewrite(key, id) ==
  /\ form = "registry" /\ Idle /\ Admits(key) /\ key[1] \notin Indexed
  /\ value' = [value EXCEPT ![key[1]] = id]
  /\ reply' = <<"staged">> /\ UNCHANGED <<directory, meta, dense, free>>

\* Live::try_reserve: a twin in the directory gives the staged entry back.
TryReserve(key) ==
  LET s == Query(value[key[1]]) IN
  /\ form = "registry" /\ Admits(key) /\ key[1] \notin Indexed
  /\ \/ s.kind = "Occupied" /\ Idle
        /\ Answer(<<"key", KeyOf(directory[s.bucket].index)>>)
     \/ s.kind = "Vacant" /\ Lend(key[1], s.bucket, value[key[1]])

\* Vacancy::commit.
Commit ==
  /\ form = "registry" /\ Keep /\ held' = {}
  /\ \E h \in held :
       /\ directory' = directory @@ (h.bucket :> [hash |-> hashOf[h.id], index |-> h.index])
       /\ meta' = [meta EXCEPT ![h.index].bucket = h.bucket]
  /\ reply' = <<"indexed">> /\ UNCHANGED <<value, dense, free>>

\* Neither loan has a destructor: a staged entry stays staged.
DropHeld == held # {} /\ held' = {} /\ Keep /\ UNCHANGED <<storage, reply>>

Next ==
  \/ \E id \in Ids : Key(id) \/ TryInsert(id) \/ TryEntry(id) \/ Insert(id)
  \/ \E key \in Keys : \/ RemoveKey(key) \/ Unindex(key) \/ TryReserve(key)
                       \/ \E id \in Ids : Rewrite(key, id)
  \/ InsertEntry \/ Commit \/ DropHeld
Spec == Init /\ [][Next]_vars

(* Properties *)

FreeFrom[n \in 0 .. capacity] ==
  IF n = 0 THEN {free} \ {END}
  ELSE FreeFrom[n - 1] \cup ({meta[i].slot : i \in FreeFrom[n - 1]} \ {END})
Chain == FreeFrom[capacity]

\* The dense row, the directory and the slots name each other; searches reach
\* every entry of the directory, no two of the same identity; a map's entries
\* are all there; the free slots are the dead ones with a generation left, and
\* a bucket that a loan keeps is still the one its search would end at.
EntriesAreNamed ==
  /\ Connected(directory, HashAt)
  /\ \A b \in DOMAIN directory : LET i == directory[b].index
       IN i \in Live /\ meta[i].bucket = b /\ directory[b].hash = hashOf[value[i]]
  /\ Indexed = {directory[b].index : b \in DOMAIN directory}
  /\ \A i, j \in Indexed : value[i] = value[j] => i = j
  /\ form = "map" => Indexed = Live
  /\ IsInjective(dense) /\ Range(dense) = Live
  /\ \A i \in Live : dense[meta[i].slot] = i
  /\ Chain \subseteq Indices \ Live
  /\ \A i \in (Indices \ Live) \ Chain : meta[i].generation = MAX
  /\ \A h \in held : Query(h.id) = Vacant(h.bucket)

Spent == {k \in Keys : \/ k[2] < meta[k[1]].generation
                       \/ k[1] \notin Live \cup Chain /\ k[2] = meta[k[1]].generation}
=============================================================================
