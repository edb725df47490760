------------------------------ MODULE PlaneMap ------------------------------
(* depot/queue/indexed/planes/map: records in slots the caller names, found   *)
(* by key through a probed directory and linked in several planes of lists.   *)
(* Plane 0 holds every record and says which slots have one; a record keeps   *)
(* the bucket that names it, so that it is removed without a search.          *)
EXTENDS Hooks, SequencesExt, Functions, TLC

CONSTANTS Keys, Values, Hashes, Capacities,
          Slots,    \* the nodes, as many as the caller asked for
          Planes    \* the planes after plane 0

VARIABLES capacity, hashOf, directory, record, hook, chain, count, reply

vars == <<capacity, hashOf, directory, record, hook, chain, count, reply>>

\* map::Plan: half of the buckets may be used.
Buckets == IF capacity = 2 THEN 4 ELSE 2
INSTANCE Probing

All == {0} \cup Planes
NoRecord == [key |-> "none"]
HashAt == [c \in Range(directory) |-> c.hash]
KeyAt(c) == record[c.index].key

\* Table::try_new.
Init ==
  /\ capacity \in Capacities /\ hashOf \in [Keys -> Hashes]
  /\ directory = <<>>
  /\ record = [i \in Slots |-> NoRecord]
  /\ hook = [p \in All |-> [previous |-> [i \in Slots |-> i], next |-> [i \in Slots |-> END]]]
  /\ chain = [p \in All |-> EmptyChain] /\ count = [p \in All |-> 0]
  /\ reply = <<"none">>

In(p, i) == IsLinked(hook[p], i)
Hits(k) == {b \in DOMAIN directory : directory[b].hash = hashOf[k] /\ KeyAt(directory[b]) = k}
Find(k) == Scan(directory, hashOf[k], Hits(k))
Keep == UNCHANGED <<capacity, hashOf>>
Answer(r) == reply' = r /\ UNCHANGED <<directory, record, hook, chain, count>>

Here(p) == [hook |-> hook[p], chain |-> chain[p], count |-> count[p]]
Appended(at, i) == Pushed(at.hook, at.chain, i) @@ [count |-> at.count + 1]
Idle(at, i) == LET out == Unlinked(at.hook, at.chain, i)
               IN [hook |-> Idled(out.hook, i), chain |-> out.chain, count |-> at.count - 1]
Put(at) == /\ hook' = [p \in All |-> at[p].hook]
           /\ chain' = [p \in All |-> at[p].chain]
           /\ count' = [p \in All |-> at[p].count]
Change(p, at) == Put([q \in All |-> IF q = p THEN at ELSE Here(q)])

\* Place::try_new: the slot and the room are looked at before the key.
TryInsert(i, k, v) ==
  LET s == Find(k) IN
  /\ Keep
  /\ \/ In(0, i) /\ Answer(<<"place">>)
     \/ ~ In(0, i) /\ count[0] = capacity /\ Answer(<<"no room">>)
     \/ /\ ~ In(0, i) /\ count[0] < capacity /\ s.kind = "Occupied"
        /\ Answer(<<"occupied">>)
     \/ /\ ~ In(0, i) /\ count[0] < capacity /\ s.kind = "Vacant"
        /\ directory' = directory @@ (s.bucket :> [hash |-> hashOf[k], index |-> i])
        /\ record' = [record EXCEPT ![i] = [key |-> k, value |-> v, bucket |-> s.bucket]]
        /\ Change(0, Appended(Here(0), i))
        /\ reply' = <<"ok">>

\* Mutant: an entry that is shifted leaves its record with the old bucket.
TakenStale(i) ==
  LET b == record[i].bucket IN
  /\ directory' = Vacated(directory, b, HashAt)
  /\ record' = [record EXCEPT ![i] = NoRecord]
  /\ Put([p \in All |-> IF In(p, i) THEN Idle(Here(p), i) ELSE Here(p)])
  /\ reply' = <<"value", record[i].value>>
\* Occupied::remove: retire the bucket, telling each shifted record its new one,
\* then leave plane 0 and whichever others the slot is in.
Taken(i) ==
  LET d == Vacated(directory, record[i].bucket, HashAt) IN
  /\ directory' = d
  /\ record' = [j \in Slots |->
       IF j = i THEN NoRecord
       ELSE IF \E b \in DOMAIN d : d[b].index = j
            THEN [record[j] EXCEPT !.bucket = CHOOSE b \in DOMAIN d : d[b].index = j]
            ELSE record[j]]
  /\ Put([p \in All |-> IF In(p, i) THEN Idle(Here(p), i) ELSE Here(p)])
  /\ reply' = <<"value", record[i].value>>

\* Table::entry and remove; Table::slot or first_entry and remove.
RemoveKey(k) ==
  LET s == Find(k) IN
  /\ Keep
  /\ \/ s.kind # "Occupied" /\ Answer(<<"absent">>)
     \/ s.kind = "Occupied" /\ Taken(directory[s.bucket].index)
RemoveSlot(i) ==
  /\ Keep
  /\ \/ ~ In(0, i) /\ Answer(<<"place">>)
     \/ In(0, i) /\ Taken(i)

\* Table::get; the value of an entry is written in place.
Get(k) ==
  LET s == Find(k) IN
  /\ Keep
  /\ Answer(IF s.kind = "Occupied" THEN <<"value", record[directory[s.bucket].index].value>>
            ELSE <<"absent">>)
SetValue(i, v) ==
  /\ In(0, i) /\ Keep
  /\ record' = [record EXCEPT ![i].value = v]
  /\ reply' = <<"ok">>
  /\ UNCHANGED <<directory, hook, chain, count>>

\* State::link_back and unlink of an entry, in a plane after 0.
LinkBack(p, i) ==
  /\ In(0, i) /\ Keep
  /\ Change(p, IF In(p, i) THEN Here(p) ELSE Appended(Here(p), i))
  /\ reply' = <<"place">> /\ UNCHANGED <<directory, record>>
Unlink(p, i) ==
  /\ In(0, i) /\ Keep
  /\ Change(p, IF In(p, i) THEN Idle(Here(p), i) ELSE Here(p))
  /\ reply' = <<"place">> /\ UNCHANGED <<directory, record>>

\* Table::front_entry and Occupied::pop: the record stays.
PopFront(p) ==
  LET i == chain[p].first  out == Popped(hook[p], chain[p]) IN
  /\ i # END /\ Keep
  /\ Change(p, [hook |-> Idled(out.hook, i), chain |-> out.chain, count |-> count[p] - 1])
  /\ reply' = <<"place">> /\ UNCHANGED <<directory, record>>

Next ==
  \/ \E i \in Slots :
       \/ RemoveSlot(i)
       \/ \E v \in Values : SetValue(i, v) \/ \E k \in Keys : TryInsert(i, k, v)
       \/ \E p \in Planes : LinkBack(p, i) \/ Unlink(p, i)
  \/ \E k \in Keys : RemoveKey(k) \/ Get(k)
  \/ \E p \in Planes : PopFront(p)
Spec == Init /\ [][Next]_vars

(* Properties *)

Order(p) == Walk(hook[p], chain[p].first)
Content == [k \in {KeyAt(directory[b]) : b \in DOMAIN directory} |->
              record[(CHOOSE c \in Range(directory) : KeyAt(c) = k).index].value]

\* The directory, the records and plane 0 name the same slots, each record the
\* bucket it is found in, which Occupied::remove gives back unchecked; every
\* list of the other planes is of slots with a record, and is counted.
PlanesFollowRecords ==
  /\ Connected(directory, HashAt)
  /\ \A b \in DOMAIN directory : LET i == directory[b].index
       IN record[i] # NoRecord /\ record[i].bucket = b
  /\ {i \in Slots : record[i] # NoRecord} = ToSet(Order(0))
  /\ Cardinality(DOMAIN directory) = count[0]
  /\ \A p \in All :
       /\ ToSet(Order(p)) = {i \in Slots : In(p, i)}
       /\ ToSet(Order(p)) \subseteq ToSet(Order(0))
       /\ Len(Order(p)) = count[p]
       /\ chain[p].last = IF Order(p) = <<>> THEN END ELSE Last(Order(p))
=============================================================================
