---------------------------- MODULE ResidentTable ----------------------------
(* depot/map/resident: a probed directory of record indices, the initialized  *)
(* prefix of records they name, the free chain threaded through dead records, *)
(* and a generation per record that is never reused. A scope lends the table  *)
(* to a caller who may undo exactly what it inserted.                         *)
EXTENDS Integers, Sequences, FiniteSets, Functions, TLC

CONSTANTS Ids, Values, Hashes, Planned,  \* Planned: the records a plan may name
          MAX,                           \* the last generation
          END                            \* links::Index::END

VARIABLES planned, buckets, hashOf,
          records,    \* [id, live, next, generation, value], indexed from 1
          directory,  \* occupied bucket -> record index
          free, available,
          scope,      \* "none", "open" (projecting) or "retiring"
          held,       \* the entry a scope holds: {} or {[index, fresh]}
          leases, fresh,  \* keys given out by publish, and rollback tokens
          reply

storage == <<records, directory, free, available>>
lending == <<scope, held, leases, fresh>>
vars == <<planned, buckets, hashOf, storage, lending, reply>>

INSTANCE Probing WITH Buckets <- buckets

\* One bucket when nothing is planned, else the double rounded up.
PlanBuckets(n) == IF n = 0 THEN 1 ELSE NextPowerOfTwo(2 * n)

HashAt == [i \in Range(directory) |-> hashOf[records[i].id]]
Query(id) == Scan(directory, hashOf[id], {b \in DOMAIN directory : records[directory[b]].id = id})
Member(index) == MemberOf(directory, hashOf[records[index].id],
                          {b \in DOMAIN directory : directory[b] = index})

KeyOf(index) == <<index, records[index].generation>>
Keys         == (1 .. planned) \X (0 .. MAX)
\* A key is admitted when its record is live and has its generation.
Admits(key) == /\ key[1] \in DOMAIN records /\ records[key[1]].live
               /\ records[key[1]].generation = key[2]
Exact(key, id) == Admits(key) /\ records[key[1]].id = id

Init == /\ planned \in Planned /\ buckets = PlanBuckets(planned)
        /\ hashOf \in [Ids -> Hashes]
        /\ records = <<>> /\ directory = <<>> /\ free = END /\ available = planned
        /\ scope = "none" /\ held = {} /\ leases = {} /\ fresh = {}
        /\ reply = <<"none">>

Keep == UNCHANGED <<planned, buckets, hashOf>>

\* Takes the first free record, or the next one of the unused tail.
Slot == IF free # END THEN free ELSE Len(records) + 1

InsertRaw(b, id, v) ==
  /\ IF free # END
     THEN /\ records' = [records EXCEPT ![free].id = id, ![free].live = TRUE, ![free].value = v]
          /\ free' = records[free].next
     ELSE /\ records' = Append(records, [id |-> id, live |-> TRUE, next |-> END,
                                         generation |-> 0, value |-> v])
          /\ UNCHANGED free
  /\ available' = available - 1
  /\ directory' = directory @@ (b :> Slot)

\* Mutant of RemoveRaw: a record returns under the generation it had.
RemoveRawAgain(b, index) ==
  /\ directory' = Vacated(directory, b, HashAt)
  /\ records' = [records EXCEPT ![index].live = FALSE, ![index].next = free]
  /\ free' = index /\ available' = available + 1
  /\ reply' = <<"value", records[index].value>>

\* The bucket goes first; the record is recycled unless its generations ran out.
RemoveRaw(b, index) ==
  /\ directory' = Vacated(directory, b, HashAt)
  /\ IF records[index].generation < MAX
     THEN /\ records' = [records EXCEPT ![index].live = FALSE, ![index].next = free,
                                        ![index].generation = @ + 1]
          /\ free' = index /\ available' = available + 1
     ELSE /\ records' = [records EXCEPT ![index].live = FALSE, ![index].next = END]
          /\ UNCHANGED <<free, available>>
  /\ reply' = <<"value", records[index].value>>

Write(index, v) == /\ records' = [records EXCEPT ![index].value = v]
                   /\ reply' = <<"ok">> /\ UNCHANGED <<directory, free, available>>

Refused(r) == reply' = r /\ UNCHANGED storage

(* The table itself *)

Insert(id, v) ==
  LET s == Query(id) IN
  /\ scope = "none" /\ Keep /\ UNCHANGED lending
  /\ \/ s.kind = "Occupied" /\ Refused(<<"occupied">>)
     \/ s.kind # "Occupied" /\ available = 0 /\ Refused(<<"full">>)
     \/ s.kind = "Vacant" /\ available # 0 /\ InsertRaw(s.bucket, id, v) /\ reply' = <<"ok">>

Find(id) ==
  LET s == Query(id) IN
  /\ scope = "none" /\ Keep /\ UNCHANGED lending
  /\ \/ s.kind # "Occupied" /\ Refused(<<"absent">>)
     \/ /\ s.kind = "Occupied"
        /\ Refused(<<"value", records[directory[s.bucket]].value>>)

RemoveEntry(id) ==
  LET s == Query(id) IN
  /\ scope = "none" /\ s.kind = "Occupied" /\ Keep /\ UNCHANGED lending
  /\ RemoveRaw(s.bucket, directory[s.bucket])

\* The caller brings a key and an identity; the bucket is searched on removal.
RemoveExact(key, id) ==
  /\ scope = "none" /\ Keep /\ UNCHANGED lending /\ Exact(key, id)
  /\ RemoveRaw(Member(key[1]), key[1])

WriteExact(key, id, v) ==
  /\ scope = "none" /\ Keep /\ UNCHANGED lending /\ Exact(key, id) /\ Write(key[1], v)

(* The scope *)

OpenScope == /\ scope = "none" /\ scope' = "open" /\ leases' = {} /\ fresh' = {}
             /\ Keep /\ UNCHANGED <<storage, held, reply>>

Holding(s) == scope = "open" /\ held = {} /\ held' = s /\ Keep /\ UNCHANGED <<scope, leases, fresh>>

\* An old entry keeps no bucket: only a new one carries its own rollback.
ScopedEntry(id, v) ==
  LET s == Query(id) IN
  \/ /\ s.kind = "Occupied" /\ Refused(<<"occupied">>)
     /\ Holding({[index |-> directory[s.bucket], fresh |-> FALSE]})
  \/ /\ s.kind # "Occupied" /\ available = 0 /\ Refused(<<"full">>) /\ Holding({})
  \/ /\ s.kind = "Vacant" /\ available # 0 /\ InsertRaw(s.bucket, id, v) /\ reply' = <<"ok">>
     /\ Holding({[index |-> Slot, fresh |-> TRUE]})

ScopedExact(key, id) == /\ Exact(key, id) /\ Holding({[index |-> key[1], fresh |-> FALSE]})
                        /\ Refused(<<"ok">>)

HeldWrite(v) == /\ Keep /\ UNCHANGED lending /\ \E e \in held : Write(e.index, v)

Publish == /\ Keep /\ held' = {} /\ UNCHANGED <<scope, storage, reply>>
           /\ \E e \in held : /\ leases' = leases \cup {KeyOf(e.index)}
                              /\ fresh' = IF e.fresh THEN fresh \cup {KeyOf(e.index)} ELSE fresh

\* A new entry is removed; an old one is left where it is.
Release == /\ Keep /\ held' = {} /\ UNCHANGED <<scope, leases, fresh>>
           /\ \E e \in held : IF e.fresh THEN RemoveRaw(Member(e.index), e.index)
                              ELSE Refused(<<"ok">>)

DropHeld == held # {} /\ held' = {} /\ Keep /\ UNCHANGED <<scope, leases, fresh, storage, reply>>

LeaseWrite(key, v) == /\ scope = "open" /\ held = {} /\ key \in leases /\ Keep
                      /\ UNCHANGED lending /\ Write(key[1], v)

RetireScope == /\ scope = "open" /\ held = {} /\ scope' = "retiring" /\ leases' = {}
               /\ Keep /\ UNCHANGED <<storage, held, fresh, reply>>

\* The token is consumed; its slot is not checked again.
RemoveFresh(key) == /\ scope = "retiring" /\ key \in fresh /\ fresh' = fresh \ {key}
                    /\ Keep /\ UNCHANGED <<scope, held, leases>>
                    /\ RemoveRaw(Member(key[1]), key[1])

CloseScope == /\ scope # "none" /\ held = {} /\ scope' = "none" /\ leases' = {} /\ fresh' = {}
              /\ Keep /\ UNCHANGED <<storage, held, reply>>

Next == \/ \E id \in Ids, v \in Values : Insert(id, v) \/ ScopedEntry(id, v)
        \/ \E id \in Ids : Find(id) \/ RemoveEntry(id)
        \/ \E key \in Keys, id \in Ids : \/ RemoveExact(key, id) \/ ScopedExact(key, id)
                                         \/ \E v \in Values : WriteExact(key, id, v)
        \/ \E v \in Values : HeldWrite(v) \/ \E key \in Keys : LeaseWrite(key, v)
        \/ OpenScope \/ Publish \/ Release \/ DropHeld \/ RetireScope \/ CloseScope
        \/ \E key \in Keys : RemoveFresh(key)

Spec == Init /\ [][Next]_vars

(* Properties *)

Live    == {i \in DOMAIN records : records[i].live}
FreeFrom[n \in 0 .. planned] ==
  IF n = 0 THEN IF free = END THEN {} ELSE {free}
  ELSE FreeFrom[n - 1] \cup ({records[i].next : i \in FreeFrom[n - 1]} \ {END})
Chain == FreeFrom[planned]

\* Every live record has one bucket, which searches reach; the free chain holds
\* the dead records with a generation left, and the credit counts what is left.
RecordsAgree ==
  /\ IsInjective(directory) /\ Range(directory) = Live /\ Connected(directory, HashAt)
  /\ Chain \subseteq DOMAIN records \ Live
  /\ available = Cardinality(Chain) + planned - Len(records)
  /\ buckets > Cardinality(Live)

\* A lease needs no check to reach its record, and a rollback token names the
\* very record its insertion made, whatever was removed since.
TokensNameTheirRecord == \A key \in leases \cup fresh : Admits(key)

Content == [id \in {records[i].id : i \in Range(directory)} |->
              records[CHOOSE i \in Range(directory) : records[i].id = id].value]
\* A key that was given out and ended is spent, and so is one nobody can be given.
Spent == {k \in Keys : /\ k[1] \in DOMAIN records
                       /\ \/ k[2] < records[k[1]].generation
                          \/ k[1] \notin Live \cup Chain /\ k[2] = records[k[1]].generation}
=============================================================================
