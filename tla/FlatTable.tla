------------------------------ MODULE FlatTable ------------------------------
(* depot/map/flat: a map in one probed directory whose logical capacity is at *)
(* most half its buckets. A held Found or Vacancy borrows the whole table, so *)
(* a query and the use of its answer are one step.                            *)
EXTENDS Integers, FiniteSets, Functions, TLC

CONSTANTS Keys, Values, Hashes,   \* a key's hash is any of these
          Capacities              \* the capacities a plan may name

VARIABLES capacity, buckets, hashOf, table, len, reply

vars == <<capacity, buckets, hashOf, table, len, reply>>

INSTANCE Probing WITH Buckets <- buckets

\* The buckets of a plan.
PlanBuckets(c) == IF c = 0 THEN 0 ELSE NextPowerOfTwo(c * 2)

\* The control byte is the top of the hash, whose bottom is the home.
Control(h) == h \div buckets
Cell(h, k, v) == [control |-> Control(h), hash |-> h, key |-> k, value |-> v]
HashAt        == [c \in Range(table) |-> c.hash]

Hits(k) == {b \in DOMAIN table : /\ table[b].control = Control(hashOf[k])
                                 /\ table[b].hash = hashOf[k] /\ table[b].key = k}
Find(k) == Scan(table, hashOf[k], Hits(k))
\* With room left the scan always ends: it answers the entry or the vacancy.
Spare(k)  == Find(k)
Member(k) == MemberOf(table, hashOf[k],
                      {b \in DOMAIN table : table[b].hash = hashOf[k] /\ table[b].key = k})
Query(k) == IF capacity = 0 THEN Full ELSE Find(k)

\* A vacancy is only given out below the logical capacity.
Admitted(s) == s.kind = "Vacant" /\ len < capacity

Init == /\ capacity \in Capacities /\ buckets = PlanBuckets(capacity)
        /\ hashOf \in [Keys -> Hashes]
        /\ table = <<>> /\ len = 0 /\ reply = <<"none">>

Keep == UNCHANGED <<capacity, buckets, hashOf>>
Answer(r) == reply' = r /\ UNCHANGED <<table, len>>

Publish(b, k, v) == /\ table' = table @@ (b :> Cell(hashOf[k], k, v))
                    /\ len' = len + 1 /\ reply' = <<"ok">>

Erase(b) == /\ len' = len - 1 /\ table' = Vacated(table, b, HashAt)
            /\ reply' = <<"value", table[b].value>>

TryInsert(k, v) ==
  LET s == Query(k) IN
  /\ Keep
  /\ \/ s.kind = "Occupied" /\ Answer(<<"occupied">>)
     \/ s.kind # "Occupied" /\ ~Admitted(s) /\ Answer(<<"full">>)
     \/ Admitted(s) /\ Publish(s.bucket, k, v)

\* The caller's proof says there is room, and it inserts a key it knows absent.
InsertProved(k, v) ==
  /\ len < capacity /\ \A b \in DOMAIN table : table[b].key # k
  /\ Keep /\ Publish(SpareOf(table, hashOf[k]), k, v)

\* The caller's proof says there is room; the entry found or made is written.
AdmitProved(k, v) ==
  LET s == Spare(k) IN
  /\ len < capacity /\ Keep
  /\ \/ s.kind = "Vacant" /\ Publish(s.bucket, k, v)
     \/ /\ s.kind = "Occupied"
        /\ table' = [table EXCEPT ![s.bucket].value = v]
        /\ reply' = <<"ok">> /\ UNCHANGED len

\* The caller's proof says the key is there.
RemoveProved(k) ==
  /\ \E b \in DOMAIN table : table[b].key = k
  /\ Keep /\ Erase(Member(k))

GetMut(k, v) ==
  LET s == Query(k) IN
  /\ Keep
  /\ \/ s.kind # "Occupied" /\ Answer(<<"absent">>)
     \/ /\ s.kind = "Occupied" /\ table' = [table EXCEPT ![s.bucket].value = v]
        /\ reply' = <<"ok">> /\ UNCHANGED len

Get(k) ==
  LET s == Query(k) IN
  /\ Keep
  /\ \/ s.kind # "Occupied" /\ Answer(<<"absent">>)
     \/ s.kind = "Occupied" /\ Answer(<<"value", table[s.bucket].value>>)

Remove(k) ==
  LET s == Query(k) IN
  /\ Keep
  /\ \/ s.kind # "Occupied" /\ Answer(<<"absent">>)
     \/ s.kind = "Occupied" /\ Erase(s.bucket)

Clear == /\ Keep /\ reply' = <<"ok">>
         /\ IF len = 0 THEN UNCHANGED <<table, len>> ELSE table' = <<>> /\ len' = 0

Next == \/ \E k \in Keys, v \in Values :
             TryInsert(k, v) \/ InsertProved(k, v) \/ AdmitProved(k, v) \/ GetMut(k, v)
        \/ \E k \in Keys : RemoveProved(k) \/ Get(k) \/ Remove(k)
        \/ Clear

Spec == Init /\ [][Next]_vars

(* Properties *)

\* A spare bucket ends every search, and no entry is cut off from its home: the
\* searches that loop without a bound (member, vacant, spare) always end.
Directed == /\ len = Cardinality(DOMAIN table) /\ len <= capacity
            /\ capacity # 0 => len < buckets
            /\ Connected(table, HashAt)

Content == [k \in {table[b].key : b \in DOMAIN table} |->
              table[CHOOSE b \in DOMAIN table : table[b].key = k].value]
=============================================================================
