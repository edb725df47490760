---------------------------- MODULE PriorityTable ----------------------------
(* depot/map/priority: a map whose entries are ordered by priority. A bucket  *)
(* of the directory names a node, the node its bucket and its place in the    *)
(* heap of nodes, so each move in either must be told to the node. The heap's *)
(* entries carry their node's priority here; the code reads it in the node.   *)
EXTENDS Integers, FiniteSets, Functions, SequencesExt, TLC

CONSTANTS Keys, Values, Priorities, Hashes, Capacities, NONE

VARIABLES capacity, buckets, hashOf,
          table,      \* bucket -> [control, node, hash]
          nodes,      \* live node -> [key, value, bucket]
          heap,       \* of nodes: order, and the position each node keeps
          next, free, \* the first node never used, and the stack of those given back
          reply

vars == <<capacity, buckets, hashOf, table, nodes, heap, next, free, reply>>

INSTANCE Probing WITH Buckets <- buckets

Slots         == 0 .. capacity - 1
PlanBuckets(c) == IF c = 0 THEN 0 ELSE NextPowerOfTwo(c * 2)
Ranked(n, p)  == [node |-> n, priority |-> p]
IndexOf(e)    == e.node

\* Core::compare.
Lt(a, b) == a.priority < b.priority \/ (a.priority = b.priority /\ a.node < b.node)
H == INSTANCE HoleHeap

Control(h) == h \div buckets
HashAt     == [c \in Range(table) |-> c.hash]

\* The control and the hash are compared before the key in the node.
Query(k) ==
  IF capacity = 0 THEN Full
  ELSE Scan(table, hashOf[k],
            {b \in DOMAIN table : /\ table[b].control = Control(hashOf[k])
                                  /\ table[b].hash = hashOf[k]
                                  /\ nodes[table[b].node].key = k})

\* Store::vacant: a node given back, else one never used.
Spare == IF free # <<>> THEN Head(free) ELSE IF next < capacity THEN next ELSE NONE

Init == /\ capacity \in Capacities /\ buckets = PlanBuckets(capacity)
        /\ hashOf \in [Keys -> Hashes]
        /\ table = <<>> /\ nodes = <<>> /\ next = 0 /\ free = <<>>
        /\ heap = [order |-> <<>>, positions |-> [n \in Slots |-> NONE]]
        /\ reply = <<"none">>

Keep == UNCHANGED <<capacity, buckets, hashOf>>
Quiet == UNCHANGED <<table, nodes, heap, next, free>>
PriorityOf(n) == heap.order[heap.positions[n]].priority
Content(n)    == <<nodes[n].value, PriorityOf(n)>>

Refuse(k) == /\ Keep /\ Quiet /\ Query(k).kind # "Occupied"
             /\ capacity = 0 \/ Spare = NONE
             /\ reply' = <<"full">>

\* Insertion::insert: the heap path, the node, the bucket, then the heap entry.
Insert(k, v, p) ==
  LET s == Query(k)  n == Spare IN
  /\ Keep /\ s.kind = "Vacant" /\ n # NONE
  /\ free' = (IF free # <<>> THEN Tail(free) ELSE free)
  /\ next' = (IF free # <<>> THEN next ELSE next + 1)
  /\ nodes' = nodes @@ (n :> [key |-> k, value |-> v, bucket |-> s.bucket])
  /\ table' = table @@ (s.bucket :> [control |-> Control(hashOf[k]), node |-> n, hash |-> hashOf[k]])
  /\ heap' = H!Appended(heap, Ranked(n, p))
  /\ reply' = <<"ok">>

\* Occupied::remove_parts: the heap entry goes, the bucket is closed over and
\* every node whose bucket moved is told, then the node is given back.
Drops(n) ==
  LET closed == Vacated(table, nodes[n].bucket, HashAt)
      left   == Restrict(nodes, DOMAIN nodes \ {n})
  IN /\ heap' = H!Removed(heap, heap.positions[n])
     /\ table' = closed
     /\ nodes' = [m \in DOMAIN left |->
                    [left[m] EXCEPT !.bucket = CHOOSE b \in DOMAIN closed : closed[b].node = m]]
     /\ free' = <<n>> \o free /\ UNCHANGED next

\* occupied and the occupied try_entry find by key; peek_mut and pop by the root.
Found(k) == Query(k).kind = "Occupied"
NodeOf(k) == table[Query(k).bucket].node
Root == heap.order[0].node

RemoveKey(k) == /\ Keep
             /\ \/ ~Found(k) /\ Quiet /\ reply' = <<"absent">>
                \/ Found(k) /\ Drops(NodeOf(k)) /\ reply' = <<"value", Content(NodeOf(k))>>

PopIf(limit) == /\ Keep /\ H!Len(heap) # 0 /\ heap.order[0].priority <= limit
                /\ Drops(Root) /\ reply' = <<"value", Content(Root)>>

\* get_mut, and set, which finds the heap entry at the position the node keeps.
Write(n, v) == /\ nodes' = [nodes EXCEPT ![n].value = v]
               /\ reply' = <<"ok">> /\ UNCHANGED <<table, heap, next, free>>
Rank(n, p)  == /\ heap' = H!Replaced(heap, heap.positions[n], Ranked(n, p))
               /\ reply' = <<"ok">> /\ UNCHANGED <<table, nodes, next, free>>

SetByKey(k, v, p)  == Keep /\ Found(k) /\ (Write(NodeOf(k), v) \/ Rank(NodeOf(k), p))
SetMin(v, p)       == Keep /\ H!Len(heap) # 0 /\ (Write(Root, v) \/ Rank(Root, p))

Get(k) == /\ Keep /\ Quiet
          /\ reply' = IF Found(k) THEN <<"value", Content(NodeOf(k))>> ELSE <<"absent">>

Next == \/ \E k \in Keys, v \in Values, p \in Priorities : Insert(k, v, p) \/ SetByKey(k, v, p)
        \/ \E v \in Values, p \in Priorities : SetMin(v, p)
        \/ \E k \in Keys : Refuse(k) \/ RemoveKey(k) \/ Get(k)
        \/ \E p \in Priorities : PopIf(p)

Spec == Init /\ [][Next]_vars

(* Properties *)

\* Directory, nodes and heap name each other: a removal that moved buckets, heap
\* entries or both leaves no node with a bucket or a position that is another's.
NodesAreNamed ==
  /\ DOMAIN nodes = {table[b].node : b \in DOMAIN table}
  /\ \A b \in DOMAIN table : nodes[table[b].node].bucket = b
  /\ H!Reciprocal(heap) /\ H!Ordered(heap)
  /\ DOMAIN nodes = {heap.order[p].node : p \in DOMAIN heap.order}
  /\ ToSet(free) = (0 .. next - 1) \ DOMAIN nodes /\ IsInjective(free)
  /\ Connected(table, HashAt)

KeyNode(k) == CHOOSE n \in DOMAIN nodes : nodes[n].key = k
Held == [k \in {nodes[n].key : n \in DOMAIN nodes} |-> Content(KeyNode(k))]
=============================================================================
