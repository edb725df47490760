------------------------------ MODULE Segments ------------------------------
(***************************************************************************)
(* Segment queues and pooled chains (src/buffer/segments).  A pool lends   *)
(* nodes and descriptors.  A chain is a key into one pool: of nothing, of  *)
(* one node, or of a descriptor that keeps the number, the bytes and the   *)
(* resident memory of two or more nodes, so none of them is ever counted   *)
(* again.  A Many is a chain with a descriptor, and grows into a pool of   *)
(* its own when its pool is full.  A fifo is a ring of segments with a     *)
(* count of its bytes.  An item is the bytes of a segment, never none, and *)
(* the memory of its storage, which a split leaves to both halves.         *)
(***************************************************************************)
EXTENDS Integers, Sequences, SequencesExt, FiniteSets, FiniteSetsExt

CONSTANTS
  Plans,      \* the pools the program makes: their segments and chains
  Chains,     \* the chains it holds at once
  Items,      \* what it puts in: bytes and memory
  Policies,   \* when a slice is shared and not copied: min and factor
  Room,       \* of the fifo: bytes and segments
  LIMIT       \* usize::MAX

VARIABLES
  store,      \* pool -> what it was made with, nodes and descriptors still free
  chain,      \* chain -> its pool, its key, its items and its descriptor
  entries,    \* the items of the fifo
  length      \* its bytes

vars == <<store, chain, entries, length>>

Bytes(items) == FlattenSeq([n \in DOMAIN items |-> items[n].bytes])
Size(items) == Len(Bytes(items))
Memory(items) == FoldLeft(LAMBDA sum, item : sum + item.mem, 0, items)

NoPool == [made |-> [nodes |-> 0, descriptors |-> 0], nodes |-> 0, descriptors |-> 0]
\* Pool::allocate.
Made(plan) == [made |-> plan, nodes |-> plan.nodes, descriptors |-> plan.descriptors]
Zero == [count |-> 0, len |-> 0, mem |-> 0]
\* Chain::new.
Blank(p) == [pool |-> p, key |-> "empty", items |-> <<>>, descriptor |-> Zero]
Absent == Blank(0)

\* Pool::try_new refuses more chains than half the segments.
PoolIds == 1 .. (Len(Plans) + Cardinality(Chains))
Init ==
  /\ \A p \in DOMAIN Plans : Plans[p].descriptors <= Plans[p].nodes \div 2
  /\ store = [p \in PoolIds |-> IF p \in DOMAIN Plans THEN Made(Plans[p]) ELSE NoPool]
  /\ chain = [c \in Chains |-> Absent]
  /\ entries = <<>> /\ length = 0

Live == {c \in Chains : chain[c].pool # 0}
Mine(c) == store[chain[c].pool]
Own(p) == p \notin DOMAIN Plans

\* A pool of a Many goes with the last chain of it.
Kept(pools, chains) ==
  [p \in PoolIds |-> IF Own(p) /\ \A c \in Chains : chains[c].pool # p THEN NoPool ELSE pools[p]]
Become(s) == chain' = s.chain /\ store' = Kept(s.store, s.chain)
Now == [store |-> store, chain |-> chain]
Spends(s, p, nodes, descriptors) ==
  [s EXCEPT !.store[p].nodes = @ - nodes, !.store[p].descriptors = @ - descriptors]

-----------------------------------------------------------------------------
(* Totals.                                                                 *)

\* Chain::totals.
Totals(c) ==
  CASE c.key = "empty"  -> Zero
    [] c.key = "single" -> [count |-> 1, len |-> Len(c.items[1].bytes), mem |-> c.items[1].mem]
    [] c.key = "multi"  -> c.descriptor

Total(items) == [count |-> Len(items), len |-> Size(items), mem |-> Memory(items)]
\* total::Error and Growth: the totals of both, when they can be written.
Plus(a, b) == [count |-> a.count + b.count, len |-> a.len + b.len, mem |-> a.mem + b.mem]
Fits(t) == t.len <= LIMIT /\ t.mem <= LIMIT

\* A chain of so many nodes and the totals its descriptor is to hold.
Shaped(p, items, totals) ==
  [pool |-> p, items |-> items,
   key |-> CASE totals.count = 0 -> "empty" [] totals.count = 1 -> "single" [] OTHER -> "multi",
   descriptor |-> IF totals.count > 1 THEN totals ELSE Zero]
HasMany(c) == IF c.key = "multi" THEN 1 ELSE 0

-----------------------------------------------------------------------------
(* One segment.                                                            *)

\* The pools: Pool::try_chain.
Open(c, p) ==
  /\ chain[c] = Absent /\ p \in DOMAIN Plans
  /\ chain' = [chain EXCEPT ![c] = Blank(p)] /\ UNCHANGED <<store, entries, length>>

\* Chain::try_insert: a node, and for the second segment a descriptor.
Insert(c, item) ==
  LET sum == Plus(Totals(chain[c]), Total(<<item>>))
      second == IF chain[c].key = "single" THEN 1 ELSE 0
  IN /\ c \in Live /\ Fits(sum) /\ Mine(c).nodes >= 1 /\ Mine(c).descriptors >= second
     /\ chain' = [chain EXCEPT ![c] = Shaped(@.pool, Append(@.items, item), sum)]
     /\ store' = Spends(Now, chain[c].pool, 1, second).store
     /\ UNCHANGED <<entries, length>>

\* Removed::finish and Single::take: the second last gives the descriptor up.
Shorter(s, c) ==
  LET now == s.chain[c]
      first == Head(now.items)
      two == now.key = "multi" /\ now.descriptor.count = 2
      less == IF now.key = "multi"
              THEN [count |-> now.descriptor.count - 1,
                    len |-> now.descriptor.len - Len(first.bytes),
                    mem |-> now.descriptor.mem - first.mem]
              ELSE Zero
  IN [Spends(s, now.pool, -1, IF two THEN -1 ELSE 0)
        EXCEPT !.chain[c] = Shaped(@.pool, Tail(@.items), less)]

\* Front::take.
Pop(c) ==
  /\ c \in Live /\ chain[c].key # "empty"
  /\ Become(Shorter(Now, c)) /\ UNCHANGED <<entries, length>>

\* Chain::release: into_shape, clear, and the chain that is dropped.
Released(s, c, kept) ==
  LET now == s.chain[c]
  IN [Spends(s, now.pool, 0 - Len(now.items), 0 - HasMany(now))
        EXCEPT !.chain[c] = IF kept THEN Blank(now.pool) ELSE Absent]
Clear(c) == c \in Live /\ Become(Released(Now, c, TRUE)) /\ UNCHANGED <<entries, length>>
Drop(c) == c \in Live /\ Become(Released(Now, c, FALSE)) /\ UNCHANGED <<entries, length>>

-----------------------------------------------------------------------------
(* Prefixes.                                                               *)

\* Shape::try_new: the segments an amount covers, and what it cuts off the next.
Full(items, amount) ==
  Max({n \in 0 .. Len(items) : Size(SubSeq(items, 1, n)) <= amount})
Cut(items, amount) == amount - Size(SubSeq(items, 1, Full(items, amount)))
Prefix(item, n) == [item EXCEPT !.bytes = SubSeq(@, 1, n)]
\* Tail::commit.
Rest(item, n) == [item EXCEPT !.bytes = SubSeq(@, n + 1, Len(@))]
CutOff(items, n) == IF n = 0 THEN items ELSE <<Rest(Head(items), n)>> \o Tail(items)

\* Mutant: what is cut off a segment is not taken off the bytes of the chain.
DrainedCutKeeps(s, c, amount) ==
  LET n == Full(s.chain[c].items, amount)
      left == Cut(s.chain[c].items, amount)
      gone == FoldLeft(LAMBDA t, k : Shorter(t, c), s, [k \in 1 .. n |-> k])
  IN [gone EXCEPT !.chain[c].items = CutOff(@, left)]

\* Drain::commit of a chain: whole segments leave one by one, the last is cut.
Drained(s, c, amount) ==
  LET n == Full(s.chain[c].items, amount)
      left == Cut(s.chain[c].items, amount)
      gone == FoldLeft(LAMBDA t, k : Shorter(t, c), s, [k \in 1 .. n |-> k])
  IN [gone EXCEPT !.chain[c].items = CutOff(@, left),
                  !.chain[c].descriptor.len = IF gone.chain[c].key = "multi" THEN @ - left ELSE @]
Consume(c, amount) ==
  /\ c \in Live /\ amount \in 0 .. Totals(chain[c]).len
  /\ Become(Drained(Now, c, amount)) /\ UNCHANGED <<entries, length>>

\* Topology::try_pair: a source that is left with less than two segments gives its
\* descriptor up, a target of more than one takes one; in one pool it is handed over.
Paired(from, to, remains, count, other) ==
  LET frees == from.key = "multi" /\ remains < 2
      claims == to.key # "multi" /\ count > 1
  IN [frees |-> frees, claims |-> claims, handed |-> ~ other /\ frees /\ claims]

\* Projection: the segments of a prefix go to the back of another chain.  In one pool
\* they keep their nodes, and only the half that is cut off takes one.
Moved(s, c, d, amount) ==
  LET from == s.chain[c]  to == s.chain[d]
      n == Full(from.items, amount)
      left == Cut(from.items, amount)
      split == IF left = 0 THEN 0 ELSE 1
      head == SubSeq(from.items, 1, n)
      items == head \o IF left = 0 THEN <<>> ELSE <<Prefix(from.items[n + 1], left)>>
      rest == CutOff(SubSeq(from.items, n + 1, Len(from.items)), left)
      old == Totals(from)
      sum == Plus(Totals(to), [Total(items) EXCEPT !.len = amount])
      less == [count |-> old.count - n, len |-> old.len - amount, mem |-> old.mem - Memory(head)]
      other == from.pool # to.pool
      pair == Paired(from, to, less.count, sum.count, other)
  IN [fits |-> /\ Fits(sum)
               /\ s.store[to.pool].nodes >= IF other THEN n + split ELSE split
               /\ pair.claims => pair.handed \/ s.store[to.pool].descriptors >= 1,
      state |->
        [Spends(Spends(s, from.pool, 0 - n, IF pair.frees THEN -1 ELSE 0),
                to.pool, n + split, IF pair.claims THEN 1 ELSE 0)
           EXCEPT !.chain[c] = Shaped(@.pool, rest, less),
                  !.chain[d] = Shaped(@.pool, to.items \o items, sum)]]

MoveTo(c, d, amount) ==
  LET move == Moved(Now, c, d, amount)
  IN /\ {c, d} \subseteq Live /\ c # d /\ amount \in 1 .. (Totals(chain[c]).len - 1)
     /\ move.fits /\ Become(move.state) /\ UNCHANGED <<entries, length>>

\* Chain::try_take: into a new chain of the same pool, whole when that is all.
Take(c, d, amount) ==
  LET from == chain[c]
      begun == [Now EXCEPT !.chain[d] = Blank(from.pool)]
      move == IF amount = Totals(from).len
              THEN [fits |-> TRUE,
                    state |-> [Now EXCEPT !.chain[c] = Blank(from.pool), !.chain[d] = from]]
              ELSE IF amount = 0 THEN [fits |-> TRUE, state |-> begun]
              ELSE Moved(begun, c, d, amount)
  IN /\ c \in Live /\ chain[d] = Absent /\ amount \in 0 .. Totals(from).len
     /\ move.fits /\ Become(move.state) /\ UNCHANGED <<entries, length>>

-----------------------------------------------------------------------------
(* Joins.                                                                  *)

\* Mutant: a descriptor that is spliced is not given up.
JoinedKeeps(s, d, c) ==
  LET from == s.chain[c]  to == s.chain[d]
      sum == Plus(Totals(to), Totals(from))
      other == from.pool # to.pool
      claims == to.key # "multi" /\ sum.count > 1
      handed == ~ other /\ from.key = "multi"
      added == Len(from.items)
  IN [fits |-> Fits(sum),
      short |-> \/ other /\ s.store[to.pool].nodes < added
                \/ claims /\ ~ handed /\ s.store[to.pool].descriptors < 1,
      state |->
        [Spends(Spends(s, from.pool, 0 - added, 0 - (IF other THEN HasMany(from) ELSE 0)),
                to.pool, added, IF claims /\ ~ handed THEN 1 ELSE 0)
           EXCEPT !.chain[c] = Blank(from.pool),
                  !.chain[d] = Shaped(@.pool, to.items \o from.items, sum)]]

\* Relation::try_commit: the source behind the target.  In one pool two nodes take
\* a descriptor, a node goes before or behind the chain of one, and of two
\* descriptors the source's is given up; into another pool every item is moved.
Joined(s, d, c) ==
  LET from == s.chain[c]  to == s.chain[d]
      sum == Plus(Totals(to), Totals(from))
      other == from.pool # to.pool
      claims == to.key # "multi" /\ sum.count > 1
      handed == claims /\ ~ other /\ from.key = "multi"
      added == Len(from.items)
  IN [fits |-> from.key = "empty" \/ Fits(sum),
      short |-> \/ other /\ s.store[to.pool].nodes < added
                \/ claims /\ ~ handed /\ from.key # "empty" /\ s.store[to.pool].descriptors < 1,
      state |->
        IF from.key = "empty" THEN s
        ELSE [Spends(Spends(s, from.pool, 0 - added, 0 - HasMany(from)),
                     to.pool, added, IF claims THEN 1 ELSE 0)
                EXCEPT !.chain[c] = Blank(from.pool),
                       !.chain[d] = Shaped(@.pool, to.items \o from.items, sum)]]

\* Chain::try_move_to of the whole chain, and Chain::try_append in one pool.
JoinTo(c, d) ==
  LET join == Joined(Now, d, c)
  IN /\ {c, d} \subseteq Live /\ c # d /\ join.fits /\ ~ join.short
     /\ Become(join.state) /\ UNCHANGED <<entries, length>>

\* Chain::try_extend takes a Many, which is gone when it has been joined.
Extend(c, d) ==
  LET join == Joined(Now, d, c)
  IN /\ {c, d} \subseteq Live /\ c # d /\ chain[c].key = "multi" /\ join.fits /\ ~ join.short
     /\ Become([join.state EXCEPT !.chain[c] = Absent]) /\ UNCHANGED <<entries, length>>

\* Layout::reserve: room that grows twofold.
Doubled(current, required) ==
  IF required <= current THEN current ELSE Max({required, 2 * current, 4})
\* Parts::try_reserve: what is needed when so much cannot be had.
Reserve(current, required) == {Doubled(current, required), required}
\* A pool id of nobody once the chains that are collected are gone.
Fresh(gone) == CHOOSE p \in PoolIds : Own(p) /\ \A c \in Chains \ gone : chain[c].pool # p

\* Exact::collect: the items leave their chains for a pool of one descriptor.
Collected(c, gone, items, totals, nodes) ==
  LET left == FoldSet(LAMBDA e, s : Released(s, e, FALSE), Now, gone)
      p == Fresh(gone \cup {c})
  IN [left EXCEPT !.store[p] = [Made([nodes |-> nodes, descriptors |-> 1])
                                  EXCEPT !.nodes = nodes - Len(items), !.descriptors = 0],
                  !.chain[c] = Shaped(p, items, totals)]

\* Many::try_from of two items.
Pair(c, a, b) ==
  LET sum == Plus(Total(<<a>>), Total(<<b>>))
  IN /\ chain[c] = Absent /\ Fits(sum)
     /\ Become(Collected(c, {}, <<a, b>>, sum, 2)) /\ UNCHANGED <<entries, length>>

\* Many::try_insert at either end: in place, or into a pool of its own.
Grow(c, item, front) ==
  LET items == IF front THEN <<item>> \o chain[c].items ELSE Append(chain[c].items, item)
      sum == Plus(Totals(chain[c]), Total(<<item>>))
  IN /\ c \in Live /\ chain[c].key = "multi" /\ Fits(sum)
     /\ IF Mine(c).nodes >= 1
        THEN Become([Spends(Now, chain[c].pool, 1, 0)
                       EXCEPT !.chain[c] = Shaped(@.pool, items, sum)])
        ELSE \E nodes \in Reserve(chain[c].descriptor.count, sum.count) :
               Become(Collected(c, {c}, items, sum, nodes))
     /\ UNCHANGED <<entries, length>>

\* Many::try_from of two: joined, or when there is no room both collected.
Merge(c, d) ==
  LET join == Joined(Now, d, c)
      sum == Plus(Totals(chain[d]), Totals(chain[c]))
  IN /\ {c, d} \subseteq Live /\ c # d /\ chain[c].key = "multi" /\ chain[d].key = "multi"
     /\ join.fits
     /\ IF ~ join.short THEN Become([join.state EXCEPT !.chain[c] = Absent])
        ELSE \E nodes \in Reserve(chain[d].descriptor.count, sum.count) :
               Become(Collected(d, {c, d}, chain[d].items \o chain[c].items, sum, nodes))
     /\ UNCHANGED <<entries, length>>

-----------------------------------------------------------------------------
(* The fifo.                                                               *)

\* Fifo::try_push.
Push(item) ==
  /\ Len(item.bytes) <= Room.bytes - length /\ Len(entries) < Room.segments
  /\ entries' = Append(entries, item) /\ length' = length + Len(item.bytes)
  /\ UNCHANGED <<store, chain>>

\* Drain::commit of a fifo.
ConsumeFifo(amount) ==
  /\ amount \in 0 .. length
  /\ length' = length - amount
  /\ entries' = CutOff(SubSeq(entries, Full(entries, amount) + 1, Len(entries)),
                       Cut(entries, amount))
  /\ UNCHANGED <<store, chain>>

\* Item::clamp.
Clamp(item, start, end) ==
  [item EXCEPT !.bytes = SubSeq(@, start + 1, Min({end, Len(@)}))]
\* Slice::views: what a range covers of each entry.
Views(from, to) ==
  LET logical(n) == Size(SubSeq(entries, 1, n - 1))
      views == [n \in DOMAIN entries |->
                  Clamp(entries[n], Max({from - logical(n), 0}), to - logical(n))]
  IN SelectSeq(views, LAMBDA view : view.bytes # <<>>)

\* Cursor::locate from the start.
Segment(offset) == Full(entries, offset)
\* Slice::try_bound: the number of nodes is told before the views are, from the
\* segment the slice starts in when it ends the queue.
Counted(from, to) == IF to = length THEN Len(entries) - Segment(from) ELSE Len(Views(from, to))

\* Policy::allows_share: whether a segment is worth the memory it keeps.
AllowsShare(policy, view) ==
  LET len == Len(view.bytes)
  IN /\ len >= policy.min /\ policy.factor # 0
     /\ view.mem <= Min({len * policy.factor, LIMIT})
\* Views::project: it is shared, or copied into as much as it is long.
Projected(view, policy) ==
  [view EXCEPT !.mem = IF AllowsShare(policy, view) THEN @ ELSE Len(view.bytes)]

\* Pool::try_build.
Build(d, p, from, to, policy) ==
  LET views == Views(from, to)
      items == [n \in DOMAIN views |-> Projected(views[n], policy)]
      totals == [count |-> Counted(from, to), len |-> to - from, mem |-> Memory(items)]
      many == IF totals.count > 1 THEN 1 ELSE 0
  IN /\ chain[d] = Absent /\ p \in DOMAIN Plans /\ from \in 0 .. to /\ to <= length
     /\ Fits(totals) /\ store[p].nodes >= totals.count /\ store[p].descriptors >= many
     /\ chain' = [chain EXCEPT ![d] = Shaped(p, items, totals)]
     /\ store' = Spends(Now, p, totals.count, many).store
     /\ UNCHANGED <<entries, length>>

-----------------------------------------------------------------------------
Lengths == 0 .. LIMIT
Single ==
  \/ \E c \in Chains, p \in DOMAIN Plans : Open(c, p)
  \/ \E c \in Chains, item \in Items : Insert(c, item)
  \/ \E c \in Chains : Pop(c) \/ Clear(c) \/ Drop(c)
  \/ \E c \in Chains, amount \in Lengths : Consume(c, amount)
Double ==
  \/ \E c, d \in Chains : JoinTo(c, d) \/ Extend(c, d) \/ Merge(c, d)
  \/ \E c, d \in Chains, amount \in Lengths : MoveTo(c, d, amount) \/ Take(c, d, amount)
Growing ==
  \/ \E c \in Chains, a, b \in Items : Pair(c, a, b)
  \/ \E c \in Chains, item \in Items, front \in BOOLEAN : Grow(c, item, front)
Queue ==
  \/ \E item \in Items : Push(item)
  \/ \E amount \in Lengths : ConsumeFifo(amount)
  \/ \E d \in Chains, p \in DOMAIN Plans, from, to \in Lengths, policy \in Policies :
       Build(d, p, from, to, policy)
Next == Single \/ Double \/ Growing \/ Queue
Spec == Init /\ [][Next]_vars

-----------------------------------------------------------------------------
\* Whatever was split, joined, moved between pools or collected: a chain is keyed
\* by how many segments it has, its descriptor holds exactly what they sum to, no
\* segment is without bytes, and each pool has lent the nodes and descriptors its
\* chains have and no others; the fifo counts its bytes (remove.rs:84,
\* prefix/topology.rs:220, drain.rs:79).
TotalsAreTold ==
  /\ \A c \in Chains :
       /\ chain[c] = Shaped(chain[c].pool, chain[c].items, Total(chain[c].items))
       /\ \A n \in DOMAIN chain[c].items : chain[c].items[n].bytes # <<>>
  /\ \A p \in PoolIds :
       LET of == {c \in Chains : chain[c].pool = p}
       IN /\ store[p].made.nodes
               = store[p].nodes + FoldSet(LAMBDA c, n : n + Len(chain[c].items), 0, of)
          /\ store[p].made.descriptors
               = store[p].descriptors + Cardinality({c \in of : chain[c].key = "multi"})
  /\ length = Size(entries) /\ Len(entries) <= Room.segments /\ length <= Room.bytes

\* The bytes keep their order: a call takes a prefix of one chain away, or puts it
\* behind another, or puts one segment or a part of the fifo behind or, for a Many,
\* before one; of the fifo it takes a prefix or puts a segment behind.
Suffixed(s, t) == \E n \in 0 .. Len(s) : t = SubSeq(s, n + 1, Len(s))
OrderIsKept ==
  LET old == [c \in Chains |-> Bytes(chain[c].items)]
      new == [c \in Chains |-> Bytes(chain[c].items)']
      queue == Bytes(entries)
      changed == {c \in Chains : old[c] # new[c]}
      parts == {item.bytes : item \in Items}
               \cup {SubSeq(queue, a, b) : a \in 1 .. Len(queue), b \in 1 .. Len(queue)}
  IN /\ \/ Cardinality(changed) = 0
        \/ \E c \in changed :
             /\ changed = {c}
             /\ \/ Suffixed(old[c], new[c])
                \/ \E part \in parts : new[c] \in {old[c] \o part, part \o old[c]}
                \/ \E a, b \in Items : old[c] = <<>> /\ new[c] = a.bytes \o b.bytes
        \/ \E c, d \in changed :
             /\ changed = {c, d} /\ c # d /\ Suffixed(old[c], new[c])
             /\ new[d] \o new[c] = old[d] \o old[c]
     /\ \/ Suffixed(queue, Bytes(entries'))
        \/ \E item \in Items : Bytes(entries') = queue \o item.bytes
=============================================================================
