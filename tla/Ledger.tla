------------------------------- MODULE Ledger -------------------------------
(***************************************************************************)
(* Entries that wait in lanes and belong to owners (src/depot/queue/group).*)
(* An entry is in the order of its lane and in the chain of its owner; the *)
(* owners are found by their key in a tree of branches, each testing the   *)
(* highest bit in which the keys below it differ.  All the nodes are plain *)
(* indices without generations: nothing notices one that is out of date.   *)
(* How a slab picks its slots is IndexedSlab's; here it is the least one.  *)
(***************************************************************************)
EXTENDS Integers, Sequences, SequencesExt, FiniteSets, FiniteSetsExt, TLC

CONSTANTS Shapes,     \* lanes, capacity and room of the ledgers to look at
          Keys,
          Masks,      \* the bits of a key
          Batches,    \* how many items are published at once
          None

VARIABLES shape,      \* lanes, capacity, and what wear has left of two slabs
          lane,       \* lane -> its entries, in order
          entry,      \* live slot -> owner, next of that owner
          length,     \* lane -> counter
          tree,       \* owners, branches and root
          guard       \* the guard the program holds

vars == <<shape, lane, entry, length, tree, guard>>

Capacity == shape.capacity
Slots == 1..Capacity
Lanes == 0..(shape.lanes - 1)
NoGuard == [phase |-> "none"]
Free == guard = NoGuard
Owner(i) == <<"owner", i>>
Branch(i) == <<"branch", i>>

Init ==
  /\ shape \in Shapes
  /\ lane = [l \in Lanes |-> <<>>] /\ length = [l \in Lanes |-> 0]
  /\ entry = <<>>
  /\ tree = [owners |-> <<>>, branches |-> <<>>, root |-> None]
  /\ guard = NoGuard

Without(f, i) == [j \in DOMAIN f \ {i} |-> f[j]]
Least(f, reserved) == Min(Slots \ (DOMAIN f \cup reserved))

-----------------------------------------------------------------------------
(* The tree.                                                               *)

Bit(k, m) == (k \div m) % 2 = 1
\* Mask::between.
Differ(a, b) == {m \in Masks : Bit(a, m) # Bit(b, m)}
Between(a, b) == Max(Differ(a, b))

Side(t, b, k) == IF Bit(k, t.branches[b].mask) THEN "one" ELSE "zero"
Child(t, b, k) == t.branches[b][Side(t, b, k)]
Sibling(t, b, k) == t.branches[b][IF Bit(k, t.branches[b].mask) THEN "zero" ELSE "one"]

\* Path::walk and path::select: the branches on the way, and what it ends at.
Walked(t, k) ==
  LET way[n \in 0..Cardinality(DOMAIN t.branches)] ==
        IF n = 0 THEN [path |-> <<>>, at |-> t.root]
        ELSE LET w == way[n - 1] IN
             IF w.at[1] = "owner" THEN w
             ELSE [path |-> Append(w.path, w.at[2]), at |-> Child(t, w.at[2], k)]
  IN way[Cardinality(DOMAIN t.branches)]
At(path, n) == IF n = 0 THEN None ELSE path[n]
Found(t, k) == Walked(t, k).at[2]
Has(t, k) == DOMAIN t.owners # {} /\ t.owners[Found(t, k)].key = k

\* The link of a parent on a key's side, or the root.
Linked(t, parent, k, link) ==
  IF parent = None THEN [t EXCEPT !.root = link]
  ELSE [t EXCEPT !.branches[parent] =
          IF Bit(k, @.mask) THEN [@ EXCEPT !.one = link] ELSE [@ EXCEPT !.zero = link]]

\* Mutant: the new branch goes above the last one on the way, whatever it tests.
RewoundLast(t, path, mask) == Len(path)
\* Path::rewind: the lowest branch on the way that tests a higher bit.
Rewound(t, path, mask) ==
  Max({0} \cup {n \in 1..Len(path) : t.branches[path[n]].mask > mask})

NoHeads == [l \in Lanes |-> None]
\* Branch::insert.
Branched(t, parent, mask, o, k) ==
  LET b == Least(t.branches, {})
      old == IF parent = None THEN t.root ELSE Child(t, parent, k)
  IN Linked([t EXCEPT !.branches = @ @@ (b :>
               IF Bit(k, mask) THEN [mask |-> mask, zero |-> old, one |-> Owner(o)]
               ELSE [mask |-> mask, zero |-> Owner(o), one |-> old])],
            parent, k, Branch(b))

\* Tree::intern and Draft::intern: the owner of a key, made if there is none.
\* It says which branch it made and under which parent.
Interned(t, k) ==
  LET way == Walked(t, k)
      mask == Between(k, t.owners[way.at[2]].key)
      parent == At(way.path, Rewound(t, way.path, mask))
      o == Least(t.owners, {})
      owned == [t EXCEPT !.owners = @ @@ (o :> [key |-> k, heads |-> NoHeads, tails |-> NoHeads])]
      b == Least(t.branches, {})
  IN IF DOMAIN t.owners = {}
     THEN [ok |-> TRUE, owner |-> o, added |-> TRUE, branch |-> None, parent |-> None,
           tree |-> [owned EXCEPT !.root = Owner(o)]]
     ELSE IF Differ(k, t.owners[way.at[2]].key) = {}
     THEN [ok |-> TRUE, owner |-> way.at[2], added |-> FALSE, branch |-> None, parent |-> None,
           tree |-> t]
     ELSE IF Cardinality(DOMAIN t.owners) >= shape.owners
     THEN [ok |-> FALSE, owner |-> None, added |-> FALSE, branch |-> None, parent |-> None,
           tree |-> t]
     ELSE IF Cardinality(DOMAIN t.branches) >= shape.branches
     THEN [ok |-> FALSE, owner |-> o, added |-> TRUE, branch |-> None, parent |-> None,
           tree |-> owned]
     ELSE [ok |-> TRUE, owner |-> o, added |-> TRUE, branch |-> b, parent |-> parent,
           tree |-> Branched(owned, parent, mask, o, k)]

\* Mutant: the branch goes, and its parent keeps the link to it.
RemovedDangling(t, o, b, parent) ==
  [t EXCEPT !.owners = Without(@, o), !.branches = Without(@, b)]
\* Root::remove: the sibling takes the place of the branch.
Removed(t, o, b, parent) ==
  LET k == t.owners[o].key
      cut == IF b = None THEN t
             ELSE LET up == Linked(t, parent, k, Sibling(t, b, k))
                  IN [up EXCEPT !.branches = Without(@, b)]
  IN [cut EXCEPT !.owners = Without(@, o)]

\* Bound::last: the branch above an owner is looked for again.
Dropped(t, o) ==
  LET path == Walked(t, t.owners[o].key).path
  IN Removed(t, o, At(path, Len(path)), At(path, IF path = <<>> THEN 0 ELSE Len(path) - 1))
Headless(t, o) == \A l \in Lanes : t.owners[o].heads[l] = None
Returned(t, o) == IF Headless(t, o) THEN Dropped(t, o) ELSE t

-----------------------------------------------------------------------------
(* Publishing.                                                             *)

\* vacant::Slot::insert: behind the last entry of the owner in the lane.
Inserted(s, l, o, i) ==
  LET last == s.tree.owners[o].tails[l]
  IN [entry |-> (IF last = None THEN s.entry ELSE [s.entry EXCEPT ![last].next = i])
                @@ (i :> [owner |-> o, next |-> None]),
      lane |-> [s.lane EXCEPT ![l] = Append(@, i)],
      length |-> [s.length EXCEPT ![l] = @ + 1],
      tree |-> [s.tree EXCEPT !.owners[o].tails[l] = i,
                              !.owners[o].heads[l] = IF last = None THEN i ELSE @]]
Parts == [entry |-> entry, lane |-> lane, length |-> length, tree |-> tree]
Becomes(s) == entry' = s.entry /\ lane' = s.lane /\ length' = s.length /\ tree' = s.tree
Room(n) == Cardinality(DOMAIN entry) + n <= Capacity

\* Draft::with: every owner before any entry.
Drafted(keys) ==
  LET made[n \in 0..Len(keys)] ==
        IF n = 0 THEN [ok |-> TRUE, tree |-> tree, owners |-> <<>>, journal |-> <<>>]
        ELSE LET m == made[n - 1]  i == Interned(m.tree, keys[n]) IN
             IF ~ m.ok THEN m
             ELSE [ok |-> i.ok, tree |-> i.tree, owners |-> Append(m.owners, i.owner),
                   journal |-> IF i.added THEN Append(m.journal, i @@ [key |-> keys[n]])
                               ELSE m.journal]
  IN made[Len(keys)]

\* Mutant: the journal is read from its start.
UndoneForward(d) ==
  LET back[n \in 0..Len(d.journal)] ==
        IF n = 0 THEN d.tree
        ELSE LET j == d.journal[n]  t == back[n - 1]
             IN IF j.branch = None THEN t
                ELSE Linked(t, j.parent, j.key, Sibling(t, j.branch, j.key))
  IN [back[Len(d.journal)] EXCEPT
        !.branches = [b \in DOMAIN @ \ {d.journal[n].branch : n \in 1..Len(d.journal)} |-> @[b]],
        !.owners = [o \in DOMAIN @ \ {d.journal[n].owner : n \in 1..Len(d.journal)} |-> @[o]]]
\* Undo::return_item, Branch::collapse, then the scopes: from the last change on.
Undone(d) ==
  LET size == Len(d.journal)
      back[n \in 0..size] ==
        IF n = 0 THEN d.tree
        ELSE LET j == d.journal[size + 1 - n]  t == back[n - 1]
             IN IF j.branch = None THEN t
                ELSE Linked(t, j.parent, j.key, Sibling(t, j.branch, j.key))
  IN [back[size] EXCEPT
        !.branches = [b \in DOMAIN @ \ {d.journal[n].branch : n \in 1..size} |-> @[b]],
        !.owners = [o \in DOMAIN @ \ {d.journal[n].owner : n \in 1..size} |-> @[o]]]

\* Batch::new and publish.
Publish(items) ==
  LET d == Drafted([n \in DOMAIN items |-> items[n].key])
      done[n \in 0..Len(items)] ==
        IF n = 0 THEN [Parts EXCEPT !.tree = d.tree]
        ELSE Inserted(done[n - 1], items[n].lane, d.owners[n], Least(done[n - 1].entry, {}))
  IN /\ Free /\ Room(Len(items))
     /\ Becomes(IF d.ok THEN done[Len(items)] ELSE [Parts EXCEPT !.tree = Undone(d)])
     /\ UNCHANGED <<shape, guard>>

\* Batch::bind, which push_back uses: a branch that does not fit takes the owner
\* along; the entry that is not inserted takes what was added.
Bind(l, k) ==
  LET i == Interned(tree, k) IN
  /\ Free /\ Room(1)
  /\ IF i.ok
     THEN /\ tree' = i.tree
          /\ guard' = [phase |-> "entry", slot |-> Least(entry, {}), lane |-> l, owner |-> i.owner,
                       added |-> i.added, branch |-> i.branch, parent |-> i.parent]
     ELSE /\ tree' = [i.tree EXCEPT !.owners = IF i.added THEN Without(@, i.owner) ELSE @]
          /\ UNCHANGED guard
  /\ UNCHANGED <<shape, lane, entry, length>>
InsertEntry ==
  /\ guard.phase = "entry"
  /\ Becomes(Inserted(Parts, guard.lane, guard.owner, guard.slot))
  /\ guard' = NoGuard /\ UNCHANGED shape
DropEntry ==
  /\ guard.phase = "entry"
  /\ tree' = IF guard.added THEN Removed(tree, guard.owner, guard.branch, guard.parent) ELSE tree
  /\ guard' = NoGuard /\ UNCHANGED <<shape, lane, entry, length>>

-----------------------------------------------------------------------------
(* Fronts and drains.                                                      *)

\* Entry::detach: the next of the entry is the head, and without one there is
\* no tail.
Detached(t, o, l, next) ==
  [t EXCEPT !.owners[o].heads[l] = next,
            !.owners[o].tails[l] = IF next = None THEN None ELSE @]

\* Mutant: an owner is dropped with the last entry of a lane.
FrontTreeLane(o, l, next) ==
  IF next # None THEN Detached(tree, o, l, next) ELSE Dropped(tree, o)
\* Bound::remove: the owner stays while any lane has a head.
FrontTree(o, l, next) ==
  IF next # None \/ \E m \in Lanes \ {l} : tree.owners[o].heads[m] # None
  THEN Detached(tree, o, l, next) ELSE Dropped(tree, o)

\* bind_front and Front::pop.
PopFront(l) ==
  LET i == Head(lane[l]) IN
  /\ Free /\ lane[l] # <<>>
  /\ tree' = FrontTree(entry[i].owner, l, entry[i].next)
  /\ lane' = [lane EXCEPT ![l] = Tail(@)]
  /\ entry' = Without(entry, i)
  /\ length' = [length EXCEPT ![l] = @ - 1]
  /\ UNCHANGED <<shape, guard>>

\* take_first and Front::take: the slot and the owner are kept for the value.
TakeFront(l) ==
  LET i == Head(lane[l]) IN
  /\ Free /\ lane[l] # <<>>
  /\ tree' = Detached(tree, entry[i].owner, l, entry[i].next)
  /\ lane' = [lane EXCEPT ![l] = Tail(@)]
  /\ entry' = Without(entry, i)
  /\ length' = [length EXCEPT ![l] = @ - 1]
  /\ guard' = [phase |-> "vacancy", slot |-> i, lane |-> l, owner |-> entry[i].owner]
  /\ UNCHANGED shape
\* Vacancy::restore, and its drop.
Restore ==
  LET o == guard.owner  l == guard.lane  next == tree.owners[o].heads[l] IN
  /\ guard.phase = "vacancy"
  /\ tree' = [tree EXCEPT !.owners[o].heads[l] = guard.slot,
                          !.owners[o].tails[l] = IF next = None THEN guard.slot ELSE @]
  /\ lane' = [lane EXCEPT ![l] = <<guard.slot>> \o @]
  /\ entry' = entry @@ (guard.slot :> [owner |-> o, next |-> next])
  /\ length' = [length EXCEPT ![l] = @ + 1]
  /\ guard' = NoGuard /\ UNCHANGED shape
DropVacancy ==
  /\ guard.phase = "vacancy"
  /\ tree' = Returned(tree, guard.owner)
  /\ guard' = NoGuard /\ UNCHANGED <<shape, lane, entry, length>>

\* Drain::new, next_entry and remove, and the end of the lease.
Drain(l, k) ==
  /\ Free /\ Has(tree, k) /\ tree.owners[Found(tree, k)].heads[l] # None
  /\ guard' = [phase |-> "drain", lane |-> l, owner |-> Found(tree, k)]
  /\ UNCHANGED <<shape, lane, entry, length, tree>>
DrainNext ==
  LET i == tree.owners[guard.owner].heads[guard.lane] IN
  /\ guard.phase = "drain" /\ i # None
  /\ tree' = Detached(tree, guard.owner, guard.lane, entry[i].next)
  /\ lane' = [lane EXCEPT ![guard.lane] = SelectSeq(@, LAMBDA j : j # i)]
  /\ entry' = Without(entry, i)
  /\ length' = [length EXCEPT ![guard.lane] = @ - 1]
  /\ UNCHANGED <<shape, guard>>
EndDrain ==
  /\ guard.phase = "drain"
  /\ tree' = Returned(tree, guard.owner)
  /\ guard' = NoGuard /\ UNCHANGED <<shape, lane, entry, length>>

\* Ledger::clear, of one lane.
Clear ==
  /\ Free /\ shape.lanes = 1
  /\ lane' = [l \in Lanes |-> <<>>] /\ length' = [l \in Lanes |-> 0] /\ entry' = <<>>
  /\ tree' = [tree EXCEPT !.owners = <<>>, !.branches = <<>>]
  /\ UNCHANGED <<shape, guard>>

Items(n) == [1..n -> [lane : Lanes, key : Keys]]
Next ==
  \/ \E n \in Batches : \E items \in Items(n) : Publish(items)
  \/ \E l \in Lanes : \/ PopFront(l) \/ TakeFront(l)
                      \/ \E k \in Keys : Bind(l, k) \/ Drain(l, k)
  \/ InsertEntry \/ DropEntry \/ Restore \/ DropVacancy \/ DrainNext \/ EndDrain \/ Clear
Spec == Init /\ [][Next]_vars

-----------------------------------------------------------------------------
(* Properties.                                                             *)

\* The links below a link, as far as the tree is finite.
Below(link) ==
  LET from[n \in 0..(Capacity + 1), at \in {Owner(i) : i \in Slots} \cup {Branch(i) : i \in Slots}] ==
        IF n = 0 \/ at[1] = "owner" \/ at[2] \notin DOMAIN tree.branches THEN <<at>>
        ELSE <<at>> \o from[n - 1, tree.branches[at[2]].zero] \o from[n - 1, tree.branches[at[2]].one]
  IN from[Capacity + 1, link]

Chain(o, l) ==
  LET from[n \in 0..Capacity, i \in Slots \cup {None}] ==
        IF n = 0 \/ i \notin DOMAIN entry THEN <<>> ELSE <<i>> \o from[n - 1, entry[i].next]
  IN from[Capacity, tree.owners[o].heads[l]]

Deeper(b, link) == link[1] = "branch" => tree.branches[link[2]].mask < tree.branches[b].mask

\* The tree reaches every owner and every branch once, and each owner by its
\* key, on a way that tests lower and lower bits, so that it fits the room for
\* one of every bit (path.rs:131); an owner without entries is one a guard is about to fill or to drop; the
\* chain of an owner in a lane is its entries in the order of the lane, so that
\* the front of a lane is the head of its owner (mod.rs:102), and its last entry
\* the one the next is bound to (vacant.rs:54).
LedgerIsSound ==
  /\ DOMAIN tree.owners # {} =>
       LET all == Below(tree.root) IN
       /\ IsInjective(all)
       /\ ToSet(all) = {Owner(o) : o \in DOMAIN tree.owners}
                       \cup {Branch(b) : b \in DOMAIN tree.branches}
       /\ \A o \in DOMAIN tree.owners : Found(tree, tree.owners[o].key) = o
       /\ \A b \in DOMAIN tree.branches :
            Deeper(b, tree.branches[b].zero) /\ Deeper(b, tree.branches[b].one)
  /\ DOMAIN tree.owners = {} => DOMAIN tree.branches = {}
  /\ \A o \in DOMAIN tree.owners :
       Headless(tree, o) => ~ Free /\ guard.owner = o
  /\ \A l \in Lanes :
       /\ length[l] = Len(lane[l])
       /\ ToSet(lane[l]) \subseteq DOMAIN entry
       /\ \A o \in DOMAIN tree.owners :
            LET own == SelectSeq(lane[l], LAMBDA i : entry[i].owner = o) IN
            /\ Chain(o, l) = own
            /\ tree.owners[o].tails[l] = IF own = <<>> THEN None ELSE Last(own)
  /\ \A i \in DOMAIN entry : entry[i].owner \in DOMAIN tree.owners
=============================================================================
