----------------------------- MODULE SlabProofs -----------------------------
(***************************************************************************)
(* The planes of a slab agree, for every number of slots, generations and  *)
(* epochs and every shape, and its keys are those of KeySpace.             *)
(*                                                                         *)
(* PlanesAgree is not inductive.  A removal trusts the position of a slot  *)
(* and a vacancy the links of a free one, so the invariant also says that  *)
(* the free links are written on both sides, stay among the free slots of  *)
(* a partition and never run in a circle (FreeLinks), what a guard tells   *)
(* of its slot (SlotFits),                                                 *)
(* that the dense plane counts the live slots (CountsFit), and that a key  *)
(* that has ended is older than its slot (SpentFits).                      *)
(***************************************************************************)
EXTENDS Slab, Sums, SequenceTheorems, TLAPS

LinksBack(i) == content[i].prev # NONE =>
  /\ content[i].prev \in Slots /\ state[content[i].prev] = "Free"
  /\ content[content[i].prev].next = i /\ Partition(content[i].prev) = Partition(i)
LinksOn(i) == content[i].next # NONE =>
  /\ content[i].next \in Slots /\ state[content[i].next] = "Free"
  /\ content[content[i].next].prev = i /\ Partition(content[i].next) = Partition(i)
\* Back links do not run in a circle: some rank falls along them.
Ranks(r) == \A i \in Slots : state[i] = "Free" /\ content[i].prev # NONE => r[content[i].prev] < r[i]
Ordered  == \E r \in [Slots -> Nat] : Ranks(r)
FreeLinks ==
  /\ \A i \in Slots : state[i] = "Free" =>
       /\ LinksBack(i) /\ LinksOn(i)
       /\ content[i].prev = NONE => heads[Partition(i)] = i
  /\ \A p \in Partitions : heads[p] # NONE =>
       /\ state[heads[p]] = "Free" /\ content[heads[p]].prev = NONE
       /\ Partition(heads[p]) = p
  /\ Ordered

\* What the guard, the union and the loan say of one slot.
SlotFits(i) ==
  /\ state[i] = "Free" => content[i].tag = "links"
  /\ content[i].tag = "value" <=> Live(i) /\ guard[i] # "dropping" /\ loan # "gone"
  /\ guard[i] \in {"vacancy", "issued"} => state[i] = "Reserved"
  /\ guard[i] \in {"held", "staged"} => state[i] = Taken
  /\ guard[i] = "dropping" => Reentrant /\ state[i] = "Busy"
  /\ state[i] = "Busy" => Reentrant
  /\ state[i] = "Unbuilt" <=> i >= built
  /\ loan \in {"clear", "gone"} => guard[i] = "none"
  /\ loan = "entries" /\ i >= cursor => guard[i] = "none"
  /\ \/ state[i] = "Retired"
     \/ state[i] = "Reserved" /\ guard[i] = "none"
     \/ <<i, gen[i]>> \notin spent

NestFits ==
  /\ \A n \in DOMAIN nest : guard[nest[n]] = "dropping"
  /\ \A m, n \in DOMAIN nest : nest[m] = nest[n] => m = n

LiveSlots    == {i \in Slots : Live(i)}
RetiredSlots == {i \in Slots : state[i] = "Retired"}
CountsFit == len = Cardinality(LiveSlots) /\ retired = Cardinality(RetiredSlots)

SpentFits == \A k \in spent : k[2] <= gen[k[1]]

Types ==
  /\ shape \in Shapes
  /\ state \in [Slots -> States] /\ gen \in [Slots -> Generations]
  /\ content \in [Slots -> Content]
  /\ heads \in [Partitions -> Slots \cup {NONE}]
  /\ tail \in [Slots -> Slots \cup {NONE}] /\ position \in [Slots -> Slots \cup {0}]
  /\ built \in 0..Cap /\ (~ Lazy => built = Cap)
  /\ guard \in [Slots -> Guards] /\ loan \in Loans /\ cursor \in 0..Cap
  /\ nest \in Seq(Slots)
  /\ spent \subseteq Slots \X Generations

Inv == /\ Types /\ FreeLinks /\ DensePlaneIsLive /\ CountsFit
       /\ NestFits /\ SpentFits /\ \A i \in Slots : SlotFits(i)

-----------------------------------------------------------------------------
(* Constants and counts. *)

LEMMA Constants ==
  /\ Cap \in Nat /\ MaxGen \in Nat \ {0} /\ NONE \notin Slots /\ NONE \notin Int
  /\ Slots = 0..(Cap - 1) /\ Slots \subseteq Int
BY SlabAssumption DEF Slots

LEMMA ShapeFacts ==
  ASSUME Types
  PROVE  /\ Parts \in {1, 2} /\ Owner \in {"Store", "Cell", "Pinned"}
         /\ Lazy \in BOOLEAN /\ Recycle \in BOOLEAN
         /\ \A i \in Slots : Partition(i) \in Partitions
BY SlabAssumption DEF Types, Parts, Owner, Lazy, Recycle, Partition, Partitions

LEMMA FiniteSlots == IsFiniteSet(Slots) /\ Cardinality(Slots) = Cap
<1>1. IsFiniteSet(0..(Cap - 1)) /\ Cardinality(0..(Cap - 1)) = IF 0 > Cap - 1 THEN 0 ELSE Cap - 1 - 0 + 1
  BY FS_Interval, SlabAssumption
<1> QED BY <1>1, SlabAssumption DEF Slots

LEMMA CountBound ==
  ASSUME NEW S \in SUBSET Slots
  PROVE  /\ IsFiniteSet(S) /\ Cardinality(S) \in 0..Cap
         /\ \A i \in Slots \ S : /\ Cardinality(S \cup {i}) = Cardinality(S) + 1
                                 /\ Cardinality(S) < Cap
         /\ \A i \in S : Cardinality(S \ {i}) = Cardinality(S) - 1 /\ Cardinality(S) > 0
<1>1. /\ IsFiniteSet(S) /\ Cardinality(S) \in Nat /\ Cardinality(S) <= Cap
  BY FiniteSlots, FS_Subset, FS_CardinalityType
<1>2. ASSUME NEW i \in Slots \ S
      PROVE  Cardinality(S \cup {i}) = Cardinality(S) + 1 /\ Cardinality(S) < Cap
  <2>1. Cardinality(S \cup {i}) = Cardinality(S) + 1
    BY <1>1, FS_AddElement
  <2>2. S \cup {i} \in SUBSET Slots
    OBVIOUS
  <2>3. Cardinality(S \cup {i}) <= Cap
    BY <2>2, FiniteSlots, FS_Subset
  <2> QED BY <1>1, <2>1, <2>3, SlabAssumption
<1>3. ASSUME NEW i \in S PROVE Cardinality(S \ {i}) = Cardinality(S) - 1 /\ Cardinality(S) > 0
  <2>1. IsFiniteSet(S \ {i}) /\ Cardinality(S \ {i}) = Cardinality(S) - 1
    BY <1>1, FS_RemoveElement
  <2>2. Cardinality(S \ {i}) \in Nat
    BY <2>1, FS_CardinalityType
  <2> QED BY <1>1, <2>1, <2>2
<1> QED BY <1>1, <1>2, <1>3, SlabAssumption

\* One type invariant of Slab and the bounds of its counters.
LEMMA TypesAreBounded ==
  ASSUME Inv
  PROVE  TypeOK /\ len \in 0..Cap /\ (\A i \in Slots : ~ Live(i) => len < Cap)
<1>1. LiveSlots \in SUBSET Slots /\ RetiredSlots \in SUBSET Slots
  BY DEF LiveSlots, RetiredSlots
<1>2. len \in 0..Cap /\ retired \in 0..Cap
  BY <1>1, CountBound DEF Inv, CountsFit
<1>3. \A i \in Slots : ~ Live(i) => i \in Slots \ LiveSlots
  BY DEF LiveSlots
<1> QED BY <1>1, <1>2, <1>3, CountBound DEF Inv, Types, TypeOK, CountsFit

LEMMA SameShape ==
  ASSUME shape' = shape
  PROVE  /\ Parts' = Parts /\ Owner' = Owner /\ Lazy' = Lazy /\ Recycle' = Recycle
         /\ Reentrant' = Reentrant /\ Taken' = Taken /\ Partitions' = Partitions
         /\ \A j : Partition(j)' = Partition(j)
BY DEF Parts, Owner, Lazy, Recycle, Reentrant, Taken, Partitions, Partition

-----------------------------------------------------------------------------
(* The free lists. *)

\* What is not free may change as it likes.
LEMMA FreeFrame ==
  ASSUME Types, FreeLinks, shape' = shape, heads' = heads,
         \A j \in Slots : /\ state'[j] = "Free" <=> state[j] = "Free"
                          /\ state[j] = "Free" => content'[j] = content[j]
  PROVE  FreeLinks'
<1>1. Partitions' = Partitions /\ \A j : Partition(j)' = Partition(j)
  BY SameShape
<1>2. ASSUME NEW j \in Slots, state'[j] = "Free"
      PROVE  LinksBack(j)' /\ LinksOn(j)' /\ (content'[j].prev = NONE => heads'[Partition(j)] = j)
  <2>1. state[j] = "Free" /\ content'[j] = content[j] /\ LinksBack(j) /\ LinksOn(j)
        /\ (content[j].prev = NONE => heads[Partition(j)] = j)
    BY <1>2 DEF FreeLinks
  <2>2. LinksBack(j)'
    BY <1>1, <2>1 DEF LinksBack
  <2>3. LinksOn(j)'
    BY <1>1, <2>1 DEF LinksOn
  <2> QED BY <2>1, <2>2, <2>3
<1>3. ASSUME NEW q \in Partitions, heads'[q] # NONE
      PROVE  state'[heads'[q]] = "Free" /\ content'[heads'[q]].prev = NONE /\ Partition(heads'[q]) = q
  BY <1>3 DEF FreeLinks, Types
<1>4. Ordered'
  BY DEF FreeLinks, Ordered, Ranks
<1> QED BY <1>1, <1>2, <1>3, <1>4 DEF FreeLinks

LEMMA SetTypes ==
  ASSUME NEW c \in [Slots -> Content], NEW i \in Slots \cup {NONE}, NEW n \in Slots \cup {NONE}
  PROVE  /\ SetNext(c, i, n) \in [Slots -> Content] /\ SetPrev(c, i, n) \in [Slots -> Content]
         /\ \A j \in Slots :
              /\ SetNext(c, i, n)[j] = IF j = i THEN Links(n, c[j].prev) ELSE c[j]
              /\ SetPrev(c, i, n)[j] = IF j = i THEN Links(c[j].next, n) ELSE c[j]
BY Constants DEF SetNext, SetPrev, Links, Content

LEMMA LinkTypes ==
  ASSUME NEW n \in Slots \cup {NONE}, NEW p \in Slots \cup {NONE}
  PROVE  /\ Links(n, p) \in Content /\ Links(n, p).tag = "links"
         /\ Links(n, p).next = n /\ Links(n, p).prev = p
         /\ Value \in Content /\ Value.tag = "value" /\ Moved \in Content /\ Moved.tag = "moved"
BY DEF Links, Content, Value, Moved

\* A slot leaves its list: pop and the removal from the middle come to the same.
Leaves(i) ==
  /\ content' \in [Slots -> Content] /\ heads' \in [Partitions -> Slots \cup {NONE}]
  /\ \A j \in Slots \ {i} :
       /\ content'[j].tag = IF j \in {content[i].prev, content[i].next} THEN "links"
                            ELSE content[j].tag
       /\ content'[j].next = IF j = content[i].prev THEN content[i].next ELSE content[j].next
       /\ content'[j].prev = IF j = content[i].next THEN content[i].prev ELSE content[j].prev
  /\ \A j \in Slots \ {i} : j \notin {content[i].prev, content[i].next} => content'[j] = content[j]
  /\ content'[i].tag = "links"
  /\ \A p \in Partitions :
       heads'[p] = IF p = Partition(i) /\ content[i].prev = NONE THEN content[i].next ELSE heads[p]
  /\ UNCHANGED built

LEMMA HeadAtLeaves ==
  ASSUME Types, FreeLinks, NEW p \in Partitions, HeadAt(p), \A i \in Slots : SlotFits(i)
  PROVE  /\ heads[p] \in Slots /\ state[heads[p]] = "Free"
         /\ Leaves(heads[p]) /\ Reserve(heads[p])
<1> DEFINE i == heads[p] n == content[i].next
<1>1. i \in Slots /\ state[i] = "Free" /\ content[i].prev = NONE /\ Partition(i) = p
  BY DEF Types, FreeLinks, HeadAt
<1>2. content[i] \in Content /\ n \in Slots \cup {NONE} /\ content[i].tag = "links"
  BY <1>1 DEF Types, Content, SlotFits
<1>3. content' = SetPrev(content, n, NONE) /\ heads' = [heads EXCEPT ![p] = n] /\ UNCHANGED built
  BY DEF HeadAt
<1>4. \A j \in Slots : content'[j] = IF j = n THEN Links(content[j].next, NONE) ELSE content[j]
  <2>1. content \in [Slots -> Content]
    BY DEF Types
  <2>2. \A j \in Slots : SetPrev(content, n, NONE)[j] = IF j = n THEN Links(content[j].next, NONE) ELSE content[j]
    BY <1>2, <2>1, SetTypes
  <2> QED BY <1>3, <2>2
<1>5. content' \in [Slots -> Content]
  BY <1>2, <1>3, SetTypes DEF Types
<1>6. \A j \in Slots :
        /\ content'[j].tag = IF j = n THEN "links" ELSE content[j].tag
        /\ content'[j].next = content[j].next
        /\ content'[j].prev = IF j = n THEN NONE ELSE content[j].prev
  <2>1. \A x, y : Links(x, y).tag = "links" /\ Links(x, y).next = x /\ Links(x, y).prev = y
    BY DEF Links
  <2> HIDE DEF n
  <2> QED BY <1>4, <2>1
<1>7. /\ heads' \in [Partitions -> Slots \cup {NONE}]
      /\ \A q \in Partitions : heads'[q] = IF q = p THEN n ELSE heads[q]
  BY <1>2, <1>3 DEF Types
<1>9. \A j \in Slots : j # n => content'[j] = content[j]
  BY <1>4
<1>8. Leaves(i)
  BY <1>1, <1>2, <1>3, <1>5, <1>6, <1>7, <1>9, Constants DEF Leaves
<1> QED BY <1>1, <1>8 DEF HeadAt

LEMMA TakeLeaves ==
  ASSUME Types, FreeLinks, NEW i \in Slots, state[i] = "Free", Take(i), \A j \in Slots : SlotFits(j)
  PROVE  Leaves(i) /\ Reserve(i)
<1> DEFINE p == content[i].prev n == content[i].next c == SetNext(content, p, n)
<1>1. content[i].tag = "links" /\ p \in Slots \cup {NONE} /\ n \in Slots \cup {NONE}
  BY DEF Types, Content, SlotFits
<1>0. content \in [Slots -> Content]
  BY DEF Types
<1> HIDE DEF p, n
<1>2. c \in [Slots -> Content] /\ \A j \in Slots : c[j] = IF j = p THEN Links(n, content[j].prev) ELSE content[j]
  <2>1. SetNext(content, p, n) \in [Slots -> Content]
    BY <1>0, <1>1, SetTypes
  <2>2. \A j \in Slots : SetNext(content, p, n)[j] = IF j = p THEN Links(n, content[j].prev) ELSE content[j]
    BY <1>0, <1>1, Constants DEF SetNext
  <2> QED BY <2>1, <2>2
<1>3. content' = SetPrev(c, n, p) /\ UNCHANGED built
  BY DEF Take, Unlinked, p, n
<1> HIDE DEF c
<1>4. content' \in [Slots -> Content] /\ \A j \in Slots : content'[j] = IF j = n THEN Links(c[j].next, p) ELSE c[j]
  <2>1. SetPrev(c, n, p) \in [Slots -> Content]
    BY <1>1, <1>2, SetTypes
  <2>2. \A j \in Slots : SetPrev(c, n, p)[j] = IF j = n THEN Links(c[j].next, p) ELSE c[j]
    BY <1>1, <1>2, Constants DEF SetPrev
  <2> QED BY <1>3, <2>1, <2>2
<1>5. \A j \in Slots : content[j].next \in Slots \cup {NONE} /\ content[j].prev \in Slots \cup {NONE}
  BY DEF Types, Content
<1>6. \A j \in Slots :
        /\ content'[j].tag = IF j \in {p, n} THEN "links" ELSE content[j].tag
        /\ content'[j].next = IF j = p THEN n ELSE content[j].next
        /\ content'[j].prev = IF j = n THEN p ELSE content[j].prev
  BY <1>2, <1>4 DEF Links
<1>7. /\ heads' \in [Partitions -> Slots \cup {NONE}]
      /\ \A q \in Partitions : heads'[q] = IF q = Partition(i) /\ p = NONE THEN n ELSE heads[q]
  BY <1>1, ShapeFacts DEF Take, Types, p, n
<1>8. \A j \in Slots : j \notin {p, n} => content'[j] = content[j]
  BY <1>2, <1>4
<1> QED BY <1>1, <1>3, <1>4, <1>6, <1>7, <1>8 DEF Leaves, Take, p, n

\* The list closes over the gap.
LEMMA LeavesKeepsLinks ==
  ASSUME Types, FreeLinks, NEW i \in Slots, state[i] = "Free", Leaves(i), Reserve(i), shape' = shape
  PROVE  FreeLinks'
<1> DEFINE p == content[i].prev n == content[i].next
<1>0. /\ \A j : Partition(j)' = Partition(j)
      /\ Partitions' = Partitions /\ \A j \in Slots : Partition(j) \in Partitions
      /\ \A j \in Slots : state'[j] = IF j = i THEN "Reserved" ELSE state[j]
  BY SameShape, ShapeFacts DEF Reserve, Types
<1>1. LinksBack(i) /\ LinksOn(i) /\ (p = NONE => heads[Partition(i)] = i)
  BY DEF FreeLinks
<1>2. ASSUME NEW j \in Slots, state'[j] = "Free"
      PROVE  /\ LinksBack(j)' /\ LinksOn(j)'
             /\ content'[j].prev = NONE => heads'[Partition(j)] = j
  <2>1. j # i /\ state[j] = "Free" /\ LinksBack(j) /\ LinksOn(j) /\ (content[j].prev = NONE => heads[Partition(j)] = j)
    BY <1>0, <1>2 DEF FreeLinks
  <2>2. LinksBack(j)'
    BY <1>0, <1>1, <1>2, <2>1, Constants DEF LinksBack, LinksOn, Leaves
  <2>3. LinksOn(j)'
    BY <1>0, <1>1, <1>2, <2>1, Constants DEF LinksBack, LinksOn, Leaves
  <2>4. content'[j].prev = NONE => heads'[Partition(j)] = j
    BY <1>0, <1>1, <1>2, <2>1, Constants DEF LinksBack, LinksOn, Leaves
  <2> QED BY <2>2, <2>3, <2>4
<1>3. ASSUME NEW q \in Partitions, heads'[q] # NONE
      PROVE  state'[heads'[q]] = "Free" /\ content'[heads'[q]].prev = NONE /\ Partition(heads'[q]) = q
  <2>1. heads[q] # NONE => /\ heads[q] \in Slots /\ state[heads[q]] = "Free" /\ content[heads[q]].prev = NONE
                           /\ Partition(heads[q]) = q
    BY DEF FreeLinks, Types
  <2>2. CASE q = Partition(i) /\ p = NONE
    BY <1>0, <1>1, <1>3, <2>1, <2>2, Constants DEF LinksOn, Leaves
  <2>3. CASE ~ (q = Partition(i) /\ p = NONE)
    BY <1>0, <1>1, <1>3, <2>1, <2>3, Constants DEF LinksOn, LinksBack, Leaves
  <2> QED BY <2>2, <2>3
<1>4. Ordered'
  <2>1. PICK r \in [Slots -> Nat] : Ranks(r)
    BY DEF FreeLinks, Ordered
  <2>2. ASSUME NEW j \in Slots, state'[j] = "Free", content'[j].prev # NONE
        PROVE  r[content'[j].prev] < r[j]
    <3>1. j # i /\ state[j] = "Free" /\ LinksBack(j)
      BY <1>0, <2>2 DEF FreeLinks
    <3>2. CASE content'[j].prev = content[j].prev
      BY <2>1, <2>2, <3>1, <3>2 DEF Ranks
    <3>3. CASE j = n /\ content'[j].prev = p
      <4>1. content[j].prev = i /\ p # NONE /\ p \in Slots
        BY <1>1, <2>2, <3>3, Constants DEF LinksOn, LinksBack
      <4>2. r[p] < r[i] /\ r[i] < r[j]
        BY <2>1, <3>1, <4>1, Constants DEF Ranks
      <4>3. r[p] \in Nat /\ r[i] \in Nat /\ r[j] \in Nat
        BY <4>1
      <4> QED BY <3>3, <4>2, <4>3
    <3> QED BY <3>1, <3>2, <3>3 DEF Leaves
  <2> QED BY <2>2 DEF Ordered, Ranks
<1> QED BY <1>0, <1>2, <1>3, <1>4 DEF FreeLinks

\* The slot becomes the head of its partition, whatever was in it.
LEMMA PushFreeKeepsLinks ==
  ASSUME Types, FreeLinks, NEW i \in Slots, state[i] # "Free", NEW c \in [Slots -> Content],
         \A j \in Slots : state[j] = "Free" => c[j] = content[j],
         PushFree(i, c), shape' = shape
  PROVE  /\ FreeLinks' /\ content' \in [Slots -> Content]
         /\ heads' \in [Partitions -> Slots \cup {NONE}]
         /\ content'[i].tag = "links"
         /\ \A j \in Slots \ {i} : state[j] # "Free" => content'[j] = c[j]
         /\ \A j \in Slots : state[j] = "Free" => content'[j].tag = "links" \/ content'[j] = content[j]
<1> DEFINE h == heads[Partition(i)]
<1>0. /\ \A j : Partition(j)' = Partition(j)
      /\ Partitions' = Partitions /\ \A j \in Slots : Partition(j) \in Partitions
      /\ \A j \in Slots : state'[j] = IF j = i THEN "Free" ELSE state[j]
  BY SameShape, ShapeFacts DEF PushFree, Types
<1>1. h \in Slots \cup {NONE} /\ i \in Slots \cup {NONE}
      /\ (h # NONE => state[h] = "Free" /\ content[h].prev = NONE /\ Partition(h) = Partition(i))
  BY <1>0 DEF Types, FreeLinks
<1>2. h # i
  BY <1>1, Constants
<1>3. Links(h, NONE) \in Content
  BY <1>1, LinkTypes
<1>4. [c EXCEPT ![i] = Links(h, NONE)] \in [Slots -> Content]
  BY <1>3
<1>5. content' \in [Slots -> Content]
  BY <1>1, <1>4, SetTypes DEF PushFree, Freed
<1>6. \A j \in Slots : content'[j] = IF j = h THEN Links(c[j].next, i)
                                     ELSE IF j = i THEN Links(h, NONE) ELSE c[j]
  BY <1>1, <1>2, <1>3, Constants DEF PushFree, Freed, SetPrev
<1>7. /\ heads' \in [Partitions -> Slots \cup {NONE}]
      /\ \A q \in Partitions : heads'[q] = IF q = Partition(i) THEN i ELSE heads[q]
  BY <1>0 DEF PushFree, Types
<1>8. \A x, y : Links(x, y).tag = "links" /\ Links(x, y).next = x /\ Links(x, y).prev = y
  BY DEF Links
<1> HIDE DEF h
<1>9. \A j \in Slots : state[j] = "Free" =>
        /\ content'[j].next = content[j].next
        /\ content'[j].prev = IF j = h THEN i ELSE content[j].prev
        /\ content'[j].tag = "links" \/ content'[j] = content[j]
  BY <1>6, <1>8
<1>10. content'[i].next = h /\ content'[i].prev = NONE /\ content'[i].tag = "links"
  BY <1>2, <1>6, <1>8
<1>11. ASSUME NEW j \in Slots, state'[j] = "Free"
       PROVE  LinksBack(j)' /\ LinksOn(j)' /\ (content'[j].prev = NONE => heads'[Partition(j)] = j)
  <2>1. CASE j = i
    BY <1>0, <1>1, <1>2, <1>7, <1>9, <1>10, <2>1 DEF LinksBack, LinksOn
  <2>2. CASE j # i
    <3>1. state[j] = "Free" /\ LinksBack(j) /\ LinksOn(j) /\ (content[j].prev = NONE => heads[Partition(j)] = j)
      BY <1>0, <1>11, <2>2 DEF FreeLinks
    <3>2. LinksBack(j)'
      BY <1>0, <1>1, <1>2, <1>9, <1>10, <2>2, <3>1, Constants DEF LinksBack
    <3>3. LinksOn(j)'
      BY <1>0, <1>1, <1>2, <1>9, <1>10, <2>2, <3>1, Constants DEF LinksOn
    <3>4. content'[j].prev = NONE => heads'[Partition(j)] = j
      BY <1>0, <1>1, <1>7, <1>9, <2>2, <3>1, Constants DEF h
    <3> QED BY <3>2, <3>3, <3>4
  <2> QED BY <2>1, <2>2
<1>12. ASSUME NEW q \in Partitions, heads'[q] # NONE
       PROVE  state'[heads'[q]] = "Free" /\ content'[heads'[q]].prev = NONE /\ Partition(heads'[q]) = q
  <2>1. CASE q = Partition(i)
    BY <1>0, <1>7, <1>10, <2>1
  <2>2. CASE q # Partition(i)
    <3>1. /\ heads'[q] = heads[q] /\ heads[q] \in Slots /\ state[heads[q]] = "Free"
          /\ content[heads[q]].prev = NONE /\ Partition(heads[q]) = q
      BY <1>7, <1>12, <2>2 DEF FreeLinks, Types
    <3> QED BY <1>0, <1>1, <1>9, <2>2, <3>1, Constants
  <2> QED BY <2>1, <2>2
<1>13. Ordered'
  <2>1. PICK r \in [Slots -> Nat] : Ranks(r)
    BY DEF FreeLinks, Ordered
  <2> DEFINE up == [j \in Slots |-> IF j = i THEN 0 ELSE r[j] + 1]
  <2>2. up \in [Slots -> Nat] /\ up[i] = 0 /\ \A j \in Slots \ {i} : up[j] = r[j] + 1 /\ r[j] \in Nat
    OBVIOUS
  <2> HIDE DEF up
  <2>3. ASSUME NEW j \in Slots, state'[j] = "Free", content'[j].prev # NONE
        PROVE  up[content'[j].prev] < up[j]
    <3>1. j # i /\ state[j] = "Free"
      BY <1>0, <1>10, <2>3
    <3>2. CASE j = h
      BY <1>9, <2>2, <3>1, <3>2
    <3>3. CASE j # h
      <4>1. content'[j].prev = content[j].prev
        BY <1>9, <3>1, <3>3
      <4>2. content[j].prev \in Slots /\ content[j].prev # i
        BY <2>3, <3>1, <4>1 DEF FreeLinks, LinksBack
      <4>3. r[content[j].prev] < r[j]
        BY <2>1, <2>3, <3>1, <4>1 DEF Ranks
      <4> QED BY <2>2, <3>1, <4>1, <4>2, <4>3
    <3> QED BY <3>2, <3>3
  <2> QED BY <2>2, <2>3 DEF Ordered, Ranks
<1>15. FreeLinks'
  BY <1>0, <1>11, <1>12, <1>13 DEF FreeLinks
<1>14. \A j \in Slots \ {i} : state[j] # "Free" => content'[j] = c[j]
  BY <1>1, <1>6, Constants
<1> QED BY <1>5, <1>7, <1>9, <1>10, <1>14, <1>15

-----------------------------------------------------------------------------
(* The dense plane and the counters. *)

LEMMA DenseFrame ==
  ASSUME Types, DensePlaneIsLive, CountsFit, UNCHANGED dense, retired' = retired,
         \A j \in Slots : /\ Live(j)' <=> Live(j)
                          /\ state'[j] = "Retired" <=> state[j] = "Retired"
  PROVE  DensePlaneIsLive' /\ CountsFit'
<1>1. tail' = tail /\ len' = len /\ position' = position
  BY DEF dense
<1>2. LiveSlots' = LiveSlots /\ RetiredSlots' = RetiredSlots
  BY DEF LiveSlots, RetiredSlots
<1>3. CountsFit'
  BY <1>1, <1>2 DEF CountsFit
<1>4. DensePlaneIsLive'
  BY <1>1 DEF DensePlaneIsLive
<1> QED BY <1>3, <1>4

\* A value is installed at the end of the plane.
LEMMA DenseGrows ==
  ASSUME Inv, NEW i \in Slots, ~ Live(i), state[i] # "Retired",
         tail' = [tail EXCEPT ![len] = i], len' = len + 1,
         position' = [position EXCEPT ![i] = len], retired' = retired,
         Live(i)', state'[i] # "Retired",
         \A j \in Slots \ {i} : state'[j] = state[j]
  PROVE  /\ DensePlaneIsLive' /\ CountsFit'
         /\ tail' \in [Slots -> Slots \cup {NONE}] /\ position' \in [Slots -> Slots \cup {0}]
<1>1. len \in Slots /\ len \in Nat
  BY TypesAreBounded, Constants
<1>2. /\ tail \in [Slots -> Slots \cup {NONE}] /\ position \in [Slots -> Slots \cup {0}]
      /\ DensePlaneIsLive
  BY DEF Inv, Types
<1>3. \A j \in Slots : Live(j)' <=> Live(j) \/ j = i
  BY DEF Live
<1>4. LiveSlots' = LiveSlots \cup {i} /\ RetiredSlots' = RetiredSlots /\ i \notin LiveSlots
  BY <1>3 DEF LiveSlots, RetiredSlots
<1>5. CountsFit'
  <2>1. LiveSlots \in SUBSET Slots
    BY DEF LiveSlots
  <2> QED BY <1>4, <2>1, CountBound DEF CountsFit, Inv
<1>6. ASSUME NEW q \in 0..(len' - 1)
      PROVE  /\ tail'[q] \in Slots /\ position'[tail'[q]] = q
             /\ state'[tail'[q]] \in {"Occupied", "Busy"}
  BY <1>1, <1>2, <1>3, <1>6, Constants DEF DensePlaneIsLive, Live
<1>7. ASSUME NEW j \in Slots, Live(j)'
      PROVE  position'[j] < len' /\ tail'[position'[j]] = j
  BY <1>1, <1>2, <1>3, <1>7, Constants DEF DensePlaneIsLive
<1> QED BY <1>1, <1>2, <1>5, <1>6, <1>7 DEF DensePlaneIsLive, Live

\* The last live entry fills the hole.
LEMMA DenseShrinks ==
  ASSUME Inv, NEW i \in Slots, Live(i), Detach(i), ~ Live(i)',
         \A j \in Slots \ {i} : state'[j] = state[j],
         retired' = IF state'[i] = "Retired" THEN retired + 1 ELSE retired
  PROVE  /\ DensePlaneIsLive' /\ CountsFit'
         /\ tail' \in [Slots -> Slots \cup {NONE}] /\ position' \in [Slots -> Slots \cup {0}]
<1> DEFINE q == position[i] last == tail[len - 1]
<1>1. /\ tail \in [Slots -> Slots \cup {NONE}] /\ position \in [Slots -> Slots \cup {0}]
      /\ DensePlaneIsLive /\ len \in 0..Cap
  BY TypesAreBounded DEF Inv, Types
<1>2. q \in 0..(len - 1) /\ tail[q] = i /\ q \in Slots /\ len > 0
  BY <1>1, Constants DEF DensePlaneIsLive
<1>3. last \in Slots /\ Live(last) /\ position[last] = len - 1
  BY <1>1, <1>2, Constants DEF DensePlaneIsLive
<1>4. \A j \in Slots : Live(j)' <=> Live(j) /\ j # i
  BY DEF Live
<1>5. CountsFit'
  <2>1. LiveSlots \in SUBSET Slots /\ LiveSlots' = LiveSlots \ {i} /\ i \in LiveSlots
    BY <1>4 DEF LiveSlots
  <2>2. len' = Cardinality(LiveSlots')
    BY <2>1, CountBound DEF CountsFit, Inv, Detach
  <2>3. RetiredSlots \in SUBSET Slots /\ i \notin RetiredSlots
    BY DEF RetiredSlots, Live
  <2>4. retired' = Cardinality(RetiredSlots')
    <3>1. CASE state'[i] = "Retired"
      <4>1. RetiredSlots' = RetiredSlots \cup {i}
        BY <3>1 DEF RetiredSlots
      <4> QED BY <2>3, <3>1, <4>1, CountBound DEF CountsFit, Inv
    <3>2. CASE state'[i] # "Retired"
      <4>1. RetiredSlots' = RetiredSlots
        BY <2>3, <3>2 DEF RetiredSlots
      <4> QED BY <3>2, <4>1 DEF CountsFit, Inv
    <3> QED BY <3>1, <3>2
  <2> QED BY <2>2, <2>4 DEF CountsFit
<1>6. CASE q = len - 1
  <2>1. len' = len - 1 /\ tail' = tail /\ position' = position
    BY <1>6 DEF Detach
  <2>2. \A r \in 0..(len' - 1) : tail[r] # i
    BY <1>1, <1>2, <1>6, <2>1, Constants DEF DensePlaneIsLive
  <2>3. \A j \in Slots : Live(j)' => position[j] < len'
    BY <1>1, <1>2, <1>4, <1>6, <2>1, Constants DEF DensePlaneIsLive
  <2> QED BY <1>1, <1>4, <1>5, <2>1, <2>2, <2>3, Constants DEF DensePlaneIsLive
<1>7. CASE q # len - 1
  <2>1. len' = len - 1 /\ tail' = [tail EXCEPT ![q] = last] /\ position' = [position EXCEPT ![last] = q]
    BY <1>7 DEF Detach
  <2>2. last # i
    BY <1>2, <1>3, <1>7
  <2>3. ASSUME NEW r \in 0..(len' - 1)
        PROVE  /\ tail'[r] \in Slots /\ position'[tail'[r]] = r
               /\ state'[tail'[r]] \in {"Occupied", "Busy"}
    <3>1. r \in 0..(len - 1) /\ r # len - 1 /\ r \in Slots
      BY <1>1, <2>1, Constants
    <3>2. CASE r = q
      BY <1>1, <1>2, <1>3, <1>4, <2>1, <2>2, <3>2 DEF Live
    <3>3. CASE r # q
      <4>1. tail'[r] = tail[r] /\ tail[r] \in Slots /\ Live(tail[r]) /\ position[tail[r]] = r
        BY <1>1, <2>1, <3>1, <3>3 DEF DensePlaneIsLive
      <4>2. tail[r] # i /\ tail[r] # last
        BY <1>3, <3>1, <3>3, <4>1
      <4> QED BY <1>1, <1>4, <2>1, <4>1, <4>2 DEF Live
    <3> QED BY <3>2, <3>3
  <2>4. ASSUME NEW j \in Slots, Live(j)'
        PROVE  position'[j] < len' /\ tail'[position'[j]] = j
    <3>1. Live(j) /\ j # i /\ position[j] < len /\ tail[position[j]] = j
      BY <1>1, <1>4, <2>4 DEF DensePlaneIsLive
    <3>2. CASE j = last
      BY <1>1, <1>2, <1>3, <1>7, <2>1, <3>2, Constants
    <3>3. CASE j # last
      <4>1. position'[j] = position[j] /\ position[j] \in Slots \cup {0} /\ position[j] # len - 1
        BY <1>1, <2>1, <3>1, <3>3
      <4>2. position[j] # q
        BY <1>2, <3>1
      <4> QED BY <1>1, <2>1, <3>1, <4>1, <4>2, Constants
    <3> QED BY <3>2, <3>3
  <2>5. tail' \in [Slots -> Slots \cup {NONE}] /\ position' \in [Slots -> Slots \cup {0}]
    BY <1>1, <1>2, <1>3, <2>1
  <2> QED BY <1>5, <2>3, <2>4, <2>5 DEF DensePlaneIsLive, Live
<1> QED BY <1>6, <1>7

-----------------------------------------------------------------------------
(* A step at one slot. *)

\* Slot i goes to state s with guard g and generation u.
Turns(i, s, g, u) ==
  /\ shape' = shape
  /\ s \in States /\ g \in Guards /\ u \in Generations /\ gen[i] <= u
  /\ state' = [state EXCEPT ![i] = s] /\ guard' = [guard EXCEPT ![i] = g]
  /\ gen' = [gen EXCEPT ![i] = u]
  /\ spent' = spent \/ spent' = spent \cup {<<i, gen[i]>>}

Around == /\ loan' = loan \/ (loan = "none" /\ loan' = "split")
          /\ cursor' \in 0..Cap /\ cursor <= cursor'

\* Relinking reaches free slots alone, and never the union of one somebody holds.
Kept(j) == /\ content'[j].tag = content[j].tag
           /\ guard[j] # "none" => content'[j] = content[j]
Only(i) == \A j \in Slots \ {i} :
  /\ state'[j] = state[j] /\ guard'[j] = guard[j] /\ gen'[j] = gen[j]
  /\ Kept(j)

\* Everything but the lists and the plane is about one slot at a time.
LEMMA StepAt ==
  ASSUME Inv, NEW i \in Slots, NEW s, NEW g, NEW u, Turns(i, s, g, u), Around,
         \A j \in Slots \ {i} : Kept(j),
         content' \in [Slots -> Content], heads' \in [Partitions -> Slots \cup {NONE}],
         tail' \in [Slots -> Slots \cup {NONE}], position' \in [Slots -> Slots \cup {0}],
         built' = built \/ (Lazy /\ i = built /\ built' = built + 1),
         nest' \in Seq(Slots),
         FreeLinks', DensePlaneIsLive', CountsFit', NestFits', SlotFits(i)'
  PROVE  Inv' /\ Only(i)
<1>0. /\ shape' = shape /\ s \in States /\ g \in Guards /\ u \in Generations /\ gen[i] <= u
      /\ state' = [state EXCEPT ![i] = s] /\ guard' = [guard EXCEPT ![i] = g]
      /\ gen' = [gen EXCEPT ![i] = u]
      /\ spent' = spent \/ spent' = spent \cup {<<i, gen[i]>>}
      /\ loan' = loan \/ (loan = "none" /\ loan' = "split")
      /\ cursor' \in 0..Cap /\ cursor <= cursor'
  BY DEF Turns, Around
<1>1. Partitions' = Partitions /\ Lazy' = Lazy /\ Reentrant' = Reentrant /\ Taken' = Taken
  BY <1>0, SameShape
<1>2. Types
  BY DEF Inv
<1>3. built' \in 0..Cap /\ (~ Lazy => built' = Cap) /\ built' >= built
  BY <1>2, Constants DEF Types
<1>4. spent' \subseteq Slots \X Generations
  BY <1>0, <1>2 DEF Types
<1>5. Types'
  BY <1>0, <1>1, <1>2, <1>3, <1>4 DEF Types, Loans
<1>6. SpentFits'
  <2> SUFFICES ASSUME NEW k \in spent' PROVE k[2] <= gen'[k[1]]
    BY DEF SpentFits
  <2>1. gen \in [Slots -> Generations] /\ Generations \subseteq Int
    BY <1>2, Constants DEF Types, Generations
  <2>2. CASE k \in spent
    <3>1. k[1] \in Slots /\ k[2] \in Generations /\ k[2] <= gen[k[1]]
      BY <1>2, <2>2 DEF Inv, Types, SpentFits
    <3>2. gen'[k[1]] = IF k[1] = i THEN u ELSE gen[k[1]]
      BY <1>0, <2>1, <3>1
    <3>3. gen[k[1]] \in Int /\ k[2] \in Int /\ u \in Int
      BY <1>0, <2>1, <3>1
    <3> QED BY <1>0, <3>1, <3>2, <3>3
  <2>3. CASE k = <<i, gen[i]>>
    BY <1>0, <2>1, <2>3
  <2> QED BY <1>0, <2>2, <2>3
<1>7. ASSUME NEW j \in Slots \ {i} PROVE SlotFits(j)'
  <2>1. SlotFits(j) /\ j \in Int /\ cursor \in Int /\ built \in Int /\ i \in Int
    BY <1>2, Constants DEF Inv, Types
  <2>2. state'[j] = state[j] /\ guard'[j] = guard[j] /\ gen'[j] = gen[j] /\ content'[j].tag = content[j].tag
    BY <1>0, <1>2 DEF Types, Kept
  <2>3. (<<j, gen[j]>> \in spent') = (<<j, gen[j]>> \in spent)
    BY <1>0
  <2>4. j >= built' <=> j >= built
    BY <2>1
  <2>5. j >= cursor' => j >= cursor
    BY <1>0, <2>1
  <2>6. Live(j)' <=> Live(j)
    BY <2>2 DEF Live
  <2> QED BY <1>0, <1>1, <2>1, <2>2, <2>3, <2>4, <2>5, <2>6 DEF SlotFits
<1>8. Only(i)
  BY <1>0, <1>2 DEF Only, Types
<1> QED BY <1>5, <1>6, <1>7, <1>8 DEF Inv

LEMMA NestFrame ==
  ASSUME Inv, NEW i \in Slots, guard[i] # "dropping",
         \A j \in Slots \ {i} : guard'[j] = guard[j], nest' = nest
  PROVE  NestFits' /\ nest' \in Seq(Slots)
<1>1. guard \in [Slots -> Guards] /\ nest \in Seq(Slots)
  BY DEF Inv, Types
<1>2. \A n \in DOMAIN nest : nest[n] \in Slots /\ guard[nest[n]] = "dropping"
  BY <1>1, ElementOfSeq, LenProperties DEF Inv, NestFits
<1> QED BY <1>1, <1>2 DEF Inv, NestFits

\* A step that leaves lists and plane alone.
LEMMA MarkAt ==
  ASSUME Inv, NEW i \in Slots, NEW s, NEW g, NEW u, Turns(i, s, g, u), Around,
         state[i] # "Free", state[i] # "Retired", s # "Free", s # "Retired",
         state[i] \in {"Occupied", "Busy"} <=> s \in {"Occupied", "Busy"},
         UNCHANGED <<list, dense, retired, built>>, guard[i] # "dropping", nest' = nest,
         SlotFits(i)'
  PROVE  Inv' /\ Only(i)
<1>0. shape' = shape /\ state' = [state EXCEPT ![i] = s] /\ guard' = [guard EXCEPT ![i] = g]
  BY DEF Turns
<1>1. Types /\ FreeLinks /\ DensePlaneIsLive /\ CountsFit
  BY DEF Inv
<1>2. content' = content /\ heads' = heads /\ tail' = tail /\ position' = position
  BY DEF list, dense
<1>3. FreeLinks'
  BY <1>0, <1>1, <1>2, FreeFrame DEF Types
<1>4. DensePlaneIsLive' /\ CountsFit'
  <2>1. \A j \in Slots : /\ Live(j)' <=> Live(j)
                         /\ state'[j] = "Retired" <=> state[j] = "Retired"
    BY <1>0, <1>1 DEF Types, Live
  <2> QED BY <1>1, <2>1, DenseFrame
<1>5. NestFits' /\ nest' \in Seq(Slots)
  BY <1>0, <1>1, NestFrame DEF Types
<1>6. \A j \in Slots : Kept(j)
  BY <1>2 DEF Kept
<1> QED BY <1>1, <1>2, <1>3, <1>4, <1>5, <1>6, StepAt DEF Types

-----------------------------------------------------------------------------
(* Vacancies. *)

\* A slot is handed out; only a loan of entries lends one it has just passed.
Lends(i) == /\ shape' = shape /\ nest' = nest /\ Around
            /\ loan \notin {"clear", "gone"} /\ (loan = "entries" => i < cursor')

LEMMA ReserveTurns ==
  ASSUME Inv, NEW i \in Slots, Reserve(i), shape' = shape
  PROVE  /\ Turns(i, "Reserved", "vacancy", gen[i])
         /\ state' = [state EXCEPT ![i] = "Reserved"] /\ guard' = [guard EXCEPT ![i] = "vacancy"]
         /\ gen' = gen /\ spent' = spent /\ retired' = retired /\ UNCHANGED dense
         /\ tail' = tail /\ position' = position
<1>1. gen \in [Slots -> Generations] /\ gen[i] \in Generations /\ gen[i] <= gen[i]
  <2>1. gen \in [Slots -> Generations] /\ Generations \subseteq Int
    BY Constants DEF Inv, Types, Generations
  <2>2. gen[i] \in Generations
    BY <2>1
  <2>3. gen[i] \in Int
    BY <2>1, <2>2
  <2> QED BY <2>1, <2>2, <2>3
<1>2. gen' = gen /\ retired' = retired /\ spent' = spent /\ UNCHANGED dense
  BY DEF Reserve, ident
<1>3. tail' = tail /\ position' = position
  BY <1>2 DEF dense
<1>4. gen' = [gen EXCEPT ![i] = gen[i]]
  BY <1>1, <1>2
<1>5. state' = [state EXCEPT ![i] = "Reserved"] /\ guard' = [guard EXCEPT ![i] = "vacancy"]
  BY DEF Reserve
<1> QED BY <1>1, <1>2, <1>3, <1>4, <1>5 DEF Turns, States, Guards

LEMMA VacatedFits ==
  ASSUME Inv, NEW i \in Slots, state[i] \in {"Free", "Unbuilt"}, Reserve(i), Lends(i),
         content'[i].tag # "value", built' = built \/ (i = built /\ built' = built + 1),
         i < built'
  PROVE  SlotFits(i)'
<1>1. Types /\ SlotFits(i)
  BY DEF Inv
<1>2. state'[i] = "Reserved" /\ guard'[i] = "vacancy" /\ gen'[i] = gen[i] /\ spent' = spent
  BY <1>1, ReserveTurns DEF Types, Lends
<1>3. i \in Int /\ built' \in Int /\ cursor' \in Int
  BY <1>1, Constants DEF Types, Lends, Around
<1>4. <<i, gen[i]>> \notin spent
  BY <1>1 DEF SlotFits
<1>5. i < cursor' => ~ (i >= cursor')
  BY <1>3
<1>6. ~ (i >= built') /\ (loan' \notin {"clear", "gone"}) /\ (loan' = "entries" => i < cursor')
  BY <1>3 DEF Lends, Around
<1> QED BY <1>1, <1>2, <1>4, <1>5, <1>6 DEF SlotFits, Live

\* The effect of every way to take a slot.
Lent(i) == /\ state[i] \in {"Free", "Unbuilt"} /\ spent' = spent
           /\ Turns(i, "Reserved", "vacancy", gen[i]) /\ Only(i)

LEMMA LeavesKeeps ==
  ASSUME Inv, NEW i \in Slots, state[i] = "Free", Leaves(i), Reserve(i), Lends(i)
  PROVE  Inv' /\ Lent(i)
<1>1. Types /\ FreeLinks /\ DensePlaneIsLive /\ CountsFit /\ SlotFits(i) /\ shape' = shape
  BY DEF Inv, Lends
<1>2. \A j \in Slots : state[j] = "Free" => content[j].tag = "links" /\ guard[j] = "none"
  BY DEF Inv, SlotFits, Taken, Types, Guards
<1>3. FreeLinks'
  BY <1>1, LeavesKeepsLinks
<1>4. Turns(i, "Reserved", "vacancy", gen[i])
  BY <1>1, ReserveTurns
<1>5. DensePlaneIsLive' /\ CountsFit' /\ tail' = tail /\ position' = position
  <2>1. \A j \in Slots : /\ Live(j)' <=> Live(j)
                         /\ state'[j] = "Retired" <=> state[j] = "Retired"
    BY <1>1, ReserveTurns DEF Types, Live
  <2> QED BY <1>1, <2>1, DenseFrame, ReserveTurns
<1>6. \A j \in Slots \ {i} : Kept(j)
  <2>1. \A j \in Slots : j \in {content[i].prev, content[i].next} => state[j] = "Free"
    BY <1>1, Constants DEF FreeLinks, LinksBack, LinksOn
  <2> QED BY <1>2, <2>1 DEF Leaves, Kept
<1>7. NestFits' /\ nest' \in Seq(Slots)
  BY <1>1, <1>2, NestFrame, ReserveTurns DEF Types, Lends
<1>8. i < built'
  <2>1. i \in Int /\ built \in Int /\ built' = built /\ ~ (i >= built)
    BY <1>1, Constants DEF Types, Leaves, SlotFits
  <2> QED BY <2>1
<1>9. SlotFits(i)'
  BY <1>8, VacatedFits DEF Leaves
<1>10. /\ content' \in [Slots -> Content] /\ heads' \in [Partitions -> Slots \cup {NONE}]
       /\ tail' \in [Slots -> Slots \cup {NONE}] /\ position' \in [Slots -> Slots \cup {0}]
       /\ built' = built /\ Around
  BY <1>1, <1>5 DEF Types, Leaves, Lends
<1>11. Inv' /\ Only(i)
  BY <1>3, <1>4, <1>5, <1>6, <1>7, <1>9, <1>10, StepAt
<1>12. spent' = spent
  BY DEF Reserve, ident
<1> QED BY <1>4, <1>11, <1>12 DEF Lent

LEMMA PushKeeps ==
  ASSUME Inv, Push, Lends(built)
  PROVE  Inv' /\ \E i \in Slots : Lent(i)
<1>1. Types /\ FreeLinks /\ DensePlaneIsLive /\ CountsFit /\ shape' = shape
  BY DEF Inv, Lends
<1>2. built \in Slots /\ Lazy
  BY <1>1, Constants DEF Types, Push
<1>20. PICK i \in Slots : i = built
  BY <1>2
<1>3. SlotFits(i) /\ i \in Int
  BY <1>2, Constants DEF Inv
<1>4. state[i] = "Unbuilt" /\ guard[i] = "none"
  BY <1>1, <1>20, <1>3 DEF SlotFits, Taken, Types, Guards
<1>5. Links(NONE, NONE) \in Content /\ Links(NONE, NONE).tag = "links"
  BY LinkTypes
<1>6. /\ Reserve(i) /\ heads' = heads /\ built' = i + 1 /\ Lends(i)
      /\ content' = [content EXCEPT ![i] = Links(NONE, NONE)]
      /\ Lazy /\ i = built /\ built' = built + 1
  BY <1>2, <1>20 DEF Push
<1>7. Turns(i, "Reserved", "vacancy", gen[i])
  BY <1>1, <1>6, ReserveTurns
<1>8. FreeLinks'
  BY <1>1, <1>4, <1>6, ReserveTurns, FreeFrame DEF Types
<1>9. DensePlaneIsLive' /\ CountsFit' /\ tail' = tail /\ position' = position
  <2>1. \A j \in Slots : /\ Live(j)' <=> Live(j)
                         /\ state'[j] = "Retired" <=> state[j] = "Retired"
    BY <1>1, <1>4, <1>6, ReserveTurns DEF Types, Live
  <2> QED BY <1>1, <1>6, <2>1, DenseFrame, ReserveTurns
<1>10. content' \in [Slots -> Content] /\ content'[i].tag = "links"
       /\ \A j \in Slots \ {i} : Kept(j)
  BY <1>1, <1>5, <1>6 DEF Types, Kept
<1>11. NestFits' /\ nest' \in Seq(Slots)
  BY <1>1, <1>4, <1>6, ReserveTurns, NestFrame DEF Types, Lends
<1>12. SlotFits(i)'
  BY <1>3, <1>4, <1>6, <1>10, VacatedFits
<1>13. /\ heads' \in [Partitions -> Slots \cup {NONE}]
       /\ tail' \in [Slots -> Slots \cup {NONE}] /\ position' \in [Slots -> Slots \cup {0}]
       /\ Around
  BY <1>1, <1>6, <1>9 DEF Types, Lends
<1>14. Inv' /\ Only(i)
  BY <1>6, <1>7, <1>8, <1>9, <1>10, <1>11, <1>12, <1>13, StepAt
<1>15. spent' = spent
  BY <1>6 DEF Reserve, ident
<1> QED BY <1>4, <1>7, <1>14, <1>15 DEF Lent

-----------------------------------------------------------------------------
(* Slots that are given back. *)

LEMMA DenseRetires ==
  ASSUME Inv, NEW i \in Slots, ~ Live(i), state[i] # "Retired", UNCHANGED dense,
         state' = [state EXCEPT ![i] = "Retired"], retired' = retired + 1
  PROVE  DensePlaneIsLive' /\ CountsFit'
<1>1. tail' = tail /\ len' = len /\ position' = position
  BY DEF dense
<1>2. \A j \in Slots : /\ state'[j] = IF j = i THEN "Retired" ELSE state[j]
                       /\ Live(j)' <=> Live(j)
  BY DEF Inv, Types, Live
<1>3. LiveSlots' = LiveSlots /\ RetiredSlots' = RetiredSlots \cup {i}
  BY <1>2 DEF LiveSlots, RetiredSlots
<1>4. RetiredSlots \in SUBSET Slots /\ i \notin RetiredSlots
  BY DEF RetiredSlots
<1>5. CountsFit'
  BY <1>1, <1>3, <1>4, CountBound DEF CountsFit, Inv
<1>6. DensePlaneIsLive'
  BY <1>1, <1>2 DEF DensePlaneIsLive, Inv
<1> QED BY <1>5, <1>6

\* What leaves a slot without a holder: a vacancy with its plane, or a value without it.
LeavesPlane(i) == \/ state[i] = "Reserved" /\ guard[i] # "none" /\ UNCHANGED dense
                  \/ Live(i) /\ Detach(i)

\* A slot nobody holds, free or retired.
LEMMA GivenBackFits ==
  ASSUME Inv, NEW i \in Slots, NEW s \in {"Free", "Retired"}, NEW u, Turns(i, s, "none", u),
         state[i] \notin {"Free", "Unbuilt", "Retired"}, built' = built,
         s = "Free" => content'[i].tag = "links" /\ <<i, u>> \notin spent',
         content'[i].tag # "value"
  PROVE  SlotFits(i)'
<1>1. Types /\ SlotFits(i)
  BY DEF Inv
<1>2. state'[i] = s /\ guard'[i] = "none" /\ gen'[i] = u
  BY <1>1 DEF Types, Turns
<1>3. ~ (i >= built)
  BY <1>1 DEF SlotFits
<1>4. Live(i)' = FALSE
  BY <1>2 DEF Live
<1> QED BY <1>1, <1>2, <1>3, <1>4 DEF SlotFits

LEMMA PushFreeKeeps ==
  ASSUME Inv, NEW i \in Slots, NEW u, Turns(i, "Free", "none", u), LeavesPlane(i),
         NEW c \in [Slots -> Content], \A j \in Slots \ {i} : c[j] = content[j],
         PushFree(i, c), Around, built' = built, retired' = retired,
         NestFits', nest' \in Seq(Slots), <<i, u>> \notin spent'
  PROVE  Inv' /\ Only(i)
<1>1. Types /\ FreeLinks /\ DensePlaneIsLive /\ CountsFit /\ SlotFits(i) /\ shape' = shape
      /\ state' = [state EXCEPT ![i] = "Free"]
  BY DEF Inv, Turns
<1>2. state[i] \notin {"Free", "Unbuilt", "Retired"}
  BY DEF LeavesPlane, Live
<1>3. \A j \in Slots : state[j] = "Free" => content[j].tag = "links" /\ c[j] = content[j]
  BY <1>2 DEF Inv, SlotFits
<1>4. /\ FreeLinks' /\ content' \in [Slots -> Content]
      /\ heads' \in [Partitions -> Slots \cup {NONE}] /\ content'[i].tag = "links"
      /\ \A j \in Slots \ {i} : state[j] # "Free" => content'[j] = c[j]
      /\ \A j \in Slots : state[j] = "Free" => content'[j].tag = "links" \/ content'[j] = content[j]
  BY <1>1, <1>2, <1>3, PushFreeKeepsLinks
<1>5. \A j \in Slots \ {i} : Kept(j)
  <2>1. \A j \in Slots : guard[j] # "none" => state[j] # "Free"
    BY DEF Inv, SlotFits, Taken, Types, Guards
  <2> QED BY <1>3, <1>4, <2>1 DEF Kept
<1>6. \A j \in Slots : state'[j] = IF j = i THEN "Free" ELSE state[j]
  BY <1>1 DEF Types
<1>7. /\ DensePlaneIsLive' /\ CountsFit'
      /\ tail' \in [Slots -> Slots \cup {NONE}] /\ position' \in [Slots -> Slots \cup {0}]
  <2>1. CASE ~ Live(i)
    <3>1. UNCHANGED dense /\ state[i] = "Reserved"
      BY <2>1 DEF LeavesPlane
    <3>2. \A j \in Slots : /\ Live(j)' <=> Live(j)
                           /\ state'[j] = "Retired" <=> state[j] = "Retired"
      BY <1>6, <3>1 DEF Live
    <3> QED BY <1>1, <3>1, <3>2, DenseFrame DEF dense, Types
  <2>2. CASE Live(i)
    <3>1. Detach(i) /\ ~ Live(i)' /\ state'[i] # "Retired"
      BY <1>6, <2>2 DEF LeavesPlane, Live
    <3> QED BY <1>6, <2>2, <3>1, DenseShrinks
  <2> QED BY <2>1, <2>2
<1>8. SlotFits(i)'
  BY <1>2, <1>4, GivenBackFits
<1> QED BY <1>4, <1>5, <1>7, <1>8, StepAt

LEMMA RetireKeeps ==
  ASSUME Inv, NEW i \in Slots, Turns(i, "Retired", "none", gen[i]), LeavesPlane(i),
         content' \in [Slots -> Content], \A j \in Slots \ {i} : content'[j] = content[j],
         content'[i].tag # "value", UNCHANGED heads, Around, built' = built,
         retired' = retired + 1, NestFits', nest' \in Seq(Slots)
  PROVE  Inv' /\ Only(i)
<1>1. Types /\ FreeLinks /\ DensePlaneIsLive /\ CountsFit /\ SlotFits(i) /\ shape' = shape
      /\ state' = [state EXCEPT ![i] = "Retired"]
  BY DEF Inv, Turns
<1>2. state[i] \notin {"Free", "Unbuilt", "Retired"}
  BY DEF LeavesPlane, Live
<1>3. \A j \in Slots : state'[j] = IF j = i THEN "Retired" ELSE state[j]
  BY <1>1 DEF Types
<1>4. FreeLinks' /\ heads' \in [Partitions -> Slots \cup {NONE}]
  BY <1>1, <1>2, <1>3, FreeFrame DEF Types
<1>5. /\ DensePlaneIsLive' /\ CountsFit'
      /\ tail' \in [Slots -> Slots \cup {NONE}] /\ position' \in [Slots -> Slots \cup {0}]
  <2>1. CASE ~ Live(i)
    <3>1. UNCHANGED dense
      BY <2>1 DEF LeavesPlane
    <3> QED BY <1>1, <1>2, <2>1, <3>1, DenseRetires DEF dense, Types
  <2>2. CASE Live(i)
    <3>1. Detach(i) /\ ~ Live(i)' /\ state'[i] = "Retired"
      BY <1>3, <2>2 DEF LeavesPlane, Live
    <3> QED BY <1>3, <2>2, <3>1, DenseShrinks
  <2> QED BY <2>1, <2>2
<1>6. SlotFits(i)'
  BY <1>2, GivenBackFits
<1>7. \A j \in Slots \ {i} : Kept(j)
  BY DEF Kept
<1> QED BY <1>4, <1>5, <1>6, <1>7, StepAt

\* The identity of the slot ends and nobody holds it.
Ends(i) == /\ Only(i) /\ spent' = Ended(i)
           /\ guard'[i] = "none" /\ state'[i] \in {"Free", "Retired"}

\* Pending::reject, whoever had the slot.
LEMMA RejectKeeps ==
  ASSUME Inv, shape' = shape, NEW i \in Slots, LeavesPlane(i),
         NEW c \in [Slots -> Content], \A j \in Slots \ {i} : c[j] = content[j], c[i].tag # "value",
         Reject(i, c), guard' = [guard EXCEPT ![i] = "none"],
         Around, built' = built, NestFits', nest' \in Seq(Slots)
  PROVE  Inv' /\ Ends(i)
<1>1. Types /\ SlotFits(i) /\ SpentFits
  BY DEF Inv
<1>2. gen \in [Slots -> Generations] /\ gen[i] \in Generations /\ gen[i] \in 1..MaxGen /\ gen[i] \in Int
  BY <1>1, Constants DEF Types, Generations
<1>3. spent' = spent \/ spent' = spent \cup {<<i, gen[i]>>}
  BY DEF Reject, Ended
<1>4. <<i, gen[i]>> \notin spent
  BY <1>1 DEF SlotFits, LeavesPlane, Live
<1>5. CASE ~ Exhausted(gen[i])
  <2>1. /\ gen' = [gen EXCEPT ![i] = Advanced(gen[i])] /\ PushFree(i, c) /\ retired' = retired
    BY <1>5 DEF Reject
  <2>2. Advanced(gen[i]) \in Generations /\ gen[i] <= Advanced(gen[i])
    BY <1>2, <1>5, Constants DEF Advanced, Exhausted, Generations
  <2>3. Turns(i, "Free", "none", Advanced(gen[i]))
    BY <1>3, <2>1, <2>2 DEF Turns, PushFree, States, Guards
  <2>4. <<i, Advanced(gen[i])>> \notin spent'
    <3>1. CASE Recycle
      BY <1>4, <3>1 DEF Reject, Ended, Advanced
    <3>2. CASE ~ Recycle
      <4>1. Advanced(gen[i]) = gen[i] + 1
        BY <3>2 DEF Advanced
      <4>2. <<i, gen[i] + 1>> \notin spent
        <5>1. <<i, gen[i] + 1>> \in spent => gen[i] + 1 <= gen[i]
          BY <1>1 DEF SpentFits
        <5> QED BY <1>2, <5>1
      <4>3. <<i, gen[i] + 1>> # <<i, gen[i]>>
        BY <1>2
      <4> QED BY <1>3, <4>1, <4>2, <4>3
    <3> QED BY <3>1, <3>2
  <2>5. Inv' /\ Only(i)
    BY <2>1, <2>3, <2>4, PushFreeKeeps
  <2>6. state'[i] = "Free"
    BY <1>1, <2>1 DEF PushFree, Types
  <2> QED BY <1>1, <2>5, <2>6 DEF Ends, Reject, Types
<1>6. CASE Exhausted(gen[i])
  <2>1. /\ state' = [state EXCEPT ![i] = "Retired"] /\ retired' = retired + 1
        /\ content' = c /\ gen' = gen /\ heads' = heads
    BY <1>6 DEF Reject
  <2>2. gen' = [gen EXCEPT ![i] = gen[i]] /\ gen[i] <= gen[i]
    BY <1>2, <2>1
  <2>3. Turns(i, "Retired", "none", gen[i])
    BY <1>2, <1>3, <2>1, <2>2 DEF Turns, States, Guards
  <2>4. Inv' /\ Only(i)
    BY <2>1, <2>3, RetireKeeps
  <2>5. state'[i] = "Retired"
    BY <1>1, <2>1 DEF Types
  <2> QED BY <1>1, <2>4, <2>5 DEF Ends, Reject, Types
<1> QED BY <1>5, <1>6

-----------------------------------------------------------------------------
(* The operations that take a slot. *)

LEMMA HeadAtKeeps ==
  ASSUME Inv, NEW p \in Partitions, HeadAt(p), shape' = shape, nest' = nest, Around,
         loan \notin {"clear", "gone", "entries"}
  PROVE  Inv' /\ \E i \in Slots : Lent(i)
<1>1. PICK i \in Slots : i = heads[p]
  BY HeadAtLeaves DEF Inv
<1>2. state[i] = "Free" /\ Leaves(i) /\ Reserve(i)
  BY <1>1, HeadAtLeaves DEF Inv
<1>3. Lends(i)
  BY DEF Lends
<1> QED BY <1>2, <1>3, LeavesKeeps

LEMMA TakeAnyKeeps ==
  ASSUME Inv, TakeAny, shape' = shape, nest' = nest, Around,
         loan \notin {"clear", "gone", "entries"}
  PROVE  Inv' /\ \E i \in Slots : Lent(i)
<1>1. 0 \in Partitions /\ (Parts = 2 => 1 \in Partitions)
  BY ShapeFacts DEF Inv, Partitions
<1>2. CASE HeadAt(0)
  BY <1>1, <1>2, HeadAtKeeps
<1>3. CASE Parts = 2 /\ HeadAt(1)
  BY <1>1, <1>3, HeadAtKeeps
<1>4. CASE Push
  <2>1. Lends(built)
    BY DEF Lends
  <2> QED BY <1>4, <2>1, PushKeeps
<1> QED BY <1>2, <1>3, <1>4 DEF TakeAny

LEMMA TakeKeeps ==
  ASSUME Inv, NEW i \in Slots, state[i] = "Free", Take(i), Lends(i)
  PROVE  Inv' /\ Lent(i)
<1>1. Leaves(i) /\ Reserve(i)
  BY TakeLeaves DEF Inv
<1> QED BY <1>1, LeavesKeeps

LEMMA ScanFinds ==
  ASSUME NEW lo, NEW hi, NEW excluded, Scan(lo, hi, excluded) # NONE
  PROVE  Scan(lo, hi, excluded) \in Slots /\ state[Scan(lo, hi, excluded)] = "Free"
<1> DEFINE free == {i \in InRange(lo, hi) \ {excluded} : state[i] = "Free"}
<1>1. free # {} /\ free \subseteq Slots
  BY DEF Scan, InRange
<1>2. \E i \in free : \A j \in free : i <= j
  <2>1. free \in SUBSET Nat
    BY <1>1, Constants
  <2> HIDE DEF free
  <2> QED BY <1>1, <2>1, LeastOf
<1> QED BY <1>1, <1>2 DEF Scan

\* A slot selected outside an excluded one is free.
LEMMA ExceptFinds ==
  ASSUME Inv, NEW lo, NEW hi, NEW excluded, Except(lo, hi, excluded) # NONE
  PROVE  Except(lo, hi, excluded) \in Slots /\ state[Except(lo, hi, excluded)] = "Free"
<1> DEFINE end    == IF hi < Cap THEN hi ELSE Cap
           groups == IF lo = 0 /\ end = Cap THEN Partitions
                     ELSE IF Parts = 2 /\ lo = 0 /\ end = HalfUp THEN {0}
                     ELSE IF Parts = 2 /\ lo = HalfUp /\ end = Cap THEN {1} ELSE {}
           found  == {p \in groups : Candidate(p, excluded) # NONE}
<1>1. groups \subseteq Partitions
  BY ShapeFacts DEF Inv, Partitions
<1>2. ASSUME NEW p \in Partitions, Candidate(p, excluded) # NONE
      PROVE  Candidate(p, excluded) \in Slots /\ state[Candidate(p, excluded)] = "Free"
  <2>1. heads[p] # NONE /\ heads[p] \in Slots /\ state[heads[p]] = "Free"
    BY <1>2 DEF Candidate, Inv, FreeLinks, Types
  <2>2. LinksOn(heads[p])
    BY <2>1 DEF Inv, FreeLinks
  <2> QED BY <1>2, <2>1, <2>2 DEF Candidate, LinksOn
<1>3. CASE groups = {}
  <2>1. Except(lo, hi, excluded) = Scan(lo, end, excluded)
    BY <1>3 DEF Except
  <2> QED BY <2>1, ScanFinds
<1>4. CASE groups # {}
  <2> DEFINE q == CHOOSE p \in found : \A r \in found : p <= r
  <2>1. Except(lo, hi, excluded) = IF found = {} THEN NONE ELSE Candidate(q, excluded)
    BY <1>4 DEF Except
  <2>2. found # {} /\ found \subseteq Nat
    BY <1>1, <2>1 DEF Partitions
  <2>3. q \in found
    <3> HIDE DEF found
    <3> QED BY <2>2, LeastOf
  <2> QED BY <1>1, <1>2, <2>1, <2>2, <2>3
<1> QED BY <1>3, <1>4

-----------------------------------------------------------------------------
(* What the heads tell: whether a partition has a free slot, but for one. *)

FreeIn(p) == {j \in Slots : state[j] = "Free" /\ Partition(j) = p}

\* Of free slots, one has the least rank.
LEMMA LeastRanked ==
  ASSUME NEW r \in [Slots -> Nat], NEW T \in SUBSET Slots, T # {}
  PROVE  \E i \in T : \A j \in T : r[i] <= r[j]
<1> DEFINE R == {r[i] : i \in T}
<1>1. R \in SUBSET Nat /\ R # {}
  OBVIOUS
<1>2. PICK n \in R : \A m \in R : n <= m
  <2> HIDE DEF R
  <2> QED BY <1>1, LeastOf
<1>3. PICK i \in T : r[i] = n
  OBVIOUS
<1> QED BY <1>2, <1>3

\* The head of a partition, or its successor, is found whenever there is one to find.
LEMMA CandidateIsExact ==
  ASSUME Inv, NEW p \in Partitions, NEW x
  PROVE  IF FreeIn(p) \ {x} = {} THEN Candidate(p, x) = NONE ELSE Candidate(p, x) \in FreeIn(p) \ {x}
<1>0. /\ heads \in [Partitions -> Slots \cup {NONE}] /\ NONE \notin Slots
      /\ heads[p] # NONE => /\ heads[p] \in FreeIn(p) /\ LinksOn(heads[p]) /\ content[heads[p]].prev = NONE
  BY Constants DEF Inv, Types, FreeLinks, FreeIn
<1>1. PICK r \in [Slots -> Nat] : Ranks(r)
  BY DEF Inv, FreeLinks, Ordered
<1>2. ASSUME NEW j \in FreeIn(p)
      PROVE  \/ content[j].prev = NONE /\ heads[p] = j
             \/ /\ content[j].prev \in FreeIn(p) /\ r[content[j].prev] < r[j]
                /\ content[content[j].prev].next = j /\ content[j].prev # j
  <2>1. j \in Slots /\ state[j] = "Free" /\ Partition(j) = p /\ LinksBack(j)
        /\ (content[j].prev = NONE => heads[Partition(j)] = j)
    BY DEF FreeIn, Inv, FreeLinks
  <2>2. content[j].prev # NONE => r[content[j].prev] < r[j]
    BY <1>1, <2>1 DEF Ranks
  <2> QED BY <2>1, <2>2 DEF LinksBack, FreeIn
<1>3. CASE FreeIn(p) \ {x} = {}
  <2>1. heads[p] # NONE => heads[p] = x /\ x \in FreeIn(p) /\ content[x].prev = NONE
    BY <1>0, <1>3
  <2>2. heads[p] # NONE => content[x].next = NONE
    <3>1. ASSUME heads[p] # NONE, content[x].next # NONE PROVE FALSE
      <4>1. x \in Slots /\ state[x] = "Free" /\ Partition(x) = p /\ LinksOn(x) /\ heads[p] = x
        BY <1>0, <2>1, <3>1 DEF FreeIn
      <4>2. content[x].next \in FreeIn(p) /\ content[content[x].next].prev = x
        BY <3>1, <4>1 DEF LinksOn, FreeIn
      <4>3. content[x].next = x
        BY <1>3, <4>2
      <4>4. content[x].prev = x
        BY <4>2, <4>3
      <4> QED BY <1>0, <2>1, <3>1, <4>1, <4>4
    <3> QED BY <3>1
  <2> QED BY <1>3, <2>1, <2>2 DEF Candidate
<1>4. CASE FreeIn(p) \ {x} # {}
  <2>1. PICK i \in FreeIn(p) \ {x} : \A j \in FreeIn(p) \ {x} : r[i] <= r[j]
    <3>1. FreeIn(p) \ {x} \in SUBSET Slots
      BY DEF FreeIn
    <3> QED BY <1>4, <3>1, LeastRanked
  <2>2. \A j \in FreeIn(p) : r[j] < r[i] => j = x
    <3>1. \A j \in FreeIn(p) : r[j] \in Nat
      BY DEF FreeIn
    <3> QED BY <2>1, <3>1
  <2>3. i \in Slots
    BY DEF FreeIn
  <2>4. CASE content[i].prev = NONE
    <3>1. i \in FreeIn(p) /\ i # x /\ i # NONE
      BY <1>0, <2>1, <2>3
    <3>2. heads[p] = i \/ content[i].prev \in FreeIn(p)
      BY <1>2, <3>1
    <3>3. heads[p] = i
      BY <1>0, <2>4, <3>2 DEF FreeIn
    <3>4. Candidate(p, x) = i
      BY <3>1, <3>3 DEF Candidate
    <3> QED BY <1>4, <3>1, <3>4
  <2>5. CASE content[i].prev # NONE
    <3>1. content[i].prev = x /\ x \in FreeIn(p) /\ content[x].next = i /\ r[x] < r[i]
      BY <1>2, <2>1, <2>2, <2>5
    <3>2. heads[p] = x
      <4>1. CASE content[x].prev = NONE
        <5>1. heads[p] = x \/ content[x].prev \in FreeIn(p)
          BY <1>2, <3>1
        <5> QED BY <1>0, <4>1, <5>1 DEF FreeIn
      <4>2. CASE content[x].prev # NONE
        <5>1. content[x].prev \in FreeIn(p) /\ r[content[x].prev] < r[x] /\ content[x].prev # x
          BY <1>2, <3>1, <4>2
        <5>2. r[content[x].prev] < r[i]
          BY <2>3, <3>1, <5>1 DEF FreeIn
        <5> QED BY <2>2, <5>1, <5>2
      <4> QED BY <4>1, <4>2
    <3>3. x # NONE
      BY <1>0, <3>1 DEF FreeIn
    <3>4. Candidate(p, x) = i
      BY <3>1, <3>2, <3>3 DEF Candidate
    <3> QED BY <1>4, <2>1, <3>4
  <2> QED BY <2>4, <2>5
<1> QED BY <1>3, <1>4

\* A scan answers with the lowest free slot of its range.
LEMMA ScanIsExact ==
  ASSUME NEW lo, NEW hi, NEW x
  PROVE  LET free == {i \in InRange(lo, hi) \ {x} : state[i] = "Free"}
         IN  IF free = {} THEN Scan(lo, hi, x) = NONE ELSE Scan(lo, hi, x) \in free
<1> DEFINE free == {i \in InRange(lo, hi) \ {x} : state[i] = "Free"}
<1>1. free \in SUBSET Nat
  BY Constants DEF InRange
<1>2. free # {} => \E i \in free : \A j \in free : i <= j
  <2> HIDE DEF free
  <2> QED BY <1>1, LeastOf
<1> QED BY <1>2 DEF Scan

LEMMA OpenFacts ==
  ASSUME Inv, Open
  PROVE  loan = "none" /\ (Owner # "Cell" => \A i \in Slots : guard[i] = "none")
BY DEF Open, Reentrant

LEMMA SteadyOwner ==
  ASSUME Inv, UNCHANGED owner
  PROVE  /\ loan' = loan /\ cursor' = cursor /\ nest' = nest /\ Around
         /\ NestFits => (guard' = guard => NestFits')
<1>1. loan' = loan /\ cursor' = cursor /\ nest' = nest
  BY DEF owner
<1>2. cursor \in 0..Cap /\ cursor \in Int
  BY Constants DEF Inv, Types
<1>3. cursor' \in 0..Cap /\ cursor <= cursor'
  BY <1>1, <1>2
<1> QED BY <1>1, <1>3 DEF Around, NestFits

LEMMA VacancyKeeps ==
  ASSUME Inv, Vacancy, shape' = shape
  PROVE  Inv' /\ \E i \in Slots : Lent(i)
BY OpenFacts, SteadyOwner, TakeAnyKeeps DEF Vacancy

LEMMA TakeOpenKeeps ==
  ASSUME Inv, NEW i \in Slots, state[i] = "Free", Take(i), Open, UNCHANGED owner, shape' = shape
  PROVE  Inv' /\ Lent(i)
<1>1. Lends(i)
  BY OpenFacts, SteadyOwner DEF Lends
<1> QED BY <1>1, TakeKeeps

LEMMA VacantAtKeeps ==
  ASSUME Inv, NEW i \in Slots, VacantAt(i), shape' = shape
  PROVE  Inv' /\ Lent(i)
BY TakeOpenKeeps DEF VacantAt

LEMMA VacantInKeeps ==
  ASSUME Inv, NEW lo, NEW hi, VacantIn(lo, hi), shape' = shape
  PROVE  Inv' /\ \E i \in Slots : Lent(i)
<1>1. Open /\ UNCHANGED owner
  BY DEF VacantIn
<1>2. 0 \in Partitions /\ (Parts = 2 => 1 \in Partitions)
  BY ShapeFacts DEF Inv, Partitions
<1>3. CASE TakeAny
  BY <1>1, <1>3, OpenFacts, SteadyOwner, TakeAnyKeeps
<1>4. CASE HeadAt(0) \/ (Parts = 2 /\ HeadAt(1))
  BY <1>1, <1>2, <1>4, OpenFacts, SteadyOwner, HeadAtKeeps
<1>5. CASE Scan(lo, hi, NONE) # NONE /\ Take(Scan(lo, hi, NONE))
  <2>1. PICK i \in Slots : i = Scan(lo, hi, NONE)
    BY <1>5, ScanFinds
  <2>2. state[i] = "Free" /\ Take(i)
    BY <1>5, <2>1, ScanFinds
  <2> QED BY <1>1, <2>2, TakeOpenKeeps
<1> QED BY <1>3, <1>4, <1>5 DEF VacantIn

-----------------------------------------------------------------------------
(* The operations on a slot somebody holds. *)

LEMMA Held ==
  ASSUME Inv, NEW i \in Slots, guard[i] # "none"
  PROVE  /\ Types /\ SlotFits(i) /\ loan \notin {"clear", "gone"}
         /\ (loan = "entries" => i < cursor)
         /\ i \in Int /\ cursor \in Int /\ built \in Int /\ i < built
         /\ state[i] \in {"Reserved", "Occupied", "Busy"} /\ <<i, gen[i]>> \notin spent
         /\ gen[i] \in Generations /\ gen[i] \in Int /\ gen[i] <= gen[i] /\ SpentFits
         /\ guard[i] \in {"vacancy", "issued", "held", "staged", "dropping"}
<1>1. Types /\ SlotFits(i) /\ SpentFits
  BY DEF Inv
<1>2. i \in Int /\ cursor \in Int /\ built \in Int /\ gen[i] \in Generations /\ gen[i] \in Int
  BY <1>1, Constants DEF Types, Generations
<1>3. guard[i] \in {"vacancy", "issued", "held", "staged", "dropping"}
  BY <1>1 DEF Types, Guards
<1>4. state[i] \in {"Reserved", "Occupied", "Busy"}
  BY <1>1, <1>3 DEF SlotFits, Taken
<1>5. <<i, gen[i]>> \notin spent /\ loan \notin {"clear", "gone"} /\ ~ (i >= built)
      /\ ~ (loan = "entries" /\ i >= cursor)
  BY <1>1, <1>4 DEF SlotFits
<1> QED BY <1>1, <1>2, <1>3, <1>4, <1>5

\* A mark on a slot somebody holds, its identity going on.
LEMMA MarkHeld ==
  ASSUME Inv, NEW i \in Slots, guard[i] \notin {"none", "dropping"}, shape' = shape,
         UNCHANGED <<list, dense, ident, built, owner>>,
         NEW s \in States, NEW g \in Guards,
         state' = [state EXCEPT ![i] = s], guard' = [guard EXCEPT ![i] = g],
         \/ state[i] = "Reserved" /\ s = "Reserved" /\ g \in {"vacancy", "issued", "none"}
         \/ state[i] = Taken /\ s = Taken /\ g \in {"held", "staged", "none"}
         \/ state[i] = Taken /\ s = "Occupied" /\ g = "none"
  PROVE  Inv' /\ Turns(i, s, g, gen[i]) /\ Only(i) /\ spent' = spent
<1>1. Types /\ SlotFits(i) /\ gen \in [Slots -> Generations] /\ gen[i] \in Generations /\ gen[i] <= gen[i]
  BY Held DEF Types
<1>2. gen' = gen /\ spent' = spent /\ retired' = retired /\ content' = content /\ built' = built
      /\ loan' = loan /\ cursor' = cursor
  BY DEF ident, list, owner
<1>3. Turns(i, s, g, gen[i])
  <2>1. gen' = [gen EXCEPT ![i] = gen[i]]
    BY <1>1, <1>2
  <2> QED BY <1>1, <1>2, <2>1 DEF Turns
<1>4. state'[i] = s /\ guard'[i] = g /\ gen'[i] = gen[i]
      /\ Taken' = Taken /\ Reentrant' = Reentrant
  BY <1>1, <1>2, SameShape DEF Types
<1>5. SlotFits(i)'
  BY <1>1, <1>2, <1>4, Held DEF SlotFits, Live, Taken
<1>6. Inv' /\ Only(i)
  BY <1>2, <1>3, <1>5, SteadyOwner, MarkAt DEF Taken
<1> QED BY <1>2, <1>3, <1>6

LEMMA IssueKeyKeeps ==
  ASSUME Inv, NEW i \in Slots, IssueKey(i), shape' = shape
  PROVE  Inv' /\ Turns(i, "Reserved", "issued", gen[i]) /\ Only(i) /\ spent' = spent
<1>1. state[i] = "Reserved" /\ guard[i] = "vacancy" /\ state \in [Slots -> States]
  BY DEF IssueKey, Inv, SlotFits, Types
<1>2. state' = [state EXCEPT ![i] = "Reserved"]
  BY <1>1 DEF IssueKey
<1> QED BY <1>1, <1>2, MarkHeld DEF IssueKey, States, Guards

LEMMA SettleKeeps ==
  ASSUME Inv, NEW i \in Slots, DropHeld(i) \/ Publish(i) \/ Commit(i), shape' = shape
  PROVE  /\ Inv' /\ Only(i) /\ spent' = spent /\ Live(i) /\ Live(i)'
         /\ guard[i] \in {"held", "staged"} /\ guard'[i] \in {"none", "held"}
         /\ \E s, g : Turns(i, s, g, gen[i])
<1>1. state[i] = Taken /\ guard[i] \in {"held", "staged"} /\ state \in [Slots -> States]
      /\ guard \in [Slots -> Guards]
  BY DEF DropHeld, Publish, Commit, Inv, SlotFits, Types
<1>2. CASE Settle(i, "none")
  <2>1. state' = [state EXCEPT ![i] = "Occupied"] /\ guard' = [guard EXCEPT ![i] = "none"]
    BY <1>2 DEF Settle
  <2>2. Inv' /\ Turns(i, "Occupied", "none", gen[i]) /\ Only(i) /\ spent' = spent
    BY <1>1, <1>2, <2>1, MarkHeld DEF Settle, States, Guards
  <2> QED BY <1>1, <2>1, <2>2 DEF Live, Taken
<1>3. CASE Owner = "Store" /\ Settle(i, "held")
  <2>1. state' = state /\ state' = [state EXCEPT ![i] = Taken] /\ guard' = [guard EXCEPT ![i] = "held"]
    BY <1>1, <1>3 DEF Settle
  <2>2. Inv' /\ Turns(i, Taken, "held", gen[i]) /\ Only(i) /\ spent' = spent
    BY <1>1, <1>3, <2>1, MarkHeld DEF Settle, States, Guards, Taken
  <2> QED BY <1>1, <2>1, <2>2 DEF Live, Taken
<1> QED BY <1>2, <1>3 DEF DropHeld, Publish, Commit

\* mem::forget: a slot whose key was issued ends, and nobody can have it again.
LEMMA ForgetKeeps ==
  ASSUME Inv, NEW i \in Slots, Forget(i), shape' = shape
  PROVE  /\ Inv' /\ Only(i) /\ state'[i] = state[i] /\ gen'[i] = gen[i] /\ guard'[i] = "none"
         /\ guard[i] \in {"held", "staged"} => Live(i)
         /\ guard[i] \in {"vacancy", "issued"} => state[i] = "Reserved"
<1>1. Types /\ SlotFits(i) /\ gen \in [Slots -> Generations] /\ gen[i] \in Generations /\ gen[i] <= gen[i]
      /\ guard[i] \notin {"none", "dropping"}
  BY Held DEF Types, Forget
<1>2. /\ gen' = gen /\ retired' = retired /\ content' = content /\ built' = built /\ state' = state
      /\ loan' = loan /\ cursor' = cursor /\ guard' = [guard EXCEPT ![i] = "none"]
      /\ UNCHANGED <<list, dense, built, owner>>
      /\ spent' = IF guard[i] = "issued" THEN Ended(i) ELSE spent
  BY DEF Forget, list, owner, Release
<1>3. /\ guard[i] \in {"held", "staged"} => Live(i)
      /\ guard[i] \in {"vacancy", "issued"} => state[i] = "Reserved"
      /\ state[i] \in {"Reserved", "Occupied", "Busy"} /\ state[i] \in States
  BY <1>1, Held DEF SlotFits, Live, Taken, Types
<1>4. Turns(i, state[i], "none", gen[i])
  <2>1. gen' = [gen EXCEPT ![i] = gen[i]] /\ state' = [state EXCEPT ![i] = state[i]]
    BY <1>1, <1>2 DEF Types
  <2> QED BY <1>1, <1>2, <1>3, <2>1 DEF Turns, Guards, Ended
<1>5. state'[i] = state[i] /\ guard'[i] = "none" /\ gen'[i] = gen[i]
      /\ Taken' = Taken /\ Reentrant' = Reentrant
  BY <1>1, <1>2, SameShape DEF Types
<1>6. SlotFits(i)'
  BY <1>1, <1>2, <1>3, <1>5, Held DEF SlotFits, Live
<1>7. Inv' /\ Only(i)
  BY <1>1, <1>2, <1>3, <1>4, <1>6, SteadyOwner, MarkAt
<1> QED BY <1>1, <1>2, <1>3, <1>5, <1>7

LEMMA ReplaceKeeps ==
  ASSUME Inv, NEW i \in Slots, Replace(i), shape' = shape
  PROVE  /\ Inv' /\ Only(i) /\ Live(i) /\ Live(i)' /\ gen'[i] = gen[i] + 1
         /\ gen[i] + 1 \in Generations /\ spent' = spent \cup {<<i, gen[i]>>} /\ ~ Recycle
<1>1. Types /\ SlotFits(i) /\ gen \in [Slots -> Generations] /\ gen[i] \in Generations /\ gen[i] \in Int
      /\ guard[i] = "held" /\ SpentFits
  BY Held DEF Types, Replace
<1>2. /\ gen' = [gen EXCEPT ![i] = gen[i] + 1] /\ retired' = retired /\ content' = content
      /\ built' = built /\ state' = state /\ loan' = loan /\ cursor' = cursor /\ guard' = guard
      /\ UNCHANGED <<list, dense, built, owner>>
      /\ spent' = spent \cup {<<i, gen[i]>>}
  BY DEF Replace, list, owner, Ended
<1>3. gen[i] + 1 \in Generations /\ gen[i] <= gen[i] + 1
  BY <1>1, Constants DEF Replace, Generations
<1>4. Live(i) /\ state[i] \in States /\ guard[i] \in Guards
  BY <1>1 DEF SlotFits, Live, Taken, Types
<1>5. Turns(i, state[i], guard[i], gen[i] + 1)
  <2>1. guard' = [guard EXCEPT ![i] = guard[i]] /\ state' = [state EXCEPT ![i] = state[i]]
    BY <1>1, <1>2 DEF Types
  <2> QED BY <1>2, <1>3, <1>4, <2>1 DEF Turns
<1>6. state'[i] = state[i] /\ guard'[i] = guard[i] /\ gen'[i] = gen[i] + 1
      /\ Taken' = Taken /\ Reentrant' = Reentrant
  BY <1>1, <1>2, SameShape DEF Types
<1>7. <<i, gen[i] + 1>> \notin spent'
  <2>1. <<i, gen[i] + 1>> \in spent => gen[i] + 1 <= gen[i]
    BY <1>1 DEF SpentFits
  <2>2. <<i, gen[i] + 1>> # <<i, gen[i]>>
    BY <1>1
  <2> QED BY <1>1, <1>2, <2>1, <2>2
<1>8. SlotFits(i)'
  BY <1>1, <1>2, <1>6, <1>7, <1>4 DEF SlotFits, Live
<1>9. Inv' /\ Only(i)
  BY <1>1, <1>2, <1>4, <1>5, <1>8, SteadyOwner, MarkAt DEF Live
<1> QED BY <1>2, <1>3, <1>4, <1>6, <1>9 DEF Live, Replace

\* A found slot is borrowed: the loan is new, or one that has just passed it.
LEMMA HoldKeeps ==
  ASSUME Inv, NEW i \in Slots, state[i] = "Occupied", Hold(i), shape' = shape, Around, nest' = nest,
         loan \notin {"clear", "gone"}, loan = "entries" => cursor' > i
  PROVE  /\ Inv' /\ Turns(i, Taken, "held", gen[i]) /\ Only(i) /\ spent' = spent /\ content' = content
         /\ Live(i) /\ Live(i)' /\ guard[i] # "dropping" /\ guard[i] # "issued" /\ guard'[i] = "held"
<1>1. Types /\ SlotFits(i) /\ gen \in [Slots -> Generations] /\ gen[i] \in Generations /\ gen[i] \in Int
      /\ i \in Int /\ cursor' \in Int
  BY Constants, SMTT(60) DEF Inv, Types, Generations, Around
<1>2. /\ gen' = gen /\ retired' = retired /\ content' = content /\ built' = built /\ spent' = spent
      /\ state' = [state EXCEPT ![i] = Taken] /\ guard' = [guard EXCEPT ![i] = "held"]
      /\ UNCHANGED <<list, dense, retired, built>>
  BY DEF Hold, list, ident
<1>3. guard[i] # "dropping" /\ guard[i] # "issued" /\ Taken \in {"Occupied", "Busy"}
  BY <1>1 DEF SlotFits, Taken
<1>4. Turns(i, Taken, "held", gen[i])
  <2>1. gen' = [gen EXCEPT ![i] = gen[i]] /\ gen[i] <= gen[i]
    BY <1>1, <1>2
  <2> QED BY <1>1, <1>2, <2>1 DEF Turns, States, Guards, Taken
<1>5. state'[i] = Taken /\ guard'[i] = "held" /\ gen'[i] = gen[i]
      /\ Taken' = Taken /\ Reentrant' = Reentrant
  BY <1>1, <1>2, SameShape DEF Types
<1>6. loan' \notin {"clear", "gone"} /\ ~ (loan' = "entries" /\ i >= cursor')
  BY <1>1 DEF Around
<1>7. SlotFits(i)'
  BY <1>1, <1>2, <1>3, <1>5, <1>6 DEF SlotFits, Live, Taken
<1>8. Inv' /\ Only(i)
  BY <1>2, <1>3, <1>4, <1>7, MarkAt
<1> QED BY <1>2, <1>3, <1>4, <1>5, <1>8 DEF Live

\* What borrowing a found slot does, apart from the loan.
Borrows(i) == /\ Only(i) /\ spent' = spent /\ Live(i) /\ Live(i)' /\ gen'[i] = gen[i]
              /\ guard[i] # "issued" /\ guard'[i] = "held"
              /\ state'[i] = Taken /\ content'[i] = content[i]

LEMMA LookupKeeps ==
  ASSUME Inv, NEW i \in Slots, state[i] = "Occupied", Open, Hold(i), UNCHANGED owner, shape' = shape
  PROVE  Inv' /\ Borrows(i)
<1>1. Inv' /\ Turns(i, Taken, "held", gen[i]) /\ Only(i) /\ spent' = spent
      /\ Live(i) /\ Live(i)' /\ guard[i] # "issued" /\ guard'[i] = "held" /\ content' = content
  BY OpenFacts, SteadyOwner, HoldKeeps
<1> QED BY <1>1 DEF Borrows, Turns, Inv, Types

LEMMA SplitKeeps ==
  ASSUME Inv, NEW i \in Slots, NEW j \in Slots, NEW g, Split(i, j, g), shape' = shape
  PROVE  Inv' /\ Borrows(j) /\ loan # "gone" /\ loan' # "gone"
<1>1. state[j] = "Occupied" /\ Hold(j) /\ loan = "none" /\ loan' = "split" /\ cursor' = cursor /\ nest' = nest
  BY DEF Split, Admits
<1>2. Around
  <2>1. cursor \in 0..Cap /\ cursor \in Int
    BY Constants DEF Inv, Types
  <2> QED BY <1>1, <2>1 DEF Around
<1>3. Inv' /\ Turns(j, Taken, "held", gen[j]) /\ Only(j) /\ spent' = spent
      /\ Live(j) /\ Live(j)' /\ guard[j] # "issued" /\ guard'[j] = "held" /\ content' = content
  BY <1>1, <1>2, HoldKeeps
<1> QED BY <1>1, <1>3 DEF Borrows, Turns, Inv, Types

\* Pending::install, from a vacancy, a reservation or a withdrawn slot.
LEMMA InstallKeeps ==
  ASSUME Inv, NEW i \in Slots, guard[i] \in {"vacancy", "issued"},
         NEW g \in {"none", "held", "staged"}, Install(i, g), shape' = shape
  PROVE  /\ Inv' /\ Only(i) /\ spent' = spent /\ gen'[i] = gen[i]
         /\ ~ Live(i) /\ Live(i)' /\ guard'[i] = g
<1> DEFINE s == IF g = "none" THEN "Occupied" ELSE Taken
<1>1. Types /\ SlotFits(i) /\ gen \in [Slots -> Generations] /\ gen[i] \in Generations /\ gen[i] <= gen[i]
      /\ state[i] = "Reserved" /\ guard[i] # "dropping" /\ FreeLinks
  BY Held DEF Types, SlotFits, Inv
<1>2. /\ gen' = gen /\ retired' = retired /\ content' = [content EXCEPT ![i] = Value] /\ built' = built
      /\ spent' = spent /\ state' = [state EXCEPT ![i] = s] /\ guard' = [guard EXCEPT ![i] = g]
      /\ heads' = heads /\ loan' = loan /\ cursor' = cursor /\ UNCHANGED owner
      /\ tail' = [tail EXCEPT ![len] = i] /\ len' = len + 1 /\ position' = [position EXCEPT ![i] = len]
  BY DEF Install, ident, owner
<1>3. s \in {"Occupied", "Busy"} /\ g \in Guards /\ s \in States
  BY DEF Taken, Guards, States
<1> HIDE DEF s
<1>4. Turns(i, s, g, gen[i])
  <2>1. gen' = [gen EXCEPT ![i] = gen[i]]
    BY <1>1, <1>2
  <2> QED BY <1>1, <1>2, <1>3, <2>1 DEF Turns
<1>5. \A j \in Slots : state'[j] = IF j = i THEN s ELSE state[j]
  BY <1>1, <1>2 DEF Types
<1>6. content' \in [Slots -> Content] /\ content'[i].tag = "value"
      /\ \A j \in Slots \ {i} : content'[j] = content[j]
  BY <1>1, <1>2, LinkTypes DEF Types
<1>7. FreeLinks' /\ heads' \in [Partitions -> Slots \cup {NONE}]
  BY <1>1, <1>2, <1>3, <1>5, <1>6, FreeFrame DEF Types
<1>8. /\ DensePlaneIsLive' /\ CountsFit' /\ ~ Live(i) /\ Live(i)'
      /\ tail' \in [Slots -> Slots \cup {NONE}] /\ position' \in [Slots -> Slots \cup {0}]
  <2>1. ~ Live(i) /\ Live(i)'
    BY <1>1, <1>3, <1>5 DEF Live
  <2>2. state[i] # "Retired" /\ state'[i] # "Retired" /\ \A j \in Slots \ {i} : state'[j] = state[j]
    BY <1>1, <1>3, <1>5
  <2> QED BY <1>2, <2>1, <2>2, DenseGrows
<1>9. NestFits' /\ nest' \in Seq(Slots) /\ Around
  BY <1>1, <1>2, SteadyOwner, NestFrame DEF Types
<1>10. SlotFits(i)'
  <2>1. state'[i] = s /\ guard'[i] = g /\ gen'[i] = gen[i] /\ Taken' = Taken /\ Reentrant' = Reentrant
    BY <1>1, <1>2, SameShape DEF Types
  <2>2. s = (IF g = "none" THEN "Occupied" ELSE Taken)
    BY DEF s
  <2> QED BY <1>1, <1>2, <1>3, <1>6, <1>8, <2>1, <2>2, Held DEF SlotFits, Taken
<1>11. Inv' /\ Only(i)
  <2>1. \A j \in Slots \ {i} : Kept(j)
    BY <1>6 DEF Kept
  <2> QED BY <1>2, <1>4, <1>6, <1>7, <1>8, <1>9, <1>10, <2>1, StepAt
<1> QED BY <1>1, <1>2, <1>8, <1>11 DEF Types

-----------------------------------------------------------------------------
(* The operations that give a slot back. *)

LEMMA EmptiedTypes ==
  ASSUME Inv, NEW i \in Slots
  PROVE  /\ content \in [Slots -> Content] /\ Emptied(i) \in [Slots -> Content]
         /\ Emptied(i)[i].tag = "moved" /\ \A j \in Slots \ {i} : Emptied(i)[j] = content[j]
BY LinkTypes DEF Emptied, Inv, Types

LEMMA DropVacancyKeeps ==
  ASSUME Inv, NEW i \in Slots, DropVacancy(i), shape' = shape
  PROVE  /\ Inv' /\ Only(i) /\ spent' = spent /\ gen'[i] = gen[i] /\ guard'[i] = "none"
         /\ state[i] = "Reserved" /\ state'[i] = "Free"
<1>1. Types /\ SlotFits(i) /\ gen \in [Slots -> Generations] /\ gen[i] \in Generations /\ gen[i] <= gen[i]
      /\ guard[i] = "vacancy" /\ state[i] = "Reserved" /\ <<i, gen[i]>> \notin spent
  BY Held DEF Types, SlotFits, DropVacancy
<1>2. /\ gen' = gen /\ spent' = spent /\ retired' = retired /\ built' = built /\ UNCHANGED <<dense, owner>>
      /\ PushFree(i, content) /\ state' = [state EXCEPT ![i] = "Free"]
      /\ guard' = [guard EXCEPT ![i] = "none"]
  BY DEF DropVacancy, ident, Release, PushFree
<1>3. Turns(i, "Free", "none", gen[i])
  <2>1. gen' = [gen EXCEPT ![i] = gen[i]]
    BY <1>1, <1>2
  <2> QED BY <1>1, <1>2, <2>1 DEF Turns, States, Guards
<1>4. NestFits' /\ nest' \in Seq(Slots) /\ Around
  BY <1>1, <1>2, SteadyOwner, NestFrame DEF Types
<1>5. LeavesPlane(i) /\ content \in [Slots -> Content]
  BY <1>1, <1>2 DEF LeavesPlane, Types
<1>6. Inv' /\ Only(i)
  BY <1>1, <1>2, <1>3, <1>4, <1>5, PushFreeKeeps
<1> QED BY <1>1, <1>2, <1>6 DEF Types

\* A vacancy or a reservation is rejected.
LEMMA RejectHeld ==
  ASSUME Inv, NEW i \in Slots, guard[i] \in {"vacancy", "issued"}, Reject(i, content), Release(i),
         UNCHANGED <<dense, built, owner>>, shape' = shape
  PROVE  Inv' /\ Ends(i) /\ state[i] = "Reserved"
<1>1. Types /\ SlotFits(i) /\ state[i] = "Reserved" /\ guard[i] # "none"
  BY Held DEF SlotFits
<1>2. guard' = [guard EXCEPT ![i] = "none"] /\ built' = built /\ UNCHANGED owner
  BY DEF Release
<1>3. NestFits' /\ nest' \in Seq(Slots) /\ Around
  BY <1>1, <1>2, SteadyOwner, NestFrame DEF Types
<1>4. LeavesPlane(i) /\ content \in [Slots -> Content] /\ content[i].tag # "value"
  BY <1>1 DEF LeavesPlane, Types, SlotFits, Live
<1> QED BY <1>1, <1>2, <1>3, <1>4, RejectKeeps

\* A value leaves with its identity: by its holder, or by `clear` when nobody holds it.
LEMMA RemoveKeeps ==
  ASSUME Inv, NEW i \in Slots, Live(i), guard[i] # "dropping",
         Detach(i), Reject(i, Emptied(i)), guard' = [guard EXCEPT ![i] = "none"],
         UNCHANGED <<built, owner>>, shape' = shape
  PROVE  Inv' /\ Ends(i)
<1>1. NestFits' /\ nest' \in Seq(Slots) /\ Around /\ LeavesPlane(i) /\ built' = built
  BY SteadyOwner, NestFrame DEF Inv, Types, LeavesPlane
<1> QED BY <1>1, EmptiedTypes, RejectKeeps

LEMMA HeldLives ==
  ASSUME Inv, NEW i \in Slots, guard[i] \in {"held", "staged", "dropping"}
  PROVE  Live(i)
BY DEF Inv, SlotFits, Live, Taken

LEMMA EndDiscardKeeps ==
  ASSUME Inv, EndDiscard, shape' = shape
  PROVE  Inv' /\ \E i \in Slots : Live(i) /\ Ends(i) /\ guard[i] = "dropping"
<1>1. nest \in Seq(Slots) /\ nest # <<>> /\ NestFits
  BY DEF Inv, Types, EndDiscard
<1>2. Len(nest) \in DOMAIN nest /\ nest[Len(nest)] \in Slots /\ Len(nest) \in Nat
      /\ DOMAIN nest = 1..Len(nest)
  BY <1>1, EmptySeq, LenProperties, ElementOfSeq
<1>3. PICK i \in Slots : i = nest[Len(nest)]
  BY <1>2
<1>4. guard[i] = "dropping" /\ guard \in [Slots -> Guards] /\ content[i].tag # "value"
  BY <1>1, <1>2, <1>3 DEF NestFits, Inv, SlotFits, Types
<1>5. /\ Detach(i) /\ Reject(i, content) /\ guard' = [guard EXCEPT ![i] = "none"]
      /\ nest' = SubSeq(nest, 1, Len(nest) - 1) /\ built' = built /\ loan' = loan /\ cursor' = cursor
  BY <1>3 DEF EndDiscard, Release
<1>6. /\ nest' \in Seq(Slots) /\ DOMAIN nest' = 1..(Len(nest) - 1)
      /\ \A n \in 1..(Len(nest) - 1) : nest'[n] = nest[n]
  <2>1. Len(nest) - 1 \in 0..Len(nest) /\ 1 <= Len(nest)
    BY <1>2
  <2>2. \A n \in 1..(Len(nest) - 1) : n \in 1..Len(nest)
    BY <1>2
  <2> QED BY <1>1, <1>2, <1>5, <2>1, <2>2, SubSeqProperties
<1>7. NestFits'
  <2>1. ASSUME NEW n \in DOMAIN nest' PROVE guard'[nest'[n]] = "dropping"
    <3>1. n \in DOMAIN nest /\ n # Len(nest) /\ nest'[n] = nest[n]
      BY <1>2, <1>6
    <3>2. guard[nest[n]] = "dropping" /\ nest[n] # i /\ nest[n] \in Slots
      BY <1>1, <1>2, <1>3, <3>1, ElementOfSeq DEF NestFits
    <3> QED BY <1>4, <1>5, <3>1, <3>2
  <2>2. \A m, n \in DOMAIN nest' : nest'[m] = nest'[n] => m = n
    BY <1>1, <1>2, <1>6 DEF NestFits
  <2> QED BY <2>1, <2>2 DEF NestFits
<1>8. Live(i) /\ LeavesPlane(i) /\ content \in [Slots -> Content]
  BY <1>4, <1>5, HeldLives DEF LeavesPlane, Inv, Types
<1>9. Around
  BY <1>5, Constants DEF Around, Inv, Types
<1>10. Inv' /\ Ends(i)
  BY <1>4, <1>5, <1>6, <1>7, <1>8, <1>9, RejectKeeps
<1> QED BY <1>4, <1>8, <1>10

LEMMA ClearStepKeeps ==
  ASSUME Inv, ClearStep, shape' = shape
  PROVE  Inv' /\ \E i \in Slots : Live(i) /\ Ends(i) /\ loan = "clear"
<1>1. len \in 0..Cap /\ len > 0 /\ DensePlaneIsLive /\ loan = "clear"
  BY TypesAreBounded DEF ClearStep, Inv
<1>2. PICK i \in Slots : i = tail[len - 1] /\ Live(i)
  BY <1>1, Constants DEF DensePlaneIsLive
<1>3. guard[i] = "none" /\ guard \in [Slots -> Guards]
  BY <1>1 DEF Inv, SlotFits, Types
<1>4. Detach(i) /\ Reject(i, Emptied(i)) /\ guard' = [guard EXCEPT ![i] = "none"]
  BY <1>2, <1>3 DEF ClearStep
<1>5. Inv' /\ Ends(i)
  BY <1>2, <1>3, <1>4, RemoveKeeps DEF ClearStep
<1> QED BY <1>1, <1>2, <1>5

LEMMA WithdrawKeeps ==
  ASSUME Inv, NEW i \in Slots, Withdraw(i), shape' = shape
  PROVE  /\ Inv' /\ Only(i) /\ spent' = spent /\ gen'[i] = gen[i] /\ Live(i)
         /\ state'[i] = "Reserved" /\ guard'[i] = "issued"
<1>1. Types /\ SlotFits(i) /\ gen \in [Slots -> Generations] /\ gen[i] \in Generations /\ gen[i] <= gen[i]
      /\ guard[i] = "held" /\ FreeLinks /\ Live(i)
  BY Held, HeldLives DEF Types, Withdraw, Inv
<1>2. /\ gen' = gen /\ retired' = retired /\ content' = Emptied(i) /\ built' = built
      /\ spent' = spent /\ state' = [state EXCEPT ![i] = "Reserved"] /\ guard' = [guard EXCEPT ![i] = "issued"]
      /\ heads' = heads /\ loan' = loan /\ cursor' = cursor /\ UNCHANGED owner /\ Detach(i)
  BY DEF Withdraw, ident, owner
<1>3. Turns(i, "Reserved", "issued", gen[i])
  <2>1. gen' = [gen EXCEPT ![i] = gen[i]]
    BY <1>1, <1>2
  <2> QED BY <1>1, <1>2, <2>1 DEF Turns, Guards, States
<1>4. \A j \in Slots : state'[j] = IF j = i THEN "Reserved" ELSE state[j]
  BY <1>1, <1>2 DEF Types
<1>5. content' \in [Slots -> Content] /\ content'[i].tag = "moved"
      /\ \A j \in Slots \ {i} : content'[j] = content[j]
  BY <1>2, EmptiedTypes
<1>6. FreeLinks' /\ heads' \in [Partitions -> Slots \cup {NONE}]
  BY <1>1, <1>2, <1>4, <1>5, FreeFrame DEF Types, Live
<1>7. /\ DensePlaneIsLive' /\ CountsFit'
      /\ tail' \in [Slots -> Slots \cup {NONE}] /\ position' \in [Slots -> Slots \cup {0}]
  BY <1>1, <1>2, <1>4, DenseShrinks DEF Live
<1>8. NestFits' /\ nest' \in Seq(Slots) /\ Around
  BY <1>1, <1>2, SteadyOwner, NestFrame DEF Types
<1>9. SlotFits(i)'
  <2>1. state'[i] = "Reserved" /\ guard'[i] = "issued" /\ gen'[i] = gen[i] /\ ~ Live(i)'
    BY <1>1, <1>2 DEF Types, Live
  <2> QED BY <1>1, <1>2, <1>5, <2>1, Held DEF SlotFits
<1>10. Inv' /\ Only(i)
  <2>1. \A j \in Slots \ {i} : Kept(j)
    BY <1>5 DEF Kept
  <2> QED BY <1>2, <1>3, <1>5, <1>6, <1>7, <1>8, <1>9, <2>1, StepAt
<1> QED BY <1>1, <1>2, <1>10 DEF Types

LEMMA BeginDiscardKeeps ==
  ASSUME Inv, NEW i \in Slots, BeginDiscard(i), shape' = shape
  PROVE  /\ Inv' /\ Only(i) /\ spent' = spent /\ gen'[i] = gen[i]
         /\ state'[i] = state[i] /\ Live(i) /\ guard'[i] = "dropping" /\ guard[i] # "dropping"
<1>1. Types /\ SlotFits(i) /\ gen \in [Slots -> Generations] /\ gen[i] \in Generations /\ gen[i] <= gen[i]
      /\ guard[i] \in {"held", "staged"} /\ FreeLinks /\ Live(i) /\ Reentrant /\ state[i] = "Busy"
      /\ DensePlaneIsLive /\ CountsFit
  BY Held, HeldLives DEF Types, BeginDiscard, Inv, SlotFits, Taken
<1>2. /\ gen' = gen /\ retired' = retired /\ content' = Emptied(i) /\ built' = built
      /\ spent' = spent /\ state' = state /\ guard' = [guard EXCEPT ![i] = "dropping"]
      /\ heads' = heads /\ loan' = loan /\ cursor' = cursor /\ nest' = Append(nest, i)
      /\ UNCHANGED dense /\ tail' = tail /\ position' = position
  BY DEF BeginDiscard, ident, dense
<1>3. Turns(i, "Busy", "dropping", gen[i])
  <2>1. gen' = [gen EXCEPT ![i] = gen[i]] /\ state' = [state EXCEPT ![i] = "Busy"]
    BY <1>1, <1>2 DEF Types
  <2> QED BY <1>1, <1>2, <2>1 DEF Turns, Guards, States
<1>4. content' \in [Slots -> Content] /\ content'[i].tag = "moved"
      /\ \A j \in Slots \ {i} : content'[j] = content[j]
  BY <1>2, EmptiedTypes
<1>5. FreeLinks' /\ heads' \in [Partitions -> Slots \cup {NONE}]
  BY <1>1, <1>2, <1>4, FreeFrame DEF Types
<1>6. /\ DensePlaneIsLive' /\ CountsFit'
      /\ tail' \in [Slots -> Slots \cup {NONE}] /\ position' \in [Slots -> Slots \cup {0}]
  BY <1>1, <1>2, DenseFrame DEF Live, Types
<1>7. nest' \in Seq(Slots) /\ NestFits'
  <2>1. nest \in Seq(Slots) /\ NestFits /\ guard \in [Slots -> Guards]
    BY DEF Inv, Types
  <2>2. DOMAIN nest = 1..Len(nest) /\ Len(nest) \in Nat
        /\ \A n \in DOMAIN nest : nest[n] \in Slots /\ guard[nest[n]] = "dropping"
    BY <2>1, LenProperties, ElementOfSeq DEF NestFits
  <2>3. /\ nest' \in Seq(Slots) /\ DOMAIN nest' = 1..(Len(nest) + 1)
        /\ \A n \in 1..Len(nest) : nest'[n] = nest[n]
        /\ nest'[Len(nest) + 1] = i
    BY <1>2, <2>1, <2>2, AppendProperties
  <2>4. \A n \in DOMAIN nest' : n \in DOMAIN nest \/ n = Len(nest) + 1
    BY <2>2, <2>3
  <2>5. \A n \in DOMAIN nest : nest[n] # i
    BY <1>1, <2>2
  <2> QED BY <1>2, <2>1, <2>2, <2>3, <2>4, <2>5 DEF NestFits
<1>8. Around
  <2>1. cursor \in 0..Cap /\ cursor \in Int
    BY <1>1, Constants DEF Types
  <2> QED BY <1>2, <2>1 DEF Around
<1>9. SlotFits(i)'
  <2>1. state'[i] = "Busy" /\ guard'[i] = "dropping" /\ gen'[i] = gen[i] /\ Reentrant'
    BY <1>1, <1>2, <1>3, SameShape DEF Types, Turns
  <2> QED BY <1>1, <1>2, <1>4, <2>1, Held DEF SlotFits
<1>10. Inv' /\ Only(i)
  <2>1. \A j \in Slots \ {i} : Kept(j)
    BY <1>4 DEF Kept
  <2> QED BY <1>2, <1>3, <1>4, <1>5, <1>6, <1>7, <1>8, <1>9, <2>1, StepAt
<1> QED BY <1>1, <1>2, <1>10 DEF Types

-----------------------------------------------------------------------------
(* Loans, and the end of the core. *)

\* Nothing but the loan and its cursor moves.
Steady == UNCHANGED <<state, list, dense, ident, guard, built, nest>>

LEMMA SteadyKeeps ==
  ASSUME Inv, Steady, shape' = shape, loan # "gone", loan' \in Loans \ {"gone"}, cursor' \in 0..Cap,
         loan' = "clear" => \A i \in Slots : guard[i] = "none",
         loan' = "entries" => \A i \in Slots : i >= cursor' => guard[i] = "none"
  PROVE  Inv'
<1>1. /\ state' = state /\ content' = content /\ heads' = heads /\ tail' = tail /\ len' = len
      /\ position' = position /\ gen' = gen /\ retired' = retired /\ spent' = spent
      /\ guard' = guard /\ built' = built /\ nest' = nest /\ UNCHANGED dense
  BY DEF Steady, list, dense, ident
<1>2. Types /\ FreeLinks /\ DensePlaneIsLive /\ CountsFit /\ NestFits /\ SpentFits
  BY DEF Inv
<1>3. Partitions' = Partitions /\ Lazy' = Lazy /\ Reentrant' = Reentrant /\ Taken' = Taken
  BY SameShape
<1>4. Types'
  BY <1>1, <1>2, <1>3 DEF Types
<1>5. FreeLinks'
  BY <1>1, <1>2, FreeFrame
<1>6. DensePlaneIsLive' /\ CountsFit'
  BY <1>1, <1>2, DenseFrame DEF Live
<1>7. NestFits' /\ SpentFits'
  BY <1>1, <1>2 DEF NestFits, SpentFits
<1>8. ASSUME NEW i \in Slots PROVE SlotFits(i)'
  <2>1. SlotFits(i)
    BY DEF Inv
  <2> QED BY <1>1, <1>3, <2>1 DEF SlotFits, Live
<1> QED BY <1>4, <1>5, <1>6, <1>7, <1>8 DEF Inv

LEMMA BeginKeeps ==
  ASSUME Inv, NEW kind \in {"vacancies", "entries", "clear"}, Begin(kind), shape' = shape
  PROVE  Inv' /\ Steady /\ loan # "gone" /\ loan' # "gone"
<1>1. loan = "none" /\ \A i \in Slots : guard[i] = "none"
  BY OpenFacts DEF Begin
<1>2. loan' = kind /\ cursor' = 0 /\ Steady /\ 0 \in 0..Cap
  BY Constants DEF Begin, Steady
<1> QED BY <1>1, <1>2, SteadyKeeps DEF Loans

LEMMA EndLoanKeeps ==
  ASSUME Inv, EndLoan, shape' = shape
  PROVE  Inv' /\ Steady /\ loan # "gone" /\ loan' # "gone"
<1>1. loan' = "none" /\ cursor' = 0 /\ Steady /\ 0 \in 0..Cap /\ loan # "gone"
  BY Constants DEF EndLoan, Steady
<1> QED BY <1>1, SteadyKeeps DEF Loans

LEMMA ClearEndKeeps ==
  ASSUME Inv, ClearEnd, shape' = shape
  PROVE  Inv' /\ Steady /\ loan # "gone" /\ loan' # "gone"
<1>1. loan' = "none" /\ cursor' = cursor /\ Steady /\ cursor \in 0..Cap /\ loan # "gone"
  BY DEF ClearEnd, Steady, Inv, Types
<1> QED BY <1>1, SteadyKeeps DEF Loans

LEMMA NextVacancyKeeps ==
  ASSUME Inv, NextVacancy, shape' = shape
  PROVE  Inv' /\ loan # "gone" /\ loan' # "gone" /\ \E i \in Slots : Lent(i)
<1>1. loan' = loan /\ nest' = nest /\ Around /\ loan = "vacancies" /\ TakeAny
  BY SteadyOwner DEF NextVacancy
<1> QED BY <1>1, TakeAnyKeeps

LEMMA NextEntryKeeps ==
  ASSUME Inv, NextEntry, shape' = shape
  PROVE  /\ Inv' /\ loan # "gone" /\ loan' # "gone"
         /\ (\E i \in Slots : Lent(i)) \/ (\E i \in Slots : Borrows(i)) \/ Steady
<1>1. /\ loan = "entries" /\ loan' = loan /\ nest' = nest /\ cursor' = cursor + 1
      /\ cursor \in 0..Cap /\ cursor < Cap
  BY DEF NextEntry, Inv, Types
<1>2. PICK i \in Slots : i = cursor
  BY <1>1, Constants
<1>3. Around /\ i < cursor' /\ cursor' > i
  BY <1>1, <1>2, Constants DEF Around
<1>4. CASE state[i] = "Free" /\ Take(i)
  <2>1. Lends(i)
    BY <1>1, <1>3 DEF Lends
  <2> QED BY <1>1, <1>4, <2>1, TakeKeeps
<1>5. CASE state[i] = "Occupied" /\ Hold(i)
  <2>1. Inv' /\ Turns(i, Taken, "held", gen[i]) /\ Only(i) /\ spent' = spent
        /\ Live(i) /\ Live(i)' /\ guard[i] # "issued" /\ guard'[i] = "held" /\ content' = content
    BY <1>1, <1>3, <1>5, HoldKeeps
  <2> QED BY <1>1, <2>1 DEF Borrows, Turns, Inv, Types
<1>6. CASE UNCHANGED <<state, list, dense, ident, guard, built>>
  <2>1. Steady
    BY <1>1, <1>6 DEF Steady
  <2>2. \A j \in Slots : j >= cursor' => guard[j] = "none"
    <3>1. \A j \in Slots : j >= cursor + 1 => j >= cursor
      BY <1>1, Constants
    <3> QED BY <1>1, <3>1 DEF Inv, SlotFits
  <2>3. cursor' \in 0..Cap /\ loan' \in Loans \ {"gone"} /\ loan' # "clear"
    BY <1>1, Constants DEF Loans
  <2> QED BY <1>1, <2>1, <2>2, <2>3, SteadyKeeps
<1> QED BY <1>2, <1>4, <1>5, <1>6 DEF NextEntry

\* Core::drop empties the union of every live slot and of no other.
LEMMA DropCoreKeeps ==
  ASSUME Inv, DropCore, shape' = shape
  PROVE  /\ Inv' /\ loan = "none" /\ loan' = "gone"
         /\ UNCHANGED <<state, gen, guard, spent>> /\ \A i \in Slots : guard[i] = "none"
<1>1. /\ state' = state /\ heads' = heads /\ tail' = tail /\ len' = len
      /\ position' = position /\ gen' = gen /\ retired' = retired /\ spent' = spent
      /\ guard' = guard /\ built' = built /\ nest' = nest /\ UNCHANGED dense /\ cursor' = cursor
      /\ loan = "none" /\ loan' = "gone" /\ \A i \in Slots : guard[i] = "none"
  BY DEF DropCore, dense, ident
<1>2. Types /\ FreeLinks /\ DensePlaneIsLive /\ CountsFit /\ NestFits /\ SpentFits
      /\ len \in 0..Cap
  BY TypesAreBounded DEF Inv
<1>3. Partitions' = Partitions /\ Lazy' = Lazy /\ Reentrant' = Reentrant /\ Taken' = Taken
  BY SameShape
<1>4. \A i \in Slots : content'[i] = IF \E p \in 0..(len - 1) : tail[p] = i THEN Moved ELSE content[i]
  BY DEF DropCore
<1>5. content' \in [Slots -> Content]
  BY <1>2, LinkTypes DEF DropCore, Types
<1>6. Types'
  BY <1>1, <1>2, <1>3, <1>5 DEF Types, Loans
<1>7. \A i \in Slots : Live(i) <=> \E p \in 0..(len - 1) : tail[p] = i
  <2>1. ASSUME NEW i \in Slots, Live(i) PROVE \E p \in 0..(len - 1) : tail[p] = i
    <3>1. position[i] < len /\ tail[position[i]] = i /\ position[i] \in Slots \cup {0}
      BY <1>2, <2>1 DEF DensePlaneIsLive, Types
    <3>2. position[i] \in 0..(len - 1)
      BY <1>2, <3>1, Constants
    <3> QED BY <3>1, <3>2
  <2>2. \A i \in Slots : (\E p \in 0..(len - 1) : tail[p] = i) => Live(i)
    BY <1>2 DEF DensePlaneIsLive
  <2> QED BY <2>1, <2>2
<1>8. FreeLinks'
  <2>1. \A j \in Slots : state[j] = "Free" => content'[j] = content[j]
    BY <1>4, <1>7 DEF Live
  <2> QED BY <1>1, <1>2, <2>1, FreeFrame
<1>9. DensePlaneIsLive' /\ CountsFit'
  BY <1>1, <1>2, DenseFrame DEF Live
<1>10. NestFits' /\ SpentFits'
  BY <1>1, <1>2 DEF NestFits, SpentFits
<1>11. ASSUME NEW i \in Slots PROVE SlotFits(i)'
  <2>1. SlotFits(i) /\ guard[i] = "none"
    BY <1>1 DEF Inv
  <2>2. content'[i].tag # "value" /\ (state[i] = "Free" => content'[i].tag = "links")
    BY <1>1, <1>4, <1>7, <2>1, LinkTypes DEF SlotFits, Live
  <2> QED BY <1>1, <1>3, <2>1, <2>2 DEF SlotFits, Live
<1> QED BY <1>1, <1>6, <1>8, <1>9, <1>10, <1>11 DEF Inv

LEMMA InitFits ==
  ASSUME Init
  PROVE  Inv /\ loan = "none" /\ spent = {} /\ \A i \in Slots : guard[i] = "none" /\ ~ Live(i)
<1>1. /\ state = [i \in Slots |-> IF Lazy THEN "Unbuilt" ELSE "Free"]
      /\ gen = [i \in Slots |-> 1]
      /\ content = [i \in Slots |-> IF Lazy THEN Moved ELSE InitLinks(i)]
      /\ heads = [p \in Partitions |-> InitHead(p)]
      /\ tail = [i \in Slots |-> NONE] /\ len = 0 /\ position = [i \in Slots |-> 0]
      /\ built = (IF Lazy THEN 0 ELSE Cap) /\ retired = 0
      /\ guard = [i \in Slots |-> "none"] /\ loan = "none" /\ cursor = 0 /\ nest = <<>> /\ spent = {}
  BY DEF Init
<1>2. Parts \in {1, 2} /\ Lazy \in BOOLEAN /\ Partitions = (IF Parts = 1 THEN {0} ELSE {0, 1})
      /\ shape \in Shapes
  <2>1. shape \in Shapes /\ Parts \in {1, 2} /\ Lazy \in BOOLEAN
    BY SlabAssumption DEF Init, Parts, Lazy
  <2>2. 0..(1 - 1) = {0} /\ 0..(2 - 1) = {0, 1}
    OBVIOUS
  <2> QED BY <2>1, <2>2 DEF Partitions
<1>3. \A i \in Slots : i \in Int /\ 0 <= i /\ i < Cap
  BY Constants
<1>4. /\ 2 * HalfUp \in {Cap, Cap + 1} /\ HalfUp \in Nat /\ HalfUp <= Cap
      /\ (Cap > 0 => HalfUp > 0)
  BY SlabAssumption DEF HalfUp
<1>5. \A i \in Slots : /\ InitLinks(i).tag = "links"
                       /\ InitLinks(i).next = IF IsEdge(i + 1) THEN NONE ELSE i + 1
                       /\ InitLinks(i).prev = IF i = 0 \/ IsEdge(i) THEN NONE ELSE i - 1
                       /\ (~ IsEdge(i + 1) => i + 1 \in Slots)
                       /\ (i # 0 => i - 1 \in Slots)
                       /\ InitLinks(i) \in Content
  <2>1. \A x, y : Links(x, y).tag = "links" /\ Links(x, y).next = x /\ Links(x, y).prev = y
    BY DEF Links
  <2> SUFFICES ASSUME NEW i \in Slots
               PROVE  /\ (~ IsEdge(i + 1) => i + 1 \in Slots) /\ (i # 0 => i - 1 \in Slots)
                      /\ InitLinks(i) \in Content
    BY <2>1 DEF InitLinks
  <2>2. (~ IsEdge(i + 1) => i + 1 \in Slots) /\ (i # 0 => i - 1 \in Slots)
    BY <1>3, Constants DEF IsEdge
  <2> QED BY <2>2, LinkTypes DEF InitLinks
<1>6. Types
  <2>1. ~ Lazy => \A p \in Partitions : InitHead(p) \in Slots \cup {NONE}
    BY <1>2, <1>4, Constants DEF InitHead, Boundary
  <2>2. Lazy => \A p \in Partitions : InitHead(p) = NONE
    BY DEF InitHead
  <2>3. 1 \in Generations /\ 0 \in 0..Cap /\ Cap \in 0..Cap
    BY Constants DEF Generations
  <2>4. <<>> \in Seq(Slots)
    BY EmptySeq
  <2> QED BY <1>1, <1>2, <1>5, <2>1, <2>2, <2>3, <2>4, LinkTypes DEF Types, States, Guards, Loans
<1>7. FreeLinks
  <2>1. CASE Lazy
    <3>1. Ordered
      <4>1. [i \in Slots |-> 0] \in [Slots -> Nat]
        OBVIOUS
      <4> QED BY <1>1, <2>1, <4>1 DEF Ordered, Ranks
    <3> QED BY <1>1, <2>1, <3>1 DEF FreeLinks, InitHead
  <2>2. CASE ~ Lazy
    <3>1. \A i \in Slots : state[i] = "Free" /\ content[i] = InitLinks(i)
      BY <1>1, <2>2
    <3>2. \A p \in Partitions : heads[p] = InitHead(p)
      BY <1>1
    <3>3. ASSUME NEW i \in Slots PROVE LinksBack(i) /\ LinksOn(i)
      <4>1. LinksBack(i)
        BY <1>2, <1>3, <1>4, <1>5, <3>1, Constants DEF LinksBack, IsEdge, Boundary, Partition
      <4>2. LinksOn(i)
        BY <1>2, <1>3, <1>4, <1>5, <3>1, Constants DEF LinksOn, IsEdge, Boundary, Partition
      <4> QED BY <4>1, <4>2
    <3>4. ASSUME NEW i \in Slots, content[i].prev = NONE PROVE heads[Partition(i)] = i
      BY <1>2, <1>3, <1>4, <1>5, <2>2, <3>1, <3>2, <3>4, Constants
         DEF IsEdge, Boundary, Partition, InitHead
    <3>5. ASSUME NEW p \in Partitions, heads[p] # NONE
          PROVE  state[heads[p]] = "Free" /\ content[heads[p]].prev = NONE /\ Partition(heads[p]) = p
      BY <1>2, <1>3, <1>4, <1>5, <2>2, <3>1, <3>2, <3>5, Constants
         DEF IsEdge, Boundary, Partition, InitHead
    <3>6. Ordered
      <4> DEFINE r == [i \in Slots |-> i]
      <4>1. r \in [Slots -> Nat] /\ \A i \in Slots : r[i] = i
        BY Constants
      <4>2. ASSUME NEW i \in Slots, content[i].prev # NONE PROVE content[i].prev = i - 1 /\ i - 1 \in Slots
        BY <1>5, <3>1, <4>2
      <4>3. \A i \in Slots : i - 1 < i
        BY <1>3
      <4> HIDE DEF r
      <4> QED BY <4>1, <4>2, <4>3 DEF Ordered, Ranks
    <3> QED BY <3>1, <3>3, <3>4, <3>5, <3>6 DEF FreeLinks
  <2> QED BY <2>1, <2>2
<1>8. \A i \in Slots : ~ Live(i) /\ state[i] # "Retired"
  BY <1>1 DEF Live
<1>9. DensePlaneIsLive /\ CountsFit
  <2>1. LiveSlots = {} /\ RetiredSlots = {}
    BY <1>8 DEF LiveSlots, RetiredSlots
  <2> QED BY <1>1, <1>8, <2>1, FS_EmptySet DEF DensePlaneIsLive, CountsFit
<1>10. NestFits /\ SpentFits
  <2>1. DOMAIN nest = {}
    BY <1>1, EmptySeq, LenProperties
  <2> QED BY <1>1, <2>1 DEF NestFits, SpentFits
<1>11. ASSUME NEW i \in Slots PROVE SlotFits(i)
  BY <1>1, <1>2, <1>3, <1>5, LinkTypes, Constants DEF SlotFits, Live
<1> QED BY <1>1, <1>6, <1>7, <1>8, <1>9, <1>10, <1>11 DEF Inv

-----------------------------------------------------------------------------
(* The keys: what a step does to those in use and those that have ended. *)

CurrentKeys == IF Recycle THEN LogicalKeys ELSE LiveKeys
EndedKeys   == IF Recycle THEN ended ELSE spent
AllKeys     == Slots \X (Generations \cup Epochs)

KeyIsFresh(k) == /\ \A l \in CurrentKeys : l[1] # k[1]
                 /\ \A s \in EndedKeys : s[1] = k[1] => s[2] < k[2]

KeysStay     == CurrentKeys' = CurrentKeys /\ EndedKeys' = EndedKeys
KeyIssued(k) == KeyIsFresh(k) /\ CurrentKeys' = CurrentKeys \cup {k} /\ EndedKeys' = EndedKeys
KeyEnded(k)  == k \in CurrentKeys /\ CurrentKeys' = CurrentKeys \ {k} /\ EndedKeys' = EndedKeys \cup {k}
KeyBurnt(k)  == KeyIsFresh(k) /\ CurrentKeys' = CurrentKeys /\ EndedKeys' = EndedKeys \cup {k}
KeyRenewed(k, g) == /\ k \in CurrentKeys /\ k[2] < g
                    /\ CurrentKeys' = (CurrentKeys \ {k}) \cup {<<k[1], g>>}
                    /\ EndedKeys' = EndedKeys \cup {k}

\* A step of the abstract key space, or none.
KeyStep ==
  \/ KeysStay /\ loan' # "gone"
  \/ /\ loan' # "gone"
     /\ \E k \in AllKeys : \/ KeyIssued(k) \/ KeyEnded(k) \/ KeyBurnt(k)
                           \/ \E g \in Generations \cup Epochs : KeyRenewed(k, g)
  \/ loan' = "gone" /\ CurrentKeys' = {} /\ EndedKeys' = EndedKeys

LEMMA KeyStepIsAbstract ==
  ASSUME KeyStep, loan # "gone"
  PROVE  [Contract!Next]_(Contract!vars)
<1>1. CASE KeysStay /\ loan' # "gone"
  BY <1>1 DEF KeysStay, CurrentKeys, EndedKeys, Contract!vars
<1>2. CASE loan' = "gone" /\ CurrentKeys' = {} /\ EndedKeys' = EndedKeys
  BY <1>2 DEF CurrentKeys, EndedKeys, Contract!Next, Contract!Close
<1>3. ASSUME loan' # "gone", NEW k \in AllKeys,
             \/ KeyIssued(k) \/ KeyEnded(k) \/ KeyBurnt(k)
             \/ \E g \in Generations \cup Epochs : KeyRenewed(k, g)
      PROVE  Contract!Next
  <2>1. k \in Contract!Keys /\ ((loan' # "gone") = (loan # "gone"))
    BY <1>3 DEF AllKeys, Contract!Keys
  <2>2. CASE KeyIssued(k)
    <3>1. k \in CurrentKeys' \ CurrentKeys
      BY <2>2 DEF KeyIssued, KeyIsFresh
    <3> QED BY <2>1, <2>2, <3>1 DEF KeyIssued, KeyIsFresh, CurrentKeys, EndedKeys,
                                    Contract!Next, Contract!Issue, Contract!Fresh
  <2>3. CASE KeyEnded(k)
    <3>1. k \in CurrentKeys \ CurrentKeys'
      BY <2>3 DEF KeyEnded
    <3> QED BY <2>1, <2>3, <3>1 DEF KeyEnded, CurrentKeys, EndedKeys, Contract!Next, Contract!End
  <2>4. CASE KeyBurnt(k)
    <3>1. k \in EndedKeys' \ EndedKeys
      BY <1>3, <2>4 DEF KeyBurnt, KeyIsFresh, AllKeys, Generations, Epochs
    <3> QED BY <2>1, <2>4, <3>1 DEF KeyBurnt, KeyIsFresh, CurrentKeys, EndedKeys,
                                    Contract!Next, Contract!Burn, Contract!Fresh
  <2>5. ASSUME NEW g \in Generations \cup Epochs, KeyRenewed(k, g)
        PROVE  Contract!Next
    <3>1. k[2] \in Int /\ g \in Int
      BY <1>3 DEF AllKeys, Generations, Epochs
    <3>2. k # <<k[1], g>>
      BY <2>5, <3>1 DEF KeyRenewed
    <3>3. k \in CurrentKeys \ CurrentKeys'
      BY <2>5, <3>2 DEF KeyRenewed
    <3> QED BY <2>1, <2>5, <3>3 DEF KeyRenewed, CurrentKeys, EndedKeys, Contract!Next, Contract!Renew
  <2> QED BY <1>3, <2>2, <2>3, <2>4, <2>5
<1> QED BY <1>1, <1>2, <1>3 DEF KeyStep

-----------------------------------------------------------------------------
(* Physical keys. *)

Bears(i) == Live(i) \/ guard[i] = "issued"

LEMMA PhysicalKeys ==
  ASSUME NEW i \in Slots, Only(i), loan # "gone", loan' # "gone"
  PROVE  /\ (Bears(i)' <=> Bears(i)) /\ (Bears(i) => gen'[i] = gen[i]) => LiveKeys' = LiveKeys
         /\ ~ Bears(i) /\ Bears(i)' /\ gen'[i] = gen[i] => LiveKeys' = LiveKeys \cup {<<i, gen[i]>>}
         /\ Bears(i) => <<i, gen[i]>> \in LiveKeys
         /\ Bears(i) /\ ~ Bears(i)' => LiveKeys' = LiveKeys \ {<<i, gen[i]>>}
         /\ Bears(i) /\ Bears(i)' => LiveKeys' = (LiveKeys \ {<<i, gen[i]>>}) \cup {<<i, gen'[i]>>}
         /\ ~ Bears(i) => \A l \in LiveKeys : l[1] # i
<1>1. LiveKeys = {<<j, gen[j]>> : j \in {h \in Slots : Bears(h)}}
  BY DEF LiveKeys, Bears
<1>2. LiveKeys' = {<<j, gen'[j]>> : j \in {h \in Slots : Bears(h)'}}
  BY DEF LiveKeys, Bears
<1>3. \A j \in Slots \ {i} : (Bears(j)' <=> Bears(j)) /\ gen'[j] = gen[j]
  BY DEF Only, Bears, Live
<1> HIDE DEF Bears
<1> QED BY <1>1, <1>2, <1>3

LEMMA PhysicalFresh ==
  ASSUME Inv, ~ Recycle, NEW i \in Slots, Only(i), loan # "gone", loan' # "gone", guard[i] # "none",
         ~ Bears(i)
  PROVE  KeyIsFresh(<<i, gen[i]>>) /\ <<i, gen[i]>> \in AllKeys
<1>1. gen[i] \in Generations /\ gen[i] \in Int /\ <<i, gen[i]>> \notin spent /\ SpentFits
      /\ spent \subseteq Slots \X Generations /\ Generations \subseteq Int
  BY Held, Constants DEF Types, Generations
<1>2. \A l \in LiveKeys : l[1] # i
  BY PhysicalKeys
<1>3. ASSUME NEW s \in spent, s[1] = i PROVE s[2] < gen[i]
  <2>1. s[2] <= gen[i] /\ s[2] \in Int /\ s = <<s[1], s[2]>>
    <3>1. s \in Slots \X Generations
      BY <1>1
    <3>2. s[2] \in Generations /\ s = <<s[1], s[2]>>
      BY <3>1
    <3>3. s[2] <= gen[s[1]]
      BY <1>1 DEF SpentFits
    <3> QED BY <1>1, <1>3, <3>2, <3>3
  <2>2. s[2] # gen[i]
    BY <1>1, <1>3, <2>1
  <2> QED BY <1>1, <2>1, <2>2
<1> QED BY <1>1, <1>2, <1>3 DEF KeyIsFresh, CurrentKeys, EndedKeys, AllKeys

\* The effects of the operations on the keys of a slab with generations.
LEMMA PlainStays ==
  ASSUME ~ Recycle, shape' = shape, NEW i \in Slots, Only(i), loan # "gone", loan' # "gone",
         Bears(i)' <=> Bears(i), Bears(i) => gen'[i] = gen[i], spent' = spent
  PROVE  KeyStep
<1>1. LiveKeys' = LiveKeys
  BY PhysicalKeys
<1>2. CurrentKeys' = CurrentKeys /\ EndedKeys' = EndedKeys
  BY <1>1, SameShape DEF CurrentKeys, EndedKeys
<1> QED BY <1>2 DEF KeyStep, KeysStay

LEMMA PlainIssues ==
  ASSUME Inv, ~ Recycle, shape' = shape, NEW i \in Slots, Only(i), loan # "gone", loan' # "gone",
         guard[i] # "none", ~ Bears(i), Bears(i)', gen'[i] = gen[i], spent' = spent
  PROVE  KeyStep
<1>1. KeyIssued(<<i, gen[i]>>) /\ <<i, gen[i]>> \in AllKeys
  BY PhysicalFresh, PhysicalKeys, SameShape DEF KeyIssued, CurrentKeys, EndedKeys
<1> QED BY <1>1 DEF KeyStep

LEMMA PlainEnds ==
  ASSUME Inv, ~ Recycle, shape' = shape, NEW i \in Slots, Only(i), loan # "gone", loan' # "gone",
         Bears(i), ~ Bears(i)', spent' = Ended(i)
  PROVE  KeyStep
<1>1. KeyEnded(<<i, gen[i]>>)
  BY PhysicalKeys, SameShape DEF KeyEnded, CurrentKeys, EndedKeys, Ended
<1>2. <<i, gen[i]>> \in AllKeys
  BY DEF AllKeys, Inv, Types
<1> QED BY <1>1, <1>2 DEF KeyStep

LEMMA PlainBurns ==
  ASSUME Inv, ~ Recycle, shape' = shape, NEW i \in Slots, Only(i), loan # "gone", loan' # "gone",
         guard[i] # "none", ~ Bears(i), ~ Bears(i)', spent' = Ended(i)
  PROVE  KeyStep
<1>1. KeyBurnt(<<i, gen[i]>>) /\ <<i, gen[i]>> \in AllKeys
  BY PhysicalFresh, PhysicalKeys, SameShape DEF KeyBurnt, CurrentKeys, EndedKeys, Ended
<1> QED BY <1>1 DEF KeyStep

LEMMA PlainLends ==
  ASSUME Inv, ~ Recycle, shape' = shape, loan # "gone", loan' # "gone", \E i \in Slots : Lent(i)
  PROVE  KeyStep
<1>1. PICK i \in Slots : Lent(i)
  OBVIOUS
<1>2. SlotFits(i) /\ Types
  BY DEF Inv
<1>3. state[i] \in {"Free", "Unbuilt"} /\ guard[i] # "issued" /\ Only(i) /\ spent' = spent
      /\ state'[i] = "Reserved" /\ guard'[i] = "vacancy"
  BY <1>1, <1>2 DEF Lent, Turns, SlotFits, Types
<1> QED BY <1>3, PlainStays DEF Bears, Live

LEMMA PlainBorrows ==
  ASSUME Inv, ~ Recycle, shape' = shape, loan # "gone", loan' # "gone", NEW i \in Slots, Borrows(i)
  PROVE  KeyStep
BY PlainStays DEF Bears, Borrows

LEMMA PlainSteady ==
  ASSUME Inv, ~ Recycle, shape' = shape, loan # "gone", loan' # "gone", Steady
  PROVE  KeyStep
<1>1. state' = state /\ gen' = gen /\ guard' = guard /\ spent' = spent
  BY DEF Steady, ident
<1>2. LiveKeys' = LiveKeys
  BY <1>1 DEF LiveKeys, Live
<1> QED BY <1>1, <1>2, SameShape DEF KeyStep, KeysStay, CurrentKeys, EndedKeys

-----------------------------------------------------------------------------
(* A step of a slab with generations. *)

LEMMA OwnerStays ==
  ASSUME UNCHANGED owner
  PROVE  loan' = loan
BY DEF owner

LEMMA PlainSlotStep ==
  ASSUME Inv, ~ Recycle, shape' = shape, NEW i \in Slots, PerSlot(i)
  PROVE  Inv' /\ KeyStep /\ loan # "gone"
<1>1. CASE VacantAt(i)
  <2>1. Inv' /\ Lent(i) /\ loan # "gone" /\ loan' # "gone"
    BY <1>1, VacantAtKeeps, OpenFacts, OwnerStays DEF VacantAt
  <2> QED BY <2>1, PlainLends
<1>2. ASSUME guard[i] # "none" PROVE loan # "gone"
  BY <1>2, Held
<1>3. CASE DropVacancy(i)
  <2>1. /\ Inv' /\ Only(i) /\ spent' = spent /\ gen'[i] = gen[i] /\ guard'[i] = "none"
        /\ state[i] = "Reserved" /\ state'[i] = "Free" /\ guard[i] = "vacancy" /\ loan' = loan
    BY <1>3, DropVacancyKeeps, OwnerStays DEF DropVacancy
  <2> QED BY <1>2, <2>1, PlainStays DEF Bears, Live
<1>4. CASE RejectVacancy(i)
  <2>1. Inv' /\ Ends(i) /\ state[i] = "Reserved" /\ guard[i] = "vacancy" /\ loan' = loan
    BY <1>4, RejectHeld, OwnerStays DEF RejectVacancy
  <2> QED BY <1>2, <2>1, PlainBurns DEF Bears, Live, Ends
<1>5. CASE DropIssued(i)
  <2>1. Inv' /\ Ends(i) /\ state[i] = "Reserved" /\ guard[i] = "issued" /\ loan' = loan
    BY <1>5, RejectHeld, OwnerStays DEF DropIssued
  <2> QED BY <1>2, <2>1, PlainEnds DEF Bears, Live, Ends
<1>6. CASE IssueKey(i)
  <2>1. Inv' /\ Turns(i, "Reserved", "issued", gen[i]) /\ Only(i) /\ spent' = spent
        /\ guard[i] = "vacancy" /\ loan' = loan /\ Types
    BY <1>6, IssueKeyKeeps, OwnerStays DEF IssueKey, Inv
  <2>2. state[i] = "Reserved" /\ guard'[i] = "issued" /\ gen'[i] = gen[i]
    <3>1. guard'[i] = "issued" /\ gen'[i] = gen[i]
      <4>1. Turns(i, "Reserved", "issued", gen[i]) /\ Types
        BY <2>1
      <4> QED BY <4>1 DEF Turns, Types
    <3>2. SlotFits(i) /\ guard[i] = "vacancy"
      BY <2>1 DEF Inv
    <3>3. state[i] = "Reserved"
      BY <3>2 DEF SlotFits
    <3> QED BY <3>1, <3>3
  <2> QED BY <1>2, <2>1, <2>2, PlainIssues DEF Bears, Live
<1>7. CASE Insert(i) \/ Stage(i) \/ Occupy(i)
  <2>1. PICK g \in {"none", "held", "staged"} : guard[i] \in {"vacancy", "issued"} /\ Install(i, g)
    BY <1>7 DEF Insert, Stage, Occupy
  <2>2. /\ Inv' /\ Only(i) /\ spent' = spent /\ gen'[i] = gen[i] /\ ~ Live(i) /\ Live(i)'
        /\ loan' = loan
    BY <2>1, InstallKeeps, OwnerStays DEF Install
  <2>3. CASE guard[i] = "vacancy"
    BY <1>2, <2>2, <2>3, PlainIssues DEF Bears
  <2>4. CASE guard[i] = "issued"
    BY <1>2, <2>2, <2>4, PlainStays DEF Bears
  <2> QED BY <2>1, <2>3, <2>4
<1>8. CASE DropHeld(i) \/ Publish(i) \/ Commit(i)
  <2>1. Inv' /\ Only(i) /\ spent' = spent /\ Live(i) /\ Live(i)' /\ guard[i] \in {"held", "staged"}
        /\ \E s, g : Turns(i, s, g, gen[i])
    BY <1>8, SettleKeeps
  <2>2. loan' = loan /\ gen'[i] = gen[i]
    BY <1>8, <2>1, OwnerStays DEF DropHeld, Publish, Commit, Settle, Turns, Inv, Types
  <2> QED BY <1>2, <2>1, <2>2, PlainStays DEF Bears
<1>9. CASE Remove(i) \/ Discard(i)
  <2>1. /\ guard[i] \in {"held", "staged"} /\ Detach(i) /\ Reject(i, Emptied(i)) /\ loan' = loan
        /\ guard' = [guard EXCEPT ![i] = "none"] /\ UNCHANGED <<built, owner>>
    BY <1>9, OwnerStays DEF Remove, Discard, Release
  <2>2. Live(i)
    BY <2>1, HeldLives
  <2>3. Inv' /\ Ends(i)
    BY <2>1, <2>2, RemoveKeeps
  <2> QED BY <1>2, <2>1, <2>2, <2>3, PlainEnds DEF Bears, Live, Ends
<1>10. CASE BeginDiscard(i)
  <2>1. /\ Inv' /\ Only(i) /\ spent' = spent /\ gen'[i] = gen[i] /\ state'[i] = state[i] /\ Live(i)
        /\ loan' = loan /\ guard[i] # "none"
    BY <1>10, BeginDiscardKeeps DEF BeginDiscard
  <2> QED BY <1>2, <2>1, PlainStays DEF Bears, Live
<1>11. CASE Withdraw(i)
  <2>1. /\ Inv' /\ Only(i) /\ spent' = spent /\ gen'[i] = gen[i] /\ Live(i) /\ guard'[i] = "issued"
        /\ loan' = loan /\ guard[i] # "none"
    BY <1>11, WithdrawKeeps, OwnerStays DEF Withdraw
  <2> QED BY <1>2, <2>1, PlainStays DEF Bears
<1>12. CASE Replace(i)
  <2>1. /\ Inv' /\ Only(i) /\ Live(i) /\ Live(i)' /\ gen'[i] = gen[i] + 1 /\ gen[i] + 1 \in Generations
        /\ spent' = spent \cup {<<i, gen[i]>>} /\ loan' = loan /\ guard[i] # "none" /\ loan # "gone"
    BY <1>2, <1>12, ReplaceKeeps, OwnerStays DEF Replace
  <2>2. gen[i] \in Int /\ <<i, gen[i]>> \in AllKeys
    BY Constants DEF Inv, Types, Generations, AllKeys
  <2>3. KeyRenewed(<<i, gen[i]>>, gen[i] + 1)
    BY <2>1, <2>2, PhysicalKeys, SameShape DEF KeyRenewed, CurrentKeys, EndedKeys, Bears
  <2> QED BY <2>1, <2>2, <2>3 DEF KeyStep
<1>13. CASE Forget(i)
  <2>1. /\ Inv' /\ Only(i) /\ state'[i] = state[i] /\ gen'[i] = gen[i] /\ guard'[i] = "none"
        /\ guard[i] \in {"held", "staged"} => Live(i)
        /\ guard[i] \in {"vacancy", "issued"} => state[i] = "Reserved"
    BY <1>13, ForgetKeeps
  <2>2. /\ guard[i] \in {"vacancy", "issued", "held", "staged"} /\ loan' = loan
        /\ spent' = IF guard[i] = "issued" THEN Ended(i) ELSE spent
    BY <1>13, OwnerStays DEF Forget
  <2>3. CASE guard[i] = "issued"
    BY <1>2, <2>1, <2>2, <2>3, PlainEnds DEF Bears, Live
  <2>4. CASE guard[i] # "issued"
    BY <1>2, <2>1, <2>2, <2>4, PlainStays DEF Bears, Live
  <2> QED BY <2>3, <2>4
<1> QED BY <1>1, <1>3, <1>4, <1>5, <1>6, <1>7, <1>8, <1>9, <1>10, <1>11, <1>12, <1>13 DEF PerSlot

LEMMA PlainStep ==
  ASSUME Inv, ~ Recycle, Next
  PROVE  Inv' /\ KeyStep /\ loan # "gone"
<1>1. shape' = shape
  BY DEF Next
<1>2. CASE Vacancy \/ \E lo, hi \in 0..(Cap + 1) : VacantIn(lo, hi)
  <2>1. Open /\ UNCHANGED owner
    BY <1>2 DEF Vacancy, VacantIn
  <2>2. loan # "gone" /\ loan' # "gone"
    BY <2>1, OpenFacts, OwnerStays
  <2>3. Inv' /\ \E i \in Slots : Lent(i)
    BY <1>1, <1>2, VacancyKeeps, VacantInKeeps
  <2> QED BY <1>1, <2>2, <2>3, PlainLends
<1>3. CASE \E i \in Slots : PerSlot(i)
  BY <1>1, <1>3, PlainSlotStep
<1>4. ASSUME NEW i \in Slots, NEW g \in Generations, Lookup(i, g)
      PROVE  Inv' /\ KeyStep /\ loan # "gone"
  <2>1. state[i] = "Occupied" /\ Open /\ Hold(i) /\ UNCHANGED owner
    BY <1>4 DEF Lookup, Admits
  <2>2. loan # "gone" /\ loan' # "gone"
    BY <2>1, OpenFacts, OwnerStays
  <2> QED BY <1>1, <2>1, <2>2, LookupKeeps, PlainBorrows
<1>5. ASSUME NEW i \in Slots, NEW j \in Slots, NEW g \in Generations, Split(i, j, g)
      PROVE  Inv' /\ KeyStep /\ loan # "gone"
  BY <1>1, <1>5, SplitKeeps, PlainBorrows
<1>6. CASE EndDiscard
  <2>1. loan' = loan
    BY <1>6 DEF EndDiscard
  <2>2. PICK i \in Slots : Live(i) /\ Ends(i) /\ guard[i] = "dropping"
    BY <1>1, <1>6, EndDiscardKeeps
  <2>3. loan # "gone"
    BY <2>2, Held
  <2> QED BY <1>1, <1>6, <2>1, <2>2, <2>3, EndDiscardKeeps, PlainEnds DEF Bears, Live, Ends
<1>7. ASSUME NEW kind \in {"vacancies", "entries", "clear"}, Begin(kind)
      PROVE  Inv' /\ KeyStep /\ loan # "gone"
  BY <1>1, <1>7, BeginKeeps, PlainSteady
<1>8. CASE NextVacancy
  BY <1>1, <1>8, NextVacancyKeeps, PlainLends
<1>9. CASE NextEntry
  BY <1>1, <1>9, NextEntryKeeps, PlainLends, PlainBorrows, PlainSteady
<1>10. CASE EndLoan \/ ClearEnd
  BY <1>1, <1>10, EndLoanKeeps, ClearEndKeeps, PlainSteady
<1>11. CASE ClearStep
  <2>1. loan' = loan
    BY <1>11, OwnerStays DEF ClearStep
  <2>2. PICK i \in Slots : Live(i) /\ Ends(i) /\ loan = "clear"
    BY <1>1, <1>11, ClearStepKeeps
  <2> QED BY <1>1, <1>11, <2>1, <2>2, ClearStepKeeps, PlainEnds DEF Bears, Live, Ends
<1>12. CASE DropCore
  <2>1. Inv' /\ loan = "none" /\ loan' = "gone" /\ UNCHANGED <<state, gen, guard, spent>>
    BY <1>1, <1>12, DropCoreKeeps
  <2>2. LiveKeys' = {}
    BY <2>1 DEF LiveKeys
  <2> QED BY <1>1, <2>1, <2>2, SameShape DEF KeyStep, CurrentKeys, EndedKeys
<1> QED BY <1>2, <1>3, <1>4, <1>5, <1>6, <1>7, <1>8, <1>9, <1>10, <1>11, <1>12 DEF Next

-----------------------------------------------------------------------------
(* Logical keys. *)

ETypes == /\ nextEpoch \in Epochs \cup {NONE}
          /\ epoch \in [Slots -> Epochs \cup {NONE}]
          /\ ended \subseteq Slots \X Epochs

\* The epochs given out are behind the counter.
EpochsFit == nextEpoch # NONE =>
  /\ \A i \in Slots : epoch[i] # NONE => epoch[i] < nextEpoch
  /\ \A k \in ended : k[2] < nextEpoch

\* What a stamp tells of its slot.  A grant is only made while there is an epoch for it.
StampFits(i) ==
  /\ content[i].tag = "value" => epoch[i] # NONE
  /\ guard[i] = "issued" => epoch[i] # NONE
  /\ state[i] \in {"Free", "Unbuilt"} => epoch[i] = NONE
  /\ guard[i] = "dropping" => epoch[i] = NONE
  /\ guard[i] = "vacancy" => /\ epoch[i] = NONE => nextEpoch # NONE /\ Owner # "Cell"
                             /\ Owner = "Pinned" => epoch[i] = NONE

\* A grant keeps its epoch because nobody else can issue one meanwhile.
Sole == Owner # "Cell" => \A i, j \in Slots : guard[i] # "none" /\ guard[j] # "none" => i = j

EInv == Inv /\ ETypes /\ (Recycle => Sole /\ EpochsFit /\ \A i \in Slots : StampFits(i))

\* The body of NothingIsBurned.
Unburned == nextEpoch' # nextEpoch /\ (epoch' # epoch \/ guard' # guard) =>
              /\ \E i \in Slots : epoch[i] = NONE /\ epoch'[i] = nextEpoch
              /\ nextEpoch' = Succ(nextEpoch)

\* Exclusion is kept by whoever has the slot, a new loan, or the end of one.
Exclusive(i) == guard[i] # "none" \/ Open \/ guard'[i] = "none"

LEMMA EpochFacts ==
  ASSUME ETypes
  PROVE  /\ NONE \notin Epochs /\ Epochs \subseteq Int /\ Epochs \subseteq Generations \cup Epochs
         /\ \A i \in Slots : epoch[i] \in Epochs \cup {NONE}
         /\ nextEpoch # NONE =>
              /\ nextEpoch \in Epochs /\ Succ(nextEpoch) \in Epochs \cup {NONE}
              /\ Succ(nextEpoch) # NONE => nextEpoch < Succ(nextEpoch)
BY Constants, EpochAssumption DEF ETypes, Epochs, Succ

LEMMA SoleKeeps ==
  ASSUME Inv, Sole, shape' = shape, NEW i \in Slots, Only(i), Exclusive(i)
  PROVE  Sole'
<1> SUFFICES ASSUME Owner # "Cell" PROVE \A j, k \in Slots : guard'[j] # "none" /\ guard'[k] # "none" => j = k
  BY SameShape DEF Sole
<1>1. \A j \in Slots \ {i} : guard'[j] = guard[j]
  BY DEF Only
<1>2. CASE Open
  BY <1>1, <1>2, OpenFacts
<1>3. CASE guard[i] # "none" \/ guard'[i] = "none"
  BY <1>1, <1>3 DEF Sole
<1> QED BY <1>2, <1>3 DEF Exclusive

LEMMA LogicalChange ==
  ASSUME ETypes, Recycle, shape' = shape, loan # "gone", loan' # "gone", NEW i \in Slots,
         NEW e \in Epochs \cup {NONE}, epoch' = [epoch EXCEPT ![i] = e]
  PROVE  /\ epoch[i] = NONE /\ e # NONE => CurrentKeys' = CurrentKeys \cup {<<i, e>>}
         /\ epoch[i] # NONE => <<i, epoch[i]>> \in CurrentKeys
         /\ epoch[i] # NONE /\ e = NONE => CurrentKeys' = CurrentKeys \ {<<i, epoch[i]>>}
         /\ epoch[i] = e => CurrentKeys' = CurrentKeys
         /\ epoch[i] = NONE => \A l \in CurrentKeys : l[1] # i
<1>1. CurrentKeys = {<<j, epoch[j]>> : j \in {h \in Slots : epoch[h] # NONE}}
  BY DEF CurrentKeys, LogicalKeys
<1>2. CurrentKeys' = {<<j, epoch'[j]>> : j \in {h \in Slots : epoch'[h] # NONE}}
  BY SameShape DEF CurrentKeys, LogicalKeys
<1>3. \A j \in Slots : epoch'[j] = IF j = i THEN e ELSE epoch[j]
  BY DEF ETypes
<1> QED BY <1>1, <1>2, <1>3

\* The other slots keep their stamps.
LEMMA OthersFit ==
  ASSUME EInv, Recycle, shape' = shape, NEW i \in Slots, Only(i),
         \A j \in Slots \ {i} : epoch'[j] = epoch[j],
         \/ nextEpoch' = nextEpoch
         \/ Owner # "Cell" => \A j \in Slots \ {i} : guard[j] = "none"
  PROVE  \A j \in Slots \ {i} : StampFits(j)'
<1> SUFFICES ASSUME NEW j \in Slots \ {i} PROVE StampFits(j)'
  OBVIOUS
<1>1. StampFits(j) /\ Owner' = Owner
  BY SameShape DEF EInv
<1>2. state'[j] = state[j] /\ guard'[j] = guard[j] /\ content'[j].tag = content[j].tag
      /\ epoch'[j] = epoch[j]
  BY DEF Only, Kept
<1> QED BY <1>1, <1>2 DEF StampFits

\* A step that leaves the epochs alone.
LEMMA KeepAt ==
  ASSUME EInv, Recycle, shape' = shape, Inv', NEW i \in Slots, Only(i), KeepKeys, Exclusive(i),
         loan # "gone", loan' # "gone", StampFits(i)'
  PROVE  EInv' /\ KeyStep /\ Unburned /\ loan # "gone"
<1>1. nextEpoch' = nextEpoch /\ epoch' = epoch /\ ended' = ended /\ Recycle'
  BY SameShape DEF KeepKeys
<1>2. ETypes' /\ EpochsFit'
  BY <1>1 DEF EInv, ETypes, EpochsFit
<1>3. Sole'
  BY SoleKeeps DEF EInv
<1>4. \A j \in Slots : StampFits(j)'
  BY <1>1, OthersFit
<1>5. CurrentKeys' = CurrentKeys /\ EndedKeys' = EndedKeys
  BY <1>1, SameShape DEF CurrentKeys, LogicalKeys, EndedKeys
<1> QED BY <1>1, <1>2, <1>3, <1>4, <1>5 DEF EInv, KeyStep, KeysStay, Unburned

\* An epoch is issued to a slot.
LEMMA IssueAt ==
  ASSUME EInv, Recycle, shape' = shape, Inv', NEW i \in Slots, Only(i), IssueEpoch(i), ended' = ended,
         nextEpoch # NONE, epoch[i] = NONE, guard[i] # "none" \/ Open,
         loan # "gone", loan' # "gone",
         guard'[i] # "dropping", state'[i] \notin {"Free", "Unbuilt"},
         Owner = "Pinned" => guard'[i] # "vacancy"
  PROVE  EInv' /\ KeyStep /\ Unburned /\ loan # "gone"
<1>1. /\ epoch' = [epoch EXCEPT ![i] = nextEpoch] /\ nextEpoch' = Succ(nextEpoch) /\ Recycle'
      /\ Owner' = Owner /\ ETypes /\ EpochsFit /\ nextEpoch \in Epochs
  BY SameShape, EpochFacts DEF IssueEpoch, EInv
<1>2. epoch'[i] = nextEpoch /\ \A j \in Slots \ {i} : epoch'[j] = epoch[j]
  BY <1>1 DEF ETypes
<1>3. ETypes'
  BY <1>1, EpochFacts DEF ETypes
<1>4. EpochsFit'
  <2> SUFFICES ASSUME nextEpoch' # NONE
               PROVE  /\ \A j \in Slots : epoch'[j] # NONE => epoch'[j] < nextEpoch'
                      /\ \A k \in ended : k[2] < nextEpoch'
    BY DEF EpochsFit
  <2>1. nextEpoch < nextEpoch' /\ nextEpoch \in Int /\ nextEpoch' \in Int
    BY <1>1, <1>3, EpochFacts DEF ETypes
  <2>2. ASSUME NEW j \in Slots, epoch'[j] # NONE PROVE epoch'[j] < nextEpoch'
    <3>1. CASE j = i
      BY <1>2, <2>1, <3>1
    <3>2. CASE j # i
      <4>1. epoch[j] < nextEpoch /\ epoch'[j] = epoch[j] /\ epoch[j] \in Int
        BY <1>1, <1>2, <2>2, <3>2, EpochFacts DEF EpochsFit
      <4> QED BY <2>1, <4>1
    <3> QED BY <3>1, <3>2
  <2>3. ASSUME NEW k \in ended PROVE k[2] < nextEpoch'
    <3>1. k[2] < nextEpoch /\ k \in Slots \X Epochs
      BY <1>1 DEF EpochsFit, ETypes
    <3>2. k[2] \in Int
      BY <1>1, <3>1, EpochFacts
    <3> QED BY <2>1, <3>1, <3>2
  <2> QED BY <2>2, <2>3
<1>5. Sole'
  BY SoleKeeps DEF EInv, Exclusive
<1>6. Owner # "Cell" => \A j \in Slots \ {i} : guard[j] = "none"
  BY OpenFacts DEF EInv, Sole
<1>7. StampFits(i)'
  BY <1>1, <1>2, EpochFacts DEF StampFits
<1>8. \A j \in Slots : StampFits(j)'
  BY <1>2, <1>6, <1>7, OthersFit
<1>9. KeyIssued(<<i, nextEpoch>>) /\ <<i, nextEpoch>> \in AllKeys
  <2>1. CurrentKeys' = CurrentKeys \cup {<<i, nextEpoch>>} /\ \A l \in CurrentKeys : l[1] # i
    BY <1>1, LogicalChange
  <2>2. EndedKeys = ended /\ EndedKeys' = EndedKeys
    BY <1>1 DEF EndedKeys
  <2> QED BY <1>1, <2>1, <2>2 DEF KeyIssued, KeyIsFresh, EpochsFit, AllKeys
<1>10. KeyStep
  BY <1>9 DEF KeyStep
<1>11. Unburned
  BY <1>1, <1>2 DEF Unburned
<1> QED BY <1>1, <1>3, <1>4, <1>5, <1>8, <1>10, <1>11 DEF EInv

\* The identity of a slot ends, if it was given one.
LEMMA EndAt ==
  ASSUME EInv, Recycle, shape' = shape, Inv', NEW i \in Slots, Only(i), EndKey(i),
         loan # "gone", loan' # "gone", guard[i] # "none",
         guard'[i] \in {"none", "dropping"}, content'[i].tag # "value"
  PROVE  EInv' /\ KeyStep /\ Unburned /\ loan # "gone"
<1>1. /\ epoch' = [epoch EXCEPT ![i] = NONE] /\ nextEpoch' = nextEpoch /\ Recycle'
      /\ ended' = IF epoch[i] = NONE THEN ended ELSE ended \cup {<<i, epoch[i]>>}
      /\ Owner' = Owner /\ ETypes /\ EpochsFit /\ epoch[i] \in Epochs \cup {NONE}
  BY SameShape, EpochFacts DEF EndKey, EInv
<1>2. epoch'[i] = NONE /\ \A j \in Slots \ {i} : epoch'[j] = epoch[j]
  BY <1>1 DEF ETypes
<1>3. ETypes'
  BY <1>1 DEF ETypes
<1>4. EpochsFit'
  <2> SUFFICES ASSUME nextEpoch # NONE
               PROVE  /\ \A j \in Slots : epoch'[j] # NONE => epoch'[j] < nextEpoch
                      /\ \A k \in ended' : k[2] < nextEpoch
    BY <1>1 DEF EpochsFit
  <2>1. epoch[i] # NONE => epoch[i] < nextEpoch
    BY <1>1 DEF EpochsFit
  <2> QED BY <1>1, <1>2, <2>1 DEF EpochsFit
<1>5. Sole'
  BY SoleKeeps DEF EInv, Exclusive
<1>6. StampFits(i)'
  BY <1>2 DEF StampFits
<1>7. \A j \in Slots : StampFits(j)'
  BY <1>1, <1>2, <1>6, OthersFit
<1>8. KeyStep
  <2>1. CASE epoch[i] = NONE
    <3>1. CurrentKeys' = CurrentKeys /\ EndedKeys' = EndedKeys
      BY <1>1, <2>1, LogicalChange, SameShape DEF EndedKeys
    <3> QED BY <3>1 DEF KeyStep, KeysStay
  <2>2. CASE epoch[i] # NONE
    <3>1. KeyEnded(<<i, epoch[i]>>)
      BY <1>1, <2>2, LogicalChange, SameShape DEF EndedKeys, KeyEnded
    <3>2. <<i, epoch[i]>> \in AllKeys
      BY <1>1, <2>2 DEF AllKeys
    <3> QED BY <3>1, <3>2 DEF KeyStep
  <2> QED BY <2>1, <2>2
<1> QED BY <1>1, <1>3, <1>4, <1>5, <1>7, <1>8 DEF EInv, Unburned

-----------------------------------------------------------------------------
(* A step of a slab with epochs. *)

LEMMA StampedSlot ==
  ASSUME EInv, Recycle, NEW i \in Slots
  PROVE  Inv /\ StampFits(i) /\ SlotFits(i) /\ ETypes /\ Types
BY DEF EInv, Inv

LEMMA NoValue ==
  ASSUME NEW i \in Slots, Inv', ~ Live(i)' \/ guard'[i] = "dropping"
  PROVE  content'[i].tag # "value"
BY DEF Inv, SlotFits

LEMMA GrantKeeps ==
  ASSUME EInv, Recycle, shape' = shape, Inv', NEW i \in Slots, Lent(i), Grantable, Open,
         UNCHANGED owner, KeepKeys
  PROVE  EInv' /\ KeyStep /\ Unburned /\ loan # "gone"
<1>1. Only(i) /\ state[i] \in {"Free", "Unbuilt"} /\ state'[i] = "Reserved" /\ guard'[i] = "vacancy"
  BY DEF Lent, Turns, EInv, Inv, Types
<1>2. loan # "gone" /\ loan' # "gone"
  BY OpenFacts, OwnerStays DEF EInv
<1>3. StampFits(i)'
  <2>1. epoch'[i] = NONE /\ nextEpoch' # NONE /\ Owner' = Owner
    BY <1>1, StampedSlot, SameShape DEF StampFits, KeepKeys, Grantable
  <2>2. content'[i].tag # "value"
    BY <1>1, NoValue DEF Live
  <2> QED BY <1>1, <2>1, <2>2 DEF StampFits, Grantable
<1> QED BY <1>1, <1>2, <1>3, KeepAt DEF Exclusive

LEMMA GrantsKeep ==
  ASSUME EInv, Recycle, shape' = shape,
         \/ TryGrant \/ \E i \in Slots : TryGrantAt(i)
         \/ \E lo, hi \in 0..(Cap + 1) : TryGrantIn(lo, hi)
         \/ \E lo, hi \in 0..(Cap + 1), x \in Slots : TryExcept(lo, hi, x)
  PROVE  EInv' /\ KeyStep /\ Unburned /\ loan # "gone"
<1>0. Inv
  BY DEF EInv
<1>1. Grantable /\ Open /\ UNCHANGED owner /\ KeepKeys
  BY DEF TryGrant, TryGrantAt, TryGrantIn, TryExcept, Vacancy, VacantAt, VacantIn
<1>2. CASE TryGrant
  BY <1>0, <1>1, <1>2, VacancyKeeps, GrantKeeps DEF TryGrant
<1>3. CASE \E i \in Slots : TryGrantAt(i)
  BY <1>0, <1>1, <1>3, VacantAtKeeps, GrantKeeps DEF TryGrantAt
<1>4. CASE \E lo, hi \in 0..(Cap + 1) : TryGrantIn(lo, hi)
  BY <1>0, <1>1, <1>4, VacantInKeeps, GrantKeeps DEF TryGrantIn
<1>5. ASSUME NEW lo \in 0..(Cap + 1), NEW hi \in 0..(Cap + 1), NEW x \in Slots, TryExcept(lo, hi, x)
      PROVE  EInv' /\ KeyStep /\ Unburned /\ loan # "gone"
  <2>1. Except(lo, hi, x) # NONE /\ Take(Except(lo, hi, x))
    BY <1>5 DEF TryExcept
  <2>2. Except(lo, hi, x) \in Slots /\ state[Except(lo, hi, x)] = "Free"
    BY <1>0, <2>1, ExceptFinds
  <2>3. PICK i \in Slots : i = Except(lo, hi, x)
    BY <2>2
  <2>4. Inv' /\ Lent(i)
    BY <1>0, <1>1, <2>1, <2>2, <2>3, TakeOpenKeeps
  <2> QED BY <1>1, <2>4, GrantKeeps
<1> QED BY <1>2, <1>3, <1>4, <1>5

LEMMA SharedVacancyKeeps ==
  ASSUME EInv, Recycle, shape' = shape, SharedVacancy
  PROVE  EInv' /\ KeyStep /\ Unburned /\ loan # "gone"
<1>0. Inv
  BY DEF EInv
<1>1. Open /\ UNCHANGED owner /\ Owner = "Cell" /\ nextEpoch # NONE /\ ended' = ended
  BY DEF SharedVacancy, Vacancy, VacantAt
<1>2. PICK i \in Slots : Inv' /\ Lent(i)
  BY <1>0, VacancyKeeps, VacantAtKeeps DEF SharedVacancy
<1>3. Only(i) /\ state[i] \in {"Free", "Unbuilt"} /\ state'[i] = "Reserved" /\ guard'[i] = "vacancy"
  BY <1>0, <1>2 DEF Lent, Turns, Inv, Types
<1>4. IssueEpoch(i)
  BY <1>3 DEF SharedVacancy, Granted, Only
<1>5. epoch[i] = NONE
  BY <1>3, StampedSlot DEF StampFits
<1>6. loan # "gone" /\ loan' # "gone"
  BY <1>0, <1>1, OpenFacts, OwnerStays
<1> QED BY <1>1, <1>2, <1>3, <1>4, <1>5, <1>6, IssueAt

\* Nothing happens in the slab itself.
LEMMA InvFrame ==
  ASSUME Inv, UNCHANGED vars
  PROVE  Inv' /\ shape' = shape /\ loan' = loan /\ \A i \in Slots : Only(i)
<1>1. /\ shape' = shape /\ state' = state /\ gen' = gen /\ content' = content /\ heads' = heads
      /\ tail' = tail /\ len' = len /\ position' = position /\ built' = built /\ retired' = retired
      /\ guard' = guard /\ loan' = loan /\ cursor' = cursor /\ nest' = nest /\ spent' = spent
  BY DEF vars
<1>2. \A i \in Slots : Only(i)
  BY <1>1 DEF Only, Kept
<1>3. Types' /\ FreeLinks' /\ DensePlaneIsLive' /\ CountsFit' /\ NestFits' /\ SpentFits'
  <2>1. UNCHANGED dense
    BY <1>1 DEF dense
  <2>2. DensePlaneIsLive' /\ CountsFit'
    BY <1>1, <2>1, DenseFrame DEF Inv, Live
  <2>3. Types' /\ Partitions' = Partitions
    BY <1>1, SameShape DEF Inv, Types
  <2>4. FreeLinks'
    BY <1>1, FreeFrame DEF Inv
  <2> QED BY <1>1, <2>2, <2>3, <2>4 DEF Inv, NestFits, SpentFits
<1>4. \A i \in Slots : SlotFits(i)'
  BY <1>1, SameShape DEF Inv, SlotFits, Live
<1> QED BY <1>1, <1>2, <1>3, <1>4 DEF Inv

LEMMA ReserveGrantKeeps ==
  ASSUME EInv, Recycle, shape' = shape, NEW i \in Slots, ReserveGrant(i)
  PROVE  EInv' /\ KeyStep /\ Unburned /\ loan # "gone"
<1>1. /\ Owner = "Store" /\ guard[i] = "vacancy" /\ epoch[i] = NONE /\ IssueEpoch(i)
      /\ UNCHANGED vars /\ ended' = ended
  BY DEF ReserveGrant
<1>2. Inv' /\ Only(i) /\ loan' = loan
  BY <1>1, InvFrame DEF EInv
<1>3. /\ loan # "gone" /\ guard'[i] = "vacancy" /\ state'[i] = "Reserved" /\ nextEpoch # NONE
  BY <1>1, Held, StampedSlot DEF StampFits, SlotFits, vars
<1> QED BY <1>1, <1>2, <1>3, IssueAt

LEMMA AdvanceToKeeps ==
  ASSUME EInv, Recycle, NEW floor \in Epochs \cup {NONE}, AdvanceTo(floor)
  PROVE  EInv' /\ KeyStep /\ Unburned /\ loan # "gone"
<1>1. /\ Owner = "Store" /\ Open /\ UNCHANGED vars /\ epoch' = epoch /\ ended' = ended
      /\ nextEpoch' = IF nextEpoch = NONE \/ floor = NONE THEN NONE
                      ELSE IF nextEpoch < floor THEN floor ELSE nextEpoch
  BY DEF AdvanceTo
<1>2. Inv' /\ shape' = shape /\ loan' = loan /\ loan = "none" /\ \A j \in Slots : guard[j] = "none"
  BY <1>1, InvFrame, OpenFacts DEF EInv
<1>3. guard' = guard /\ content' = content /\ state' = state /\ Recycle' /\ Owner' = Owner
  BY <1>1, <1>2, SameShape DEF vars
<1>4. ETypes /\ EpochsFit /\ ETypes'
  BY <1>1 DEF EInv, ETypes
<1>5. EpochsFit'
  <2> SUFFICES ASSUME nextEpoch' # NONE
               PROVE  /\ \A j \in Slots : epoch[j] # NONE => epoch[j] < nextEpoch'
                      /\ \A k \in ended : k[2] < nextEpoch'
    BY <1>1 DEF EpochsFit
  <2>1. nextEpoch # NONE /\ nextEpoch \in Int /\ nextEpoch' \in Int /\ nextEpoch <= nextEpoch'
    BY <1>1, <1>4, EpochFacts DEF ETypes
  <2>2. \A j \in Slots : epoch[j] # NONE => epoch[j] < nextEpoch /\ epoch[j] \in Int
    BY <1>4, <2>1, EpochFacts DEF EpochsFit
  <2>3. ASSUME NEW k \in ended PROVE k[2] < nextEpoch'
    <3>1. k[2] < nextEpoch /\ k \in Slots \X Epochs
      BY <1>4, <2>1 DEF EpochsFit, ETypes
    <3>2. k[2] \in Int
      BY <1>4, <3>1, EpochFacts
    <3> QED BY <2>1, <3>1, <3>2
  <2> QED BY <2>1, <2>2, <2>3
<1>6. Sole'
  BY <1>2, <1>3 DEF Sole
<1>7. \A j \in Slots : StampFits(j)'
  BY <1>1, <1>2, <1>3 DEF EInv, StampFits
<1>8. CurrentKeys' = CurrentKeys /\ EndedKeys' = EndedKeys
  BY <1>1, <1>2, SameShape DEF CurrentKeys, LogicalKeys, EndedKeys
<1> QED BY <1>1, <1>2, <1>3, <1>4, <1>5, <1>6, <1>7, <1>8 DEF EInv, KeyStep, KeysStay, Unburned

LEMMA OccupyGrantKeeps ==
  ASSUME EInv, Recycle, shape' = shape, NEW i \in Slots, OccupyGrant(i)
  PROVE  EInv' /\ KeyStep /\ Unburned /\ loan # "gone"
<1>1. Owner = "Pinned" /\ guard[i] = "vacancy" /\ Install(i, "held") /\ IssueEpoch(i) /\ ended' = ended
  BY DEF OccupyGrant, Occupy
<1>2. Inv' /\ Only(i) /\ Live(i)' /\ guard'[i] = "held" /\ loan' = loan
  BY <1>1, InstallKeeps, OwnerStays DEF EInv, Install
<1>3. epoch[i] = NONE /\ nextEpoch # NONE /\ loan # "gone"
  BY <1>1, StampedSlot, Held DEF StampFits
<1> QED BY <1>1, <1>2, <1>3, IssueAt DEF Live

LEMMA InstallStampedKeeps ==
  ASSUME EInv, Recycle, shape' = shape, NEW i \in Slots, InstallStamped(i) \/ Restore(i)
  PROVE  EInv' /\ KeyStep /\ Unburned /\ loan # "gone"
<1>1. PICK g \in {"none", "held", "staged"} :
        guard[i] \in {"vacancy", "issued"} /\ Install(i, g) /\ KeepKeys /\ epoch[i] # NONE
  BY StampedSlot DEF InstallStamped, Restore, Insert, Stage, Occupy, Issued, StampFits
<1>2. Inv' /\ Only(i) /\ Live(i)' /\ guard'[i] = g /\ loan' = loan
  BY <1>1, InstallKeeps, OwnerStays DEF EInv, Install
<1>3. loan # "gone" /\ guard[i] # "none"
  BY <1>1, StampedSlot, Held
<1>4. StampFits(i)'
  BY <1>1, <1>2 DEF StampFits, Live, KeepKeys
<1> QED BY <1>1, <1>2, <1>3, <1>4, KeepAt DEF Exclusive

LEMMA FindKeeps ==
  ASSUME EInv, Recycle, shape' = shape, NEW i \in Slots, NEW e \in Epochs, Find(i, e)
  PROVE  EInv' /\ KeyStep /\ Unburned /\ loan # "gone"
<1>1. state[i] = "Occupied" /\ Open /\ Hold(i) /\ UNCHANGED owner /\ KeepKeys /\ epoch[i] = e
  BY DEF Find, Finds, Matches
<1>2. Inv' /\ Borrows(i) /\ loan # "gone" /\ loan' # "gone"
  BY <1>1, LookupKeeps, OpenFacts, OwnerStays DEF EInv
<1>3. StampFits(i)'
  BY <1>1, <1>2, StampedSlot, EpochFacts DEF StampFits, Borrows, Live, KeepKeys
<1> QED BY <1>1, <1>2, <1>3, KeepAt DEF Exclusive, Borrows

\* A live slot whose value is there carries its epoch.
LEMMA ValueIsStamped ==
  ASSUME EInv, Recycle, NEW i \in Slots, guard[i] \in {"held", "staged"}
  PROVE  epoch[i] # NONE /\ Live(i) /\ loan # "gone"
<1>1. Live(i) /\ loan # "gone"
  BY StampedSlot, HeldLives, Held
<1> QED BY <1>1, StampedSlot DEF SlotFits, StampFits

LEMMA SettleStampedKeeps ==
  ASSUME EInv, Recycle, shape' = shape, NEW i \in Slots, SettleStamped(i)
  PROVE  EInv' /\ KeyStep /\ Unburned /\ loan # "gone"
<1>1. /\ Inv' /\ Only(i) /\ Live(i)' /\ guard[i] \in {"held", "staged"}
      /\ guard'[i] \in {"none", "held"} /\ KeepKeys
  BY SettleKeeps DEF SettleStamped, EInv
<1>2. loan' = loan
  BY OwnerStays DEF SettleStamped, DropHeld, Publish, Commit, Settle
<1>3. epoch[i] # NONE /\ loan # "gone"
  BY <1>1, ValueIsStamped
<1>4. StampFits(i)'
  BY <1>1, <1>3 DEF StampFits, Live, KeepKeys
<1> QED BY <1>1, <1>2, <1>3, <1>4, KeepAt DEF Exclusive

LEMMA TryRemoveKeeps ==
  ASSUME EInv, Recycle, shape' = shape, NEW i \in Slots, TryRemove(i)
  PROVE  EInv' /\ KeyStep /\ Unburned /\ loan # "gone"
<1>1. /\ Inv' /\ Only(i) /\ state'[i] = "Reserved" /\ guard'[i] = "issued"
      /\ guard[i] = "held" /\ KeepKeys /\ loan' = loan
  BY WithdrawKeeps, OwnerStays DEF TryRemove, Withdraw, EInv
<1>2. epoch[i] # NONE /\ loan # "gone"
  BY <1>1, ValueIsStamped
<1>3. StampFits(i)'
  BY <1>1, <1>2 DEF StampFits, KeepKeys
<1> QED BY <1>1, <1>2, <1>3, KeepAt DEF Exclusive

LEMMA EndStampedKeeps ==
  ASSUME EInv, Recycle, shape' = shape, NEW i \in Slots, EndStamped(i)
  PROVE  EInv' /\ KeyStep /\ Unburned /\ loan # "gone"
<1>0. EndKey(i) /\ Inv
  BY DEF EndStamped, EInv
<1>1. CASE DropVacancy(i)
  <2>1. /\ Inv' /\ Only(i) /\ guard'[i] = "none" /\ state'[i] = "Free"
        /\ guard[i] # "none" /\ loan' = loan
    BY <1>0, <1>1, DropVacancyKeeps, OwnerStays DEF DropVacancy
  <2> QED BY <1>0, <2>1, Held, NoValue, EndAt DEF Live
<1>2. CASE DropIssued(i)
  <2>1. Inv' /\ Ends(i) /\ guard[i] # "none" /\ loan' = loan
    BY <1>0, <1>2, RejectHeld, OwnerStays DEF DropIssued
  <2> QED BY <1>0, <2>1, Held, NoValue, EndAt DEF Ends, Live
<1>3. CASE Remove(i) \/ Discard(i)
  <2>1. /\ guard[i] \in {"held", "staged"} /\ Detach(i) /\ Reject(i, Emptied(i)) /\ loan' = loan
        /\ guard' = [guard EXCEPT ![i] = "none"] /\ UNCHANGED <<built, owner>>
    BY <1>3, OwnerStays DEF Remove, Discard, Release
  <2>2. Inv' /\ Ends(i)
    BY <1>0, <2>1, HeldLives, RemoveKeeps
  <2> QED BY <1>0, <2>1, <2>2, Held, NoValue, EndAt DEF Ends, Live
<1> QED BY <1>1, <1>2, <1>3 DEF EndStamped

LEMMA BeginDiscardStampedKeeps ==
  ASSUME EInv, Recycle, shape' = shape, NEW i \in Slots, BeginDiscardStamped(i)
  PROVE  EInv' /\ KeyStep /\ Unburned /\ loan # "gone"
<1>1. /\ Inv' /\ Only(i) /\ guard'[i] = "dropping" /\ guard[i] # "none" /\ loan' = loan /\ EndKey(i)
  BY BeginDiscardKeeps DEF BeginDiscardStamped, BeginDiscard, EInv
<1> QED BY <1>1, StampedSlot, Held, NoValue, EndAt

LEMMA EndDiscardStampedKeeps ==
  ASSUME EInv, Recycle, shape' = shape, EndDiscardStamped
  PROVE  EInv' /\ KeyStep /\ Unburned /\ loan # "gone"
<1>1. PICK i \in Slots : Live(i) /\ Ends(i) /\ guard[i] = "dropping"
  BY EndDiscardKeeps DEF EInv, EndDiscardStamped
<1>2. Inv' /\ loan' = loan /\ KeepKeys
  BY EndDiscardKeeps DEF EInv, EndDiscardStamped, EndDiscard
<1>3. epoch[i] = NONE /\ loan # "gone"
  BY <1>1, StampedSlot, Held DEF StampFits
<1>4. StampFits(i)'
  BY <1>1, <1>2, <1>3, NoValue DEF StampFits, Ends, KeepKeys, Live
<1> QED BY <1>1, <1>2, <1>3, <1>4, KeepAt DEF Ends, Exclusive

LEMMA ForgetStampedKeeps ==
  ASSUME EInv, Recycle, shape' = shape, NEW i \in Slots, ForgetStamped(i)
  PROVE  EInv' /\ KeyStep /\ Unburned /\ loan # "gone"
<1>1. /\ Inv' /\ Only(i) /\ state'[i] = state[i] /\ guard'[i] = "none"
      /\ guard[i] \in {"vacancy", "issued"} => state[i] = "Reserved"
  BY ForgetKeeps DEF ForgetStamped, EInv
<1>2. guard[i] \in {"vacancy", "issued", "held", "staged"} /\ loan' = loan /\ loan # "gone"
  BY StampedSlot, OwnerStays, Held DEF ForgetStamped, Forget
<1>3. CASE guard[i] \in {"vacancy", "issued"}
  <2>1. content'[i].tag # "value" /\ EndKey(i)
    BY <1>1, <1>3, NoValue DEF Live, ForgetStamped
  <2> QED BY <1>1, <1>2, <1>3, <2>1, EndAt
<1>4. CASE guard[i] \in {"held", "staged"}
  <2>1. KeepKeys /\ epoch[i] # NONE /\ Live(i)
    BY <1>4, ValueIsStamped DEF ForgetStamped
  <2>2. StampFits(i)'
    BY <1>1, <2>1 DEF StampFits, KeepKeys, Live
  <2> QED BY <1>1, <1>2, <2>1, <2>2, KeepAt DEF Exclusive
<1> QED BY <1>2, <1>3, <1>4

LEMMA DropStampedKeeps ==
  ASSUME EInv, Recycle, shape' = shape, DropStamped
  PROVE  EInv' /\ KeyStep /\ Unburned /\ loan # "gone"
<1>1. /\ Inv' /\ loan = "none" /\ loan' = "gone" /\ UNCHANGED <<state, gen, guard, spent>>
      /\ \A i \in Slots : guard[i] = "none"
  BY DropCoreKeeps DEF DropStamped, EInv
<1>2. nextEpoch' = nextEpoch /\ epoch' = epoch /\ ended' = ended /\ Recycle' /\ Owner' = Owner
  BY SameShape DEF DropStamped, KeepKeys
<1>3. ETypes' /\ EpochsFit' /\ Sole'
  BY <1>1, <1>2 DEF EInv, ETypes, EpochsFit, Sole
<1>4. ASSUME NEW i \in Slots PROVE StampFits(i)'
  <2>1. content'[i].tag # "value"
    BY <1>1 DEF Inv, SlotFits
  <2> QED BY <1>1, <1>2, <2>1, StampedSlot DEF StampFits
<1>5. CurrentKeys' = {} /\ EndedKeys' = EndedKeys
  BY <1>1, <1>2, SameShape DEF CurrentKeys, LogicalKeys, EndedKeys
<1> QED BY <1>1, <1>2, <1>3, <1>4, <1>5 DEF EInv, KeyStep, Unburned

LEMMA StampedStep ==
  ASSUME EInv, Stamped
  PROVE  EInv' /\ KeyStep /\ Unburned /\ loan # "gone"
<1>1. Recycle /\ shape' = shape
  BY DEF Stamped, ENext
<1>2. CASE \/ TryGrant \/ \E i \in Slots : TryGrantAt(i)
           \/ \E lo, hi \in 0..(Cap + 1) : TryGrantIn(lo, hi)
           \/ \E lo, hi \in 0..(Cap + 1), x \in Slots : TryExcept(lo, hi, x)
  BY <1>1, <1>2, GrantsKeep
<1>3. ASSUME NEW i \in Slots,
             \/ ReserveGrant(i) \/ OccupyGrant(i) \/ InstallStamped(i) \/ SettleStamped(i)
             \/ TryRemove(i) \/ Restore(i)
             \/ EndStamped(i) \/ BeginDiscardStamped(i) \/ ForgetStamped(i)
      PROVE  EInv' /\ KeyStep /\ Unburned /\ loan # "gone"
  BY <1>1, <1>3, ReserveGrantKeeps, OccupyGrantKeeps, InstallStampedKeeps, SettleStampedKeeps,
     TryRemoveKeeps, EndStampedKeeps, BeginDiscardStampedKeeps, ForgetStampedKeeps
<1>4. CASE \E floor \in Epochs \cup {NONE} : AdvanceTo(floor)
  BY <1>1, <1>4, AdvanceToKeeps
<1>5. CASE SharedVacancy
  BY <1>1, <1>5, SharedVacancyKeeps
<1>6. CASE \E i \in Slots, e \in Epochs : Find(i, e)
  BY <1>1, <1>6, FindKeeps
<1>7. CASE EndDiscardStamped
  BY <1>1, <1>7, EndDiscardStampedKeeps
<1>8. CASE DropStamped
  BY <1>1, <1>8, DropStampedKeeps
<1> QED BY <1>2, <1>3, <1>4, <1>5, <1>6, <1>7, <1>8 DEF Stamped, ENext

-----------------------------------------------------------------------------
(* What a step does to the slots somebody holds. *)

\* The body of GuardsAreIsolated.
Isolated(i) == guard[i] # "none" /\ guard'[i] = guard[i] =>
                 /\ state'[i] = state[i] /\ content'[i] = content[i]
                 /\ gen'[i] = gen[i] \/ (guard[i] = "held" /\ <<i, gen[i]>> \in spent')
AllIsolated == \A i \in Slots : Isolated(i)

LEMMA OneIsolates ==
  ASSUME NEW i \in Slots, Only(i), guard[i] = "none" \/ guard'[i] # guard[i] \/ Isolated(i)
  PROVE  AllIsolated
BY DEF Only, Kept, Isolated, AllIsolated

LEMMA LentIsolates ==
  ASSUME Inv, \E i \in Slots : Lent(i)
  PROVE  AllIsolated
<1>1. PICK i \in Slots : Lent(i)
  OBVIOUS
<1>2. guard[i] = "none"
  BY <1>1, Held DEF Lent
<1> QED BY <1>1, <1>2, OneIsolates DEF Lent

LEMMA BorrowIsolates ==
  ASSUME Inv, NEW i \in Slots, Borrows(i)
  PROVE  AllIsolated
<1>1. Only(i) /\ guard'[i] = "held" /\ state'[i] = Taken /\ content'[i] = content[i] /\ gen'[i] = gen[i]
  BY DEF Borrows
<1>2. guard[i] = "held" => state[i] = Taken
  BY DEF Inv, SlotFits
<1>3. Isolated(i)
  BY <1>1, <1>2 DEF Isolated
<1> QED BY <1>1, <1>3, OneIsolates

LEMMA SteadyIsolates ==
  ASSUME state' = state, gen' = gen, content' = content
  PROVE  AllIsolated
BY DEF AllIsolated, Isolated

LEMMA EndIsolates ==
  ASSUME Inv, NEW i \in Slots, Ends(i)
  PROVE  AllIsolated
BY OneIsolates DEF Ends

LEMMA SlotIsolates ==
  ASSUME Inv, shape' = shape, NEW i \in Slots, PerSlot(i)
  PROVE  AllIsolated
<1>0. guard \in [Slots -> Guards]
  BY DEF Inv, Types
<1>1. CASE VacantAt(i)
  BY <1>1, VacantAtKeeps, LentIsolates
<1>2. CASE DropVacancy(i)
  BY <1>2, DropVacancyKeeps, OneIsolates DEF DropVacancy
<1>3. CASE RejectVacancy(i) \/ DropIssued(i)
  <2>1. Ends(i)
    BY <1>3, RejectHeld DEF RejectVacancy, DropIssued
  <2> QED BY <2>1, EndIsolates
<1>4. CASE IssueKey(i)
  <2>1. Only(i) /\ guard[i] = "vacancy" /\ guard'[i] = "issued"
    BY <1>0, <1>4, IssueKeyKeeps DEF IssueKey
  <2> QED BY <2>1, OneIsolates
<1>5. CASE Insert(i) \/ Stage(i) \/ Occupy(i)
  <2>1. PICK g \in {"none", "held", "staged"} : guard[i] \in {"vacancy", "issued"} /\ Install(i, g)
    BY <1>5 DEF Insert, Stage, Occupy
  <2>2. Only(i) /\ guard'[i] # guard[i]
    BY <2>1, InstallKeeps
  <2> QED BY <2>2, OneIsolates
<1>6. CASE DropHeld(i) \/ Publish(i) \/ Commit(i)
  <2>1. Only(i)
    BY <1>6, SettleKeeps
  <2>2. guard'[i] # guard[i]
    BY <1>0, <1>6 DEF DropHeld, Publish, Commit, Settle
  <2> QED BY <2>1, <2>2, OneIsolates
<1>7. CASE Remove(i) \/ Discard(i)
  <2>1. /\ guard[i] \in {"held", "staged"} /\ Detach(i) /\ Reject(i, Emptied(i))
        /\ guard' = [guard EXCEPT ![i] = "none"] /\ UNCHANGED <<built, owner>>
    BY <1>7 DEF Remove, Discard, Release
  <2>2. Live(i)
    BY <2>1, HeldLives
  <2>3. Ends(i)
    BY <2>1, <2>2, RemoveKeeps
  <2> QED BY <2>3, EndIsolates
<1>8. CASE BeginDiscard(i)
  BY <1>8, BeginDiscardKeeps, OneIsolates
<1>9. CASE Withdraw(i)
  <2>1. Only(i) /\ guard[i] = "held" /\ guard'[i] = "issued"
    BY <1>9, WithdrawKeeps DEF Withdraw
  <2> QED BY <2>1, OneIsolates
<1>10. CASE Replace(i)
  <2>1. Only(i) /\ spent' = spent \cup {<<i, gen[i]>>} /\ guard[i] = "held" /\ state' = state /\ content' = content
    BY <1>10, ReplaceKeeps DEF Replace, list
  <2>2. Isolated(i)
    BY <2>1 DEF Isolated
  <2> QED BY <2>1, <2>2, OneIsolates
<1>11. CASE Forget(i)
  BY <1>11, ForgetKeeps, OneIsolates DEF Forget
<1> QED BY <1>1, <1>2, <1>3, <1>4, <1>5, <1>6, <1>7, <1>8, <1>9, <1>10, <1>11 DEF PerSlot

LEMMA DropCoreIsolates ==
  ASSUME Inv, shape' = shape, DropCore
  PROVE  AllIsolated
BY DropCoreKeeps DEF AllIsolated, Isolated

LEMMA EndDiscardIsolates ==
  ASSUME Inv, shape' = shape, EndDiscard
  PROVE  AllIsolated
<1>1. PICK i \in Slots : Ends(i)
  BY EndDiscardKeeps
<1> QED BY <1>1, EndIsolates

LEMMA PlainIsolates ==
  ASSUME Inv, Next
  PROVE  AllIsolated
<1>1. shape' = shape
  BY DEF Next
<1>2. CASE Vacancy \/ \E lo, hi \in 0..(Cap + 1) : VacantIn(lo, hi)
  BY <1>1, <1>2, VacancyKeeps, VacantInKeeps, LentIsolates
<1>3. CASE \E i \in Slots : PerSlot(i)
  BY <1>1, <1>3, SlotIsolates
<1>4. ASSUME NEW i \in Slots, NEW g \in Generations, Lookup(i, g) PROVE AllIsolated
  <2>1. state[i] = "Occupied" /\ Open /\ Hold(i) /\ UNCHANGED owner
    BY <1>4 DEF Lookup, Admits
  <2> QED BY <1>1, <2>1, LookupKeeps, BorrowIsolates
<1>5. ASSUME NEW i \in Slots, NEW j \in Slots, NEW g \in Generations, Split(i, j, g) PROVE AllIsolated
  BY <1>1, <1>5, SplitKeeps, BorrowIsolates
<1>6. CASE EndDiscard
  BY <1>1, <1>6, EndDiscardIsolates
<1>7. CASE NextVacancy
  BY <1>1, <1>7, NextVacancyKeeps, LentIsolates
<1>8. ASSUME Steady PROVE AllIsolated
  BY <1>8, SteadyIsolates DEF Steady, list, ident
<1>9. ASSUME NEW kind \in {"vacancies", "entries", "clear"}, Begin(kind) PROVE AllIsolated
  BY <1>1, <1>8, <1>9, BeginKeeps
<1>10. CASE NextEntry
  BY <1>1, <1>8, <1>10, NextEntryKeeps, LentIsolates, BorrowIsolates
<1>11. CASE EndLoan \/ ClearEnd
  BY <1>1, <1>8, <1>11, EndLoanKeeps, ClearEndKeeps
<1>12. CASE ClearStep
  <2>1. PICK i \in Slots : Ends(i)
    BY <1>1, <1>12, ClearStepKeeps
  <2> QED BY <2>1, EndIsolates
<1>13. CASE DropCore
  BY <1>1, <1>13, DropCoreIsolates
<1> QED BY <1>2, <1>3, <1>4, <1>5, <1>6, <1>7, <1>9, <1>10, <1>11, <1>12, <1>13 DEF Next

LEMMA StampedIsolates ==
  ASSUME Inv, ENext
  PROVE  AllIsolated
<1>1. shape' = shape
  BY DEF ENext
<1>2. CASE \/ TryGrant \/ \E i \in Slots : TryGrantAt(i)
           \/ \E lo, hi \in 0..(Cap + 1) : TryGrantIn(lo, hi)
           \/ SharedVacancy
  BY <1>1, <1>2, VacancyKeeps, VacantAtKeeps, VacantInKeeps, LentIsolates
     DEF TryGrant, TryGrantAt, TryGrantIn, SharedVacancy
<1>3. ASSUME NEW lo \in 0..(Cap + 1), NEW hi \in 0..(Cap + 1), NEW x \in Slots, TryExcept(lo, hi, x)
      PROVE  AllIsolated
  <2>1. Open /\ UNCHANGED owner /\ Except(lo, hi, x) # NONE /\ Take(Except(lo, hi, x))
    BY <1>3 DEF TryExcept
  <2>2. PICK i \in Slots : i = Except(lo, hi, x) /\ state[i] = "Free" /\ Take(i)
    BY <2>1, ExceptFinds
  <2> QED BY <1>1, <2>1, <2>2, TakeOpenKeeps, LentIsolates
<1>4. ASSUME NEW i \in Slots,
             \/ OccupyGrant(i) \/ InstallStamped(i) \/ SettleStamped(i)
             \/ TryRemove(i) \/ Restore(i)
             \/ EndStamped(i) \/ BeginDiscardStamped(i) \/ ForgetStamped(i)
      PROVE  AllIsolated
  <2>1. PerSlot(i)
    BY <1>4 DEF PerSlot, OccupyGrant, InstallStamped, SettleStamped, TryRemove, Restore,
                EndStamped, BeginDiscardStamped, ForgetStamped
  <2> QED BY <1>1, <2>1, SlotIsolates
<1>5. CASE (\E i \in Slots : ReserveGrant(i)) \/ (\E floor \in Epochs \cup {NONE} : AdvanceTo(floor))
  BY <1>5, SteadyIsolates DEF ReserveGrant, AdvanceTo, vars
<1>6. ASSUME NEW i \in Slots, NEW e \in Epochs, Find(i, e) PROVE AllIsolated
  <2>1. state[i] = "Occupied" /\ Open /\ Hold(i) /\ UNCHANGED owner
    BY <1>6 DEF Find, Finds
  <2> QED BY <1>1, <2>1, LookupKeeps, BorrowIsolates
<1>7. CASE EndDiscardStamped
  BY <1>1, <1>7, EndDiscardIsolates DEF EndDiscardStamped
<1>8. CASE DropStamped
  BY <1>1, <1>8, DropCoreIsolates DEF DropStamped
<1> QED BY <1>2, <1>3, <1>4, <1>5, <1>6, <1>7, <1>8 DEF ENext

-----------------------------------------------------------------------------
(* The theorems. *)

LEMMA EInitFits ==
  ASSUME EInit
  PROVE  EInv /\ Contract!Init
<1>1. /\ Inv /\ loan = "none" /\ spent = {} /\ \A i \in Slots : guard[i] = "none" /\ ~ Live(i)
      /\ nextEpoch = 1 /\ epoch = [i \in Slots |-> NONE] /\ ended = {}
  BY InitFits DEF EInit
<1>2. 1 \in Epochs
  BY EpochAssumption DEF Epochs
<1>3. ETypes /\ EpochsFit /\ Sole
  BY <1>1, <1>2 DEF ETypes, EpochsFit, Sole
<1>4. \A i \in Slots : StampFits(i)
  BY <1>1 DEF StampFits, Inv, SlotFits
<1>5. LiveKeys = {} /\ LogicalKeys = {}
  BY <1>1 DEF LiveKeys, LogicalKeys
<1> QED BY <1>1, <1>3, <1>4, <1>5 DEF EInv, Contract!Init

LEMMA EStep ==
  ASSUME EInv, [Plain \/ Stamped]_evars
  PROVE  EInv' /\ [Contract!Next]_(Contract!vars) /\ (Unburned \/ UNCHANGED evars)
<1>1. CASE Plain
  <2>1. ~ Recycle /\ Next /\ KeepKeys /\ shape' = shape
    BY <1>1 DEF Plain, Next
  <2>2. Inv' /\ KeyStep /\ loan # "gone"
    BY <2>1, PlainStep DEF EInv
  <2>3. ETypes' /\ ~ Recycle'
    BY <2>1, SameShape DEF EInv, ETypes, KeepKeys
  <2> QED BY <2>1, <2>2, <2>3, KeyStepIsAbstract DEF EInv, Unburned, KeepKeys
<1>2. CASE Stamped
  BY <1>2, StampedStep, KeyStepIsAbstract
<1>3. CASE UNCHANGED evars
  <2>1. UNCHANGED vars /\ nextEpoch' = nextEpoch /\ epoch' = epoch /\ ended' = ended
    BY <1>3 DEF evars
  <2>2. /\ Inv' /\ shape' = shape /\ loan' = loan
        /\ state' = state /\ gen' = gen /\ guard' = guard /\ spent' = spent /\ content' = content
    BY <2>1, InvFrame DEF EInv, vars
  <2>3. ETypes' /\ EpochsFit' = EpochsFit /\ Sole' = Sole /\ \A i \in Slots : StampFits(i)' = StampFits(i)
    BY <2>1, <2>2, SameShape DEF EInv, ETypes, EpochsFit, Sole, StampFits
  <2>4. CurrentKeys' = CurrentKeys /\ EndedKeys' = EndedKeys
    BY <2>1, <2>2, SameShape DEF CurrentKeys, LogicalKeys, LiveKeys, EndedKeys, Live
  <2> QED BY <1>3, <2>2, <2>3, <2>4, SameShape DEF EInv, CurrentKeys, EndedKeys, Contract!vars
<1> QED BY <1>1, <1>2, <1>3

\* The inductive invariant of every slab, with generations or with epochs.
THEOREM SlabInvariant == ESpec => []EInv
<1>1. EInit => EInv
  BY EInitFits
<1>2. EInv /\ [Plain \/ Stamped]_evars => EInv'
  BY EStep
<1> QED BY <1>1, <1>2, PTL DEF ESpec

\* Every cell holds a value of its type, whatever the number of slots,
\* generations and epochs: no counter of the core leaves the capacity.
THEOREM SlabTypes == ESpec => []ETypeOK
<1>1. EInv => ETypeOK
  BY TypesAreBounded DEF EInv, ETypes, ETypeOK
<1> QED BY <1>1, SlabInvariant, PTL

\* Busy::detach, Pending::install and Pending::reject keep the planes of the
\* slab together: the dense plane lists the live slots, the union of each slot
\* holds what its state says, and no slot is handed out to two callers.
THEOREM SlabPlanes == ESpec => []PlanesAgree
<1>1. ASSUME Inv PROVE PlanesAgree
  <2>1. UnionMatchesState
    BY <1>1 DEF Inv, SlotFits, UnionMatchesState
  <2>2. HandedOutOnce
    BY <1>1 DEF Inv, SlotFits, HandedOutOnce, Taken, Types, Guards
  <2> QED BY <1>1, <2>1, <2>2 DEF PlanesAgree, Inv
<1>2. EInv => PlanesAgree
  BY <1>1 DEF EInv
<1> QED BY <1>2, SlabInvariant, PTL

\* A value of a slab with epochs is never without its stamp, and a slot that is
\* free for the next caller never has one left over from the last.
THEOREM SlabStamps == ESpec => []StampsAreCarried
<1>1. EInv => StampsAreCarried
  BY DEF EInv, StampFits, StampsAreCarried
<1> QED BY <1>1, SlabInvariant, PTL

\* A refused or abandoned grant costs no epoch: whatever moves the counter, but
\* for advance_to, gives that epoch to a slot.
THEOREM SlabBurnsNothing == ESpec => NothingIsBurned
<1>1. EInv /\ [Plain \/ Stamped]_evars => [Unburned]_evars
  BY EStep
<1>2. ESpec => [][Unburned]_evars
  BY <1>1, SlabInvariant, PTL DEF ESpec
<1> QED BY <1>2, PTL DEF NothingIsBurned, Unburned

\* Whatever shape it has and whatever its guards do, a slab hands out the keys of
\* KeySpace: at most one live key to a slot, and none that has ended ever again.
THEOREM SlabKeys == ESpec => ImplementsKeySpace
<1>1. EInit => Contract!Init
  BY EInitFits
<1>2. EInv /\ [Plain \/ Stamped]_evars => [Contract!Next]_(Contract!vars)
  BY EStep
<1> QED BY <1>1, <1>2, SlabInvariant, PTL DEF ESpec, ImplementsKeySpace, Contract!Spec

\* Core::is_full and Core::refusal: a slab without a head has no free slot, and it
\* says that identities are exhausted exactly when every slot has retired.
THEOREM SlabRefusals == ESpec => []RefusalIsExact
<1>1. ASSUME Inv PROVE IsFull <=> built = Cap /\ \A i \in Slots : state[i] # "Free"
  <2>1. ASSUME NEW p \in Partitions PROVE heads[p] = NONE <=> FreeIn(p) = {}
    <3>1. Candidate(p, NONE) = heads[p] /\ FreeIn(p) \ {NONE} = FreeIn(p)
      BY Constants DEF Candidate, FreeIn
    <3>2. NONE \notin FreeIn(p)
      BY Constants DEF FreeIn
    <3> QED BY <1>1, <3>1, <3>2, CandidateIsExact
  <2>2. \A i \in Slots : Partition(i) \in Partitions
    BY <1>1, ShapeFacts DEF Inv
  <2>3. built >= Cap <=> built = Cap
    BY <1>1, Constants DEF Inv, Types
  <2> QED BY <2>1, <2>2, <2>3 DEF IsFull, FreeIn
<1>2. ASSUME Inv, Cap # 0
      PROVE  Refusal = "IdentityExhausted" <=> \A i \in Slots : state[i] = "Retired"
  <2>1. retired = Cardinality(RetiredSlots) /\ RetiredSlots \subseteq Slots /\ Cap \in Nat
    BY <1>2, Constants DEF Inv, CountsFit, RetiredSlots
  <2>2. IsFiniteSet(Slots) /\ Cardinality(Slots) = Cap
    BY FiniteSlots
  <2>3. retired \in Nat /\ (retired = Cap <=> RetiredSlots = Slots)
    BY <2>1, <2>2, FS_Subset, FS_CardinalityType
  <2>4. RetiredSlots = Slots <=> \A i \in Slots : state[i] = "Retired"
    BY DEF RetiredSlots
  <2>5. Cap - retired = 0 <=> retired = Cap
    BY <2>1, <2>3
  <2> QED BY <1>2, <2>3, <2>4, <2>5 DEF Refusal
<1>3. EInv => RefusalIsExact
  BY <1>1, <1>2 DEF EInv, RefusalIsExact
<1> QED BY <1>3, SlabInvariant, PTL

\* What try_except may choose from, and the partitions whose heads answer it.
Eligible(lo, hi, x) == {j \in InRange(lo, hi) \ {x} : state[j] = "Free"}
Limit(hi)      == IF hi < Cap THEN hi ELSE Cap
Groups(lo, hi) == IF lo = 0 /\ Limit(hi) = Cap THEN Partitions
                  ELSE IF Parts = 2 /\ lo = 0 /\ Limit(hi) = HalfUp THEN {0}
                  ELSE IF Parts = 2 /\ lo = HalfUp /\ Limit(hi) = Cap THEN {1} ELSE {}

LEMMA ExceptIsExact ==
  ASSUME Inv, NEW lo \in 0..(Cap + 1), NEW hi \in 0..(Cap + 1), NEW x \in Slots
  PROVE  IF Eligible(lo, hi, x) = {} THEN Except(lo, hi, x) = NONE
         ELSE Except(lo, hi, x) \in Eligible(lo, hi, x)
<1> DEFINE found == {p \in Groups(lo, hi) : Candidate(p, x) # NONE}
<1>1. InRange(lo, Limit(hi)) = InRange(lo, hi)
  BY Constants DEF InRange, Slots, Limit
<1>2. CASE Groups(lo, hi) = {}
  <2>1. Except(lo, hi, x) = Scan(lo, Limit(hi), x)
    BY <1>2 DEF Except, Groups, Limit
  <2> QED BY <1>1, <2>1, ScanIsExact DEF Eligible
<1>3. CASE Groups(lo, hi) # {}
  <2>1. Groups(lo, hi) \subseteq Partitions /\ Partitions \subseteq Nat
    BY ShapeFacts DEF Inv, Partitions, Groups
  <2>2. \A j \in Slots : j \in Eligible(lo, hi, x) <=>
                          j # x /\ state[j] = "Free" /\ Partition(j) \in Groups(lo, hi)
    <3>1. ASSUME NEW j \in Slots, state[j] = "Free" PROVE j < built /\ Partition(j) \in Partitions
      <4>1. SlotFits(j) /\ j \in Int /\ built \in Int
        BY Constants DEF Inv, Types
      <4> QED BY <3>1, <4>1, ShapeFacts DEF SlotFits, Inv
    <3>2. ASSUME NEW j \in Slots PROVE (lo <= j /\ j < hi) <=> Partition(j) \in Groups(lo, hi)
      <4>1. Parts \in {1, 2} /\ Cap \in Nat /\ j \in Int /\ 0 <= j /\ j < Cap /\ HalfUp \in Int /\ HalfUp <= Cap
        BY ShapeFacts, Constants DEF Inv, HalfUp
      <4> QED BY <1>3, <4>1 DEF Partition, Partitions, Groups, Limit
    <3> QED BY <3>1, <3>2 DEF InRange, Eligible
  <2>3. Except(lo, hi, x) = IF found = {} THEN NONE
                            ELSE Candidate(CHOOSE p \in found : \A q \in found : p <= q, x)
    BY <1>3 DEF Except, Groups, Limit
  <2>4. ASSUME NEW p \in Groups(lo, hi)
        PROVE  /\ Candidate(p, x) # NONE => Candidate(p, x) \in Eligible(lo, hi, x)
               /\ Candidate(p, x) = NONE => FreeIn(p) \ {x} = {}
    <3>1. IF FreeIn(p) \ {x} = {} THEN Candidate(p, x) = NONE ELSE Candidate(p, x) \in FreeIn(p) \ {x}
      BY <2>1, CandidateIsExact
    <3>2. NONE \notin FreeIn(p) /\ (\A j \in FreeIn(p) \ {x} : j \in Eligible(lo, hi, x))
      BY <2>2, Constants DEF FreeIn
    <3> QED BY <3>1, <3>2
  <2>5. CASE found = {}
    <3>1. \A p \in Groups(lo, hi) : FreeIn(p) \ {x} = {}
      BY <2>4, <2>5
    <3>2. Eligible(lo, hi, x) \subseteq Slots
      BY DEF Eligible, InRange
    <3>3. Eligible(lo, hi, x) = {}
      BY <2>2, <3>1, <3>2 DEF FreeIn
    <3> QED BY <2>3, <2>5, <3>3
  <2>6. CASE found # {}
    <3> DEFINE q == CHOOSE p \in found : \A r \in found : p <= r
    <3>1. found \subseteq Nat
      BY <2>1
    <3>2. q \in found
      <4> HIDE DEF found
      <4> QED BY <2>6, <3>1, LeastOf
    <3> QED BY <2>3, <2>4, <2>6, <3>2
  <2> QED BY <2>5, <2>6
<1> QED BY <1>2, <1>3

\* try_except selects from the excluded slot's own partition as from any other, and
\* says Full only when the range has no other free slot.
THEOREM SlabExclusions == ESpec => []ExclusionIsExact
<1>1. EInv => ExclusionIsExact
  BY ExceptIsExact DEF EInv, ExclusionIsExact, Eligible
<1> QED BY <1>1, SlabInvariant, PTL

\* A caller's hold on a slot is disturbed by nobody else: relinking its neighbours,
\* moving dense entries and clearing leave its state, union and identity alone.
THEOREM SlabGuards == ESpec => GuardsAreIsolated
<1>1. EInv /\ [Plain \/ Stamped]_evars => [AllIsolated]_vars
  <2>1. ASSUME EInv, Plain PROVE AllIsolated
    BY <2>1, PlainIsolates DEF EInv, Plain
  <2>2. ASSUME EInv, Stamped PROVE AllIsolated
    BY <2>2, StampedIsolates DEF EInv, Stamped
  <2>3. ASSUME UNCHANGED evars PROVE UNCHANGED vars
    BY <2>3 DEF evars
  <2> QED BY <2>1, <2>2, <2>3
<1>2. ESpec => [][AllIsolated]_vars
  BY <1>1, SlabInvariant, PTL DEF ESpec
<1>3. AllIsolated <=> \A i \in Slots : guard[i] # "none" /\ guard'[i] = guard[i] =>
         /\ state'[i] = state[i] /\ content'[i] = content[i]
         /\ gen'[i] = gen[i] \/ (guard[i] = "held" /\ <<i, gen[i]>> \in spent')
  BY DEF AllIsolated, Isolated
<1> QED BY <1>2, <1>3, PTL DEF GuardsAreIsolated
-----------------------------------------------------------------------------
(* The walks of the free lists. *)

\* The links of a partition's free slots make one list, from its head to NONE.
FreeNext(p) == [i \in FreeIn(p) |-> content[i].next]

LEMMA FreeThreads ==
  ASSUME Inv, NEW p \in Partitions
  PROVE  Threads(heads[p], FreeNext(p), FreeIn(p), NONE)
<1> DEFINE S == FreeIn(p) next == FreeNext(p)
<1>0. NONE \notin Slots /\ S \subseteq Slots
  BY Constants DEF FreeIn
<1>1. ASSUME NEW i \in S
      PROVE  /\ next[i] = content[i].next /\ next[i] \in S \cup {NONE}
             /\ next[i] # NONE => content[next[i]].prev = i
             /\ content[i].prev # NONE => /\ content[i].prev \in S
                                          /\ next[content[i].prev] = i
             /\ content[i].prev = NONE => heads[p] = i
  BY <1>0 DEF FreeIn, FreeNext, Inv, FreeLinks, LinksOn, LinksBack
<1>2. heads[p] \in S \cup {NONE} /\ (heads[p] # NONE => content[heads[p]].prev = NONE)
  BY DEF FreeIn, Inv, Types, FreeLinks
<1>3. next \in [S -> S \cup {NONE}]
  BY <1>1 DEF FreeNext
<1>4. \A i \in S : next[i] = NONE \/ next[i] # heads[p]
  BY <1>0, <1>1, <1>2
<1>5. \A i, j \in S : next[i] = next[j] /\ next[i] # NONE => i = j
  BY <1>1
<1>6. \E r \in [S -> Nat] : \A i \in S : i = heads[p] \/ \E j \in S : next[j] = i /\ r[j] < r[i]
  <2>1. PICK r \in [Slots -> Nat] : Ranks(r)
    BY DEF Inv, FreeLinks, Ordered
  <2>2. [i \in S |-> r[i]] \in [S -> Nat]
    BY <1>0
  <2>3. ASSUME NEW i \in S, i # heads[p] PROVE \E j \in S : next[j] = i /\ r[j] < r[i]
    <3>1. content[i].prev \in S /\ next[content[i].prev] = i
      BY <1>1, <2>3
    <3>2. r[content[i].prev] < r[i]
      BY <1>0, <2>1, <3>1 DEF Ranks, FreeIn
    <3> QED BY <3>1, <3>2
  <2> QED BY <2>2, <2>3
<1> QED BY <1>2, <1>3, <1>4, <1>5, <1>6 DEF Threads

\* The walk from a head takes the steps of its list.
LEMMA WalkSteps ==
  ASSUME Inv, NEW p \in Partitions
  PROVE  /\ Walk(p) \in [0..Cap -> FreeIn(p) \cup {NONE}]
         /\ Steps(Walk(p), heads[p], FreeNext(p), Cap)
<1> DEFINE S == FreeIn(p)
           Turn(f) == [n \in 0..Cap |-> IF n = 0 THEN heads[p]
                         ELSE IF f[n - 1] = NONE THEN NONE ELSE content[f[n - 1]].next]
           w == Walk(p)
<1>0. NONE \notin S /\ Cap \in Nat
  BY Constants DEF FreeIn
<1>1. PICK f \in [0..Cap -> S \cup {NONE}] : Steps(f, heads[p], FreeNext(p), Cap)
  <2>1. S \subseteq S \cup {NONE} /\ heads[p] \in S \cup {NONE} /\ FreeNext(p) \in [S -> S \cup {NONE}]
    BY FreeThreads DEF Threads
  <2> HIDE DEF S
  <2> QED BY <1>0, <2>1, StepsExist
<1>2. \A n \in 0..Cap : n # 0 => n \in 1..Cap /\ n - 1 \in 0..Cap
  BY <1>0
<1>3. DOMAIN FreeNext(p) = S /\ \A i \in S : FreeNext(p)[i] = content[i].next
  BY DEF FreeNext
<1>4. f = Turn(f)
  <2>1. ASSUME NEW n \in 0..Cap PROVE f[n] = Turn(f)[n]
    <3>1. CASE n = 0
      BY <1>1, <3>1 DEF Steps
    <3>2. CASE n # 0
      <4>1. n \in 1..Cap /\ f[n - 1] \in S \cup {NONE}
        BY <1>2, <3>2
      <4>2. f[n] = IF f[n - 1] \in S THEN FreeNext(p)[f[n - 1]] ELSE f[n - 1]
        BY <1>1, <1>3, <4>1 DEF Steps
      <4> QED BY <1>0, <1>3, <3>2, <4>1, <4>2
    <3> QED BY <3>1, <3>2
  <2> QED BY <1>1, <2>1
<1>5. w = Turn(w)
  <2>1. w = CHOOSE g : g = Turn(g)
    BY DEF Walk
  <2> HIDE DEF w, Turn
  <2> QED BY <1>4, <2>1
<1>6. \A n \in 0..Cap : w[n] = f[n]
  <2> DEFINE Bad == {n \in Nat : n <= Cap /\ w[n] # f[n]}
  <2>1. SUFFICES ASSUME Bad # {} PROVE FALSE
    OBVIOUS
  <2>2. PICK n \in Bad : \A m \in Bad : n <= m
    <3>1. Bad \in SUBSET Nat
      OBVIOUS
    <3> HIDE DEF Bad
    <3> QED BY <2>1, <3>1, LeastOf
  <2> HIDE DEF w
  <2>3. n \in 0..Cap /\ w[n] = Turn(w)[n] /\ f[n] = Turn(f)[n]
    <3>1. n \in 0..Cap
      BY <2>2
    <3> HIDE DEF Turn
    <3> QED BY <1>4, <1>5, <3>1
  <2>4. n # 0
    BY <2>2, <2>3
  <2>5. w[n - 1] = f[n - 1]
    BY <1>2, <2>2, <2>3, <2>4
  <2> QED BY <2>2, <2>3, <2>4, <2>5
<1>7. w = [n \in 0..Cap |-> w[n]]
  <2> HIDE DEF w
  <2> QED BY <1>5
<1>8. w = f
  <2> HIDE DEF w
  <2> QED BY <1>1, <1>6, <1>7
<1> QED BY <1>1, <1>8

\* Each free list comes to its end and meets exactly the free slots of its own
\* partition, each with its back link right, whatever was taken from the middle,
\* rejected or retired before: no free slot is ever lost or listed twice.
THEOREM SlabFreeLists == ESpec => []FreeListsAreSound
<1>1. ASSUME Inv, NEW p \in Partitions
      PROVE  /\ Walk(p)[Cap] = NONE
             /\ {Walk(p)[n] : n \in 0..Cap} \ {NONE} = FreeIn(p)
             /\ \A n \in 0..Cap : Walk(p)[n] # NONE =>
                  content[Walk(p)[n]].prev = IF n = 0 THEN NONE ELSE Walk(p)[n - 1]
  <2> DEFINE w == Walk(p)
  <2>0. NONE \notin FreeIn(p) /\ Cap \in Nat
    BY Constants DEF FreeIn
  <2>1. IsFiniteSet(FreeIn(p)) /\ Cardinality(FreeIn(p)) <= Cap
    <3>1. FreeIn(p) \in SUBSET Slots
      BY DEF FreeIn
    <3> QED BY <3>1, CountBound, Constants
  <2>2. w \in [0..Cap -> FreeIn(p) \cup {NONE}] /\ Steps(w, heads[p], FreeNext(p), Cap)
    BY <1>1, WalkSteps
  <2>3. Threads(heads[p], FreeNext(p), FreeIn(p), NONE)
    BY <1>1, FreeThreads
  <2> HIDE DEF w
  <2>4. w[Cap] = NONE /\ {w[n] : n \in 0..Cap} \ {NONE} = FreeIn(p)
    BY <2>0, <2>1, <2>2, <2>3, StepsCover
  <2>5. ASSUME NEW n \in 0..Cap, w[n] # NONE
        PROVE  content[w[n]].prev = IF n = 0 THEN NONE ELSE w[n - 1]
    <3>1. CASE n = 0
      BY <1>1, <2>2, <2>5, <3>1 DEF Steps, Inv, FreeLinks
    <3>2. CASE n # 0
      <4>1. n \in 1..Cap /\ n - 1 \in 0..Cap
        BY <2>0, <3>2
      <4>2. w[n - 1] \in FreeIn(p) /\ w[n] = content[w[n - 1]].next
        BY <2>0, <2>2, <2>5, <4>1 DEF Steps, FreeNext
      <4>3. LinksOn(w[n - 1])
        BY <1>1, <4>2 DEF Inv, FreeLinks, FreeIn
      <4> QED BY <2>5, <3>2, <4>2, <4>3 DEF LinksOn
    <3> QED BY <3>1, <3>2
  <2> QED BY <2>4, <2>5 DEF w
<1>2. Inv => FreeListsAreSound
  BY <1>1 DEF FreeListsAreSound, FreeIn
<1>3. EInv => FreeListsAreSound
  BY <1>2 DEF EInv
<1> QED BY <1>3, SlabInvariant, PTL
=============================================================================
