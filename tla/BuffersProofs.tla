---------------------------- MODULE BuffersProofs ----------------------------
(***************************************************************************)
(* Buffer pools and the staging buffers that take their backings from      *)
(* them, each from its own inductive invariant.                            *)
(*                                                                         *)
(* The tables of every pool agree, whatever number of pools, slots,        *)
(* accounts, handles and domains there are and whatever is forgotten; a    *)
(* pool is freed by its last user, and each domain's total is exact.  The  *)
(* invariants of the run are inductive together.  They are restated        *)
(* for one core (CoreFits), for one core and the handles that name it      *)
(* (HolderFits) and for the domains (ResidentFits), as operators of what   *)
(* they speak of, so that a step that closes an account and then releases  *)
(* its slot, or empties one core into another, is two steps of the proof.  *)
(*                                                                         *)
(* Staging buffers keep their bytes, find their warm slot and afford their *)
(* ceiling, whatever number of buffers, views and warm slots there are and *)
(* whatever the sizes.  What each part of the state must satisfy is said   *)
(* as an operator of that part: a backing (BlockFits), a buffer (BufFits), *)
(* a view (ViewFits), and what they are to each other.  A step first puts  *)
(* something in its new place (Fits) and then sweeps the backings nothing  *)
(* names (Named).                                                          *)
(***************************************************************************)
EXTENDS BufferPool, Staging, Sums, SequenceTheorems, TLAPS

-----------------------------------------------------------------------------
(* Buffer pools.                                                           *)

\* A core of n slots and t accounts.
CoreIn(n, t) ==
  [cap : Nat \ {0}, slots : {n}, detached : BOOLEAN,
   free : Keys(n) \cup {NoKey}, available : Int,
   refs : [Keys(n) -> 0..MaxRefs], link : [Keys(n) -> Keys(n) \cup Keys(t) \cup {NoKey}],
   root : Domains \cup {NoDomain}, charged : Nat,
   afree : Keys(t) \cup {NoKey}, arefs : [Keys(t) -> 0..MaxRefs],
   word : [Keys(t) -> Keys(n) \cup Keys(t) \cup {NoKey}],
   owed : [Keys(t) -> Domains \cup {NoDomain}]]

Unused(k) == {s \in DOMAIN k.refs : k.refs[s] = 0}
Shut(k)   == DOMAIN k.arefs \ OpenAccounts(k)

FreeFits(k) ==
  /\ k.available = Cardinality(Unused(k))
  /\ Threads(k.free, [s \in Unused(k) |-> k.link[s]], Unused(k), NoKey)
ShutFits(k) == Threads(k.afree, [a \in Shut(k) |-> k.word[a]], Shut(k), NoKey)
Mutual(k) ==
  /\ \A a \in OpenAccounts(k) :
       /\ k.word[a] \in DOMAIN k.refs /\ k.link[k.word[a]] = a
       /\ k.refs[k.word[a]] > 0 /\ k.owed[a] \in Domains
  /\ \A s \in DOMAIN k.refs :
       k.refs[s] > 0 /\ k.link[s] # NoKey =>
         k.link[s] \in OpenAccounts(k) /\ k.word[k.link[s]] = s
RootFits(k) == k.root # NoDomain => k.charged = k.slots * k.cap
CoreFits(k) == FreeFits(k) /\ ShutFits(k) /\ Mutual(k) /\ RootFits(k)

-----------------------------------------------------------------------------
(* One core. *)

LEMMA Constants ==
  /\ MaxRefs \in Nat \ {0, 1} /\ NoDomain \notin Domains
  /\ IsFiniteSet(Cores) /\ IsFiniteSet(Handles) /\ IsFiniteSet(Domains)
  /\ SlotCounts \subseteq Nat /\ Tallies \subseteq Nat /\ Limits \subseteq Nat
  /\ Caps \subseteq Nat \ {0}
BY PoolAssumption

LEMMA KeyFacts ==
  ASSUME NEW n \in Nat
  PROVE  /\ NoKey \notin Keys(n) /\ Keys(n) \subseteq Nat /\ NoKey \in Int
         /\ IsFiniteSet(Keys(n)) /\ Cardinality(Keys(n)) = n
<1>1. 0 \in Int /\ n - 1 \in Int
  OBVIOUS
<1>2. IsFiniteSet(0..(n - 1)) /\ Cardinality(0..(n - 1)) = IF 0 > n - 1 THEN 0 ELSE (n - 1) - 0 + 1
  BY <1>1, FS_Interval
<1> QED BY <1>2 DEF Keys, NoKey

LEMMA CoreFacts ==
  ASSUME NEW n \in Nat, NEW t \in Nat, NEW k \in CoreIn(n, t)
  PROVE  /\ DOMAIN k.refs = Keys(n) /\ DOMAIN k.arefs = Keys(t) /\ k.slots = n
         /\ k # Gone
         /\ Unused(k) \subseteq Keys(n) /\ Shut(k) \subseteq Keys(t) /\ OpenAccounts(k) \subseteq Keys(t)
         /\ \A s \in Keys(n) : k.refs[s] \in Nat /\ (s \notin Unused(k) <=> k.refs[s] > 0)
         /\ \A a \in Keys(t) : k.arefs[a] \in Nat /\ (a \in Shut(k) <=> k.arefs[a] = 0)
<1>1. k.cap # 0
  BY DEF CoreIn
<1>2. Gone.cap = 0
  BY DEF Gone
<1>3. k.refs \in [Keys(n) -> 0..MaxRefs] /\ k.arefs \in [Keys(t) -> 0..MaxRefs] /\ k.slots = n
  BY DEF CoreIn
<1>4. \A s \in Keys(n) : k.refs[s] \in Nat
  BY <1>3, Constants
<1>5. \A s \in Keys(t) : k.arefs[s] \in Nat
  BY <1>3, Constants
<1> QED BY <1>1, <1>2, <1>3, <1>4, <1>5 DEF Unused, Shut, OpenAccounts

\* What changes only live entries leaves the free lists alone.
LEMMA FreeFrame ==
  ASSUME NEW k, NEW e, FreeFits(k), Unused(e) = Unused(k),
         e.free = k.free, e.available = k.available,
         \A s \in Unused(k) : e.link[s] = k.link[s]
  PROVE  FreeFits(e)
<1>1. [s \in Unused(e) |-> e.link[s]] = [s \in Unused(k) |-> k.link[s]]
  OBVIOUS
<1> QED BY <1>1 DEF FreeFits

LEMMA ShutFrame ==
  ASSUME NEW k, NEW e, ShutFits(k), Shut(e) = Shut(k), e.afree = k.afree,
         \A a \in Shut(k) : e.word[a] = k.word[a]
  PROVE  ShutFits(e)
<1>1. [a \in Shut(e) |-> e.word[a]] = [a \in Shut(k) |-> k.word[a]]
  OBVIOUS
<1> QED BY <1>1 DEF ShutFits

SameHeader(e, k) ==
  /\ e.cap = k.cap /\ e.slots = k.slots /\ e.root = k.root /\ e.charged = k.charged
  /\ e.detached = k.detached
SameAccounts(e, k) ==
  e.afree = k.afree /\ e.arefs = k.arefs /\ e.word = k.word /\ e.owed = k.owed
SameSlots(e, k) ==
  e.free = k.free /\ e.available = k.available /\ e.refs = k.refs /\ e.link = k.link

LEMMA Claims ==
  ASSUME NEW n \in Nat, NEW t \in Nat, NEW k \in CoreIn(n, t), CoreFits(k), k.free # NoKey
  PROVE  /\ Claimed(k) \in CoreIn(n, t) /\ CoreFits(Claimed(k))
         /\ k.free \in Keys(n) /\ k.refs[k.free] = 0
         /\ Claimed(k).refs = [k.refs EXCEPT ![k.free] = 1]
         /\ Claimed(k).link = [k.link EXCEPT ![k.free] = NoKey]
         /\ SameAccounts(Claimed(k), k) /\ SameHeader(Claimed(k), k)
<1> DEFINE s == k.free e == Claimed(k)
<1>1. s \in Unused(k) /\ s \in Keys(n) /\ k.refs[s] = 0
  BY DEF CoreFits, FreeFits, Threads, Unused, CoreIn
<1>2. k.link[s] \in Unused(k) \cup {NoKey}
  BY <1>1 DEF CoreFits, FreeFits, Threads
<1>3. /\ e.refs = [k.refs EXCEPT ![s] = 1] /\ e.link = [k.link EXCEPT ![s] = NoKey]
      /\ e.free = k.link[s] /\ e.available = k.available - 1
      /\ SameAccounts(e, k) /\ SameHeader(e, k)
  BY DEF Claimed, CoreIn, SameAccounts, SameHeader
<1>31. e \in CoreIn(n, t)
  <2>1. k.link[s] \in Keys(n) \cup {NoKey}
    BY <1>1, <1>2 DEF Unused, CoreIn
  <2>2. [k.refs EXCEPT ![s] = 1] \in [Keys(n) -> 0..MaxRefs]
    BY <1>1, Constants DEF CoreIn
  <2>3. [k.link EXCEPT ![s] = NoKey] \in [Keys(n) -> Keys(n) \cup Keys(t) \cup {NoKey}]
    BY <1>1 DEF CoreIn
  <2>4. k.available - 1 \in Int
    BY DEF CoreIn
  <2> QED BY <2>1, <2>2, <2>3, <2>4 DEF Claimed, CoreIn
<1> HIDE DEF s, e
<1>4. Unused(e) = Unused(k) \ {s}
  BY <1>1, <1>3, CoreFacts DEF Unused
<1>5. OpenAccounts(e) = OpenAccounts(k) /\ Shut(e) = Shut(k)
  BY <1>3 DEF OpenAccounts, Shut, SameAccounts
<1>6. FreeFits(e)
  <2>1. Cardinality(Unused(e)) = Cardinality(Unused(k)) - 1
    <3>1. IsFiniteSet(Keys(n)) /\ Unused(k) \in SUBSET Keys(n)
      BY CoreFacts, KeyFacts
    <3> QED BY <1>1, <1>4, <3>1, SmallerSet
  <2>2. Threads(k.link[s], [i \in Unused(k) \ {s} |-> [j \in Unused(k) |-> k.link[j]][i]], Unused(k) \ {s}, NoKey)
    <3>1. NoKey \notin Unused(k)
      BY CoreFacts, KeyFacts
    <3>2. Threads(s, [j \in Unused(k) |-> k.link[j]], Unused(k), NoKey)
      BY DEF CoreFits, FreeFits, s
    <3> DEFINE succ == [j \in Unused(k) |-> k.link[j]]
    <3>3. succ[s] = k.link[s]
      BY <1>1
    <3> HIDE DEF succ
    <3>4. Threads(succ[s], [i \in Unused(k) \ {s} |-> succ[i]], Unused(k) \ {s}, NoKey)
      BY <1>1, <3>1, <3>2, ThreadsPop DEF succ
    <3> QED BY <3>3, <3>4 DEF succ
  <2>3. [i \in Unused(k) \ {s} |-> [j \in Unused(k) |-> k.link[j]][i]] = [i \in Unused(e) |-> e.link[i]]
    <3>1. \A i \in Unused(e) : e.link[i] = k.link[i]
      BY <1>3, <1>4, CoreFacts DEF CoreIn
    <3> QED BY <1>4, <3>1
  <2>4. k.available = Cardinality(Unused(k))
    BY DEF CoreFits, FreeFits
  <2> QED BY <1>3, <1>4, <2>1, <2>2, <2>3, <2>4 DEF FreeFits
<1>7. ShutFits(e)
  BY <1>3, <1>5, ShutFrame DEF CoreFits, SameAccounts
<1>8. Mutual(e)
  <2>1. \A i \in Keys(n) : i # s => e.refs[i] = k.refs[i] /\ e.link[i] = k.link[i]
    BY <1>3 DEF CoreIn
  <2>2. e.link[s] = NoKey /\ DOMAIN e.refs = Keys(n) /\ DOMAIN k.refs = Keys(n)
    BY <1>1, <1>3 DEF CoreIn
  <2>3. \A a \in OpenAccounts(k) : k.word[a] # s
    BY <1>1 DEF CoreFits, Mutual
  <2> QED BY <1>3, <1>5, <2>1, <2>2, <2>3 DEF CoreFits, Mutual, SameAccounts
<1>9. RootFits(e)
  BY <1>3 DEF CoreFits, RootFits, SameHeader
<1> QED BY <1>1, <1>3, <1>31, <1>6, <1>7, <1>8, <1>9 DEF CoreFits, s, e

\* An edge that ends, and the slot with its last one.
LEMMA Releases ==
  ASSUME NEW n \in Nat, NEW t \in Nat, NEW k \in CoreIn(n, t), CoreFits(k),
         NEW s \in Keys(n), k.refs[s] > 0, k.refs[s] = 1 => k.link[s] = NoKey
  PROVE  /\ SlotReleased(k, s) \in CoreIn(n, t) /\ CoreFits(SlotReleased(k, s))
         /\ SlotReleased(k, s).refs = [k.refs EXCEPT ![s] = @ - 1]
         /\ \A i \in Keys(n) : SlotReleased(k, s).refs[i] > 0 => SlotReleased(k, s).link[i] = k.link[i]
         /\ SameAccounts(SlotReleased(k, s), k) /\ SameHeader(SlotReleased(k, s), k)
<1>1. k.refs \in [Keys(n) -> 0..MaxRefs] /\ k.refs[s] \in 0..MaxRefs /\ MaxRefs \in Nat
  BY Constants DEF CoreIn
<1>2. CASE k.refs[s] > 1
  <2> DEFINE e == [k EXCEPT !.refs[s] = @ - 1]
  <2>1. SlotReleased(k, s) = e
    BY <1>2 DEF SlotReleased
  <2>2. /\ e.refs = [k.refs EXCEPT ![s] = @ - 1] /\ e.link = k.link /\ e.free = k.free
        /\ e.available = k.available /\ SameAccounts(e, k) /\ SameHeader(e, k)
    BY DEF CoreIn, SameAccounts, SameHeader
  <2>3. e \in CoreIn(n, t)
    <3>1. [k.refs EXCEPT ![s] = @ - 1] \in [Keys(n) -> 0..MaxRefs]
      BY <1>1, <1>2
    <3> QED BY <3>1 DEF CoreIn
  <2> HIDE DEF e
  <2>4. \A i \in Keys(n) : e.refs[i] > 0 <=> k.refs[i] > 0
    BY <1>1, <1>2, <2>2
  <2>5. Unused(e) = Unused(k)
    <3>1. \A i \in Keys(n) : e.refs[i] = 0 <=> k.refs[i] = 0
      BY <1>1, <1>2, <2>2
    <3> QED BY <2>2, <3>1, CoreFacts DEF Unused
  <2>6. FreeFits(e)
    BY <2>2, <2>5, FreeFrame DEF CoreFits
  <2>7. OpenAccounts(e) = OpenAccounts(k) /\ Shut(e) = Shut(k)
    BY <2>2 DEF OpenAccounts, Shut, SameAccounts
  <2>8. ShutFits(e)
    BY <2>2, <2>7, ShutFrame DEF CoreFits, SameAccounts
  <2>9. Mutual(e)
    <3>1. DOMAIN e.refs = Keys(n) /\ DOMAIN k.refs = Keys(n)
      BY <2>3, CoreFacts
    <3> QED BY <2>2, <2>4, <2>7, <3>1 DEF CoreFits, Mutual, SameAccounts
  <2>10. RootFits(e)
    BY <2>2 DEF CoreFits, RootFits, SameHeader
  <2> QED BY <2>1, <2>2, <2>3, <2>6, <2>8, <2>9, <2>10 DEF CoreFits
<1>3. CASE k.refs[s] = 1
  <2> DEFINE e == [k EXCEPT !.refs[s] = 0, !.link[s] = k.free, !.free = s, !.available = @ + 1]
  <2>1. SlotReleased(k, s) = e
    BY <1>3 DEF SlotReleased
  <2>2. /\ e.refs = [k.refs EXCEPT ![s] = 0] /\ e.link = [k.link EXCEPT ![s] = k.free] /\ e.free = s
        /\ e.available = k.available + 1 /\ SameAccounts(e, k) /\ SameHeader(e, k)
    BY DEF CoreIn, SameAccounts, SameHeader
  <2>3. e \in CoreIn(n, t)
    <3>1. [k.refs EXCEPT ![s] = 0] \in [Keys(n) -> 0..MaxRefs]
      BY <1>1
    <3>2. [k.link EXCEPT ![s] = k.free] \in [Keys(n) -> Keys(n) \cup Keys(t) \cup {NoKey}]
      BY DEF CoreIn
    <3>3. k.available + 1 \in Int
      BY DEF CoreIn
    <3> QED BY <3>1, <3>2, <3>3 DEF CoreIn
  <2> HIDE DEF e
  <2>4. /\ \A i \in Keys(n) : i # s => e.refs[i] = k.refs[i] /\ e.link[i] = k.link[i]
        /\ e.refs[s] = 0 /\ e.link[s] = k.free
        /\ DOMAIN e.refs = Keys(n) /\ DOMAIN k.refs = Keys(n)
    BY <1>1, <2>2 DEF CoreIn
  <2>5. Unused(e) = Unused(k) \cup {s} /\ s \notin Unused(k)
    BY <1>3, <2>4 DEF Unused
  <2>6. FreeFits(e)
    <3>1. IsFiniteSet(Unused(k)) /\ NoKey \notin Unused(k) /\ s # NoKey
      BY CoreFacts, KeyFacts, FS_Subset
    <3>2. Cardinality(Unused(e)) = Cardinality(Unused(k)) + 1
      BY <2>5, <3>1, FS_AddElement
    <3>3. k.available = Cardinality(Unused(k))
      BY DEF CoreFits, FreeFits
    <3> DEFINE succ == [i \in Unused(k) |-> k.link[i]]
               more == [i \in Unused(e) |-> e.link[i]]
    <3>4. Threads(k.free, succ, Unused(k), NoKey)
      BY DEF CoreFits, FreeFits
    <3>5. \A i \in Unused(k) : more[i] = succ[i]
      BY <2>4, <2>5, CoreFacts
    <3>6. more[s] = k.free
      BY <2>4, <2>5
    <3>7. more \in [Unused(k) \cup {s} -> Unused(k) \cup {s} \cup {NoKey}]
      <4>1. k.free \in Unused(k) \cup {NoKey} /\ \A i \in Unused(k) : succ[i] \in Unused(k) \cup {NoKey}
        BY <3>4 DEF Threads
      <4>2. more = [i \in Unused(k) \cup {s} |-> e.link[i]]
        BY <2>5
      <4>3. \A i \in Unused(k) \cup {s} : e.link[i] \in Unused(k) \cup {s} \cup {NoKey}
        BY <2>4, <3>5, <4>1, <2>5
      <4> QED BY <4>2, <4>3
    <3> HIDE DEF succ, more
    <3>8. Threads(s, more, Unused(k) \cup {s}, NoKey)
      BY <2>5, <3>1, <3>4, <3>5, <3>6, <3>7, ThreadsPush
    <3>9. Threads(e.free, more, Unused(e), NoKey)
      BY <2>2, <2>5, <3>8
    <3> QED BY <2>2, <3>2, <3>3, <3>9 DEF FreeFits, more
  <2>7. OpenAccounts(e) = OpenAccounts(k) /\ Shut(e) = Shut(k)
    BY <2>2 DEF OpenAccounts, Shut, SameAccounts
  <2>8. ShutFits(e)
    BY <2>2, <2>7, ShutFrame DEF CoreFits, SameAccounts
  <2>9. Mutual(e)
    <3>1. NoKey \notin OpenAccounts(k)
      BY CoreFacts, KeyFacts
    <3>2. \A a \in OpenAccounts(k) : k.word[a] # s
      BY <1>3, <3>1 DEF CoreFits, Mutual
    <3> QED BY <2>2, <2>4, <2>7, <3>2 DEF CoreFits, Mutual, SameAccounts
  <2>10. RootFits(e)
    BY <2>2 DEF CoreFits, RootFits, SameHeader
  <2>11. e.refs = [k.refs EXCEPT ![s] = @ - 1]
    BY <1>3, <2>2
  <2>12. \A i \in Keys(n) : e.refs[i] > 0 => e.link[i] = k.link[i]
    BY <2>4
  <2> QED BY <2>1, <2>2, <2>3, <2>6, <2>8, <2>9, <2>10, <2>11, <2>12 DEF CoreFits
<1> QED BY <1>1, <1>2, <1>3

\* One edge more.
LEMMA Edges ==
  ASSUME NEW n \in Nat, NEW t \in Nat, NEW k \in CoreIn(n, t), CoreFits(k),
         NEW s \in Keys(n), k.refs[s] > 0, k.refs[s] < MaxRefs
  PROVE  /\ [k EXCEPT !.refs[s] = @ + 1] \in CoreIn(n, t) /\ CoreFits([k EXCEPT !.refs[s] = @ + 1])
         /\ [k EXCEPT !.refs[s] = @ + 1].refs = [k.refs EXCEPT ![s] = @ + 1]
         /\ [k EXCEPT !.refs[s] = @ + 1].link = k.link
         /\ SameAccounts([k EXCEPT !.refs[s] = @ + 1], k) /\ SameHeader([k EXCEPT !.refs[s] = @ + 1], k)
<1> DEFINE e == [k EXCEPT !.refs[s] = @ + 1]
<1>1. k.refs \in [Keys(n) -> 0..MaxRefs] /\ k.refs[s] \in 0..MaxRefs /\ MaxRefs \in Nat
  BY Constants DEF CoreIn
<1>2. /\ e.refs = [k.refs EXCEPT ![s] = @ + 1] /\ e.link = k.link /\ e.free = k.free
      /\ e.available = k.available /\ SameAccounts(e, k) /\ SameHeader(e, k)
  BY DEF CoreIn, SameAccounts, SameHeader
<1>3. e \in CoreIn(n, t)
  <2>1. [k.refs EXCEPT ![s] = @ + 1] \in [Keys(n) -> 0..MaxRefs]
    BY <1>1
  <2> QED BY <2>1 DEF CoreIn
<1> HIDE DEF e
<1>4. \A i \in Keys(n) : e.refs[i] > 0 <=> k.refs[i] > 0
  BY <1>1, <1>2
<1>5. Unused(e) = Unused(k)
  <2>1. \A i \in Keys(n) : e.refs[i] = 0 <=> k.refs[i] = 0
    BY <1>1, <1>2
  <2> QED BY <1>3, <2>1, CoreFacts DEF Unused
<1>6. FreeFits(e)
  BY <1>2, <1>5, FreeFrame DEF CoreFits
<1>7. OpenAccounts(e) = OpenAccounts(k) /\ Shut(e) = Shut(k)
  BY <1>2 DEF OpenAccounts, Shut, SameAccounts
<1>8. ShutFits(e)
  BY <1>2, <1>7, ShutFrame DEF CoreFits, SameAccounts
<1>9. Mutual(e)
  <2>1. DOMAIN e.refs = Keys(n) /\ DOMAIN k.refs = Keys(n)
    BY <1>3, CoreFacts
  <2> QED BY <1>2, <1>4, <1>7, <2>1 DEF CoreFits, Mutual, SameAccounts
<1>10. RootFits(e)
  BY <1>2 DEF CoreFits, RootFits, SameHeader
<1> QED BY <1>2, <1>3, <1>6, <1>8, <1>9, <1>10 DEF CoreFits, e

\* A vacant account is opened for a slot that has none.
LEMMA Opens ==
  ASSUME NEW n \in Nat, NEW t \in Nat, NEW k \in CoreIn(n, t), CoreFits(k),
         NEW s \in Keys(n), k.refs[s] > 0, k.link[s] = NoKey, k.afree # NoKey, NEW d \in Domains
  PROVE  /\ AccountOpened(k, s, d) \in CoreIn(n, t) /\ CoreFits(AccountOpened(k, s, d))
         /\ k.afree \in Keys(t) /\ k.arefs[k.afree] = 0
         /\ AccountOpened(k, s, d).refs = k.refs
         /\ AccountOpened(k, s, d).link = [k.link EXCEPT ![s] = k.afree]
         /\ AccountOpened(k, s, d).arefs = [k.arefs EXCEPT ![k.afree] = 1]
         /\ AccountOpened(k, s, d).owed = [k.owed EXCEPT ![k.afree] = d]
         /\ SameHeader(AccountOpened(k, s, d), k)
<1> DEFINE a == k.afree e == AccountOpened(k, s, d)
<1>1. a \in Shut(k) /\ a \in Keys(t) /\ k.arefs[a] = 0 /\ k.word[a] \in Shut(k) \cup {NoKey}
  BY CoreFacts DEF CoreFits, ShutFits, Threads
<1>2. /\ e.refs = k.refs /\ e.link = [k.link EXCEPT ![s] = a] /\ e.free = k.free
      /\ e.available = k.available /\ SameHeader(e, k)
      /\ e.arefs = [k.arefs EXCEPT ![a] = 1] /\ e.owed = [k.owed EXCEPT ![a] = d]
      /\ e.word = [k.word EXCEPT ![a] = s] /\ e.afree = k.word[a]
  BY DEF AccountOpened, CoreIn, SameHeader
<1>3. e \in CoreIn(n, t)
  <2>1. [k.link EXCEPT ![s] = a] \in [Keys(n) -> Keys(n) \cup Keys(t) \cup {NoKey}]
    BY <1>1 DEF CoreIn
  <2>2. [k.arefs EXCEPT ![a] = 1] \in [Keys(t) -> 0..MaxRefs]
    BY <1>1, Constants DEF CoreIn
  <2>3. [k.owed EXCEPT ![a] = d] \in [Keys(t) -> Domains \cup {NoDomain}]
    BY <1>1 DEF CoreIn
  <2>4. [k.word EXCEPT ![a] = s] \in [Keys(t) -> Keys(n) \cup Keys(t) \cup {NoKey}]
    BY <1>1 DEF CoreIn
  <2>5. k.word[a] \in Keys(t) \cup {NoKey}
    BY <1>1, CoreFacts
  <2> QED BY <2>1, <2>2, <2>3, <2>4, <2>5 DEF CoreIn, AccountOpened
<1> HIDE DEF a, e
<1>4. /\ \A b \in Keys(t) : b # a => e.arefs[b] = k.arefs[b] /\ e.word[b] = k.word[b] /\ e.owed[b] = k.owed[b]
      /\ e.arefs[a] = 1 /\ e.word[a] = s /\ e.owed[a] = d
      /\ \A i \in Keys(n) : i # s => e.link[i] = k.link[i]
      /\ e.link[s] = a
  BY <1>1, <1>2 DEF CoreIn
<1>5. Unused(e) = Unused(k) /\ s \notin Unused(k)
  BY <1>2, CoreFacts DEF Unused
<1>6. FreeFits(e)
  <2>1. \A i \in Unused(k) : e.link[i] = k.link[i]
    BY <1>4, <1>5, CoreFacts
  <2> QED BY <1>2, <1>5, <2>1, FreeFrame DEF CoreFits
<1>7. OpenAccounts(e) = OpenAccounts(k) \cup {a} /\ Shut(e) = Shut(k) \ {a} /\ a \notin OpenAccounts(k)
  <2>1. DOMAIN e.arefs = Keys(t) /\ DOMAIN k.arefs = Keys(t)
    BY <1>3, CoreFacts
  <2>2. \A b \in Keys(t) : b # a => e.arefs[b] = k.arefs[b]
    BY <1>4
  <2>3. e.arefs[a] > 0
    BY <1>4
  <2> QED BY <1>1, <2>1, <2>2, <2>3 DEF OpenAccounts, Shut
<1>8. ShutFits(e)
  <2> DEFINE succ == [b \in Shut(k) |-> k.word[b]]
  <2>1. Threads(a, succ, Shut(k), NoKey) /\ NoKey \notin Shut(k)
    BY CoreFacts, KeyFacts DEF CoreFits, ShutFits, a
  <2>2. succ[a] = k.word[a]
    BY <1>1
  <2>3. [b \in Shut(k) \ {a} |-> succ[b]] = [b \in Shut(e) |-> e.word[b]]
    <3>1. \A b \in Shut(k) \ {a} : succ[b] = e.word[b]
      BY <1>4, CoreFacts
    <3> QED BY <1>7, <3>1
  <2> HIDE DEF succ
  <2>4. Threads(succ[a], [b \in Shut(k) \ {a} |-> succ[b]], Shut(k) \ {a}, NoKey)
    BY <1>1, <2>1, ThreadsPop
  <2> QED BY <1>2, <1>7, <2>2, <2>3, <2>4 DEF ShutFits
<1>9. Mutual(e)
  <2>1. DOMAIN e.refs = Keys(n) /\ DOMAIN k.refs = Keys(n) /\ OpenAccounts(k) \subseteq Keys(t)
        /\ NoKey \notin Keys(t)
    BY <1>3, CoreFacts, KeyFacts
  <2>2. \A b \in OpenAccounts(k) : k.word[b] # s
    BY <2>1 DEF CoreFits, Mutual
  <2>3. ASSUME NEW b \in OpenAccounts(e)
        PROVE  /\ e.word[b] \in DOMAIN e.refs /\ e.link[e.word[b]] = b
               /\ e.refs[e.word[b]] > 0 /\ e.owed[b] \in Domains
    BY <1>2, <1>4, <1>7, <2>1, <2>2 DEF CoreFits, Mutual
  <2>4. ASSUME NEW i \in DOMAIN e.refs, e.refs[i] > 0, e.link[i] # NoKey
        PROVE  e.link[i] \in OpenAccounts(e) /\ e.word[e.link[i]] = i
    BY <1>2, <1>4, <1>7, <2>1, <2>4 DEF CoreFits, Mutual
  <2> QED BY <2>3, <2>4 DEF Mutual
<1>10. RootFits(e)
  BY <1>2 DEF CoreFits, RootFits, SameHeader
<1> QED BY <1>1, <1>2, <1>3, <1>6, <1>8, <1>9, <1>10 DEF CoreFits, a, e

\* A registration more or less, as long as one is left.
LEMMA Registers ==
  ASSUME NEW n \in Nat, NEW t \in Nat, NEW k \in CoreIn(n, t), CoreFits(k),
         NEW a \in Keys(t), k.arefs[a] > 0, NEW v \in 1..MaxRefs
  PROVE  /\ [k EXCEPT !.arefs[a] = v] \in CoreIn(n, t) /\ CoreFits([k EXCEPT !.arefs[a] = v])
         /\ [k EXCEPT !.arefs[a] = v].arefs = [k.arefs EXCEPT ![a] = v]
         /\ [k EXCEPT !.arefs[a] = v].owed = k.owed
         /\ OpenAccounts([k EXCEPT !.arefs[a] = v]) = OpenAccounts(k)
         /\ SameSlots([k EXCEPT !.arefs[a] = v], k) /\ SameHeader([k EXCEPT !.arefs[a] = v], k)
<1> DEFINE e == [k EXCEPT !.arefs[a] = v]
<1>1. k.arefs \in [Keys(t) -> 0..MaxRefs] /\ MaxRefs \in Nat
  BY Constants DEF CoreIn
<1>2. /\ e.arefs = [k.arefs EXCEPT ![a] = v] /\ e.owed = k.owed /\ e.word = k.word /\ e.afree = k.afree
      /\ SameSlots(e, k) /\ SameHeader(e, k)
  BY DEF CoreIn, SameSlots, SameHeader
<1>3. e \in CoreIn(n, t)
  <2>1. [k.arefs EXCEPT ![a] = v] \in [Keys(t) -> 0..MaxRefs]
    BY <1>1
  <2> QED BY <2>1 DEF CoreIn
<1> HIDE DEF e
<1>4. Unused(e) = Unused(k)
  BY <1>2 DEF Unused, SameSlots
<1>5. FreeFits(e)
  BY <1>2, <1>4, FreeFrame DEF CoreFits, SameSlots
<1>6. OpenAccounts(e) = OpenAccounts(k) /\ Shut(e) = Shut(k)
  <2>1. \A b \in Keys(t) : e.arefs[b] > 0 <=> k.arefs[b] > 0
    BY <1>1, <1>2
  <2>2. DOMAIN e.arefs = Keys(t) /\ DOMAIN k.arefs = Keys(t)
    BY <1>3, CoreFacts
  <2> QED BY <2>1, <2>2 DEF OpenAccounts, Shut
<1>7. ShutFits(e)
  BY <1>2, <1>6, ShutFrame DEF CoreFits
<1>8. Mutual(e)
  BY <1>2, <1>6 DEF CoreFits, Mutual, SameSlots
<1>9. RootFits(e)
  BY <1>2 DEF CoreFits, RootFits, SameHeader
<1> QED BY <1>2, <1>3, <1>5, <1>6, <1>7, <1>8, <1>9 DEF CoreFits, e

\* What is left of a core when an account ends, before its slot's edge does.
Ended(k, a) ==
  [k EXCEPT !.arefs[a] = 0, !.owed[a] = NoDomain, !.link[k.word[a]] = NoKey,
            !.word[a] = k.afree, !.afree = a]

LEMMA Ends ==
  ASSUME NEW n \in Nat, NEW t \in Nat, NEW k \in CoreIn(n, t), CoreFits(k),
         NEW a \in Keys(t), k.arefs[a] > 0
  PROVE  /\ Ended(k, a) \in CoreIn(n, t) /\ CoreFits(Ended(k, a))
         /\ k.word[a] \in Keys(n) /\ k.refs[k.word[a]] > 0 /\ k.link[k.word[a]] = a
         /\ k.owed[a] \in Domains
         /\ Ended(k, a).refs = k.refs
         /\ Ended(k, a).link = [k.link EXCEPT ![k.word[a]] = NoKey]
         /\ Ended(k, a).arefs = [k.arefs EXCEPT ![a] = 0]
         /\ Ended(k, a).owed = [k.owed EXCEPT ![a] = NoDomain]
         /\ SameHeader(Ended(k, a), k)
<1> DEFINE s == k.word[a] e == Ended(k, a)
<1>1. a \in OpenAccounts(k) /\ a \notin Shut(k) /\ s \in Keys(n) /\ k.link[s] = a /\ k.refs[s] > 0 /\ k.owed[a] \in Domains
  <2>1. a \in OpenAccounts(k) /\ a \notin Shut(k) /\ DOMAIN k.refs = Keys(n)
    BY CoreFacts DEF OpenAccounts, Shut
  <2> QED BY <2>1 DEF CoreFits, Mutual
<1>2. /\ e.refs = k.refs /\ e.link = [k.link EXCEPT ![s] = NoKey] /\ e.free = k.free
      /\ e.available = k.available /\ SameHeader(e, k)
      /\ e.arefs = [k.arefs EXCEPT ![a] = 0] /\ e.owed = [k.owed EXCEPT ![a] = NoDomain]
      /\ e.word = [k.word EXCEPT ![a] = k.afree] /\ e.afree = a
  BY DEF Ended, CoreIn, SameHeader
<1>3. e \in CoreIn(n, t)
  <2>1. [k.link EXCEPT ![s] = NoKey] \in [Keys(n) -> Keys(n) \cup Keys(t) \cup {NoKey}]
    BY <1>1 DEF CoreIn
  <2>2. [k.arefs EXCEPT ![a] = 0] \in [Keys(t) -> 0..MaxRefs]
    BY <1>1, Constants DEF CoreIn
  <2>3. [k.owed EXCEPT ![a] = NoDomain] \in [Keys(t) -> Domains \cup {NoDomain}]
    BY <1>1 DEF CoreIn
  <2>4. [k.word EXCEPT ![a] = k.afree] \in [Keys(t) -> Keys(n) \cup Keys(t) \cup {NoKey}]
    BY <1>1 DEF CoreIn
  <2> QED BY <2>1, <2>2, <2>3, <2>4 DEF CoreIn, Ended
<1> HIDE DEF s, e
<1>4. /\ \A b \in Keys(t) : b # a => e.arefs[b] = k.arefs[b] /\ e.word[b] = k.word[b] /\ e.owed[b] = k.owed[b]
      /\ e.arefs[a] = 0 /\ e.word[a] = k.afree
      /\ \A i \in Keys(n) : i # s => e.link[i] = k.link[i]
      /\ e.link[s] = NoKey
  BY <1>1, <1>2 DEF CoreIn
<1>5. Unused(e) = Unused(k) /\ s \notin Unused(k)
  BY <1>1, <1>2, CoreFacts DEF Unused
<1>6. FreeFits(e)
  <2>1. \A i \in Unused(k) : e.link[i] = k.link[i]
    BY <1>4, <1>5, CoreFacts
  <2> QED BY <1>2, <1>5, <2>1, FreeFrame DEF CoreFits
<1>7. OpenAccounts(e) = OpenAccounts(k) \ {a} /\ Shut(e) = Shut(k) \cup {a}
  <2>1. DOMAIN e.arefs = Keys(t) /\ DOMAIN k.arefs = Keys(t)
    BY <1>3, CoreFacts
  <2>2. \A b \in Keys(t) : b # a => e.arefs[b] = k.arefs[b]
    BY <1>4
  <2>3. ~ (e.arefs[a] > 0)
    BY <1>4
  <2> QED BY <1>1, <2>1, <2>2, <2>3 DEF OpenAccounts, Shut
<1>8. ShutFits(e)
  <2> DEFINE succ == [b \in Shut(k) |-> k.word[b]]
             more == [b \in Shut(e) |-> e.word[b]]
  <2>1. Threads(k.afree, succ, Shut(k), NoKey)
    BY DEF CoreFits, ShutFits
  <2>2. \A b \in Shut(k) : more[b] = succ[b]
    BY <1>1, <1>4, <1>7, CoreFacts
  <2>3. more[a] = k.afree
    BY <1>4, <1>7
  <2>4. NoKey \notin Shut(k) /\ a # NoKey
    BY CoreFacts, KeyFacts
  <2>5. more \in [Shut(k) \cup {a} -> Shut(k) \cup {a} \cup {NoKey}]
    <3>1. k.afree \in Shut(k) \cup {NoKey} /\ \A b \in Shut(k) : succ[b] \in Shut(k) \cup {NoKey}
      BY <2>1 DEF Threads
    <3>2. more = [b \in Shut(k) \cup {a} |-> e.word[b]]
      BY <1>7
    <3>3. \A b \in Shut(k) \cup {a} : e.word[b] \in Shut(k) \cup {a} \cup {NoKey}
      BY <1>4, <1>7, <2>2, <3>1
    <3> QED BY <3>2, <3>3
  <2> HIDE DEF succ, more
  <2>6. Threads(a, more, Shut(k) \cup {a}, NoKey)
    BY <1>1, <2>1, <2>2, <2>3, <2>4, <2>5, ThreadsPush
  <2>7. Threads(e.afree, more, Shut(e), NoKey)
    BY <1>2, <1>7, <2>6
  <2> QED BY <2>7 DEF ShutFits, more
<1>9. Mutual(e)
  <2>1. DOMAIN e.refs = Keys(n) /\ DOMAIN k.refs = Keys(n) /\ OpenAccounts(k) \subseteq Keys(t)
        /\ NoKey \notin Keys(t)
    BY <1>3, CoreFacts, KeyFacts
  <2>2. \A b \in OpenAccounts(k) : b # a => k.word[b] # s
    BY <1>1 DEF CoreFits, Mutual
  <2>3. ASSUME NEW b \in OpenAccounts(e)
        PROVE  /\ e.word[b] \in DOMAIN e.refs /\ e.link[e.word[b]] = b
               /\ e.refs[e.word[b]] > 0 /\ e.owed[b] \in Domains
    BY <1>2, <1>4, <1>7, <2>1, <2>2 DEF CoreFits, Mutual
  <2>4. ASSUME NEW i \in DOMAIN e.refs, e.refs[i] > 0, e.link[i] # NoKey
        PROVE  e.link[i] \in OpenAccounts(e) /\ e.word[e.link[i]] = i
    <3>1. i # s /\ e.link[i] = k.link[i] /\ k.refs[i] > 0
      BY <1>2, <1>4, <2>1, <2>4
    <3>2. k.link[i] \in OpenAccounts(k) /\ k.word[k.link[i]] = i
      BY <2>1, <2>4, <3>1 DEF CoreFits, Mutual
    <3>3. k.link[i] # a
      BY <3>1, <3>2 DEF s
    <3> QED BY <1>4, <1>7, <2>1, <3>1, <3>2, <3>3
  <2> QED BY <2>3, <2>4 DEF Mutual
<1>10. RootFits(e)
  BY <1>2 DEF CoreFits, RootFits, SameHeader
<1> QED BY <1>1, <1>2, <1>3, <1>6, <1>8, <1>9, <1>10 DEF CoreFits, s, e

\* The pool handle goes.
LEMMA Detaches ==
  ASSUME NEW n \in Nat, NEW t \in Nat, NEW k \in CoreIn(n, t), CoreFits(k)
  PROVE  /\ [k EXCEPT !.detached = TRUE] \in CoreIn(n, t) /\ CoreFits([k EXCEPT !.detached = TRUE])
         /\ [k EXCEPT !.detached = TRUE].detached = TRUE
         /\ SameSlots([k EXCEPT !.detached = TRUE], k) /\ SameAccounts([k EXCEPT !.detached = TRUE], k)
         /\ [k EXCEPT !.detached = TRUE].cap = k.cap /\ [k EXCEPT !.detached = TRUE].root = k.root
         /\ [k EXCEPT !.detached = TRUE].charged = k.charged /\ [k EXCEPT !.detached = TRUE].slots = k.slots
<1> DEFINE e == [k EXCEPT !.detached = TRUE]
<1>1. e \in CoreIn(n, t)
  BY DEF CoreIn
<1>2. /\ e.detached = TRUE /\ SameSlots(e, k) /\ SameAccounts(e, k)
      /\ e.cap = k.cap /\ e.slots = k.slots /\ e.root = k.root /\ e.charged = k.charged
  BY DEF CoreIn, SameSlots, SameAccounts
<1> HIDE DEF e
<1>3. Unused(e) = Unused(k) /\ OpenAccounts(e) = OpenAccounts(k) /\ Shut(e) = Shut(k)
  BY <1>2 DEF Unused, OpenAccounts, Shut, SameSlots, SameAccounts
<1>4. FreeFits(e) /\ ShutFits(e)
  BY <1>2, <1>3, FreeFrame, ShutFrame DEF CoreFits, SameSlots, SameAccounts
<1>5. Mutual(e) /\ RootFits(e)
  BY <1>2, <1>3 DEF CoreFits, Mutual, RootFits, SameSlots, SameAccounts
<1> QED BY <1>1, <1>2, <1>4, <1>5 DEF CoreFits, e

\* A table as it is initialized links all its entries in order.
LEMMA Chained ==
  ASSUME NEW n \in Nat
  PROVE  Threads(First(n), Chain(n), Keys(n), NoKey)
<1>1. \A i \in Keys(n) : i \in Nat /\ i < n
  BY DEF Keys
<1>2. \A i \in Keys(n) : Chain(n)[i] = IF i + 1 = n THEN NoKey ELSE i + 1
  BY DEF Chain
<1>3. Chain(n) \in [Keys(n) -> Keys(n) \cup {NoKey}]
  BY DEF Chain, Keys
<1>4. First(n) \in Keys(n) \cup {NoKey}
  BY DEF First, Keys
<1>5. \A i \in Keys(n) : Chain(n)[i] = NoKey \/ Chain(n)[i] # First(n)
  BY <1>1, <1>2 DEF First, NoKey
<1>6. ASSUME NEW i \in Keys(n), NEW j \in Keys(n), Chain(n)[i] = Chain(n)[j], Chain(n)[i] # NoKey PROVE i = j
  BY <1>1, <1>2, <1>6
<1>7. [i \in Keys(n) |-> i] \in [Keys(n) -> Nat]
  BY <1>1
<1>8. ASSUME NEW i \in Keys(n), i # First(n)
      PROVE  \E j \in Keys(n) : Chain(n)[j] = i /\ [l \in Keys(n) |-> l][j] < [l \in Keys(n) |-> l][i]
  <2>1. i # 0
    BY <1>8, <1>1 DEF First
  <2>2. i - 1 \in Keys(n) /\ i - 1 < i /\ Chain(n)[i - 1] = i
    BY <1>1, <1>2, <2>1 DEF Keys
  <2> QED BY <2>2
<1> QED BY <1>3, <1>4, <1>5, <1>6, <1>7, <1>8 DEF Threads

LEMMA Starts ==
  ASSUME NEW n \in Nat, NEW t \in Nat, NEW cap \in Nat \ {0}, NEW d \in Domains \cup {NoDomain},
         NEW v \in Nat, d # NoDomain => v = n * cap
  PROVE  /\ NewCore(n, cap, t, d, v) \in CoreIn(n, t) /\ CoreFits(NewCore(n, cap, t, d, v))
         /\ OpenAccounts(NewCore(n, cap, t, d, v)) = {} /\ Unused(NewCore(n, cap, t, d, v)) = Keys(n)
<1> DEFINE e == NewCore(n, cap, t, d, v)
<1>1. /\ e.cap = cap /\ e.slots = n /\ e.detached = FALSE /\ e.free = First(n) /\ e.available = n
      /\ e.refs = [i \in Keys(n) |-> 0] /\ e.link = Chain(n) /\ e.root = d /\ e.charged = v
      /\ e.afree = First(t) /\ e.arefs = [i \in Keys(t) |-> 0] /\ e.word = Chain(t)
      /\ e.owed = [i \in Keys(t) |-> NoDomain]
  BY DEF NewCore
<1>2. Threads(First(n), Chain(n), Keys(n), NoKey) /\ Threads(First(t), Chain(t), Keys(t), NoKey)
  BY Chained
<1>3. e \in CoreIn(n, t)
  <2>1. /\ First(n) \in Keys(n) \cup {NoKey} /\ Chain(n) \in [Keys(n) -> Keys(n) \cup {NoKey}]
        /\ First(t) \in Keys(t) \cup {NoKey} /\ Chain(t) \in [Keys(t) -> Keys(t) \cup {NoKey}]
    BY <1>2 DEF Threads
  <2>2. [i \in Keys(n) |-> 0] \in [Keys(n) -> 0..MaxRefs] /\ [i \in Keys(t) |-> 0] \in [Keys(t) -> 0..MaxRefs]
    BY Constants
  <2>3. [i \in Keys(t) |-> NoDomain] \in [Keys(t) -> Domains \cup {NoDomain}]
    OBVIOUS
  <2>4. /\ Chain(n) \in [Keys(n) -> Keys(n) \cup Keys(t) \cup {NoKey}]
        /\ Chain(t) \in [Keys(t) -> Keys(n) \cup Keys(t) \cup {NoKey}]
    BY <2>1
  <2> QED BY <2>1, <2>2, <2>3, <2>4 DEF NewCore, CoreIn
<1> HIDE DEF e
<1>4. Unused(e) = Keys(n) /\ OpenAccounts(e) = {} /\ Shut(e) = Keys(t)
  BY <1>1 DEF Unused, OpenAccounts, Shut
<1>5. FreeFits(e)
  <2>1. [i \in Unused(e) |-> e.link[i]] = Chain(n)
    BY <1>1, <1>4 DEF Chain
  <2>2. Cardinality(Keys(n)) = n
    BY KeyFacts
  <2> QED BY <1>1, <1>2, <1>4, <2>1, <2>2 DEF FreeFits
<1>6. ShutFits(e)
  <2>1. [i \in Shut(e) |-> e.word[i]] = Chain(t)
    BY <1>1, <1>4 DEF Chain
  <2> QED BY <1>1, <1>2, <1>4, <2>1 DEF ShutFits
<1>7. Mutual(e)
  BY <1>1, <1>4 DEF Mutual
<1>8. RootFits(e)
  BY <1>1 DEF RootFits
<1> QED BY <1>3, <1>4, <1>5, <1>6, <1>7, <1>8 DEF CoreFits, e

-----------------------------------------------------------------------------
(* One core and the handles that name it. *)

HandleIn == {Nothing} \cup [kind : {"pool", "span", "edge", "reg"}, core : Cores, key : Int]

One(b) == IF b THEN 1 ELSE 0
Names(x, kinds, c, i) == x.kind \in kinds /\ x.core = c /\ x.key = i
UsersOf(ha, kinds, c, i) == {h \in Handles : Names(ha[h], kinds, c, i)}
At(x, c) == x.kind # "none" /\ x.core = c
Unheld(ha, c) == \A h \in Handles : ~ At(ha[h], c)

OfSlots == {"span", "edge"}

\* A slot is retained through its account.
Kept(k, s) == k.refs[s] > 0 /\ k.link[s] # NoKey
Sole(k, s) == k.refs[s] = IF k.link[s] = NoKey THEN 1 ELSE 2

KeyFits(x, k) ==
  \/ x.kind = "pool" /\ x.key = NoKey
  \/ x.kind \in OfSlots /\ x.key \in DOMAIN k.refs
  \/ x.kind = "reg" /\ x.key \in DOMAIN k.arefs

HolderFits(ha, c, k) ==
  /\ \A h \in Handles : At(ha[h], c) => KeyFits(ha[h], k)
  /\ One(~ k.detached) = Cardinality(UsersOf(ha, {"pool"}, c, NoKey))
  /\ \A s \in DOMAIN k.refs : k.refs[s] = Cardinality(UsersOf(ha, OfSlots, c, s)) + One(Kept(k, s))
  /\ \A a \in DOMAIN k.arefs : k.arefs[a] = Cardinality(UsersOf(ha, {"reg"}, c, a))
  /\ \A h \in Handles : At(ha[h], c) /\ ha[h].kind = "span" => Sole(k, ha[h].key)

\* What a handle x that becomes y, and a core k that becomes e, have in common.
Moves(x, y, c, k, e) ==
  /\ One(~ e.detached) + One(Names(x, {"pool"}, c, NoKey))
       = One(~ k.detached) + One(Names(y, {"pool"}, c, NoKey))
  /\ \A s \in DOMAIN k.refs :
       e.refs[s] + One(Kept(k, s)) + One(Names(x, OfSlots, c, s))
         = k.refs[s] + One(Kept(e, s)) + One(Names(y, OfSlots, c, s))
  /\ \A a \in DOMAIN k.arefs :
       e.arefs[a] + One(Names(x, {"reg"}, c, a)) = k.arefs[a] + One(Names(y, {"reg"}, c, a))
  /\ At(y, c) => KeyFits(y, e) /\ (y.kind = "span" => Sole(e, y.key))

LEMMA OneIs == \A b \in BOOLEAN : One(b) \in {0, 1} /\ (One(b) = 1 <=> b) /\ (One(b) = 0 <=> ~ b)
BY DEF One

LEMMA NamesIs ==
  ASSUME NEW x, NEW K, NEW c, NEW i
  PROVE  /\ One(Names(x, K, c, i)) \in {0, 1}
         /\ Names(x, K, c, i) <=> One(Names(x, K, c, i)) = 1
<1>1. Names(x, K, c, i) \in BOOLEAN
  BY DEF Names
<1> QED BY <1>1, OneIs

\* One handle alone changes.
Turns(ha, hb, h) == \A g \in Handles \ {h} : hb[g] = ha[g]

\* Users are counted, and one handle at a time comes or goes.
LEMMA UsersMove ==
  ASSUME NEW ha \in [Handles -> HandleIn], NEW hb \in [Handles -> HandleIn], NEW h \in Handles,
         Turns(ha, hb, h), NEW K, NEW c, NEW i
  PROVE  /\ Cardinality(UsersOf(ha, K, c, i)) \in Nat
         /\ Cardinality(UsersOf(hb, K, c, i))
              = Cardinality(UsersOf(ha, K, c, i)) - One(Names(ha[h], K, c, i)) + One(Names(hb[h], K, c, i))
<1> DEFINE A == UsersOf(ha, K, c, i) B == UsersOf(hb, K, c, i)
<1>1. \A g \in Handles \ {h} : hb[g] = ha[g]
  BY DEF Turns
<1>2. IsFiniteSet(Handles)
  BY Constants
<1>3. A \in SUBSET Handles /\ B \in SUBSET Handles
  BY DEF UsersOf
<1>4. h \in A <=> Names(ha[h], K, c, i)
  BY DEF UsersOf
<1>5. h \in B <=> Names(hb[h], K, c, i)
  BY <1>1 DEF UsersOf
<1>6. A \ {h} = B \ {h}
  BY <1>1 DEF UsersOf
<1> HIDE DEF A, B
<1>7. /\ IsFiniteSet(A) /\ IsFiniteSet(B) /\ Cardinality(A) \in Nat /\ Cardinality(B) \in Nat
  BY <1>2, <1>3, FS_Subset, FS_CardinalityType
<1>8. ASSUME NEW D, IsFiniteSet(D), Cardinality(D) \in Nat
      PROVE  Cardinality(D \ {h}) = Cardinality(D) - One(h \in D)
  <2>1. CASE h \in D
    <3>1. Cardinality(D \ {h}) = Cardinality(D) - 1
      BY <1>8, <2>1, FS_RemoveElement
    <3> QED BY <2>1, <3>1 DEF One
  <2>2. CASE h \notin D
    <3>1. D \ {h} = D
      BY <2>2
    <3>2. One(h \in D) = 0
      BY <2>2 DEF One
    <3> QED BY <1>8, <3>1, <3>2
  <2> QED BY <2>1, <2>2
<1>81. /\ Cardinality(A \ {h}) = Cardinality(A) - One(h \in A)
       /\ Cardinality(B \ {h}) = Cardinality(B) - One(h \in B)
  BY <1>7, <1>8
<1>9. One(h \in A) = One(Names(ha[h], K, c, i)) /\ One(h \in B) = One(Names(hb[h], K, c, i))
  BY <1>4, <1>5 DEF One
<1>10. One(h \in A) \in {0, 1} /\ One(h \in B) \in {0, 1}
  BY DEF One
<1>11. Cardinality(B) = Cardinality(A) - One(h \in A) + One(h \in B)
  <2>1. Cardinality(A) - One(h \in A) = Cardinality(B) - One(h \in B)
    BY <1>6, <1>81
  <2>2. Cardinality(A) \in Int /\ Cardinality(B) \in Int /\ One(h \in A) \in Int /\ One(h \in B) \in Int
    BY <1>7, <1>10
  <2> QED BY <2>1, <2>2
<1> QED BY <1>7, <1>9, <1>11 DEF A, B

\* A user is counted.
LEMMA UserCounts ==
  ASSUME NEW ha \in [Handles -> HandleIn], NEW K, NEW c, NEW i
  PROVE  /\ Cardinality(UsersOf(ha, K, c, i)) \in Nat
         /\ \A h \in Handles : Names(ha[h], K, c, i) => Cardinality(UsersOf(ha, K, c, i)) > 0
         /\ \A h, g \in Handles : Names(ha[h], K, c, i) /\ Names(ha[g], K, c, i) /\ h # g
                                    => Cardinality(UsersOf(ha, K, c, i)) > 1
         /\ Cardinality(UsersOf(ha, K, c, i)) > 0 => \E h \in Handles : Names(ha[h], K, c, i)
<1> DEFINE A == UsersOf(ha, K, c, i)
<1>1. IsFiniteSet(Handles) /\ A \in SUBSET Handles
  BY Constants DEF UsersOf
<1>2. \A h \in Handles : h \in A <=> Names(ha[h], K, c, i)
  BY DEF UsersOf
<1> HIDE DEF A
<1>3. IsFiniteSet(A) /\ Cardinality(A) \in Nat
  BY <1>1, FS_Subset, FS_CardinalityType
<1>4. ASSUME NEW h \in A PROVE Cardinality(A) > 0
  <2>1. Cardinality(A \ {h}) = Cardinality(A) - 1 /\ Cardinality(A \ {h}) \in Nat
    BY <1>1, SmallerSet
  <2> QED BY <1>3, <2>1
<1>5. ASSUME NEW h \in A, NEW g \in A, h # g PROVE Cardinality(A) > 1
  <2>1. Cardinality(A \ {h}) = Cardinality(A) - 1 /\ A \ {h} \in SUBSET Handles
    BY <1>1, SmallerSet
  <2>2. g \in A \ {h}
    BY <1>5
  <2>3. Cardinality((A \ {h}) \ {g}) = Cardinality(A \ {h}) - 1 /\ Cardinality((A \ {h}) \ {g}) \in Nat
        /\ Cardinality(A \ {h}) \in Nat
    BY <1>1, <2>1, <2>2, SmallerSet, SMTT(60)
  <2> QED BY <1>3, <2>1, <2>3
<1>6. A = {} => Cardinality(A) = 0
  BY FS_EmptySet
<1>7. \A h \in A : h \in Handles
  BY <1>1
<1> QED BY <1>2, <1>3, <1>4, <1>5, <1>6, <1>7 DEF A

\* Only handles that come to the core or leave it matter to it.
LEMMA OthersHold ==
  ASSUME NEW ha \in [Handles -> HandleIn], NEW hb \in [Handles -> HandleIn], NEW h \in Handles,
         Turns(ha, hb, h), NEW c, NEW k, ~ At(ha[h], c), ~ At(hb[h], c)
  PROVE  /\ HolderFits(ha, c, k) => HolderFits(hb, c, k)
         /\ Unheld(ha, c) => Unheld(hb, c)
<1>1. \A g \in Handles \ {h} : hb[g] = ha[g]
  BY DEF Turns
<1>2. ASSUME NEW K, "none" \notin K, NEW i PROVE UsersOf(hb, K, c, i) = UsersOf(ha, K, c, i)
  <2>1. \A g \in Handles : Names(hb[g], K, c, i) <=> Names(ha[g], K, c, i)
    BY <1>1, <1>2 DEF Names, At
  <2> QED BY <2>1 DEF UsersOf
<1>3. Unheld(ha, c) => Unheld(hb, c)
  BY <1>1 DEF Unheld
<1>4. ASSUME HolderFits(ha, c, k) PROVE HolderFits(hb, c, k)
  <2>1. \A g \in Handles : At(hb[g], c) => hb[g] = ha[g] /\ At(ha[g], c)
    BY <1>1
  <2>2. "none" \notin {"pool"} /\ "none" \notin OfSlots /\ "none" \notin {"reg"}
    BY DEF OfSlots
  <2>3. /\ UsersOf(hb, {"pool"}, c, NoKey) = UsersOf(ha, {"pool"}, c, NoKey)
        /\ \A i : UsersOf(hb, OfSlots, c, i) = UsersOf(ha, OfSlots, c, i)
        /\ \A i : UsersOf(hb, {"reg"}, c, i) = UsersOf(ha, {"reg"}, c, i)
    BY <1>2, <2>2
  <2> QED BY <1>4, <2>1, <2>3 DEF HolderFits
<1> QED BY <1>3, <1>4

\* The spans of the core but for h are their slots' only handles in e.
OthersSole(ha, h, c, e) ==
  \A g \in Handles \ {h} : At(ha[g], c) /\ ha[g].kind = "span" => Sole(e, ha[g].key)

LEMMA HolderMoves ==
  ASSUME NEW n \in Nat, NEW t \in Nat, NEW k \in CoreIn(n, t), NEW e \in CoreIn(n, t),
         NEW ha \in [Handles -> HandleIn], NEW hb \in [Handles -> HandleIn], NEW h \in Handles,
         Turns(ha, hb, h), NEW c, HolderFits(ha, c, k), Moves(ha[h], hb[h], c, k, e),
         OthersSole(ha, h, c, e)
  PROVE  HolderFits(hb, c, e)
<1> DEFINE y == hb[h]
<1>1. hb[h] = y /\ \A g \in Handles \ {h} : hb[g] = ha[g]
  BY DEF Turns
<1>2. /\ DOMAIN k.refs = Keys(n) /\ DOMAIN e.refs = Keys(n)
      /\ DOMAIN k.arefs = Keys(t) /\ DOMAIN e.arefs = Keys(t)
      /\ \A s \in Keys(n) : k.refs[s] \in Nat /\ e.refs[s] \in Nat
      /\ \A a \in Keys(t) : k.arefs[a] \in Nat /\ e.arefs[a] \in Nat
  BY CoreFacts
<1> HIDE DEF y
<1>3. ASSUME NEW g \in Handles, At(hb[g], c) PROVE KeyFits(hb[g], e)
  <2>1. CASE g = h
    BY <1>1, <1>3, <2>1 DEF Moves, y
  <2>2. CASE g # h
    BY <1>1, <1>2, <1>3, <2>2 DEF HolderFits, KeyFits
  <2> QED BY <2>1, <2>2
<1>4. ASSUME NEW g \in Handles, At(hb[g], c), hb[g].kind = "span" PROVE Sole(e, hb[g].key)
  <2>1. CASE g = h
    BY <1>1, <1>4, <2>1 DEF Moves, y
  <2>2. CASE g # h
    BY <1>1, <1>4, <2>2 DEF OthersSole
  <2> QED BY <2>1, <2>2
<1>5. ASSUME NEW K, NEW i
      PROVE  /\ Cardinality(UsersOf(ha, K, c, i)) \in Nat
             /\ Cardinality(UsersOf(hb, K, c, i))
                  = Cardinality(UsersOf(ha, K, c, i)) - One(Names(ha[h], K, c, i)) + One(Names(y, K, c, i))
             /\ One(Names(ha[h], K, c, i)) \in {0, 1} /\ One(Names(y, K, c, i)) \in {0, 1}
  <2>1. One(Names(ha[h], K, c, i)) \in {0, 1} /\ One(Names(y, K, c, i)) \in {0, 1}
    BY NamesIs
  <2>2. /\ Cardinality(UsersOf(ha, K, c, i)) \in Nat
        /\ Cardinality(UsersOf(hb, K, c, i))
             = Cardinality(UsersOf(ha, K, c, i)) - One(Names(ha[h], K, c, i)) + One(Names(y, K, c, i))
    BY <1>1, UsersMove
  <2> QED BY <2>1, <2>2
<1>6. One(~ e.detached) = Cardinality(UsersOf(hb, {"pool"}, c, NoKey))
  <2>1. One(~ e.detached) \in {0, 1} /\ One(~ k.detached) \in {0, 1}
    BY DEF One
  <2>2. One(~ k.detached) = Cardinality(UsersOf(ha, {"pool"}, c, NoKey))
    BY DEF HolderFits
  <2>3. One(~ e.detached) + One(Names(ha[h], {"pool"}, c, NoKey))
          = One(~ k.detached) + One(Names(y, {"pool"}, c, NoKey))
    BY DEF Moves, y
  <2> QED BY <1>5, <2>1, <2>2, <2>3
<1>7. ASSUME NEW s \in Keys(n)
      PROVE  e.refs[s] = Cardinality(UsersOf(hb, OfSlots, c, s)) + One(Kept(e, s))
  <2>1. One(Kept(e, s)) \in {0, 1} /\ One(Kept(k, s)) \in {0, 1}
    BY DEF One
  <2>2. k.refs[s] = Cardinality(UsersOf(ha, OfSlots, c, s)) + One(Kept(k, s))
    BY <1>2 DEF HolderFits
  <2>3. e.refs[s] + One(Kept(k, s)) + One(Names(ha[h], OfSlots, c, s))
          = k.refs[s] + One(Kept(e, s)) + One(Names(y, OfSlots, c, s))
    BY <1>2 DEF Moves, y
  <2>4. k.refs[s] \in Nat /\ e.refs[s] \in Nat
    BY <1>2
  <2> QED BY <1>5, <2>1, <2>2, <2>3, <2>4
<1>8. ASSUME NEW a \in Keys(t)
      PROVE  e.arefs[a] = Cardinality(UsersOf(hb, {"reg"}, c, a))
  <2>1. k.arefs[a] = Cardinality(UsersOf(ha, {"reg"}, c, a))
    BY <1>2 DEF HolderFits
  <2>2. e.arefs[a] + One(Names(ha[h], {"reg"}, c, a)) = k.arefs[a] + One(Names(y, {"reg"}, c, a))
    BY <1>2 DEF Moves, y
  <2>3. k.arefs[a] \in Nat /\ e.arefs[a] \in Nat
    BY <1>2
  <2> QED BY <1>5, <2>1, <2>2, <2>3
<1> QED BY <1>2, <1>3, <1>4, <1>6, <1>7, <1>8 DEF HolderFits

\* A core of which every entry is vacant and that has no pool has no handle.
LEMMA RetiredUnheld ==
  ASSUME NEW n \in Nat, NEW t \in Nat, NEW k \in CoreIn(n, t), CoreFits(k),
         NEW ha \in [Handles -> HandleIn], NEW c, HolderFits(ha, c, k), Retires(k)
  PROVE  Unheld(ha, c) /\ OpenAccounts(k) = {}
<1>1. Unused(k) = Keys(n)
  <2>1. Cardinality(Unused(k)) = n /\ Unused(k) \in SUBSET Keys(n)
    BY CoreFacts DEF Retires, CoreFits, FreeFits
  <2>2. IsFiniteSet(Keys(n)) /\ Cardinality(Keys(n)) = n
    BY KeyFacts
  <2> QED BY <2>1, <2>2, FS_Subset
<1>2. \A s \in Keys(n) : k.refs[s] = 0
  BY <1>1 DEF Unused
<1>3. OpenAccounts(k) = {}
  BY <1>2, CoreFacts DEF CoreFits, Mutual
<1>4. \A a \in Keys(t) : k.arefs[a] = 0
  BY <1>3, CoreFacts DEF OpenAccounts
<1>5. SUFFICES ASSUME NEW h \in Handles, At(ha[h], c) PROVE FALSE
  BY <1>3 DEF Unheld
<1>6. KeyFits(ha[h], k)
  BY <1>5 DEF HolderFits
<1>7. CASE ha[h].kind = "pool" /\ ha[h].key = NoKey
  <2>1. Names(ha[h], {"pool"}, c, NoKey)
    BY <1>5, <1>7 DEF Names, At
  <2>2. Cardinality(UsersOf(ha, {"pool"}, c, NoKey)) = 0
    BY DEF HolderFits, Retires, One
  <2> QED BY <2>1, <2>2, UserCounts
<1>8. CASE ha[h].kind \in OfSlots /\ ha[h].key \in DOMAIN k.refs
  <2> DEFINE s == ha[h].key
  <2>1. s \in Keys(n) /\ k.refs[s] = 0
    BY <1>2, <1>8, CoreFacts
  <2>2. Names(ha[h], OfSlots, c, s)
    BY <1>5, <1>8 DEF Names, At
  <2>3. k.refs[s] = Cardinality(UsersOf(ha, OfSlots, c, s)) + One(Kept(k, s))
    BY <1>8 DEF HolderFits
  <2>4. One(Kept(k, s)) \in {0, 1}
    BY DEF One
  <2> HIDE DEF s
  <2>5. Cardinality(UsersOf(ha, OfSlots, c, s)) > 0 /\ Cardinality(UsersOf(ha, OfSlots, c, s)) \in Nat
    BY <2>2, UserCounts
  <2> QED BY <2>1, <2>3, <2>4, <2>5
<1>9. CASE ha[h].kind = "reg" /\ ha[h].key \in DOMAIN k.arefs
  <2>1. Names(ha[h], {"reg"}, c, ha[h].key)
    BY <1>5, <1>9 DEF Names, At
  <2>2. Cardinality(UsersOf(ha, {"reg"}, c, ha[h].key)) = 0
    BY <1>4, <1>9, CoreFacts DEF HolderFits
  <2> QED BY <2>1, <2>2, UserCounts
<1> QED BY <1>6, <1>7, <1>8, <1>9 DEF KeyFits

\* A core that stays has one.
LEMMA AliveHeld ==
  ASSUME NEW n \in Nat, NEW t \in Nat, NEW k \in CoreIn(n, t), CoreFits(k),
         NEW ha \in [Handles -> HandleIn], NEW c, HolderFits(ha, c, k), ~ Retires(k)
  PROVE  \E h \in Handles : At(ha[h], c)
<1>1. ASSUME NEW K, "none" \notin K, NEW i, Cardinality(UsersOf(ha, K, c, i)) > 0 PROVE \E h \in Handles : At(ha[h], c)
  <2>1. PICK h \in Handles : Names(ha[h], K, c, i)
    BY <1>1, UserCounts
  <2> QED BY <1>1, <2>1 DEF Names, At
<1>2. CASE ~ k.detached
  <2>1. Cardinality(UsersOf(ha, {"pool"}, c, NoKey)) > 0
    BY <1>2 DEF HolderFits, One
  <2> QED BY <1>1, <2>1
<1>3. CASE k.detached
  <2>1. Unused(k) # Keys(n)
    BY <1>3, KeyFacts, CoreFacts DEF Retires, CoreFits, FreeFits
  <2>2. PICK s \in Keys(n) : k.refs[s] > 0
    <3>1. Unused(k) \subseteq Keys(n) /\ \A s \in Keys(n) : s \notin Unused(k) => k.refs[s] > 0
      BY CoreFacts
    <3> QED BY <2>1, <3>1
  <2>3. k.refs[s] = Cardinality(UsersOf(ha, OfSlots, c, s)) + One(Kept(k, s)) /\ k.refs[s] \in Nat
    BY CoreFacts DEF HolderFits
  <2>4. CASE Kept(k, s)
    <3>1. k.link[s] \in OpenAccounts(k)
      BY <2>4, CoreFacts DEF CoreFits, Mutual, Kept
    <3>2. Cardinality(UsersOf(ha, {"reg"}, c, k.link[s])) > 0
      BY <3>1 DEF HolderFits, OpenAccounts
    <3> QED BY <1>1, <3>2
  <2>5. CASE ~ Kept(k, s)
    <3>1. Cardinality(UsersOf(ha, OfSlots, c, s)) > 0
      <4>1. One(Kept(k, s)) = 0
        BY <2>5 DEF One
      <4>2. Cardinality(UsersOf(ha, OfSlots, c, s)) \in Nat
        BY UserCounts
      <4> QED BY <2>2, <2>3, <4>1, <4>2
    <3>2. "none" \notin OfSlots
      BY DEF OfSlots
    <3> QED BY <1>1, <3>1, <3>2
  <2> QED BY <2>4, <2>5
<1>4. k.detached \in BOOLEAN
  BY DEF CoreIn
<1> QED BY <1>2, <1>3, <1>4

\* A span is the only handle of its slot.
LEMMA SpanAlone ==
  ASSUME NEW n \in Nat, NEW t \in Nat, NEW k \in CoreIn(n, t),
         NEW ha \in [Handles -> HandleIn], NEW c, HolderFits(ha, c, k),
         NEW h \in Handles, NEW g \in Handles, At(ha[g], c), ha[g].kind = "span",
         Names(ha[h], OfSlots, c, ha[g].key)
  PROVE  h = g
<1> DEFINE s == ha[g].key
<1>1. SUFFICES ASSUME h # g PROVE FALSE
  OBVIOUS
<1>2. s \in DOMAIN k.refs /\ Sole(k, s)
  BY DEF HolderFits, KeyFits, OfSlots
<1>3. Names(ha[g], OfSlots, c, s)
  BY DEF Names, At, OfSlots
<1>4. Cardinality(UsersOf(ha, OfSlots, c, s)) > 1 /\ Cardinality(UsersOf(ha, OfSlots, c, s)) \in Nat
  <2> HIDE DEF s
  <2>1. Names(ha[h], OfSlots, c, s)
    BY DEF s
  <2> QED BY <1>1, <1>3, <2>1, UserCounts
<1>5. k.refs[s] = Cardinality(UsersOf(ha, OfSlots, c, s)) + One(Kept(k, s))
  BY <1>2 DEF HolderFits
<1> HIDE DEF s
<1>6. CASE k.link[s] = NoKey
  <2>1. k.refs[s] = 1 /\ One(Kept(k, s)) = 0
    BY <1>2, <1>6 DEF Sole, Kept, One
  <2> QED BY <1>4, <1>5, <2>1
<1>7. CASE k.link[s] # NoKey
  <2>1. k.refs[s] = 2 /\ One(Kept(k, s)) = 1
    BY <1>2, <1>7 DEF Sole, Kept, One
  <2> QED BY <1>4, <1>5, <2>1
<1> QED BY <1>6, <1>7

-----------------------------------------------------------------------------
(* What cores are charged. *)

Owing(k, d) == {a \in OpenAccounts(k) : k.owed[a] = d}
SameRoot(e, k) == e.cap = k.cap /\ e.root = k.root /\ e.charged = k.charged

LEMMA Bytes ==
  ASSUME NEW n \in Nat, NEW t \in Nat, NEW k \in CoreIn(n, t), NEW d
  PROVE  /\ IsFiniteSet(Owing(k, d)) /\ Cardinality(Owing(k, d)) \in Nat
         /\ CoreBytes(k, d) = (IF k.root = d THEN k.charged ELSE 0) + k.cap * Cardinality(Owing(k, d))
         /\ CoreBytes(k, d) \in Nat /\ k.cap \in Nat /\ k.charged \in Nat
<1>1. Owing(k, d) \in SUBSET Keys(t) /\ IsFiniteSet(Keys(t))
  BY CoreFacts, KeyFacts DEF Owing
<1>2. IsFiniteSet(Owing(k, d)) /\ Cardinality(Owing(k, d)) \in Nat
  BY <1>1, FS_Subset, FS_CardinalityType
<1>3. k # Gone
  BY CoreFacts
<1>4. CoreBytes(k, d) = (IF k.root = d THEN k.charged ELSE 0) + k.cap * Cardinality(Owing(k, d))
  BY <1>3 DEF CoreBytes, AccountBytes, Owing
<1>5. k.cap \in Nat /\ k.charged \in Nat
  BY DEF CoreIn
<1>6. k.cap * Cardinality(Owing(k, d)) \in Nat
  BY <1>2, <1>5
<1>7. (IF k.root = d THEN k.charged ELSE 0) \in Nat
  BY <1>5
<1> QED BY <1>2, <1>4, <1>5, <1>6, <1>7

LEMMA BytesSame ==
  ASSUME NEW n \in Nat, NEW t \in Nat, NEW k \in CoreIn(n, t), NEW e \in CoreIn(n, t), NEW d,
         SameRoot(e, k), OpenAccounts(e) = OpenAccounts(k), e.owed = k.owed
  PROVE  CoreBytes(e, d) = CoreBytes(k, d)
<1>1. Owing(e, d) = Owing(k, d)
  BY DEF Owing
<1> QED BY <1>1, Bytes DEF SameRoot

\* An account more, or one less.
AlikeBut(k, e, a) == \A b \in DOMAIN k.arefs \ {a} : e.arefs[b] = k.arefs[b] /\ e.owed[b] = k.owed[b]

LEMMA BytesOpened ==
  ASSUME NEW n \in Nat, NEW t \in Nat, NEW k \in CoreIn(n, t), NEW e \in CoreIn(n, t), NEW d,
         SameRoot(e, k), NEW a \in Keys(t), k.arefs[a] = 0, e.arefs[a] > 0, AlikeBut(k, e, a)
  PROVE  CoreBytes(e, d) = CoreBytes(k, d) + IF e.owed[a] = d THEN k.cap ELSE 0
<1>1. a \notin OpenAccounts(k) /\ OpenAccounts(e) = OpenAccounts(k) \cup {a} /\ OpenAccounts(k) \subseteq Keys(t)
  <2>1. DOMAIN k.arefs = Keys(t) /\ DOMAIN e.arefs = Keys(t)
    BY CoreFacts
  <2>2. \A b \in Keys(t) \ {a} : e.arefs[b] = k.arefs[b]
    BY <2>1 DEF AlikeBut
  <2> QED BY <2>1, <2>2 DEF OpenAccounts
<1>2. \A b \in OpenAccounts(k) : e.owed[b] = k.owed[b]
  <2>1. DOMAIN k.arefs = Keys(t)
    BY CoreFacts
  <2>2. \A b \in Keys(t) \ {a} : e.owed[b] = k.owed[b]
    BY <2>1 DEF AlikeBut
  <2> QED BY <1>1, <2>2
<1>3. Owing(e, d) = (IF e.owed[a] = d THEN Owing(k, d) \cup {a} ELSE Owing(k, d)) /\ a \notin Owing(k, d)
  BY <1>1, <1>2 DEF Owing
<1>4. /\ IsFiniteSet(Owing(k, d)) /\ Cardinality(Owing(k, d)) \in Nat /\ k.cap \in Nat /\ k.charged \in Nat
      /\ CoreBytes(k, d) = (IF k.root = d THEN k.charged ELSE 0) + k.cap * Cardinality(Owing(k, d))
      /\ CoreBytes(e, d) = (IF k.root = d THEN k.charged ELSE 0) + k.cap * Cardinality(Owing(e, d))
  BY Bytes DEF SameRoot
<1>5. CASE e.owed[a] = d
  <2>1. Cardinality(Owing(e, d)) = Cardinality(Owing(k, d)) + 1
    BY <1>3, <1>4, <1>5, FS_AddElement, ZenonT(60)
  <2>2. \A c, m \in Nat : c * (m + 1) = c * m + c
    OBVIOUS
  <2>3. k.cap * Cardinality(Owing(e, d)) = k.cap * Cardinality(Owing(k, d)) + k.cap
    BY <1>4, <2>1, <2>2
  <2>4. k.cap * Cardinality(Owing(k, d)) \in Nat /\ (IF k.root = d THEN k.charged ELSE 0) \in Nat
    BY <1>4
  <2> QED BY <1>4, <1>5, <2>3, <2>4
<1>6. CASE e.owed[a] # d
  BY <1>3, <1>4, <1>6, Bytes
<1> QED BY <1>5, <1>6

-----------------------------------------------------------------------------
(* All cores. *)

CoreSet == {Gone} \cup UNION {CoreIn(n, t) : n \in Nat, t \in Nat}

CoreHolds(co, ha, c) ==
  IF co[c] = Gone THEN Unheld(ha, c)
  ELSE CoreFits(co[c]) /\ HolderFits(ha, c, co[c]) /\ ~ Retires(co[c])
PoolFits(co, ha) ==
  /\ co \in [Cores -> CoreSet] /\ ha \in [Handles -> HandleIn]
  /\ \A c \in Cores : CoreHolds(co, ha, c)
ResidentFits(co, re, li) ==
  /\ re \in [Domains -> Nat] /\ li \in [Domains -> Nat]
  /\ \A d \in Domains : re[d] = SumFunction([c \in Cores |-> CoreBytes(co[c], d)]) /\ re[d] <= li[d]

LEMMA CoreKinds ==
  /\ Gone \in CoreSet
  /\ \A n, t \in Nat : \A k \in CoreIn(n, t) : k \in CoreSet
  /\ \A k \in CoreSet : k # Gone => \E n, t \in Nat : k \in CoreIn(n, t)
BY DEF CoreSet

LEMMA BytesNat ==
  ASSUME NEW k \in CoreSet, NEW d
  PROVE  CoreBytes(k, d) \in Nat /\ (k = Gone => CoreBytes(k, d) = 0)
<1>1. CASE k = Gone
  BY <1>1 DEF CoreBytes
<1>2. CASE k # Gone
  <2>1. PICK n, t \in Nat : k \in CoreIn(n, t)
    BY <1>2, CoreKinds
  <2> QED BY <1>2, <2>1, Bytes
<1> QED BY <1>1, <1>2

\* Handle h names no core but c.
Stays(x, c) == \A b \in Cores \ {c} : ~ At(x, b)

\* One core and one handle change; a core that retires is freed.
LEMMA PoolDrops ==
  ASSUME NEW co, NEW ha, PoolFits(co, ha), NEW hb \in [Handles -> HandleIn], NEW h \in Handles,
         Turns(ha, hb, h), NEW c \in Cores, Stays(ha[h], c), Stays(hb[h], c),
         NEW n \in Nat, NEW t \in Nat, NEW e \in CoreIn(n, t), CoreFits(e), HolderFits(hb, c, e),
         NEW cb, cb = [co EXCEPT ![c] = IF Retires(e) THEN Gone ELSE e]
  PROVE  PoolFits(cb, hb)
<1>1. co \in [Cores -> CoreSet] /\ ha \in [Handles -> HandleIn]
  BY DEF PoolFits
<1>2. e \in CoreSet /\ Gone \in CoreSet /\ e # Gone
  BY CoreKinds, CoreFacts
<1>3. cb \in [Cores -> CoreSet]
  BY <1>1, <1>2
<1>4. CoreHolds(cb, hb, c)
  <2>1. CASE Retires(e)
    <3>1. Unheld(hb, c)
      BY <2>1, RetiredUnheld
    <3> QED BY <1>1, <2>1, <3>1 DEF CoreHolds
  <2>2. CASE ~ Retires(e)
    BY <1>1, <1>2, <2>2 DEF CoreHolds
  <2> QED BY <2>1, <2>2
<1>5. ASSUME NEW b \in Cores \ {c} PROVE CoreHolds(cb, hb, b)
  <2>1. cb[b] = co[b]
    BY <1>1
  <2>2. ~ At(ha[h], b) /\ ~ At(hb[h], b)
    BY DEF Stays
  <2>3. CoreHolds(co, ha, b)
    BY DEF PoolFits
  <2>4. /\ HolderFits(ha, b, co[b]) => HolderFits(hb, b, co[b])
        /\ Unheld(ha, b) => Unheld(hb, b)
    BY <1>1, <2>2, OthersHold
  <2> QED BY <2>1, <2>3, <2>4 DEF CoreHolds
<1> QED BY <1>3, <1>4, <1>5 DEF PoolFits

\* A core that a handle comes to does not retire.
LEMMA PoolKeeps ==
  ASSUME NEW co, NEW ha, PoolFits(co, ha), NEW hb \in [Handles -> HandleIn], NEW h \in Handles,
         Turns(ha, hb, h), NEW c \in Cores, Stays(ha[h], c), Stays(hb[h], c), At(hb[h], c),
         NEW n \in Nat, NEW t \in Nat, NEW e \in CoreIn(n, t), CoreFits(e), HolderFits(hb, c, e),
         NEW cb, cb = [co EXCEPT ![c] = e]
  PROVE  PoolFits(cb, hb)
<1>1. ~ Retires(e)
  <2>1. ~ Unheld(hb, c)
    BY DEF Unheld
  <2> QED BY <2>1, RetiredUnheld
<1>2. cb = [co EXCEPT ![c] = IF Retires(e) THEN Gone ELSE e]
  BY <1>1
<1>3. PoolFits([co EXCEPT ![c] = IF Retires(e) THEN Gone ELSE e], hb)
  BY PoolDrops
<1> QED BY <1>2, <1>3

LEMMA NatIsInt == ASSUME NEW S, NEW f \in [S -> Nat] PROVE f \in [S -> Int]
OBVIOUS

\* A domain's total moves by what the core's share moves.
Charges(re, rb, co, c, e) ==
  \A d \in Domains : rb[d] = re[d] + CoreBytes(e, d) - CoreBytes(co[c], d)
Within(rb, re, li) == \A d \in Domains : rb[d] <= re[d] \/ rb[d] <= li[d]

LEMMA ResidentMoves ==
  ASSUME NEW co \in [Cores -> CoreSet], NEW re, NEW li, ResidentFits(co, re, li),
         NEW c \in Cores, NEW e \in CoreSet, NEW rb \in [Domains -> Int],
         NEW cb, cb = [co EXCEPT ![c] = e],
         Charges(re, rb, co, c, e), Within(rb, re, li)
  PROVE  ResidentFits(cb, rb, li)
<1>1. re \in [Domains -> Nat] /\ li \in [Domains -> Nat]
  BY DEF ResidentFits
<1>2. ASSUME NEW d \in Domains
      PROVE  /\ rb[d] = SumFunction([b \in Cores |-> CoreBytes(cb[b], d)]) /\ rb[d] \in Nat
             /\ rb[d] <= li[d]
  <2> DEFINE f == [b \in Cores |-> CoreBytes(co[b], d)]
             g == [b \in Cores |-> CoreBytes(cb[b], d)]
  <2>1. \A b \in Cores : co[b] \in CoreSet /\ cb[b] \in CoreSet
    OBVIOUS
  <2>2. f \in [Cores -> Nat] /\ g \in [Cores -> Nat]
    BY <2>1, BytesNat
  <2>3. g[c] = CoreBytes(e, d) /\ f[c] = CoreBytes(co[c], d)
    OBVIOUS
  <2>4. \A b \in Cores \ {c} : g[b] = f[b]
    OBVIOUS
  <2>5. re[d] = SumFunction(f) /\ re[d] <= li[d]
    BY DEF ResidentFits
  <2> HIDE DEF f, g
  <2>6. f \in [Cores -> Int] /\ g \in [Cores -> Int] /\ IsFiniteSet(Cores)
    <3>1. IsFiniteSet(Cores)
      BY Constants
    <3> QED BY <2>2, <3>1, NatIsInt
  <2>7. SumFunction(g) = SumFunction(f) + g[c] - f[c]
    BY <2>4, <2>6, SumChanges
  <2>8. SumFunction(g) \in Nat
    BY <2>2, <2>6, SumBounds
  <2>9. rb[d] = SumFunction(g)
    BY <2>3, <2>5, <2>7 DEF Charges
  <2>10. rb[d] <= li[d]
    <3>1. re[d] \in Int /\ li[d] \in Int /\ rb[d] \in Int
      BY <1>1
    <3> QED BY <2>5, <3>1 DEF Within
  <2> QED BY <2>8, <2>9, <2>10 DEF g
<1>3. rb \in [Domains -> Nat]
  BY <1>2
<1> QED BY <1>1, <1>2, <1>3 DEF ResidentFits

\* It is at least the core's share.
LEMMA ResidentCovers ==
  ASSUME NEW co \in [Cores -> CoreSet], NEW re, NEW li, ResidentFits(co, re, li),
         NEW c \in Cores, NEW d \in Domains
  PROVE  /\ CoreBytes(co[c], d) <= re[d] /\ CoreBytes(co[c], d) \in Nat
         /\ re[d] \in Nat /\ li[d] \in Nat /\ re[d] <= li[d]
<1> DEFINE f == [b \in Cores |-> CoreBytes(co[b], d)]
<1>1. f \in [Cores -> Nat] /\ f[c] = CoreBytes(co[c], d)
  BY BytesNat
<1>2. re[d] = SumFunction(f) /\ re[d] \in Nat /\ li[d] \in Nat /\ re[d] <= li[d]
  BY DEF ResidentFits
<1> HIDE DEF f
<1>3. f[c] <= SumFunction(f)
  BY <1>1, SumBounds, Constants
<1> QED BY <1>1, <1>2, <1>3, BytesNat

-----------------------------------------------------------------------------
(* What each operation does to a core and the handles that name it. *)

\* One step for every operation that leaves the slots alone,
LEMMA SlotsAlone ==
  ASSUME NEW n \in Nat, NEW t \in Nat, NEW k \in CoreIn(n, t), NEW e \in CoreIn(n, t), SameSlots(e, k),
         NEW ha \in [Handles -> HandleIn], NEW h \in Handles, NEW c, HolderFits(ha, c, k)
  PROVE  /\ OthersSole(ha, h, c, e)
         /\ \A s \in Keys(n) : e.refs[s] = k.refs[s] /\ Kept(e, s) = Kept(k, s)
         /\ \A s : Sole(e, s) = Sole(k, s)
<1>1. \A s : Kept(e, s) = Kept(k, s) /\ Sole(e, s) = Sole(k, s)
  BY DEF SameSlots, Kept, Sole
<1>2. OthersSole(ha, h, c, e)
  BY <1>1 DEF HolderFits, OthersSole
<1> QED BY <1>1, <1>2 DEF SameSlots

\* and for those that change one slot that no other span is on.
OneSlot(k, e, s) ==
  \A i \in DOMAIN k.refs \ {s} : e.refs[i] = k.refs[i] /\ (k.refs[i] > 0 => e.link[i] = k.link[i])
SoleThere(ha, h, c, e, s) ==
  \A g \in Handles \ {h} : At(ha[g], c) /\ ha[g].kind = "span" /\ ha[g].key = s => Sole(e, s)

LEMMA SlotAlone ==
  ASSUME NEW n \in Nat, NEW t \in Nat, NEW k \in CoreIn(n, t), NEW e \in CoreIn(n, t), NEW s \in Keys(n),
         OneSlot(k, e, s),
         NEW ha \in [Handles -> HandleIn], NEW h \in Handles, NEW c, HolderFits(ha, c, k),
         SoleThere(ha, h, c, e, s)
  PROVE  /\ OthersSole(ha, h, c, e)
         /\ \A i \in Keys(n) \ {s} : One(Kept(e, i)) = One(Kept(k, i))
<1>1. \A i \in Keys(n) \ {s} : k.refs[i] \in Nat
  BY CoreFacts
<1>20. \A i \in Keys(n) \ {s} : e.refs[i] = k.refs[i] /\ (k.refs[i] > 0 => e.link[i] = k.link[i])
  BY CoreFacts DEF OneSlot
<1>2. \A i \in Keys(n) \ {s} : Kept(e, i) <=> Kept(k, i)
  BY <1>20 DEF Kept
<1>3. ASSUME NEW g \in Handles \ {h}, At(ha[g], c), ha[g].kind = "span" PROVE Sole(e, ha[g].key)
  <2>1. ha[g].key \in Keys(n) /\ Sole(k, ha[g].key)
    BY <1>3, CoreFacts DEF HolderFits, KeyFits, OfSlots
  <2>2. CASE ha[g].key = s
    BY <1>3, <2>2 DEF SoleThere
  <2>3. CASE ha[g].key # s
    <3>1. k.refs[ha[g].key] > 0
      BY <2>1 DEF Sole
    <3> QED BY <1>20, <2>1, <2>3, <3>1 DEF Sole
  <2> QED BY <2>2, <2>3
<1> QED BY <1>2, <1>3 DEF OthersSole, One

LEMMA NothingIs ==
  /\ Nothing \in HandleIn /\ \A c : ~ At(Nothing, c)
  /\ \A c, i : ~ Names(Nothing, {"pool"}, c, i) /\ ~ Names(Nothing, OfSlots, c, i) /\ ~ Names(Nothing, {"reg"}, c, i)
BY DEF Nothing, HandleIn, At, Names, OfSlots

\* The handles a step makes.
LEMMA ToIs ==
  ASSUME NEW kind \in {"pool", "span", "edge", "reg"}, NEW c \in Cores, NEW i \in Int
  PROVE  /\ To(kind, c, i) \in HandleIn
         /\ To(kind, c, i).kind = kind /\ To(kind, c, i).core = c /\ To(kind, c, i).key = i
         /\ At(To(kind, c, i), c)
BY DEF To, HandleIn, At

\* What a handle names, by its kind.
LEMMA NamesOne ==
  ASSUME NEW x, NEW c, x.core = c
  PROVE  /\ x.kind = "pool" /\ x.key = NoKey
              => /\ One(Names(x, {"pool"}, c, NoKey)) = 1
                 /\ \A i : One(Names(x, OfSlots, c, i)) = 0 /\ One(Names(x, {"reg"}, c, i)) = 0
         /\ x.kind \in OfSlots
              => /\ One(Names(x, {"pool"}, c, NoKey)) = 0
                 /\ \A i : /\ One(Names(x, OfSlots, c, i)) = (IF i = x.key THEN 1 ELSE 0)
                           /\ One(Names(x, {"reg"}, c, i)) = 0
         /\ x.kind = "reg"
              => /\ One(Names(x, {"pool"}, c, NoKey)) = 0
                 /\ \A i : /\ One(Names(x, OfSlots, c, i)) = 0
                           /\ One(Names(x, {"reg"}, c, i)) = (IF i = x.key THEN 1 ELSE 0)
BY DEF Names, One, OfSlots

LEMMA NamesNone ==
  ASSUME NEW c, NEW i
  PROVE  /\ One(Names(Nothing, {"pool"}, c, i)) = 0 /\ One(Names(Nothing, OfSlots, c, i)) = 0
         /\ One(Names(Nothing, {"reg"}, c, i)) = 0
BY NothingIs DEF One

LEMMA DropPoolHolds ==
  ASSUME NEW n \in Nat, NEW t \in Nat, NEW k \in CoreIn(n, t), CoreFits(k),
         NEW ha \in [Handles -> HandleIn], NEW hb \in [Handles -> HandleIn], NEW h \in Handles,
         Turns(ha, hb, h), NEW c, HolderFits(ha, c, k),
         ha[h].kind = "pool", At(ha[h], c), hb[h] = Nothing, NEW e, e = [k EXCEPT !.detached = TRUE]
  PROVE  HolderFits(hb, c, e)
<1>1. e \in CoreIn(n, t) /\ e.detached = TRUE /\ SameSlots(e, k) /\ SameAccounts(e, k)
  BY Detaches
<1>2. ha[h].key = NoKey /\ ha[h].core = c
  BY DEF HolderFits, KeyFits, OfSlots, At
<1>3. k.detached = FALSE
  <2>1. Names(ha[h], {"pool"}, c, NoKey)
    BY <1>2 DEF Names
  <2>2. One(~ k.detached) > 0
    BY <2>1, UserCounts DEF HolderFits
  <2>3. k.detached \in BOOLEAN
    BY DEF CoreIn
  <2> QED BY <2>2, <2>3 DEF One
<1>4. Moves(ha[h], hb[h], c, k, e)
  <2>1. One(Names(ha[h], {"pool"}, c, NoKey)) = 1
    BY <1>2, NamesOne
  <2>2. One(~ e.detached) = 0 /\ One(~ k.detached) = 1
    BY <1>1, <1>3 DEF One
  <2>3. \A s \in DOMAIN k.refs : /\ e.refs[s] + One(Kept(k, s)) + One(Names(ha[h], OfSlots, c, s))
                                   = k.refs[s] + One(Kept(e, s)) + One(Names(hb[h], OfSlots, c, s))
    <3>1. \A s : One(Names(ha[h], OfSlots, c, s)) = 0 /\ One(Names(hb[h], OfSlots, c, s)) = 0
      BY <1>2, NamesOne, NamesNone, ZenonT(60)
    <3>2. \A s : Kept(e, s) = Kept(k, s)
      BY <1>1 DEF Kept, SameSlots
    <3> QED BY <1>1, <3>1, <3>2 DEF SameSlots
  <2>4. \A a \in DOMAIN k.arefs : e.arefs[a] + One(Names(ha[h], {"reg"}, c, a)) = k.arefs[a] + One(Names(hb[h], {"reg"}, c, a))
    <3>1. \A a : One(Names(ha[h], {"reg"}, c, a)) = 0 /\ One(Names(hb[h], {"reg"}, c, a)) = 0
      BY <1>2, NamesOne, NamesNone, SMTT(60)
    <3> QED BY <1>1, <3>1 DEF SameAccounts
  <2>5. ~ At(hb[h], c) /\ One(Names(hb[h], {"pool"}, c, NoKey)) = 0
    BY NamesNone, NothingIs
  <2>6. One(~ e.detached) + One(Names(ha[h], {"pool"}, c, NoKey))
          = One(~ k.detached) + One(Names(hb[h], {"pool"}, c, NoKey))
    BY <2>1, <2>2, <2>5
  <2>7. At(hb[h], c) => KeyFits(hb[h], e) /\ (hb[h].kind = "span" => Sole(e, hb[h].key))
    BY <2>5
  <2> QED BY <2>3, <2>4, <2>6, <2>7 DEF Moves
<1>5. OthersSole(ha, h, c, e)
  BY <1>1, SlotsAlone
<1> QED BY <1>1, <1>4, <1>5, HolderMoves

LEMMA AcquireHolds ==
  ASSUME NEW n \in Nat, NEW t \in Nat, NEW k \in CoreIn(n, t), CoreFits(k),
         NEW ha \in [Handles -> HandleIn], NEW hb \in [Handles -> HandleIn], NEW h \in Handles,
         Turns(ha, hb, h), NEW c, HolderFits(ha, c, k),
         hb[h].kind = "span", hb[h].core = c, hb[h].key = k.free, ha[h] = Nothing, k.free # NoKey, NEW e, e = Claimed(k)
  PROVE  HolderFits(hb, c, e)
<1> DEFINE s == k.free
<1>1. /\ e \in CoreIn(n, t) /\ s \in Keys(n) /\ k.refs[s] = 0
      /\ e.refs = [k.refs EXCEPT ![s] = 1] /\ e.link = [k.link EXCEPT ![s] = NoKey]
      /\ SameAccounts(e, k) /\ SameHeader(e, k)
  BY Claims
<1>2. /\ \A i \in Keys(n) \ {s} : e.refs[i] = k.refs[i] /\ e.link[i] = k.link[i]
      /\ e.refs[s] = 1 /\ e.link[s] = NoKey /\ DOMAIN k.refs = Keys(n) /\ DOMAIN e.refs = Keys(n)
  BY <1>1 DEF CoreIn
<1> HIDE DEF s
<1>3. SoleThere(ha, h, c, e, s) /\ OneSlot(k, e, s)
  BY <1>2 DEF Sole, SoleThere, OneSlot
<1>4. OthersSole(ha, h, c, e) /\ \A i \in Keys(n) \ {s} : One(Kept(e, i)) = One(Kept(k, i))
  BY <1>1, <1>2, <1>3, SlotAlone
<1>5. Moves(ha[h], hb[h], c, k, e)
  <2>1. /\ One(Names(hb[h], {"pool"}, c, NoKey)) = 0 /\ One(Names(ha[h], {"pool"}, c, NoKey)) = 0
        /\ \A i : /\ One(Names(hb[h], OfSlots, c, i)) = IF i = s THEN 1 ELSE 0
                  /\ One(Names(hb[h], {"reg"}, c, i)) = 0
                  /\ One(Names(ha[h], OfSlots, c, i)) = 0 /\ One(Names(ha[h], {"reg"}, c, i)) = 0
    <3>1. hb[h].kind \in OfSlots
      BY DEF OfSlots
    <3> QED BY <3>1, NamesOne, NamesNone DEF s
  <2>2. One(~ e.detached) = One(~ k.detached)
    BY <1>1 DEF SameHeader
  <2>3. ASSUME NEW i \in Keys(n)
        PROVE  e.refs[i] + One(Kept(k, i)) + One(Names(ha[h], OfSlots, c, i))
                 = k.refs[i] + One(Kept(e, i)) + One(Names(hb[h], OfSlots, c, i))
    <3>1. CASE i = s
      <4>1. One(Kept(k, s)) = 0 /\ One(Kept(e, s)) = 0
        BY <1>1, <1>2 DEF Kept, One
      <4> QED BY <1>1, <1>2, <2>1, <3>1, <4>1
    <3>2. CASE i # s
      BY <1>2, <1>4, <2>1, <3>2
    <3> QED BY <3>1, <3>2
  <2>4. At(hb[h], c) => KeyFits(hb[h], e) /\ (hb[h].kind = "span" => Sole(e, hb[h].key))
    BY <1>1, <1>2 DEF KeyFits, Sole, OfSlots, s
  <2> QED BY <1>1, <1>2, <2>1, <2>2, <2>3, <2>4 DEF Moves, SameAccounts
<1> QED BY <1>1, <1>4, <1>5, HolderMoves

\* The count of a slot or an account that a handle names is not zero.
LEMMA KeptByLink ==
  ASSUME NEW k, NEW s, k.refs[s] > 0
  PROVE  /\ k.link[s] = NoKey => One(Kept(k, s)) = 0
         /\ k.link[s] # NoKey => One(Kept(k, s)) = 1
BY DEF Kept, One

LEMMA LastReleased ==
  ASSUME NEW n \in Nat, NEW t \in Nat, NEW k \in CoreIn(n, t), NEW s \in Keys(n), k.refs[s] = 1
  PROVE  SlotReleased(k, s).refs[s] = 0
BY DEF SlotReleased, CoreIn

LEMMA UserRefs ==
  ASSUME NEW n \in Nat, NEW t \in Nat, NEW k \in CoreIn(n, t),
         NEW ha \in [Handles -> HandleIn], NEW c, HolderFits(ha, c, k), NEW h \in Handles, At(ha[h], c)
  PROVE  /\ ha[h].kind \in OfSlots =>
              /\ ha[h].key \in Keys(n) /\ k.refs[ha[h].key] > 0
              /\ k.refs[ha[h].key] = 1 => k.link[ha[h].key] = NoKey
         /\ ha[h].kind = "reg" => ha[h].key \in Keys(t) /\ k.arefs[ha[h].key] > 0
<1>1. KeyFits(ha[h], k) /\ DOMAIN k.refs = Keys(n) /\ DOMAIN k.arefs = Keys(t)
  BY CoreFacts DEF HolderFits
<1>2. ASSUME ha[h].kind \in OfSlots
      PROVE  /\ ha[h].key \in Keys(n) /\ k.refs[ha[h].key] > 0
             /\ k.refs[ha[h].key] = 1 => k.link[ha[h].key] = NoKey
  <2> DEFINE s == ha[h].key
  <2>1. s \in Keys(n)
    BY <1>1, <1>2 DEF KeyFits, OfSlots
  <2>2. Names(ha[h], OfSlots, c, s)
    BY <1>2 DEF Names, At
  <2>3. k.refs[s] = Cardinality(UsersOf(ha, OfSlots, c, s)) + One(Kept(k, s)) /\ k.refs[s] \in Nat
    BY <1>1, <2>1, CoreFacts DEF HolderFits
  <2> HIDE DEF s
  <2>4. Cardinality(UsersOf(ha, OfSlots, c, s)) > 0 /\ Cardinality(UsersOf(ha, OfSlots, c, s)) \in Nat
    BY <2>2, UserCounts
  <2>5. One(Kept(k, s)) \in {0, 1}
    BY DEF One
  <2>6. k.refs[s] > 0 /\ (k.refs[s] = 1 => One(Kept(k, s)) = 0)
    BY <2>3, <2>4, <2>5
  <2>7. k.refs[s] = 1 => k.link[s] = NoKey
    BY <2>6 DEF One, Kept
  <2> QED BY <2>1, <2>6, <2>7 DEF s
<1>3. ASSUME ha[h].kind = "reg" PROVE ha[h].key \in Keys(t) /\ k.arefs[ha[h].key] > 0
  <2>1. ha[h].key \in Keys(t)
    BY <1>1, <1>3 DEF KeyFits, OfSlots
  <2>2. Names(ha[h], {"reg"}, c, ha[h].key)
    BY <1>3 DEF Names, At
  <2>3. k.arefs[ha[h].key] = Cardinality(UsersOf(ha, {"reg"}, c, ha[h].key))
    BY <1>1, <2>1 DEF HolderFits
  <2> QED BY <2>1, <2>2, <2>3, UserCounts
<1> QED BY <1>2, <1>3

LEMMA IntoEdgeHolds ==
  ASSUME NEW n \in Nat, NEW t \in Nat, NEW k \in CoreIn(n, t), CoreFits(k),
         NEW ha \in [Handles -> HandleIn], NEW hb \in [Handles -> HandleIn], NEW h \in Handles,
         Turns(ha, hb, h), NEW c, HolderFits(ha, c, k),
         ha[h].kind = "span", At(ha[h], c), hb[h].kind = "edge", hb[h].core = c, hb[h].key = ha[h].key
  PROVE  HolderFits(hb, c, k)
<1>1. OthersSole(ha, h, c, k)
  BY DEF OthersSole, HolderFits
<1>2. ha[h].kind \in OfSlots /\ hb[h].kind \in OfSlots /\ ha[h].core = c
  BY DEF OfSlots, At
<1>3. Moves(ha[h], hb[h], c, k, k)
  <2>1. /\ One(Names(hb[h], {"pool"}, c, NoKey)) = One(Names(ha[h], {"pool"}, c, NoKey))
        /\ \A i : /\ One(Names(hb[h], OfSlots, c, i)) = One(Names(ha[h], OfSlots, c, i))
                  /\ One(Names(hb[h], {"reg"}, c, i)) = One(Names(ha[h], {"reg"}, c, i))
    <3>1. /\ One(Names(hb[h], {"pool"}, c, NoKey)) = 0
          /\ \A i : /\ One(Names(hb[h], OfSlots, c, i)) = (IF i = hb[h].key THEN 1 ELSE 0)
                    /\ One(Names(hb[h], {"reg"}, c, i)) = 0
      BY <1>2, NamesOne
    <3>2. /\ One(Names(ha[h], {"pool"}, c, NoKey)) = 0
          /\ \A i : /\ One(Names(ha[h], OfSlots, c, i)) = (IF i = ha[h].key THEN 1 ELSE 0)
                    /\ One(Names(ha[h], {"reg"}, c, i)) = 0
      BY <1>2, NamesOne
    <3> QED BY <3>1, <3>2
  <2>2. KeyFits(hb[h], k)
    BY <1>2, UserRefs, CoreFacts DEF KeyFits
  <2> QED BY <2>1, <2>2 DEF Moves
<1> QED BY <1>1, <1>3, HolderMoves

LEMMA RetainEdgeHolds ==
  ASSUME NEW n \in Nat, NEW t \in Nat, NEW k \in CoreIn(n, t), CoreFits(k),
         NEW ha \in [Handles -> HandleIn], NEW hb \in [Handles -> HandleIn], NEW h \in Handles,
         Turns(ha, hb, h), NEW c, HolderFits(ha, c, k),
         ha[h] = Nothing, NEW g \in Handles, ha[g].kind = "edge", At(ha[g], c), hb[h] = ha[g],
         NEW e, e = [k EXCEPT !.refs[ha[g].key] = @ + 1], k.refs[ha[g].key] < MaxRefs
  PROVE  /\ HolderFits(hb, c, e) /\ e \in CoreIn(n, t) /\ CoreFits(e)
         /\ SameAccounts(e, k) /\ SameHeader(e, k)
<1> DEFINE s == ha[g].key
<1>0. s \in Keys(n) /\ k.refs[s] > 0 /\ ha[g].core = c /\ ha[g].kind \in OfSlots
  BY UserRefs DEF OfSlots, At
<1>1. /\ e \in CoreIn(n, t) /\ CoreFits(e) /\ e.refs = [k.refs EXCEPT ![s] = @ + 1] /\ e.link = k.link
      /\ SameAccounts(e, k) /\ SameHeader(e, k)
  BY <1>0, Edges
<1>2. /\ \A i \in Keys(n) \ {s} : e.refs[i] = k.refs[i]
      /\ e.refs[s] = k.refs[s] + 1 /\ DOMAIN k.refs = Keys(n) /\ DOMAIN e.refs = Keys(n)
      /\ k.refs[s] \in Nat
  BY <1>0, <1>1, CoreFacts
<1>3. SoleThere(ha, h, c, e, s) /\ OneSlot(k, e, s)
  <2>1. ASSUME NEW f \in Handles, At(ha[f], c), ha[f].kind = "span", ha[f].key = s PROVE FALSE
    <3>1. Names(ha[g], OfSlots, c, ha[f].key)
      BY <1>0, <2>1 DEF Names
    <3>2. g = f
      BY <2>1, <3>1, SpanAlone
    <3> QED BY <2>1, <3>2
  <2> QED BY <1>1, <1>2, <2>1 DEF SoleThere, OneSlot
<1> HIDE DEF s
<1>4. OthersSole(ha, h, c, e) /\ \A i \in Keys(n) \ {s} : One(Kept(e, i)) = One(Kept(k, i))
  BY <1>0, <1>1, <1>3, SlotAlone
<1>5. Moves(ha[h], hb[h], c, k, e)
  <2>1. /\ One(Names(hb[h], {"pool"}, c, NoKey)) = 0 /\ One(Names(ha[h], {"pool"}, c, NoKey)) = 0
        /\ \A i : /\ One(Names(hb[h], OfSlots, c, i)) = IF i = s THEN 1 ELSE 0
                  /\ One(Names(hb[h], {"reg"}, c, i)) = 0
                  /\ One(Names(ha[h], OfSlots, c, i)) = 0 /\ One(Names(ha[h], {"reg"}, c, i)) = 0
    BY <1>0, NamesOne, NamesNone DEF s
  <2>2. One(~ e.detached) = One(~ k.detached)
    BY <1>1 DEF SameHeader
  <2>3. ASSUME NEW i \in Keys(n)
        PROVE  e.refs[i] + One(Kept(k, i)) + One(Names(ha[h], OfSlots, c, i))
                 = k.refs[i] + One(Kept(e, i)) + One(Names(hb[h], OfSlots, c, i))
    <3>1. CASE i = s
      <4>1. One(Kept(k, s)) = One(Kept(e, s)) /\ One(Kept(e, s)) \in {0, 1}
        BY <1>0, <1>1, <1>2 DEF Kept, One
      <4> QED BY <1>2, <2>1, <3>1, <4>1
    <3>2. CASE i # s
      BY <1>2, <1>4, <2>1, <3>2
    <3> QED BY <3>1, <3>2
  <2>4. At(hb[h], c) => KeyFits(hb[h], e) /\ (hb[h].kind = "span" => Sole(e, hb[h].key))
    BY <1>0, <1>2 DEF KeyFits, s
  <2> QED BY <1>1, <1>2, <2>1, <2>2, <2>3, <2>4 DEF Moves, SameAccounts
<1> QED BY <1>1, <1>4, <1>5, HolderMoves

LEMMA DropSlotHolds ==
  ASSUME NEW n \in Nat, NEW t \in Nat, NEW k \in CoreIn(n, t), CoreFits(k),
         NEW ha \in [Handles -> HandleIn], NEW hb \in [Handles -> HandleIn], NEW h \in Handles,
         Turns(ha, hb, h), NEW c, HolderFits(ha, c, k),
         ha[h].kind \in OfSlots, At(ha[h], c), hb[h] = Nothing, NEW e, e = SlotReleased(k, ha[h].key)
  PROVE  /\ HolderFits(hb, c, e) /\ e \in CoreIn(n, t) /\ CoreFits(e)
         /\ SameAccounts(e, k) /\ SameHeader(e, k)
<1> DEFINE s == ha[h].key
<1>0. s \in Keys(n) /\ k.refs[s] > 0 /\ (k.refs[s] = 1 => k.link[s] = NoKey) /\ ha[h].core = c
  BY UserRefs DEF At
<1>1. /\ e \in CoreIn(n, t) /\ CoreFits(e) /\ e.refs = [k.refs EXCEPT ![s] = @ - 1]
      /\ \A i \in Keys(n) : e.refs[i] > 0 => e.link[i] = k.link[i]
      /\ SameAccounts(e, k) /\ SameHeader(e, k)
  BY <1>0, Releases
<1>2. /\ \A i \in Keys(n) \ {s} : e.refs[i] = k.refs[i]
      /\ e.refs[s] = k.refs[s] - 1 /\ DOMAIN k.refs = Keys(n) /\ DOMAIN e.refs = Keys(n)
      /\ k.refs[s] \in Nat
  BY <1>0, <1>1, CoreFacts
<1>3. SoleThere(ha, h, c, e, s) /\ OneSlot(k, e, s)
  <2>1. ASSUME NEW f \in Handles \ {h}, At(ha[f], c), ha[f].kind = "span", ha[f].key = s PROVE FALSE
    <3>1. Names(ha[h], OfSlots, c, ha[f].key)
      BY <1>0, <2>1 DEF Names
    <3>2. h = f
      BY <2>1, <3>1, SpanAlone
    <3> QED BY <2>1, <3>2
  <2> QED BY <1>1, <1>2, <2>1 DEF SoleThere, OneSlot
<1> HIDE DEF s
<1>4. OthersSole(ha, h, c, e) /\ \A i \in Keys(n) \ {s} : One(Kept(e, i)) = One(Kept(k, i))
  BY <1>0, <1>1, <1>3, SlotAlone
<1>5. Moves(ha[h], hb[h], c, k, e)
  <2>1. /\ One(Names(hb[h], {"pool"}, c, NoKey)) = 0 /\ One(Names(ha[h], {"pool"}, c, NoKey)) = 0
        /\ \A i : /\ One(Names(ha[h], OfSlots, c, i)) = IF i = s THEN 1 ELSE 0
                  /\ One(Names(hb[h], {"reg"}, c, i)) = 0
                  /\ One(Names(hb[h], OfSlots, c, i)) = 0 /\ One(Names(ha[h], {"reg"}, c, i)) = 0
    BY <1>0, NamesOne, NamesNone DEF s
  <2>2. One(~ e.detached) = One(~ k.detached)
    BY <1>1 DEF SameHeader
  <2>3. ASSUME NEW i \in Keys(n)
        PROVE  e.refs[i] + One(Kept(k, i)) + One(Names(ha[h], OfSlots, c, i))
                 = k.refs[i] + One(Kept(e, i)) + One(Names(hb[h], OfSlots, c, i))
    <3>1. CASE i = s
      <4>1. One(Kept(k, s)) = One(Kept(e, s)) /\ One(Kept(e, s)) \in {0, 1}
        BY <1>0, <1>1, <1>2 DEF Kept, One
      <4> QED BY <1>2, <2>1, <3>1, <4>1
    <3>2. CASE i # s
      BY <1>2, <1>4, <2>1, <3>2
    <3> QED BY <3>1, <3>2
  <2>4. ~ At(hb[h], c)
    BY NothingIs
  <2> QED BY <1>1, <1>2, <2>1, <2>2, <2>3, <2>4 DEF Moves, SameAccounts
<1> QED BY <1>1, <1>4, <1>5, HolderMoves

\* One registration of an open account comes or goes, and another is left.
LEMMA RegisterHolds ==
  ASSUME NEW n \in Nat, NEW t \in Nat, NEW k \in CoreIn(n, t), CoreFits(k),
         NEW ha \in [Handles -> HandleIn], NEW hb \in [Handles -> HandleIn], NEW h \in Handles,
         Turns(ha, hb, h), NEW c, HolderFits(ha, c, k),
         NEW a \in Keys(t), k.arefs[a] > 0, NEW v \in 1..MaxRefs,
         \/ v = k.arefs[a] + 1 /\ ha[h] = Nothing /\ hb[h].kind = "reg" /\ hb[h].core = c /\ hb[h].key = a
         \/ v = k.arefs[a] - 1 /\ hb[h] = Nothing /\ ha[h].kind = "reg" /\ ha[h].core = c /\ ha[h].key = a,
         NEW e, e = [k EXCEPT !.arefs[a] = v]
  PROVE  HolderFits(hb, c, e)
<1>1. /\ e \in CoreIn(n, t) /\ e.arefs = [k.arefs EXCEPT ![a] = v] /\ SameSlots(e, k) /\ SameHeader(e, k)
  BY Registers
<1>2. /\ \A b \in Keys(t) \ {a} : e.arefs[b] = k.arefs[b]
      /\ e.arefs[a] = v /\ DOMAIN k.refs = Keys(n) /\ DOMAIN k.arefs = Keys(t) /\ DOMAIN e.arefs = Keys(t)
      /\ \A b \in Keys(t) : k.arefs[b] \in Nat
  BY <1>1, CoreFacts
<1>3. OthersSole(ha, h, c, e) /\ \A s \in Keys(n) : e.refs[s] = k.refs[s] /\ Kept(e, s) = Kept(k, s)
  BY <1>1, SlotsAlone
<1>4. Moves(ha[h], hb[h], c, k, e)
  <2>1. /\ One(Names(hb[h], {"pool"}, c, NoKey)) = 0 /\ One(Names(ha[h], {"pool"}, c, NoKey)) = 0
        /\ \A i : One(Names(hb[h], OfSlots, c, i)) = 0 /\ One(Names(ha[h], OfSlots, c, i)) = 0
        /\ v + One(Names(ha[h], {"reg"}, c, a)) = k.arefs[a] + One(Names(hb[h], {"reg"}, c, a))
        /\ \A b \in Keys(t) \ {a} : One(Names(hb[h], {"reg"}, c, b)) = 0 /\ One(Names(ha[h], {"reg"}, c, b)) = 0
    <3>1. k.arefs[a] \in Nat
      BY <1>2
    <3>2. CASE v = k.arefs[a] + 1 /\ ha[h] = Nothing /\ hb[h].kind = "reg" /\ hb[h].core = c /\ hb[h].key = a
      <4>1. /\ One(Names(hb[h], {"pool"}, c, NoKey)) = 0
            /\ \A i : /\ One(Names(hb[h], OfSlots, c, i)) = 0
                      /\ One(Names(hb[h], {"reg"}, c, i)) = (IF i = a THEN 1 ELSE 0)
        BY <3>2, NamesOne
      <4>2. \A i : /\ One(Names(ha[h], {"pool"}, c, i)) = 0 /\ One(Names(ha[h], OfSlots, c, i)) = 0
                   /\ One(Names(ha[h], {"reg"}, c, i)) = 0
        BY <3>2, NamesNone
      <4> QED BY <3>1, <3>2, <4>1, <4>2
    <3>3. CASE v = k.arefs[a] - 1 /\ hb[h] = Nothing /\ ha[h].kind = "reg" /\ ha[h].core = c /\ ha[h].key = a
      <4>1. /\ One(Names(ha[h], {"pool"}, c, NoKey)) = 0
            /\ \A i : /\ One(Names(ha[h], OfSlots, c, i)) = 0
                      /\ One(Names(ha[h], {"reg"}, c, i)) = (IF i = a THEN 1 ELSE 0)
        BY <3>3, NamesOne
      <4>2. \A i : /\ One(Names(hb[h], {"pool"}, c, i)) = 0 /\ One(Names(hb[h], OfSlots, c, i)) = 0
                   /\ One(Names(hb[h], {"reg"}, c, i)) = 0
        BY <3>3, NamesNone
      <4> QED BY <3>1, <3>3, <4>1, <4>2
    <3> QED BY <3>2, <3>3
  <2>2. One(~ e.detached) = One(~ k.detached)
    BY <1>1 DEF SameHeader
  <2>3. At(hb[h], c) => KeyFits(hb[h], e) /\ (hb[h].kind = "span" => Sole(e, hb[h].key))
    BY <1>2, NothingIs DEF KeyFits
  <2>4. \A s \in Keys(n) : e.refs[s] + One(Kept(k, s)) + One(Names(ha[h], OfSlots, c, s))
                             = k.refs[s] + One(Kept(e, s)) + One(Names(hb[h], OfSlots, c, s))
    BY <1>3, <2>1
  <2>5. \A b \in Keys(t) : e.arefs[b] + One(Names(ha[h], {"reg"}, c, b)) = k.arefs[b] + One(Names(hb[h], {"reg"}, c, b))
    BY <1>2, <2>1, Zenon
  <2> QED BY <1>2, <2>1, <2>2, <2>3, <2>4, <2>5 DEF Moves
<1> QED BY <1>1, <1>3, <1>4, HolderMoves

LEMMA BindMoves ==
  ASSUME NEW n, NEW t, NEW k, NEW e, NEW c, NEW s, NEW a, NEW y,
         y.kind = "reg", y.core = c, y.key = a, KeyFits(y, e), e.detached = k.detached,
         DOMAIN k.refs = Keys(n), DOMAIN k.arefs = Keys(t),
         \A i \in Keys(n) : k.refs[i] \in Nat,
         \A b \in Keys(t) : k.arefs[b] \in Nat,
         k.refs[s] = 1, e.refs[s] = 2, k.link[s] = NoKey, e.link[s] = a, a # NoKey,
         \A i \in Keys(n) \ {s} : e.refs[i] = k.refs[i] /\ One(Kept(e, i)) = One(Kept(k, i)),
         \A b \in Keys(t) \ {a} : e.arefs[b] = k.arefs[b],
         k.arefs[a] = 0, e.arefs[a] = 1
  PROVE  Moves(Nothing, y, c, k, e)
<1>1. /\ One(Names(y, {"pool"}, c, NoKey)) = 0
      /\ \A i : /\ One(Names(y, OfSlots, c, i)) = 0
                /\ One(Names(y, {"reg"}, c, i)) = IF i = a THEN 1 ELSE 0
  BY NamesOne
<1>2. \A i : /\ One(Names(Nothing, {"pool"}, c, i)) = 0 /\ One(Names(Nothing, OfSlots, c, i)) = 0
             /\ One(Names(Nothing, {"reg"}, c, i)) = 0
  BY NamesNone
<1>3. One(Kept(k, s)) = 0 /\ One(Kept(e, s)) = 1
  BY KeptByLink
<1>4. \A i \in Keys(n) : One(Kept(k, i)) \in {0, 1} /\ One(Kept(e, i)) \in {0, 1} /\ One(~ k.detached) \in {0, 1}
  BY DEF One
<1>5. ASSUME NEW i \in DOMAIN k.refs
      PROVE  e.refs[i] + One(Kept(k, i)) + One(Names(Nothing, OfSlots, c, i))
               = k.refs[i] + One(Kept(e, i)) + One(Names(y, OfSlots, c, i))
  <2>1. CASE i = s
    BY <1>1, <1>2, <1>3, <2>1
  <2>2. CASE i # s
    BY <1>1, <1>2, <1>4, <2>2
  <2> QED BY <2>1, <2>2
<1>6. ASSUME NEW b \in DOMAIN k.arefs
      PROVE  e.arefs[b] + One(Names(Nothing, {"reg"}, c, b)) = k.arefs[b] + One(Names(y, {"reg"}, c, b))
  <2>1. CASE b = a
    BY <1>1, <1>2, <2>1
  <2>2. CASE b # a
    BY <1>1, <1>2, <2>2
  <2> QED BY <2>1, <2>2
<1>7. One(~ e.detached) + One(Names(Nothing, {"pool"}, c, NoKey))
        = One(~ k.detached) + One(Names(y, {"pool"}, c, NoKey))
  BY <1>1, <1>2
<1> QED BY <1>5, <1>6, <1>7 DEF Moves

\* A registration opens an account, which takes an edge of the slot.
LEMMA BindHolds ==
  ASSUME NEW n \in Nat, NEW t \in Nat, NEW k \in CoreIn(n, t), CoreFits(k),
         NEW ha \in [Handles -> HandleIn], NEW hb \in [Handles -> HandleIn], NEW h \in Handles,
         Turns(ha, hb, h), NEW c, HolderFits(ha, c, k),
         ha[h] = Nothing, NEW g \in Handles, ha[g].kind = "span", At(ha[g], c),
         k.link[ha[g].key] = NoKey, k.afree # NoKey, k.refs[ha[g].key] < MaxRefs, NEW d \in Domains,
         hb[h].kind = "reg", hb[h].core = c, hb[h].key = k.afree,
         NEW e, e = AccountOpened([k EXCEPT !.refs[ha[g].key] = @ + 1], ha[g].key, d)
  PROVE  /\ HolderFits(hb, c, e) /\ e \in CoreIn(n, t) /\ CoreFits(e) /\ SameHeader(e, k)
         /\ k.afree \in Keys(t) /\ k.arefs[k.afree] = 0 /\ e.arefs[k.afree] > 0
         /\ AlikeBut(k, e, k.afree) /\ e.owed[k.afree] = d
<1> DEFINE s == ha[g].key m == [k EXCEPT !.refs[ha[g].key] = @ + 1] a == k.afree
<1>0. s \in Keys(n) /\ k.refs[s] = 1
  BY UserRefs DEF OfSlots, HolderFits, Sole
<1>1. /\ m \in CoreIn(n, t) /\ CoreFits(m) /\ m.refs = [k.refs EXCEPT ![s] = @ + 1] /\ m.link = k.link
      /\ SameAccounts(m, k) /\ SameHeader(m, k)
  <2>1. k.refs[s] > 0
    BY <1>0
  <2> QED BY <1>0, <2>1, Edges, SMTT(60)
<1> HIDE DEF m
<1>2. m.refs[s] = 2 /\ m.refs[s] > 0 /\ m.link[s] = NoKey /\ m.afree = a
  BY <1>0, <1>1, CoreFacts DEF SameAccounts
<1> HIDE DEF s, a
<1>3. e = AccountOpened(m, s, d) /\ m.afree # NoKey
  BY <1>2 DEF m, s, a
<1>4. /\ e \in CoreIn(n, t) /\ CoreFits(e) /\ a \in Keys(t) /\ m.arefs[a] = 0
      /\ e.refs = m.refs /\ e.link = [m.link EXCEPT ![s] = a]
      /\ e.arefs = [m.arefs EXCEPT ![a] = 1] /\ e.owed = [m.owed EXCEPT ![a] = d]
      /\ SameHeader(e, m)
  <2> DEFINE q == AccountOpened(m, s, d)
  <2>1. /\ q \in CoreIn(n, t) /\ CoreFits(q) /\ m.afree \in Keys(t) /\ m.arefs[m.afree] = 0
        /\ q.refs = m.refs /\ q.link = [m.link EXCEPT ![s] = m.afree]
        /\ q.arefs = [m.arefs EXCEPT ![m.afree] = 1] /\ q.owed = [m.owed EXCEPT ![m.afree] = d]
        /\ SameHeader(q, m)
    <3>1. m \in CoreIn(n, t) /\ CoreFits(m) /\ s \in Keys(n)
      BY <1>0, <1>1
    <3>2. m.refs[s] > 0 /\ m.link[s] = NoKey /\ m.afree # NoKey
      BY <1>2, <1>3
    <3> QED BY <3>1, <3>2, Opens, SMTT(60)
  <2> HIDE DEF q
  <2>2. e = q
    BY <1>3 DEF q
  <2> QED BY <1>2, <2>1, <2>2
<1>5. /\ \A i \in Keys(n) \ {s} : e.refs[i] = k.refs[i] /\ e.link[i] = k.link[i]
      /\ e.refs[s] = 2 /\ e.link[s] = a /\ a # NoKey
      /\ DOMAIN k.refs = Keys(n) /\ DOMAIN e.refs = Keys(n)
      /\ DOMAIN k.arefs = Keys(t) /\ DOMAIN e.arefs = Keys(t)
      /\ \A b \in Keys(t) \ {a} : e.arefs[b] = k.arefs[b] /\ e.owed[b] = k.owed[b]
      /\ k.arefs[a] = 0 /\ e.arefs[a] = 1 /\ e.owed[a] = d
  <2>1. e.link = [k.link EXCEPT ![s] = a] /\ e.arefs = [k.arefs EXCEPT ![a] = 1]
        /\ e.owed = [k.owed EXCEPT ![a] = d] /\ k.arefs[a] = 0
    BY <1>1, <1>4 DEF SameAccounts
  <2>2. e.refs = [k.refs EXCEPT ![s] = @ + 1]
    BY <1>1, <1>4
  <2>3. k.link \in [Keys(n) -> Keys(n) \cup Keys(t) \cup {NoKey}] /\ k.owed \in [Keys(t) -> Domains \cup {NoDomain}]
    BY DEF CoreIn
  <2>4. a # NoKey
    BY <1>4, KeyFacts
  <2>5. DOMAIN k.refs = Keys(n) /\ DOMAIN e.refs = Keys(n) /\ DOMAIN k.arefs = Keys(t) /\ DOMAIN e.arefs = Keys(t)
    BY <1>4, CoreFacts
  <2>6. \A i \in Keys(n) \ {s} : e.refs[i] = k.refs[i] /\ e.link[i] = k.link[i]
    BY <2>1, <2>2, <2>3, <2>5
  <2>7. e.refs[s] = 2 /\ e.link[s] = a
    BY <1>0, <2>1, <2>2, <2>3, <2>5
  <2>8. \A b \in Keys(t) \ {a} : e.arefs[b] = k.arefs[b] /\ e.owed[b] = k.owed[b]
    BY <2>1, <2>3, <2>5, Zenon
  <2>9. e.arefs[a] = 1 /\ e.owed[a] = d
    BY <1>4, <2>1, <2>3, <2>5, Zenon
  <2> QED BY <2>1, <2>4, <2>5, <2>6, <2>7, <2>8, <2>9, Zenon
<1>6. SameHeader(e, k)
  BY <1>1, <1>4, Zenon DEF SameHeader
<1>7. SoleThere(ha, h, c, e, s) /\ OneSlot(k, e, s)
  BY <1>5 DEF Sole, SoleThere, OneSlot
<1>8. OthersSole(ha, h, c, e) /\ \A i \in Keys(n) \ {s} : One(Kept(e, i)) = One(Kept(k, i))
  <2>1. e \in CoreIn(n, t) /\ s \in Keys(n)
    BY <1>0, <1>4, Zenon
  <2> QED BY <2>1, <1>7, SlotAlone
<1>9. Moves(ha[h], hb[h], c, k, e)
  <2>1. KeyFits(hb[h], e)
    BY <1>4, <1>5, Zenon DEF KeyFits, a
  <2>2. /\ DOMAIN k.refs = Keys(n) /\ DOMAIN k.arefs = Keys(t)
        /\ \A i \in Keys(n) : k.refs[i] \in Nat
        /\ \A b \in Keys(t) : k.arefs[b] \in Nat
    BY CoreFacts
  <2>3. e.detached = k.detached
    BY <1>6, Zenon DEF SameHeader
  <2>4. /\ k.refs[s] = 1 /\ e.refs[s] = 2 /\ k.link[s] = NoKey /\ e.link[s] = a /\ a # NoKey
        /\ \A i \in Keys(n) \ {s} : e.refs[i] = k.refs[i] /\ One(Kept(e, i)) = One(Kept(k, i))
        /\ \A b \in Keys(t) \ {a} : e.arefs[b] = k.arefs[b]
        /\ k.arefs[a] = 0 /\ e.arefs[a] = 1
    <3>1. k.link[s] = NoKey
      BY Zenon DEF s
    <3> QED BY <1>0, <1>5, <1>8, <3>1, Zenon
  <2>5. hb[h].kind = "reg" /\ hb[h].core = c /\ hb[h].key = a
    BY Zenon DEF a
  <2>6. Moves(Nothing, hb[h], c, k, e)
    BY <2>1, <2>2, <2>3, <2>4, <2>5, BindMoves
  <2> QED BY <2>6
<1>10. HolderFits(hb, c, e)
  BY <1>4, <1>8, <1>9, HolderMoves, SMTT(60)
<1>11. AlikeBut(k, e, a)
  BY <1>5 DEF AlikeBut
<1>12. e.arefs[a] > 0 /\ k.arefs[a] = 0 /\ a \in Keys(t)
  <2>1. a \in Keys(t)
    BY <1>4, Zenon
  <2>2. e.arefs[a] = 1 /\ k.arefs[a] = 0
    BY <1>5
  <2> QED BY <2>1, <2>2
<1> QED BY <1>4, <1>5, <1>6, <1>10, <1>11, <1>12, Zenon DEF a

\* The last registration closes the account, which gives the edge back.
LEMMA EndHolds ==
  ASSUME NEW n \in Nat, NEW t \in Nat, NEW k \in CoreIn(n, t), CoreFits(k),
         NEW ha \in [Handles -> HandleIn], NEW hb \in [Handles -> HandleIn], NEW h \in Handles,
         Turns(ha, hb, h), NEW c, HolderFits(ha, c, k),
         ha[h].kind = "reg", At(ha[h], c), hb[h] = Nothing, k.arefs[ha[h].key] = 1,
         NEW e, e = AccountClosed(k, ha[h].key)
  PROVE  /\ HolderFits(hb, c, e) /\ e \in CoreIn(n, t) /\ CoreFits(e) /\ SameHeader(e, k)
         /\ ha[h].key \in Keys(t) /\ e.arefs[ha[h].key] = 0 /\ k.owed[ha[h].key] \in Domains
         /\ AlikeBut(e, k, ha[h].key)
<1> DEFINE a == ha[h].key m == Ended(k, a) s == k.word[a]
<1>0. a \in Keys(t) /\ k.arefs[a] > 0 /\ ha[h].core = c
  BY UserRefs DEF At
<1>1. /\ m \in CoreIn(n, t) /\ CoreFits(m)
      /\ s \in Keys(n) /\ k.refs[s] > 0 /\ k.link[s] = a /\ k.owed[a] \in Domains
      /\ m.refs = k.refs /\ m.link = [k.link EXCEPT ![s] = NoKey]
      /\ m.arefs = [k.arefs EXCEPT ![a] = 0] /\ m.owed = [k.owed EXCEPT ![a] = NoDomain]
      /\ SameHeader(m, k)
  BY <1>0, Ends, SMTT(60)
<1>2. e = SlotReleased(m, s)
  BY DEF AccountClosed, Ended
<1> HIDE DEF m, s
<1>3. m.link[s] = NoKey /\ m.refs[s] > 0
  BY <1>1 DEF CoreIn
<1>4. /\ e \in CoreIn(n, t) /\ CoreFits(e) /\ e.refs = [m.refs EXCEPT ![s] = @ - 1]
      /\ \A i \in Keys(n) : e.refs[i] > 0 => e.link[i] = m.link[i]
      /\ SameAccounts(e, m) /\ SameHeader(e, m)
  <2> DEFINE q == SlotReleased(m, s)
  <2>1. m.refs[s] = 1 => m.link[s] = NoKey
    BY <1>3
  <2>2. /\ q \in CoreIn(n, t) /\ CoreFits(q) /\ q.refs = [m.refs EXCEPT ![s] = @ - 1]
        /\ \A i \in Keys(n) : q.refs[i] > 0 => q.link[i] = m.link[i]
        /\ SameAccounts(q, m) /\ SameHeader(q, m)
    <3>1. m \in CoreIn(n, t) /\ CoreFits(m) /\ s \in Keys(n)
      BY <1>1
    <3> HIDE DEF a
    <3> QED BY <1>3, <2>1, <3>1, Releases, SMTT(60)
  <2> HIDE DEF q
  <2>3. e = q
    BY <1>2 DEF q
  <2> QED BY <2>2, <2>3
<1> HIDE DEF a
<1>5. /\ \A i \in Keys(n) \ {s} : e.refs[i] = k.refs[i] /\ (e.refs[i] > 0 => e.link[i] = k.link[i])
      /\ e.refs[s] = k.refs[s] - 1 /\ (e.refs[s] > 0 => e.link[s] = NoKey)
      /\ DOMAIN k.refs = Keys(n) /\ DOMAIN e.refs = Keys(n)
      /\ DOMAIN k.arefs = Keys(t) /\ DOMAIN e.arefs = Keys(t)
      /\ \A b \in Keys(t) \ {a} : e.arefs[b] = k.arefs[b] /\ e.owed[b] = k.owed[b]
      /\ e.arefs[a] = 0 /\ k.refs[s] \in Nat
  <2>1. e.arefs = [k.arefs EXCEPT ![a] = 0] /\ e.owed = [k.owed EXCEPT ![a] = NoDomain]
    BY <1>1, <1>4 DEF SameAccounts
  <2>2. e.refs = [k.refs EXCEPT ![s] = @ - 1]
    BY <1>1, <1>4
  <2>3. k.link \in [Keys(n) -> Keys(n) \cup Keys(t) \cup {NoKey}] /\ k.owed \in [Keys(t) -> Domains \cup {NoDomain}]
    BY DEF CoreIn
  <2>4. /\ DOMAIN k.refs = Keys(n) /\ DOMAIN e.refs = Keys(n) /\ DOMAIN k.arefs = Keys(t) /\ DOMAIN e.arefs = Keys(t)
        /\ k.refs[s] \in Nat
    BY <1>1, <1>4, CoreFacts
  <2>5. \A i \in Keys(n) \ {s} : m.link[i] = k.link[i]
    BY <1>1, <2>3
  <2> QED BY <1>0, <1>1, <1>3, <1>4, <2>1, <2>2, <2>3, <2>4, <2>5
<1>6. SameHeader(e, k)
  BY <1>1, <1>4 DEF SameHeader
<1>61. a # NoKey
  BY <1>0, KeyFacts
<1>7. SoleThere(ha, h, c, e, s) /\ OneSlot(k, e, s)
  <2>1. ASSUME NEW f \in Handles, At(ha[f], c), ha[f].kind = "span", ha[f].key = s PROVE Sole(e, s)
    <3>1. Sole(k, s)
      BY <2>1 DEF HolderFits
    <3>2. k.refs[s] = 2
      BY <1>1, <1>61, <3>1 DEF Sole
    <3> QED BY <1>5, <3>2 DEF Sole
  <2> QED BY <1>5, <2>1 DEF SoleThere, OneSlot
<1>8. OthersSole(ha, h, c, e) /\ \A i \in Keys(n) \ {s} : One(Kept(e, i)) = One(Kept(k, i))
  BY <1>1, <1>4, <1>7, SlotAlone
<1>9. Moves(ha[h], hb[h], c, k, e)
  <2>1. /\ One(Names(ha[h], {"pool"}, c, NoKey)) = 0
        /\ \A i : /\ One(Names(ha[h], OfSlots, c, i)) = 0
                  /\ One(Names(ha[h], {"reg"}, c, i)) = IF i = a THEN 1 ELSE 0
    BY <1>0, NamesOne DEF a
  <2>2. \A i : /\ One(Names(hb[h], {"pool"}, c, i)) = 0 /\ One(Names(hb[h], OfSlots, c, i)) = 0
               /\ One(Names(hb[h], {"reg"}, c, i)) = 0
    BY NamesNone
  <2>3. One(~ e.detached) = One(~ k.detached)
    BY <1>6 DEF SameHeader
  <2>4. ASSUME NEW i \in Keys(n)
        PROVE  e.refs[i] + One(Kept(k, i)) + One(Names(ha[h], OfSlots, c, i))
                 = k.refs[i] + One(Kept(e, i)) + One(Names(hb[h], OfSlots, c, i))
    <3>1. CASE i = s
      <4>1. One(Kept(k, s)) = 1 /\ One(Kept(e, s)) = 0
        BY <1>1, <1>5, <1>61 DEF Kept, One
      <4> QED BY <1>5, <2>1, <2>2, <3>1, <4>1
    <3>2. CASE i # s
      BY <1>5, <1>8, <2>1, <2>2, <3>2
    <3> QED BY <3>1, <3>2
  <2>5. ASSUME NEW b \in Keys(t)
        PROVE  e.arefs[b] + One(Names(ha[h], {"reg"}, c, b)) = k.arefs[b] + One(Names(hb[h], {"reg"}, c, b))
    <3>1. k.arefs[b] \in Nat /\ k.arefs[a] = 1
      BY CoreFacts DEF a
    <3> QED BY <1>5, <2>1, <2>2, <3>1
  <2>6. ~ At(hb[h], c)
    BY NothingIs
  <2>7. One(~ e.detached) + One(Names(ha[h], {"pool"}, c, NoKey))
          = One(~ k.detached) + One(Names(hb[h], {"pool"}, c, NoKey))
    BY <2>1, <2>2, <2>3
  <2> QED BY <1>5, <2>4, <2>5, <2>6, <2>7 DEF Moves
<1>10. HolderFits(hb, c, e)
  BY <1>4, <1>8, <1>9, HolderMoves
<1>11. AlikeBut(e, k, a)
  BY <1>5 DEF AlikeBut
<1> QED BY <1>0, <1>1, <1>4, <1>5, <1>6, <1>10, <1>11 DEF a

\* A core nobody names yet, and its first handle.
LEMMA EmptyHolds ==
  ASSUME NEW n \in Nat, NEW t \in Nat, NEW k \in CoreIn(n, t), Unused(k) = Keys(n), OpenAccounts(k) = {},
         k.detached = TRUE, NEW ha \in [Handles -> HandleIn], NEW c, Unheld(ha, c)
  PROVE  HolderFits(ha, c, k)
<1>1. ASSUME NEW K, "none" \notin K, NEW i PROVE Cardinality(UsersOf(ha, K, c, i)) = 0
  <2>1. ~ \E h \in Handles : Names(ha[h], K, c, i)
    BY <1>1 DEF Unheld, Names, At
  <2>2. ~ Cardinality(UsersOf(ha, K, c, i)) > 0 /\ Cardinality(UsersOf(ha, K, c, i)) \in Nat
    BY <2>1, UserCounts
  <2> QED BY <2>2
<1>2. /\ Cardinality(UsersOf(ha, {"pool"}, c, NoKey)) = 0
      /\ \A i : Cardinality(UsersOf(ha, OfSlots, c, i)) = 0
      /\ \A i : Cardinality(UsersOf(ha, {"reg"}, c, i)) = 0
  <2>1. "none" \notin {"pool"} /\ "none" \notin OfSlots /\ "none" \notin {"reg"}
    BY DEF OfSlots
  <2> QED BY <1>1, <2>1
<1>3. \A s \in Keys(n) : k.refs[s] = 0 /\ One(Kept(k, s)) = 0
  BY DEF Unused, Kept, One
<1>4. \A a \in Keys(t) : k.arefs[a] = 0
  BY CoreFacts DEF OpenAccounts
<1>5. One(~ k.detached) = 0
  BY DEF One
<1> QED BY <1>2, <1>3, <1>4, <1>5, CoreFacts DEF HolderFits, Unheld

LEMMA NewPoolHolds ==
  ASSUME NEW n \in Nat, NEW t \in Nat, NEW e \in CoreIn(n, t), CoreFits(e),
         Unused(e) = Keys(n), OpenAccounts(e) = {}, e.detached = FALSE,
         NEW ha \in [Handles -> HandleIn], NEW hb \in [Handles -> HandleIn], NEW h \in Handles,
         Turns(ha, hb, h), NEW c, Unheld(ha, c),
         hb[h].kind = "pool", hb[h].core = c, hb[h].key = NoKey
  PROVE  HolderFits(hb, c, e)
<1> DEFINE k == [e EXCEPT !.detached = TRUE]
<1>1. k \in CoreIn(n, t) /\ k.detached = TRUE /\ SameSlots(k, e) /\ SameAccounts(k, e)
  BY Detaches
<1> HIDE DEF k
<1>2. Unused(k) = Keys(n) /\ OpenAccounts(k) = {}
  BY <1>1 DEF Unused, OpenAccounts, SameSlots, SameAccounts
<1>3. HolderFits(ha, c, k)
  BY <1>1, <1>2, EmptyHolds
<1>4. SameSlots(e, k) /\ SameAccounts(e, k)
  BY <1>1 DEF SameSlots, SameAccounts
<1>5. OthersSole(ha, h, c, e) /\ \A s \in Keys(n) : e.refs[s] = k.refs[s] /\ Kept(e, s) = Kept(k, s)
  BY <1>1, <1>3, <1>4, SlotsAlone
<1>6. Moves(ha[h], hb[h], c, k, e)
  <2>1. /\ One(Names(hb[h], {"pool"}, c, NoKey)) = 1
        /\ \A i : One(Names(hb[h], OfSlots, c, i)) = 0 /\ One(Names(hb[h], {"reg"}, c, i)) = 0
    BY NamesOne
  <2>2. ~ At(ha[h], c)
    BY DEF Unheld
  <2>3. \A i : /\ One(Names(ha[h], {"pool"}, c, i)) = 0 /\ One(Names(ha[h], OfSlots, c, i)) = 0
               /\ One(Names(ha[h], {"reg"}, c, i)) = 0
    BY <2>2 DEF At, Names, One, OfSlots
  <2>4. One(~ e.detached) = 1 /\ One(~ k.detached) = 0
    BY <1>1 DEF One
  <2>5. One(~ e.detached) + One(Names(ha[h], {"pool"}, c, NoKey))
          = One(~ k.detached) + One(Names(hb[h], {"pool"}, c, NoKey))
    BY <2>1, <2>3, <2>4
  <2>6. DOMAIN k.refs = Keys(n)
    BY <1>1, CoreFacts
  <2>7. \A s \in Keys(n) : e.refs[s] + One(Kept(k, s)) + One(Names(ha[h], OfSlots, c, s))
                             = k.refs[s] + One(Kept(e, s)) + One(Names(hb[h], OfSlots, c, s))
    BY <1>5, <2>1, <2>3
  <2>8. \A a \in DOMAIN k.arefs : e.arefs[a] + One(Names(ha[h], {"reg"}, c, a)) = k.arefs[a] + One(Names(hb[h], {"reg"}, c, a))
    BY <1>4, <2>1, <2>3 DEF SameAccounts
  <2> QED BY <2>5, <2>6, <2>7, <2>8 DEF Moves, KeyFits
<1> QED BY <1>1, <1>3, <1>5, <1>6, HolderMoves

LEMMA SeedHolds ==
  ASSUME NEW n \in Nat, NEW t \in Nat, NEW k \in CoreIn(n, t), CoreFits(k), k.free # NoKey,
         Unused(k) = Keys(n), OpenAccounts(k) = {},
         NEW ha \in [Handles -> HandleIn], NEW hb \in [Handles -> HandleIn], NEW h \in Handles,
         Turns(ha, hb, h), NEW c, Unheld(ha, c), ha[h] = Nothing,
         hb[h].kind = "span", hb[h].core = c, hb[h].key = k.free,
         NEW e, e = [Claimed(k) EXCEPT !.detached = TRUE]
  PROVE  /\ HolderFits(hb, c, e) /\ e \in CoreIn(n, t) /\ CoreFits(e)
         /\ OpenAccounts(e) = {} /\ e.root = k.root /\ e.charged = k.charged /\ e.cap = k.cap
<1> DEFINE m == [k EXCEPT !.detached = TRUE]
<1>1. m \in CoreIn(n, t) /\ CoreFits(m) /\ m.detached = TRUE /\ SameSlots(m, k) /\ SameAccounts(m, k)
      /\ m.cap = k.cap /\ m.root = k.root /\ m.charged = k.charged
  BY Detaches
<1>2. e = Claimed(m)
  BY DEF Claimed, CoreIn
<1> HIDE DEF m
<1>3. Unused(m) = Keys(n) /\ OpenAccounts(m) = {} /\ m.free = k.free
  BY <1>1 DEF Unused, OpenAccounts, SameSlots, SameAccounts
<1>4. HolderFits(ha, c, m)
  BY <1>1, <1>3, EmptyHolds
<1>5. HolderFits(hb, c, e)
  BY <1>1, <1>2, <1>3, <1>4, AcquireHolds
<1>6. e \in CoreIn(n, t) /\ CoreFits(e) /\ SameAccounts(e, m) /\ SameHeader(e, m)
  <2>1. m.free # NoKey
    BY <1>3
  <2>2. /\ Claimed(m) \in CoreIn(n, t) /\ CoreFits(Claimed(m))
        /\ SameAccounts(Claimed(m), m) /\ SameHeader(Claimed(m), m)
    BY <1>1, <2>1, Claims
  <2> QED BY <1>2, <2>2
<1>7. OpenAccounts(e) = {}
  BY <1>3, <1>6 DEF SameAccounts, OpenAccounts
<1> QED BY <1>1, <1>5, <1>6, <1>7 DEF SameHeader

-----------------------------------------------------------------------------
(* The invariant, and what every action needs of it. *)

IInv == PoolFits(core, handle) /\ ResidentFits(core, resident, limit) /\ lost \subseteq Handles

\* A handle names a core that exists, and no other.
LEMMA HeldFacts ==
  ASSUME NEW co, NEW ha, PoolFits(co, ha), NEW h \in Handles, ha[h].kind # "none"
  PROVE  /\ ha[h].core \in Cores /\ At(ha[h], ha[h].core) /\ Stays(ha[h], ha[h].core)
         /\ ha[h] \in [kind : {"pool", "span", "edge", "reg"}, core : Cores, key : Int]
         /\ co[ha[h].core] # Gone /\ co[ha[h].core] \in CoreSet
         /\ \E n, t \in Nat : co[ha[h].core] \in CoreIn(n, t)
         /\ CoreFits(co[ha[h].core]) /\ HolderFits(ha, ha[h].core, co[ha[h].core])
<1>1. ha[h] \in [kind : {"pool", "span", "edge", "reg"}, core : Cores, key : Int]
  BY DEF PoolFits, HandleIn, Nothing
<1>2. ha[h].core \in Cores /\ At(ha[h], ha[h].core) /\ Stays(ha[h], ha[h].core)
  BY <1>1 DEF At, Stays
<1>3. CoreHolds(co, ha, ha[h].core) /\ co[ha[h].core] \in CoreSet
  BY <1>2 DEF PoolFits
<1>4. ~ Unheld(ha, ha[h].core)
  BY <1>2 DEF Unheld
<1>5. /\ co[ha[h].core] # Gone
      /\ CoreFits(co[ha[h].core]) /\ HolderFits(ha, ha[h].core, co[ha[h].core])
  BY <1>3, <1>4 DEF CoreHolds
<1> QED BY <1>1, <1>2, <1>3, <1>5, CoreKinds

LEMMA VacantFacts ==
  ASSUME NEW ha \in [Handles -> HandleIn], NEW h \in Handles, ha[h].kind = "none"
  PROVE  ha[h] = Nothing /\ \A c : Stays(ha[h], c)
<1>1. ha[h] = Nothing
  <2>1. ha[h] \in HandleIn
    OBVIOUS
  <2> QED BY <2>1 DEF HandleIn
<1> QED BY <1>1, NothingIs DEF Stays

LEMMA GivenFacts ==
  ASSUME NEW ha \in [Handles -> HandleIn], NEW h \in Handles, NEW y \in HandleIn,
         NEW hb, hb = [ha EXCEPT ![h] = y]
  PROVE  hb \in [Handles -> HandleIn] /\ Turns(ha, hb, h) /\ hb[h] = y
BY DEF Turns

LEMMA ToStays ==
  ASSUME NEW kind \in {"pool", "span", "edge", "reg"}, NEW c \in Cores, NEW i \in Int
  PROVE  Stays(To(kind, c, i), c)
BY DEF Stays, At, To

\* A step that charges nothing,
LEMMA ResidentKeeps ==
  ASSUME NEW co \in [Cores -> CoreSet], NEW re, NEW li, ResidentFits(co, re, li),
         NEW c \in Cores, NEW e \in CoreSet, NEW cb, cb = [co EXCEPT ![c] = e],
         \A d \in Domains : CoreBytes(e, d) = CoreBytes(co[c], d)
  PROVE  ResidentFits(cb, re, li)
<1>1. re \in [Domains -> Nat]
  BY DEF ResidentFits
<1>2. re \in [Domains -> Int]
  BY <1>1, NatIsInt
<1>3. Charges(re, re, co, c, e)
  <2> SUFFICES ASSUME NEW d \in Domains PROVE re[d] = re[d] + CoreBytes(e, d) - CoreBytes(co[c], d)
    BY DEF Charges
  <2>1. CoreBytes(co[c], d) \in Nat /\ re[d] \in Nat
    BY <1>1, BytesNat
  <2> QED BY <2>1
<1>4. Within(re, re, li)
  BY DEF ResidentFits, Within
<1> QED BY <1>2, <1>3, <1>4, ResidentMoves

Lowers(r, re) == \A d \in Domains : r[d] <= re[d]

\* and one that may retire the core.
LEMMA ResidentRetires ==
  ASSUME NEW co \in [Cores -> CoreSet], NEW re, NEW li, ResidentFits(co, re, li),
         NEW c \in Cores, NEW n \in Nat, NEW t \in Nat, NEW e \in CoreIn(n, t), CoreFits(e),
         Retires(e) => OpenAccounts(e) = {},
         NEW r \in [Domains -> Int],
         Charges(re, r, co, c, e), Lowers(r, re),
         NEW cb, cb = [co EXCEPT ![c] = IF Retires(e) THEN Gone ELSE e],
         NEW rb, rb = IF Retires(e) THEN Refunded(r, e.root, e.charged) ELSE r
  PROVE  ResidentFits(cb, rb, li)
<1>0. e \in CoreSet /\ Gone \in CoreSet /\ e # Gone
  BY CoreKinds, CoreFacts
<1>1. CASE ~ Retires(e)
  <2>1. cb = [co EXCEPT ![c] = e] /\ rb = r
    BY <1>1
  <2>2. rb \in [Domains -> Int] /\ Charges(re, rb, co, c, e) /\ Within(rb, re, li)
    BY <2>1 DEF Within, Lowers
  <2>3. e \in CoreSet /\ cb = [co EXCEPT ![c] = e]
    BY <1>0, <2>1
  <2> QED BY <2>2, <2>3, ResidentMoves
<1>2. CASE Retires(e)
  <2>1. cb = [co EXCEPT ![c] = Gone] /\ rb = Refunded(r, e.root, e.charged)
    BY <1>2
  <2>2. e.root \in Domains \cup {NoDomain} /\ e.charged \in Nat
    BY DEF CoreIn
  <2>3. \A d \in Domains : /\ CoreBytes(e, d) = (IF e.root = d THEN e.charged ELSE 0) /\ CoreBytes(Gone, d) = 0
                           /\ CoreBytes(co[c], d) \in Nat
    <3> SUFFICES ASSUME NEW d \in Domains
                 PROVE  /\ CoreBytes(e, d) = (IF e.root = d THEN e.charged ELSE 0) /\ CoreBytes(Gone, d) = 0
                        /\ CoreBytes(co[c], d) \in Nat
      OBVIOUS
    <3>1. Owing(e, d) = {}
      BY <1>2 DEF Owing
    <3>2. Cardinality(Owing(e, d)) = 0
      BY <3>1, FS_EmptySet
    <3>3. /\ CoreBytes(e, d) = (IF e.root = d THEN e.charged ELSE 0) + e.cap * Cardinality(Owing(e, d))
          /\ e.cap \in Nat /\ e.charged \in Nat
      BY Bytes
    <3>4. e.cap * 0 = 0 /\ (IF e.root = d THEN e.charged ELSE 0) \in Nat
      BY <3>3
    <3>5. CoreBytes(Gone, d) = 0 /\ CoreBytes(co[c], d) \in Nat
      BY <1>0, BytesNat
    <3> QED BY <3>2, <3>3, <3>4, <3>5
  <2>4. rb \in [Domains -> Int] /\ \A d \in Domains : rb[d] = r[d] - (IF e.root = d THEN e.charged ELSE 0)
    <3>1. CASE e.root = NoDomain
      <4>1. rb = r /\ \A d \in Domains : e.root # d
        BY <2>1, <3>1, Constants DEF Refunded
      <4> QED BY <4>1
    <3>2. CASE e.root \in Domains
      <4>1. rb = [r EXCEPT ![e.root] = @ - e.charged]
        BY <2>1, <3>2, Constants DEF Refunded
      <4> QED BY <2>2, <3>2, <4>1
    <3> QED BY <2>2, <3>1, <3>2
  <2>5. re \in [Domains -> Nat]
    BY DEF ResidentFits
  <2>6. Charges(re, rb, co, c, Gone)
    <3> SUFFICES ASSUME NEW d \in Domains PROVE rb[d] = re[d] + CoreBytes(Gone, d) - CoreBytes(co[c], d)
      BY DEF Charges
    <3>1. /\ rb[d] = r[d] - CoreBytes(e, d) /\ r[d] = re[d] + CoreBytes(e, d) - CoreBytes(co[c], d)
          /\ CoreBytes(Gone, d) = 0
      BY <2>3, <2>4 DEF Charges
    <3>2. CoreBytes(e, d) \in Int /\ re[d] \in Int /\ CoreBytes(co[c], d) \in Int
      BY <1>0, <2>3, <2>5, BytesNat
    <3> QED BY <3>1, <3>2
  <2>7. Within(rb, re, li)
    <3> SUFFICES ASSUME NEW d \in Domains PROVE rb[d] <= re[d]
      BY DEF Within
    <3>1. (IF e.root = d THEN e.charged ELSE 0) \in Nat /\ r[d] \in Int /\ re[d] \in Int
      BY <2>2, <2>5
    <3>2. rb[d] = r[d] - (IF e.root = d THEN e.charged ELSE 0) /\ r[d] <= re[d]
      BY <2>4 DEF Lowers
    <3> QED BY <3>1, <3>2
  <2>8. rb \in [Domains -> Int]
    BY <2>4
  <2> QED BY <1>0, <2>1, <2>6, <2>7, <2>8, ResidentMoves
<1> QED BY <1>1, <1>2

LEMMA Unmoved ==
  ASSUME NEW n \in Nat, NEW t \in Nat, NEW k \in CoreIn(n, t), NEW e \in CoreIn(n, t),
         SameAccounts(e, k), SameRoot(e, k)
  PROVE  \A d : CoreBytes(e, d) = CoreBytes(k, d)
<1>1. OpenAccounts(e) = OpenAccounts(k) /\ e.owed = k.owed
  BY DEF SameAccounts, OpenAccounts
<1> QED BY <1>1, BytesSame

-----------------------------------------------------------------------------
(* One lemma for each action. *)

\* What a handle that is dropped leaves behind.
LEMMA DropsKeep ==
  ASSUME IInv, NEW h \in Handles, NEW c \in Cores, NEW n \in Nat, NEW t \in Nat,
         NEW e \in CoreIn(n, t), CoreFits(e), handle[h].kind # "none", c = handle[h].core,
         HolderFits(handle', c, e), Gives(h, Nothing),
         NEW r \in [Domains -> Int],
         Charges(resident, r, core, c, e), Lowers(r, resident),
         Retire(c, e, r), UNCHANGED <<limit, lost>>
  PROVE  IInv'
<1>1. /\ core \in [Cores -> CoreSet] /\ handle \in [Handles -> HandleIn]
      /\ PoolFits(core, handle) /\ ResidentFits(core, resident, limit)
  BY DEF IInv, PoolFits
<1>2. handle' \in [Handles -> HandleIn] /\ Turns(handle, handle', h) /\ handle'[h] = Nothing
  BY <1>1, NothingIs, GivenFacts DEF Gives
<1>3. Stays(handle[h], c) /\ Stays(handle'[h], c)
  BY <1>1, <1>2, HeldFacts, NothingIs DEF Stays
<1>4. core' = [core EXCEPT ![c] = IF Retires(e) THEN Gone ELSE e]
      /\ resident' = IF Retires(e) THEN Refunded(r, e.root, e.charged) ELSE r
  BY DEF Retire
<1>5. PoolFits(core', handle')
  BY <1>1, <1>2, <1>3, <1>4, PoolDrops
<1>6. Retires(e) => OpenAccounts(e) = {}
  BY <1>2, RetiredUnheld
<1>7. ResidentFits(core', resident', limit)
  BY <1>1, <1>4, <1>6, ResidentRetires
<1> QED BY <1>5, <1>7 DEF IInv

\* A core is made and charged, with a handle of its own.
LEMMA Creates ==
  ASSUME NEW co, NEW ha, PoolFits(co, ha), NEW re, NEW li, ResidentFits(co, re, li),
         NEW h \in Handles, NEW c \in Cores, co[c] = Gone, ha[h] = Nothing,
         NEW hb \in [Handles -> HandleIn], Turns(ha, hb, h), At(hb[h], c), Stays(hb[h], c),
         NEW n \in Nat, NEW t \in Nat, NEW e \in CoreIn(n, t), CoreFits(e), OpenAccounts(e) = {},
         HolderFits(hb, c, e), NEW cb, cb = [co EXCEPT ![c] = e],
         NEW rb, rb = IF e.root = NoDomain THEN re ELSE Charged(re, e.root, e.charged),
         e.root # NoDomain => e.charged <= li[e.root] - re[e.root]
  PROVE  PoolFits(cb, hb) /\ ResidentFits(cb, rb, li)
<1>1. Stays(ha[h], c)
  BY NothingIs DEF Stays
<1>2. PoolFits(cb, hb)
  BY <1>1, PoolKeeps
<1>3. co \in [Cores -> CoreSet] /\ e \in CoreSet
  BY CoreKinds DEF PoolFits
<1>4. re \in [Domains -> Nat] /\ li \in [Domains -> Nat]
  BY DEF ResidentFits
<1>5. e.root \in Domains \cup {NoDomain} /\ e.charged \in Nat /\ NoDomain \notin Domains
  BY Constants DEF CoreIn
<1>6. \A d \in Domains : CoreBytes(e, d) = (IF e.root = d THEN e.charged ELSE 0) /\ CoreBytes(co[c], d) = 0
  <2> SUFFICES ASSUME NEW d \in Domains
               PROVE  CoreBytes(e, d) = (IF e.root = d THEN e.charged ELSE 0) /\ CoreBytes(co[c], d) = 0
    OBVIOUS
  <2>1. Owing(e, d) = {}
    BY DEF Owing
  <2>2. Cardinality(Owing(e, d)) = 0
    BY <2>1, FS_EmptySet
  <2>3. /\ CoreBytes(e, d) = (IF e.root = d THEN e.charged ELSE 0) + e.cap * Cardinality(Owing(e, d))
        /\ e.cap \in Nat
    BY Bytes
  <2>4. e.cap * 0 = 0 /\ (IF e.root = d THEN e.charged ELSE 0) \in Nat
    BY <1>5, <2>3
  <2>5. CoreBytes(co[c], d) = 0
    BY <1>3, BytesNat
  <2> QED BY <2>2, <2>3, <2>4, <2>5
<1>7. /\ rb \in [Domains -> Int]
      /\ \A d \in Domains : rb[d] = re[d] + (IF e.root = d THEN e.charged ELSE 0)
      /\ Within(rb, re, li)
  <2>1. CASE e.root = NoDomain
    <3>1. rb = re /\ \A d \in Domains : e.root # d
      BY <1>5, <2>1
    <3> QED BY <1>4, <3>1 DEF Within
  <2>2. CASE e.root \in Domains
    <3> DEFINE b == e.root v == e.charged
    <3>1. rb = [re EXCEPT ![b] = @ + v] /\ v <= li[b] - re[b] /\ b \in Domains /\ v \in Nat
      BY <1>5, <2>2 DEF Charged
    <3> HIDE DEF b, v
    <3>2. rb \in [Domains -> Int] /\ rb[b] = re[b] + v /\ \A d \in Domains \ {b} : rb[d] = re[d]
      BY <1>4, <3>1
    <3>3. \A d \in Domains : re[d] \in Nat /\ li[d] \in Nat
      BY <1>4
    <3>4. rb[b] <= li[b]
      BY <3>1, <3>2, <3>3
    <3>5. Within(rb, re, li)
      BY <3>2, <3>3, <3>4 DEF Within
    <3>6. \A d \in Domains : rb[d] = re[d] + (IF b = d THEN v ELSE 0)
      BY <3>1, <3>2, <3>3
    <3> QED BY <3>2, <3>5, <3>6 DEF b, v
  <2> QED BY <1>5, <2>1, <2>2
<1>8. Charges(re, rb, co, c, e)
  <2> SUFFICES ASSUME NEW d \in Domains PROVE rb[d] = re[d] + CoreBytes(e, d) - CoreBytes(co[c], d)
    BY DEF Charges
  <2>1. re[d] \in Int /\ (IF e.root = d THEN e.charged ELSE 0) \in Int
    BY <1>4, <1>5
  <2> QED BY <1>6, <1>7, <2>1
<1>9. ResidentFits(cb, rb, li)
  BY <1>3, <1>7, <1>8, ResidentMoves
<1> QED BY <1>2, <1>9

LEMMA NewPoolKeeps ==
  ASSUME IInv, NEW h \in Handles, NEW c \in Cores, NEW n \in SlotCounts, NEW cap \in Caps,
         NEW t \in Tallies, NEW d \in Domains \cup {NoDomain}, NewPool(h, c, n, cap, t, d)
  PROVE  IInv'
<1> DEFINE bytes == IF d = NoDomain THEN 0 ELSE n * cap
           e == NewCore(n, cap, t, d, bytes)
<1>1. n \in Nat /\ t \in Nat /\ cap \in Nat \ {0} /\ bytes \in Nat /\ (d # NoDomain => bytes = n * cap)
  BY Constants
<1>2. /\ e \in CoreIn(n, t) /\ CoreFits(e) /\ OpenAccounts(e) = {} /\ Unused(e) = Keys(n)
  BY <1>1, Starts
<1>3. e.detached = FALSE /\ e.root = d /\ e.charged = bytes
  BY DEF NewCore
<1>4. /\ core \in [Cores -> CoreSet] /\ handle \in [Handles -> HandleIn]
      /\ PoolFits(core, handle) /\ ResidentFits(core, resident, limit)
  BY DEF IInv, PoolFits
<1>5. /\ handle[h].kind = "none" /\ core[c] = Gone /\ core' = [core EXCEPT ![c] = e]
      /\ handle' = [handle EXCEPT ![h] = To("pool", c, NoKey)] /\ limit' = limit /\ lost' = lost
      /\ resident' = IF d = NoDomain THEN resident ELSE Charged(resident, d, bytes)
      /\ d # NoDomain => bytes <= limit[d] - resident[d]
  BY DEF NewPool, Vacant, Gives, Affords
<1> HIDE DEF e, bytes
<1>6. NoKey \in Int /\ "pool" \in {"pool", "span", "edge", "reg"}
  BY DEF NoKey
<1>7. /\ handle' \in [Handles -> HandleIn] /\ Turns(handle, handle', h)
      /\ handle'[h] = To("pool", c, NoKey)
      /\ At(handle'[h], c) /\ handle'[h].kind = "pool" /\ handle'[h].core = c /\ handle'[h].key = NoKey
      /\ Stays(handle'[h], c)
  <2>1. To("pool", c, NoKey) \in HandleIn /\ At(To("pool", c, NoKey), c) /\ Stays(To("pool", c, NoKey), c)
        /\ To("pool", c, NoKey).kind = "pool" /\ To("pool", c, NoKey).core = c /\ To("pool", c, NoKey).key = NoKey
    BY <1>6, ToIs, ToStays
  <2> QED BY <1>4, <1>5, <2>1, GivenFacts
<1>8. handle[h] = Nothing /\ Unheld(handle, c)
  BY <1>4, <1>5, VacantFacts DEF PoolFits, CoreHolds
<1>9. HolderFits(handle', c, e)
  BY <1>1, <1>2, <1>3, <1>4, <1>7, <1>8, NewPoolHolds
<1>10. PoolFits(core', handle') /\ ResidentFits(core', resident', limit)
  <2>1. resident' = IF e.root = NoDomain THEN resident ELSE Charged(resident, e.root, e.charged)
    BY <1>3, <1>5
  <2>2. e.root # NoDomain => e.charged <= limit[e.root] - resident[e.root]
    BY <1>3, <1>5
  <2>3. /\ PoolFits(core, handle) /\ ResidentFits(core, resident, limit)
        /\ core[c] = Gone /\ core' = [core EXCEPT ![c] = e] /\ handle[h] = Nothing
        /\ handle' \in [Handles -> HandleIn] /\ Turns(handle, handle', h)
        /\ At(handle'[h], c) /\ Stays(handle'[h], c)
    BY <1>4, <1>5, <1>7, <1>8
  <2>4. n \in Nat /\ t \in Nat /\ e \in CoreIn(n, t) /\ CoreFits(e) /\ OpenAccounts(e) = {}
    BY <1>1, <1>2
  <2> QED BY <1>9, <2>1, <2>2, <2>3, <2>4, Creates
<1> QED BY <1>5, <1>10 DEF IInv

LEMMA NewPoolFailsKeeps ==
  ASSUME IInv, NEW n \in SlotCounts, NEW cap \in Caps, NEW d \in Domains, NewPoolFails(n, cap, d)
  PROVE  IInv'
<1>1. resident \in [Domains -> Nat]
  BY DEF IInv, ResidentFits
<1>2. n * cap \in Nat
  <2>1. n \in Nat /\ cap \in Nat
    BY Constants
  <2> QED BY <2>1
<1> DEFINE b == n * cap
<1>3. resident' = Refunded(Charged(resident, d, b), d, b)
  BY DEF NewPoolFails
<1> HIDE DEF b
<1>4. b \in Nat
  BY <1>2 DEF b
<1>5. resident' = resident
  <2>1. resident' = [[resident EXCEPT ![d] = @ + b] EXCEPT ![d] = @ - b]
    BY <1>3, Constants DEF Refunded, Charged
  <2>2. resident[d] \in Nat /\ (resident[d] + b) - b = resident[d]
    BY <1>1, <1>4
  <2> QED BY <1>1, <2>1, <2>2
<1> QED BY <1>5 DEF IInv, NewPoolFails

LEMMA SeedKeeps ==
  ASSUME IInv, NEW h \in Handles, NEW c \in Cores, NEW cap \in Caps,
         NEW t \in Tallies, NEW d \in Domains \cup {NoDomain}, Seed(h, c, cap, t, d)
  PROVE  IInv'
<1> DEFINE bytes == IF d = NoDomain THEN 0 ELSE cap
           k == NewCore(1, cap, t, d, bytes)
           e == [Claimed(k) EXCEPT !.detached = TRUE]
<1>1. 1 \in Nat /\ t \in Nat /\ cap \in Nat \ {0} /\ bytes \in Nat /\ (d # NoDomain => bytes = 1 * cap)
  BY Constants
<1>2. /\ k \in CoreIn(1, t) /\ CoreFits(k) /\ OpenAccounts(k) = {} /\ Unused(k) = Keys(1)
  BY <1>1, Starts, SMTT(60)
<1>3. k.free = 0 /\ 0 # NoKey /\ k.root = d /\ k.charged = bytes
  BY DEF NewCore, First, NoKey
<1>4. /\ core \in [Cores -> CoreSet] /\ handle \in [Handles -> HandleIn]
      /\ PoolFits(core, handle) /\ ResidentFits(core, resident, limit)
  BY DEF IInv, PoolFits
<1>5. /\ handle[h].kind = "none" /\ core[c] = Gone /\ core' = [core EXCEPT ![c] = e]
      /\ handle' = [handle EXCEPT ![h] = To("span", c, 0)] /\ limit' = limit /\ lost' = lost
      /\ resident' = IF d = NoDomain THEN resident ELSE Charged(resident, d, bytes)
      /\ d # NoDomain => bytes <= limit[d] - resident[d]
  BY DEF Seed, Vacant, Gives, Affords
<1> HIDE DEF k, e, bytes
<1>6. /\ handle' \in [Handles -> HandleIn] /\ Turns(handle, handle', h)
      /\ At(handle'[h], c) /\ handle'[h].kind = "span" /\ handle'[h].core = c /\ handle'[h].key = 0
      /\ Stays(handle'[h], c)
  <2>1. To("span", c, 0) \in HandleIn /\ At(To("span", c, 0), c) /\ Stays(To("span", c, 0), c)
        /\ To("span", c, 0).kind = "span" /\ To("span", c, 0).core = c /\ To("span", c, 0).key = 0
    BY ToIs, ToStays
  <2> QED BY <1>4, <1>5, <2>1, GivenFacts
<1>7. handle[h] = Nothing /\ Unheld(handle, c)
  BY <1>4, <1>5, VacantFacts DEF PoolFits, CoreHolds
<1>8. /\ HolderFits(handle', c, e) /\ e \in CoreIn(1, t) /\ CoreFits(e)
      /\ OpenAccounts(e) = {} /\ e.root = d /\ e.charged = bytes
  <2>1. e = [Claimed(k) EXCEPT !.detached = TRUE]
    BY DEF e
  <2>2. k.free # NoKey /\ handle'[h].key = k.free
    BY <1>3, <1>6
  <2>3. /\ HolderFits(handle', c, e) /\ e \in CoreIn(1, t) /\ CoreFits(e)
        /\ OpenAccounts(e) = {} /\ e.root = k.root /\ e.charged = k.charged
    <3> DEFINE n == 1
    <3>1. n \in Nat /\ t \in Nat /\ k \in CoreIn(n, t) /\ Unused(k) = Keys(n)
      BY <1>1, <1>2
    <3>2. CoreFits(k) /\ OpenAccounts(k) = {} /\ k.free # NoKey
      BY <1>2, <2>2
    <3>3. /\ handle \in [Handles -> HandleIn] /\ handle' \in [Handles -> HandleIn] /\ Turns(handle, handle', h)
          /\ Unheld(handle, c) /\ handle[h] = Nothing
          /\ handle'[h].kind = "span" /\ handle'[h].core = c /\ handle'[h].key = k.free
      BY <1>4, <1>6, <1>7, <2>2
    <3> HIDE DEF n
    <3> DEFINE q == [Claimed(k) EXCEPT !.detached = TRUE]
    <3>4. HolderFits(handle', c, q)
      BY <3>1, <3>2, <3>3, SeedHolds
    <3>5. q \in CoreIn(n, t) /\ CoreFits(q)
      BY <3>1, <3>2, <3>3, SeedHolds
    <3>6. OpenAccounts(q) = {}
      BY <3>1, <3>2, <3>3, SeedHolds
    <3>7. q.root = k.root /\ q.charged = k.charged
      <4>1. SameHeader(Claimed(k), k) /\ Claimed(k) \in CoreIn(n, t)
        BY <3>1, <3>2, Claims
      <4> QED BY <4>1 DEF SameHeader, CoreIn
    <3> HIDE DEF q
    <3>8. e = q
      BY <2>1 DEF q
    <3> QED BY <3>4, <3>5, <3>6, <3>7, <3>8 DEF n
  <2> QED BY <1>3, <2>3
<1>9. PoolFits(core', handle') /\ ResidentFits(core', resident', limit)
  <2>1. resident' = IF e.root = NoDomain THEN resident ELSE Charged(resident, e.root, e.charged)
    BY <1>5, <1>8
  <2>2. e.root # NoDomain => e.charged <= limit[e.root] - resident[e.root]
    BY <1>5, <1>8
  <2>3. /\ PoolFits(core, handle) /\ ResidentFits(core, resident, limit)
        /\ core[c] = Gone /\ core' = [core EXCEPT ![c] = e] /\ handle[h] = Nothing
        /\ handle' \in [Handles -> HandleIn] /\ Turns(handle, handle', h)
        /\ At(handle'[h], c) /\ Stays(handle'[h], c)
    BY <1>4, <1>5, <1>6, <1>7
  <2>4. 1 \in Nat /\ t \in Nat /\ e \in CoreIn(1, t) /\ CoreFits(e) /\ OpenAccounts(e) = {} /\ HolderFits(handle', c, e)
    BY <1>1, <1>8
  <2> QED BY <2>1, <2>2, <2>3, <2>4, Creates
<1> QED BY <1>5, <1>9 DEF IInv

\* A core that stays, a handle that comes to it, and nothing charged.
LEMMA ComesKeeps ==
  ASSUME IInv, NEW h \in Handles, NEW c \in Cores, Stays(handle[h], c), core[c] # Gone,
         NEW n \in Nat, NEW t \in Nat, NEW e \in CoreIn(n, t), CoreFits(e),
         handle' \in [Handles -> HandleIn], Turns(handle, handle', h), At(handle'[h], c), Stays(handle'[h], c),
         HolderFits(handle', c, e), core' = [core EXCEPT ![c] = e],
         \A d : CoreBytes(e, d) = CoreBytes(core[c], d),
         UNCHANGED <<resident, limit, lost>>
  PROVE  IInv'
<1>1. /\ core \in [Cores -> CoreSet] /\ handle \in [Handles -> HandleIn]
      /\ PoolFits(core, handle) /\ ResidentFits(core, resident, limit)
  BY DEF IInv, PoolFits
<1>2. PoolFits(core', handle')
  BY <1>1, PoolKeeps
<1>3. e \in CoreSet
  BY CoreKinds
<1>4. ResidentFits(core', resident, limit)
  BY <1>1, <1>3, ResidentKeeps
<1> QED BY <1>2, <1>4 DEF IInv

\* What a step through a held handle starts from.
LEMMA HeldStart ==
  ASSUME IInv, NEW h \in Handles, NEW kinds \in SUBSET {"pool", "span", "edge", "reg"}, Held(h, kinds)
  PROVE  /\ handle[h].kind \in kinds /\ handle[h].core \in Cores
         /\ At(handle[h], handle[h].core) /\ Stays(handle[h], handle[h].core)
         /\ core[handle[h].core] # Gone /\ core[handle[h].core] \in CoreSet
         /\ \E n, t \in Nat : core[handle[h].core] \in CoreIn(n, t)
         /\ CoreFits(core[handle[h].core]) /\ HolderFits(handle, handle[h].core, core[handle[h].core])
         /\ core \in [Cores -> CoreSet] /\ handle \in [Handles -> HandleIn]
<1>1. handle[h].kind \in kinds /\ handle[h].kind # "none" /\ PoolFits(core, handle)
  BY DEF Held, IInv
<1> QED BY <1>1, HeldFacts DEF PoolFits

\* and what one that fills a vacant handle does.
LEMMA GivenStart ==
  ASSUME IInv, NEW h \in Handles, Vacant(h), NEW kind \in {"pool", "span", "edge", "reg"},
         NEW c \in Cores, NEW i \in Int, Gives(h, To(kind, c, i))
  PROVE  /\ handle[h] = Nothing /\ Stays(handle[h], c)
         /\ handle' \in [Handles -> HandleIn] /\ Turns(handle, handle', h)
         /\ handle'[h].kind = kind /\ handle'[h].core = c /\ handle'[h].key = i
         /\ At(handle'[h], c) /\ Stays(handle'[h], c)
<1>1. handle \in [Handles -> HandleIn]
  BY DEF IInv, PoolFits
<1>2. handle[h] = Nothing /\ Stays(handle[h], c)
  BY <1>1, VacantFacts DEF Vacant
<1>3. /\ To(kind, c, i) \in HandleIn /\ At(To(kind, c, i), c) /\ Stays(To(kind, c, i), c)
      /\ To(kind, c, i).kind = kind /\ To(kind, c, i).core = c /\ To(kind, c, i).key = i
  BY ToIs, ToStays
<1>4. handle' \in [Handles -> HandleIn] /\ Turns(handle, handle', h) /\ handle'[h] = To(kind, c, i)
  BY <1>1, <1>3, GivenFacts DEF Gives
<1> QED BY <1>2, <1>3, <1>4

LEMMA AcquireKeeps ==
  ASSUME IInv, NEW p \in Handles, NEW h \in Handles, Acquire(p, h)
  PROVE  IInv'
<1> DEFINE c == handle[p].core k == core[c] e == Claimed(k)
<1>1. Held(p, {"pool"}) /\ {"pool"} \in SUBSET {"pool", "span", "edge", "reg"}
  BY DEF Acquire
<1>2. /\ c \in Cores /\ k # Gone /\ CoreFits(k) /\ HolderFits(handle, c, k)
      /\ core \in [Cores -> CoreSet] /\ handle \in [Handles -> HandleIn]
  BY <1>1, HeldStart
<1>3. PICK n, t \in Nat : k \in CoreIn(n, t)
  BY <1>1, HeldStart
<1>4. k.free # NoKey /\ core' = [core EXCEPT ![c] = e] /\ Vacant(h) /\ Gives(h, To("span", c, k.free))
      /\ UNCHANGED <<resident, limit, lost>>
  BY DEF Acquire
<1> HIDE DEF c, k
<1>5. /\ e \in CoreIn(n, t) /\ CoreFits(e) /\ k.free \in Keys(n) /\ SameAccounts(e, k) /\ SameHeader(e, k)
  BY <1>2, <1>3, <1>4, Claims
<1>6. /\ handle[h] = Nothing /\ Stays(handle[h], c)
      /\ handle' \in [Handles -> HandleIn] /\ Turns(handle, handle', h)
      /\ handle'[h].kind = "span" /\ handle'[h].core = c /\ handle'[h].key = k.free
      /\ At(handle'[h], c) /\ Stays(handle'[h], c)
  <2>1. k.free \in Int
    BY <1>5, KeyFacts
  <2> QED BY <1>2, <1>4, <2>1, GivenStart
<1> HIDE DEF e
<1>7. HolderFits(handle', c, e)
  BY <1>2, <1>3, <1>4, <1>6, AcquireHolds DEF e
<1>8. \A d : CoreBytes(e, d) = CoreBytes(core[c], d)
  BY <1>3, <1>5, Unmoved DEF k, SameHeader, SameRoot
<1>9. core[c] # Gone
  BY <1>2 DEF k
<1> QED BY <1>2, <1>4, <1>5, <1>6, <1>7, <1>8, <1>9, ComesKeeps

LEMMA RetainEdgeKeeps ==
  ASSUME IInv, NEW h \in Handles, NEW g \in Handles, RetainEdge(h, g)
  PROVE  IInv'
<1> DEFINE c == handle[h].core k == core[c] s == handle[h].key e == [k EXCEPT !.refs[s] = @ + 1]
<1>1. Held(h, {"edge"}) /\ {"edge"} \in SUBSET {"pool", "span", "edge", "reg"}
  BY DEF RetainEdge
<1>2. /\ c \in Cores /\ k # Gone /\ CoreFits(k) /\ HolderFits(handle, c, k)
      /\ handle[h].kind = "edge" /\ At(handle[h], c) /\ Stays(handle[h], c)
      /\ core \in [Cores -> CoreSet] /\ handle \in [Handles -> HandleIn]
  BY <1>1, HeldStart
<1>3. PICK n, t \in Nat : k \in CoreIn(n, t)
  BY <1>1, HeldStart
<1>4. k.refs[s] < MaxRefs /\ core' = [core EXCEPT ![c] = e] /\ Vacant(g) /\ handle' = [handle EXCEPT ![g] = handle[h]]
      /\ UNCHANGED <<resident, limit, lost>>
  <2>1. core' = [core EXCEPT ![c].refs[s] = @ + 1]
    BY DEF RetainEdge
  <2>2. core' = [core EXCEPT ![c] = e]
    BY <1>2, <2>1
  <2> QED BY <2>2 DEF RetainEdge, Gives
<1> HIDE DEF c, k, e
<1>5. handle[g] = Nothing /\ Stays(handle[g], c)
  BY <1>2, <1>4, VacantFacts DEF Vacant
<1>6. handle' \in [Handles -> HandleIn] /\ Turns(handle, handle', g) /\ handle'[g] = handle[h]
  <2>1. handle[h] \in HandleIn
    BY <1>2
  <2> QED BY <1>2, <1>4, <2>1, GivenFacts
<1>7. /\ HolderFits(handle', c, e) /\ e \in CoreIn(n, t) /\ CoreFits(e)
      /\ SameAccounts(e, k) /\ SameHeader(e, k)
  <2>1. e = [k EXCEPT !.refs[handle[h].key] = @ + 1] /\ k.refs[handle[h].key] < MaxRefs
    BY <1>4 DEF e
  <2> QED BY <1>2, <1>3, <1>5, <1>6, <2>1, RetainEdgeHolds
<1>8. \A d : CoreBytes(e, d) = CoreBytes(core[c], d)
  BY <1>3, <1>7, Unmoved DEF k, SameHeader, SameRoot
<1>9. core[c] # Gone
  BY <1>2 DEF k
<1>10. At(handle'[g], c) /\ Stays(handle'[g], c)
  BY <1>2, <1>6
<1> QED BY <1>2, <1>4, <1>5, <1>6, <1>7, <1>8, <1>9, <1>10, ComesKeeps

LEMMA IntoEdgeKeeps ==
  ASSUME IInv, NEW h \in Handles, IntoEdge(h)
  PROVE  IInv'
<1> DEFINE c == handle[h].core k == core[c] y == [handle[h] EXCEPT !.kind = "edge"]
<1>1. Held(h, {"span"}) /\ {"span"} \in SUBSET {"pool", "span", "edge", "reg"}
  BY DEF IntoEdge
<1>2. /\ c \in Cores /\ k # Gone /\ CoreFits(k) /\ HolderFits(handle, c, k)
      /\ handle[h].kind = "span" /\ At(handle[h], c) /\ Stays(handle[h], c)
      /\ core \in [Cores -> CoreSet] /\ handle \in [Handles -> HandleIn]
  BY <1>1, HeldStart
<1>3. PICK n, t \in Nat : k \in CoreIn(n, t)
  BY <1>1, HeldStart
<1>4. /\ handle' = [handle EXCEPT ![h] = y] /\ core' = core /\ UNCHANGED <<resident, limit, lost>>
  BY DEF IntoEdge, Gives
<1>5. y \in HandleIn /\ y.kind = "edge" /\ y.core = c /\ y.key = handle[h].key /\ At(y, c) /\ Stays(y, c)
  <2>1. handle[h] \in [kind : {"pool", "span", "edge", "reg"}, core : Cores, key : Int]
    BY <1>2, HeldFacts DEF IInv
  <2> QED BY <2>1 DEF HandleIn, At, Stays
<1> HIDE DEF c, k, y
<1>6. handle' \in [Handles -> HandleIn] /\ Turns(handle, handle', h) /\ handle'[h] = y
  BY <1>2, <1>4, <1>5, GivenFacts
<1>7. HolderFits(handle', c, k)
  BY <1>2, <1>3, <1>5, <1>6, IntoEdgeHolds
<1>8. core' = [core EXCEPT ![c] = k]
  BY <1>2, <1>4 DEF k
<1>9. core[c] # Gone /\ \A d : CoreBytes(k, d) = CoreBytes(core[c], d)
  BY <1>2 DEF k
<1> QED BY <1>2, <1>3, <1>4, <1>5, <1>6, <1>7, <1>8, <1>9, ComesKeeps

\* What a handle that goes leaves the others.
LEMMA DropStart ==
  ASSUME IInv, NEW h \in Handles, NEW kinds \in SUBSET {"pool", "span", "edge", "reg"}, Held(h, kinds),
         Gives(h, Nothing)
  PROVE  /\ handle[h].kind # "none"
         /\ handle' \in [Handles -> HandleIn] /\ Turns(handle, handle', h) /\ handle'[h] = Nothing
<1>1. handle \in [Handles -> HandleIn] /\ handle[h].kind \in kinds
  BY HeldStart
<1>2. "none" \notin {"pool", "span", "edge", "reg"}
  OBVIOUS
<1> QED BY <1>1, <1>2, NothingIs, GivenFacts DEF Gives

LEMMA ChargesNothing ==
  ASSUME NEW co \in [Cores -> CoreSet], NEW re, NEW li, ResidentFits(co, re, li), NEW c \in Cores, NEW e,
         \A d : CoreBytes(e, d) = CoreBytes(co[c], d)
  PROVE  re \in [Domains -> Int] /\ Charges(re, re, co, c, e) /\ Lowers(re, re)
<1>1. re \in [Domains -> Nat]
  BY DEF ResidentFits
<1>2. re \in [Domains -> Int] /\ \A d \in Domains : re[d] \in Int
  BY <1>1, NatIsInt
<1>3. Charges(re, re, co, c, e)
  <2> SUFFICES ASSUME NEW d \in Domains PROVE re[d] = re[d] + CoreBytes(e, d) - CoreBytes(co[c], d)
    BY DEF Charges
  <2>1. CoreBytes(co[c], d) \in Nat /\ re[d] \in Nat
    BY <1>1, BytesNat
  <2> QED BY <2>1
<1> QED BY <1>2, <1>3 DEF Lowers

LEMMA DropPoolKeeps ==
  ASSUME IInv, NEW h \in Handles, DropPool(h)
  PROVE  IInv'
<1> DEFINE c == handle[h].core k == core[c] e == [k EXCEPT !.detached = TRUE]
<1>1. Held(h, {"pool"}) /\ {"pool"} \in SUBSET {"pool", "span", "edge", "reg"}
      /\ Gives(h, Nothing) /\ Retire(c, e, resident) /\ UNCHANGED <<limit, lost>>
  BY DEF DropPool
<1>2. /\ c \in Cores /\ k # Gone /\ CoreFits(k) /\ HolderFits(handle, c, k)
      /\ handle[h].kind = "pool" /\ At(handle[h], c)
      /\ core \in [Cores -> CoreSet] /\ handle \in [Handles -> HandleIn]
  BY <1>1, HeldStart
<1>3. PICK n, t \in Nat : k \in CoreIn(n, t)
  BY <1>1, HeldStart
<1>4. /\ handle[h].kind # "none"
      /\ handle' \in [Handles -> HandleIn] /\ Turns(handle, handle', h) /\ handle'[h] = Nothing
  BY <1>1, DropStart
<1>5. /\ e \in CoreIn(n, t) /\ CoreFits(e) /\ SameAccounts(e, k)
      /\ e.cap = k.cap /\ e.root = k.root /\ e.charged = k.charged
  BY <1>2, <1>3, Detaches
<1>6. c = handle[h].core /\ e = [k EXCEPT !.detached = TRUE] /\ k = core[c]
  OBVIOUS
<1> HIDE DEF c, k, e
<1>7. HolderFits(handle', c, e)
  BY <1>2, <1>3, <1>4, <1>6, DropPoolHolds
<1>8. \A d : CoreBytes(e, d) = CoreBytes(core[c], d)
  <2>1. SameRoot(e, k)
    BY <1>5 DEF SameRoot
  <2>2. \A d : CoreBytes(e, d) = CoreBytes(k, d)
    BY <1>3, <1>5, <2>1, Unmoved
  <2> QED BY <2>2 DEF k
<1>9. resident \in [Domains -> Int] /\ Charges(resident, resident, core, c, e) /\ Lowers(resident, resident)
  BY <1>2, <1>8, ChargesNothing DEF IInv
<1> QED BY <1>1, <1>2, <1>3, <1>4, <1>5, <1>6, <1>7, <1>9, DropsKeep

LEMMA DropSlotKeeps ==
  ASSUME IInv, NEW h \in Handles, DropSlot(h)
  PROVE  IInv'
<1> DEFINE c == handle[h].core k == core[c] e == SlotReleased(k, handle[h].key)
<1>1. Held(h, {"span", "edge"}) /\ {"span", "edge"} \in SUBSET {"pool", "span", "edge", "reg"}
      /\ Gives(h, Nothing) /\ Retire(c, e, resident) /\ UNCHANGED <<limit, lost>>
  BY DEF DropSlot
<1>2. /\ c \in Cores /\ k # Gone /\ CoreFits(k) /\ HolderFits(handle, c, k)
      /\ handle[h].kind \in {"span", "edge"} /\ At(handle[h], c)
      /\ core \in [Cores -> CoreSet] /\ handle \in [Handles -> HandleIn]
  BY <1>1, HeldStart
<1>3. PICK n, t \in Nat : k \in CoreIn(n, t)
  BY <1>1, HeldStart
<1>4. /\ handle[h].kind # "none"
      /\ handle' \in [Handles -> HandleIn] /\ Turns(handle, handle', h) /\ handle'[h] = Nothing
  BY <1>1, DropStart
<1>5. c = handle[h].core /\ e = SlotReleased(k, handle[h].key) /\ k = core[c] /\ handle[h].kind \in OfSlots
  BY <1>2 DEF OfSlots
<1> HIDE DEF c, k, e
<1>6. /\ HolderFits(handle', c, e) /\ e \in CoreIn(n, t) /\ CoreFits(e)
      /\ SameAccounts(e, k) /\ SameHeader(e, k)
  BY <1>2, <1>3, <1>4, <1>5, DropSlotHolds
<1>8. \A d : CoreBytes(e, d) = CoreBytes(core[c], d)
  <2>1. SameRoot(e, k)
    BY <1>6 DEF SameRoot, SameHeader
  <2>2. \A d : CoreBytes(e, d) = CoreBytes(k, d)
    BY <1>3, <1>6, <2>1, Unmoved
  <2> QED BY <1>5, <2>2
<1>9. resident \in [Domains -> Int] /\ Charges(resident, resident, core, c, e) /\ Lowers(resident, resident)
  BY <1>2, <1>8, ChargesNothing DEF IInv
<1> QED BY <1>1, <1>2, <1>3, <1>4, <1>5, <1>6, <1>9, DropsKeep

\* A registration more of an account that is open.
LEMMA RegistersKeep ==
  ASSUME IInv, NEW g \in Handles, Vacant(g), NEW c \in Cores, core[c] # Gone,
         CoreFits(core[c]), HolderFits(handle, c, core[c]),
         NEW n \in Nat, NEW t \in Nat, core[c] \in CoreIn(n, t),
         NEW a \in Keys(t), core[c].arefs[a] > 0, core[c].arefs[a] < MaxRefs,
         core' = [core EXCEPT ![c].arefs[a] = @ + 1], Gives(g, To("reg", c, a)),
         UNCHANGED <<resident, limit, lost>>
  PROVE  IInv'
<1> DEFINE k == core[c] v == k.arefs[a] + 1 e == [k EXCEPT !.arefs[a] = v]
<1>1. core \in [Cores -> CoreSet] /\ handle \in [Handles -> HandleIn]
  BY DEF IInv, PoolFits
<1>2. core' = [core EXCEPT ![c] = e]
  BY <1>1
<1>3. v \in 1..MaxRefs
  <2>1. k.arefs[a] \in Nat /\ MaxRefs \in Nat
    BY Constants, CoreFacts
  <2> QED BY <2>1
<1>4. k = core[c] /\ k.arefs[a] > 0 /\ k \in CoreIn(n, t) /\ CoreFits(k) /\ HolderFits(handle, c, k)
      /\ e = [k EXCEPT !.arefs[a] = v] /\ v = k.arefs[a] + 1
  OBVIOUS
<1> HIDE DEF k, v, e
<1>5. /\ e \in CoreIn(n, t) /\ CoreFits(e) /\ e.owed = k.owed /\ OpenAccounts(e) = OpenAccounts(k)
      /\ SameHeader(e, k)
  BY <1>3, <1>4, Registers
<1>6. /\ handle[g] = Nothing /\ Stays(handle[g], c)
      /\ handle' \in [Handles -> HandleIn] /\ Turns(handle, handle', g)
      /\ handle'[g].kind = "reg" /\ handle'[g].core = c /\ handle'[g].key = a
      /\ At(handle'[g], c) /\ Stays(handle'[g], c)
  <2>1. a \in Int
    BY KeyFacts
  <2> QED BY <2>1, GivenStart
<1>7. HolderFits(handle', c, e)
  BY <1>1, <1>3, <1>4, <1>6, RegisterHolds
<1>8. \A d : CoreBytes(e, d) = CoreBytes(core[c], d)
  <2>1. SameRoot(e, k)
    BY <1>5 DEF SameRoot, SameHeader
  <2>2. k \in CoreIn(n, t) /\ e \in CoreIn(n, t) /\ OpenAccounts(e) = OpenAccounts(k) /\ e.owed = k.owed
    BY <1>4, <1>5
  <2>3. ASSUME NEW d PROVE CoreBytes(e, d) = CoreBytes(k, d)
    BY <2>1, <2>2, BytesSame, ZenonT(60)
  <2> QED BY <1>4, <2>3
<1> QED BY <1>2, <1>5, <1>6, <1>7, <1>8, ComesKeeps

LEMMA BindAgainKeeps ==
  ASSUME IInv, NEW h \in Handles, NEW g \in Handles, NEW d \in Domains, BindAgain(h, g, d)
  PROVE  IInv'
<1> DEFINE c == handle[h].core k == core[c] s == handle[h].key a == k.link[s]
<1>1. Held(h, {"span"}) /\ {"span"} \in SUBSET {"pool", "span", "edge", "reg"}
  BY Zenon DEF BindAgain
<1>2. /\ c \in Cores /\ k # Gone /\ CoreFits(k) /\ HolderFits(handle, c, k)
      /\ handle[h].kind = "span" /\ At(handle[h], c)
      /\ core \in [Cores -> CoreSet] /\ handle \in [Handles -> HandleIn]
  BY <1>1, HeldStart
<1>3. PICK n, t \in Nat : k \in CoreIn(n, t)
  BY <1>1, HeldStart, Zenon
<1>4. /\ Vacant(g) /\ a # NoKey /\ k.arefs[a] < MaxRefs
      /\ core' = [core EXCEPT ![c].arefs[a] = @ + 1] /\ Gives(g, To("reg", c, a))
      /\ UNCHANGED <<resident, limit, lost>>
  BY Zenon DEF BindAgain
<1>5. a \in Keys(t) /\ k.arefs[a] > 0
  <2>1. s \in DOMAIN k.refs /\ Sole(k, s)
    BY <1>2 DEF HolderFits, KeyFits, OfSlots
  <2>2. k.refs[s] > 0
    BY <2>1 DEF Sole
  <2>3. a \in OpenAccounts(k)
    BY <1>2, <1>4, <2>1, <2>2, Zenon DEF CoreFits, Mutual
  <2> QED BY <1>3, <2>3, CoreFacts DEF OpenAccounts
<1> QED BY <1>2, <1>3, <1>4, <1>5, RegistersKeep, Zenon

LEMMA RetainAccountKeeps ==
  ASSUME IInv, NEW h \in Handles, NEW g \in Handles, RetainAccount(h, g)
  PROVE  IInv'
<1> DEFINE c == handle[h].core k == core[c] a == handle[h].key
<1>1. Held(h, {"reg"}) /\ {"reg"} \in SUBSET {"pool", "span", "edge", "reg"}
  BY DEF RetainAccount
<1>2. /\ c \in Cores /\ k # Gone /\ CoreFits(k) /\ HolderFits(handle, c, k)
      /\ handle[h].kind = "reg" /\ At(handle[h], c)
      /\ core \in [Cores -> CoreSet] /\ handle \in [Handles -> HandleIn]
  BY <1>1, HeldStart
<1>3. PICK n, t \in Nat : k \in CoreIn(n, t)
  BY <1>1, HeldStart
<1>4. /\ Vacant(g) /\ k.arefs[a] < MaxRefs
      /\ core' = [core EXCEPT ![c].arefs[a] = @ + 1] /\ Gives(g, handle[h])
      /\ UNCHANGED <<resident, limit, lost>>
  BY DEF RetainAccount
<1>5. a \in Keys(t) /\ k.arefs[a] > 0
  BY <1>2, <1>3, UserRefs
<1>6. handle[h] = To("reg", c, a)
  <2>1. handle[h] \in [kind : {"pool", "span", "edge", "reg"}, core : Cores, key : Int]
    BY <1>2, HeldFacts DEF IInv
  <2> QED BY <1>2, <2>1 DEF To
<1>7. Gives(g, To("reg", c, a))
  BY <1>4, <1>6
<1> QED BY <1>2, <1>3, <1>4, <1>5, <1>7, RegistersKeep

\* An account is opened and charged to the domain that asks.
LEMMA BindKeeps ==
  ASSUME IInv, NEW h \in Handles, NEW g \in Handles, NEW d \in Domains, Bind(h, g, d)
  PROVE  IInv'
<1> DEFINE c == handle[h].core k == core[c] s == handle[h].key
           e == AccountOpened([k EXCEPT !.refs[s] = @ + 1], s, d)
<1>1. Held(h, {"span"}) /\ {"span"} \in SUBSET {"pool", "span", "edge", "reg"}
  BY DEF Bind
<1>2. /\ c \in Cores /\ k # Gone /\ CoreFits(k) /\ HolderFits(handle, c, k)
      /\ handle[h].kind = "span" /\ At(handle[h], c)
      /\ core \in [Cores -> CoreSet] /\ handle \in [Handles -> HandleIn]
  BY <1>1, HeldStart
<1>3. PICK n, t \in Nat : k \in CoreIn(n, t)
  BY <1>1, HeldStart
<1>4. /\ Vacant(g) /\ k.link[s] = NoKey /\ k.afree # NoKey /\ k.refs[s] < MaxRefs
      /\ k.cap <= limit[d] - resident[d] /\ resident' = [resident EXCEPT ![d] = @ + k.cap]
      /\ core' = [core EXCEPT ![c] = e] /\ Gives(g, To("reg", c, k.afree))
      /\ UNCHANGED <<limit, lost>>
  BY DEF Bind, Affords, Charged
<1>5. /\ k = core[c] /\ s = handle[h].key /\ k.afree \in Int
      /\ e = AccountOpened([k EXCEPT !.refs[handle[h].key] = @ + 1], handle[h].key, d)
  <2>1. k.afree \in Keys(t) \cup {NoKey}
    BY <1>3 DEF CoreIn
  <2> QED BY <1>3, <2>1, KeyFacts
<1> HIDE DEF c, k, s, e
<1>6. /\ handle[g] = Nothing /\ Stays(handle[g], c)
      /\ handle' \in [Handles -> HandleIn] /\ Turns(handle, handle', g)
      /\ handle'[g].kind = "reg" /\ handle'[g].core = c /\ handle'[g].key = k.afree
      /\ At(handle'[g], c) /\ Stays(handle'[g], c)
  BY <1>2, <1>4, <1>5, GivenStart
<1>7. /\ HolderFits(handle', c, e) /\ e \in CoreIn(n, t) /\ CoreFits(e) /\ SameHeader(e, k)
      /\ k.afree \in Keys(t) /\ k.arefs[k.afree] = 0 /\ e.arefs[k.afree] > 0
      /\ AlikeBut(k, e, k.afree) /\ e.owed[k.afree] = d
  <2> DEFINE q == AccountOpened([k EXCEPT !.refs[handle[h].key] = @ + 1], handle[h].key, d)
  <2>1. k.link[handle[h].key] = NoKey /\ k.afree # NoKey /\ k.refs[handle[h].key] < MaxRefs
    BY <1>4, <1>5
  <2>2. /\ handle \in [Handles -> HandleIn] /\ handle' \in [Handles -> HandleIn] /\ Turns(handle, handle', g)
        /\ HolderFits(handle, c, k) /\ handle[g] = Nothing /\ handle[h].kind = "span" /\ At(handle[h], c)
        /\ handle'[g].kind = "reg" /\ handle'[g].core = c /\ handle'[g].key = k.afree
        /\ k \in CoreIn(n, t) /\ CoreFits(k)
    BY <1>2, <1>3, <1>6
  <2>3. /\ HolderFits(handle', c, q) /\ q \in CoreIn(n, t) /\ CoreFits(q) /\ SameHeader(q, k)
        /\ k.afree \in Keys(t) /\ k.arefs[k.afree] = 0 /\ q.arefs[k.afree] > 0
        /\ AlikeBut(k, q, k.afree) /\ q.owed[k.afree] = d
    BY <2>1, <2>2, BindHolds, SMTT(60)
  <2> HIDE DEF q
  <2>4. e = q
    BY <1>5 DEF q
  <2> QED BY <2>3, <2>4
<1>8. \A x : CoreBytes(e, x) = CoreBytes(k, x) + IF x = d THEN k.cap ELSE 0
  <2>1. SameRoot(e, k)
    BY <1>7 DEF SameRoot, SameHeader
  <2> SUFFICES ASSUME NEW x PROVE CoreBytes(e, x) = CoreBytes(k, x) + IF x = d THEN k.cap ELSE 0
    OBVIOUS
  <2>2. CoreBytes(e, x) = CoreBytes(k, x) + IF e.owed[k.afree] = x THEN k.cap ELSE 0
    BY <1>3, <1>7, <2>1, BytesOpened
  <2> QED BY <1>7, <2>2
<1>9. resident \in [Domains -> Nat] /\ limit \in [Domains -> Nat] /\ k.cap \in Nat
      /\ PoolFits(core, handle) /\ ResidentFits(core, resident, limit)
  BY <1>3 DEF IInv, ResidentFits, CoreIn
<1>10. resident' \in [Domains -> Int] /\ \A x \in Domains : resident'[x] = resident[x] + IF x = d THEN k.cap ELSE 0
  BY <1>4, <1>9
<1>11. Charges(resident, resident', core, c, e)
  <2> SUFFICES ASSUME NEW x \in Domains PROVE resident'[x] = resident[x] + CoreBytes(e, x) - CoreBytes(core[c], x)
    BY DEF Charges
  <2>1. CoreBytes(k, x) \in Nat
    BY <1>3, Bytes
  <2>2. resident[x] \in Nat /\ (IF x = d THEN k.cap ELSE 0) \in Nat
    BY <1>9
  <2>3. resident'[x] = resident[x] + IF x = d THEN k.cap ELSE 0
    BY <1>10
  <2>4. CoreBytes(e, x) = CoreBytes(k, x) + IF x = d THEN k.cap ELSE 0
    BY <1>8
  <2> QED BY <1>5, <2>1, <2>2, <2>3, <2>4
<1>12. Within(resident', resident, limit)
  <2> SUFFICES ASSUME NEW x \in Domains PROVE resident'[x] <= resident[x] \/ resident'[x] <= limit[x]
    BY DEF Within
  <2> QED BY <1>4, <1>9, <1>10
<1>13. PoolFits(core', handle')
  BY <1>2, <1>3, <1>4, <1>6, <1>7, <1>9, PoolKeeps
<1>14. ResidentFits(core', resident', limit)
  <2>1. e \in CoreSet
    BY <1>7, CoreKinds
  <2>2. resident' \in [Domains -> Int] /\ core' = [core EXCEPT ![c] = e]
    BY <1>4, <1>10
  <2> QED BY <1>2, <1>9, <1>11, <1>12, <2>1, <2>2, ResidentMoves
<1> QED BY <1>4, <1>13, <1>14, Zenon DEF IInv

\* A registration less of an account that stays open.
LEMMA DropRegisterKeeps ==
  ASSUME IInv, NEW h \in Handles, Held(h, {"reg"}), Gives(h, Nothing),
         core[handle[h].core].arefs[handle[h].key] > 1,
         core' = [core EXCEPT ![handle[h].core].arefs[handle[h].key] = @ - 1],
         UNCHANGED <<resident, limit, lost>>
  PROVE  IInv'
<1> DEFINE c == handle[h].core k == core[c] a == handle[h].key v == k.arefs[a] - 1
           e == [k EXCEPT !.arefs[a] = v]
<1>1. {"reg"} \in SUBSET {"pool", "span", "edge", "reg"}
  OBVIOUS
<1>2. /\ c \in Cores /\ k # Gone /\ CoreFits(k) /\ HolderFits(handle, c, k)
      /\ handle[h].kind = "reg" /\ At(handle[h], c) /\ Stays(handle[h], c)
      /\ core \in [Cores -> CoreSet] /\ handle \in [Handles -> HandleIn]
  BY <1>1, HeldStart
<1>3. PICK n, t \in Nat : k \in CoreIn(n, t)
  BY <1>1, HeldStart
<1>4. handle' \in [Handles -> HandleIn] /\ Turns(handle, handle', h) /\ handle'[h] = Nothing
  BY <1>1, DropStart
<1>5. core' = [core EXCEPT ![c] = e]
  BY <1>2, Zenon
<1>6. a \in Keys(t) /\ k.arefs[a] > 0 /\ v \in 1..MaxRefs
  <2>1. a \in Keys(t) /\ k.arefs[a] > 0
    BY <1>2, <1>3, UserRefs, Zenon
  <2>2. k.arefs[a] \in 0..MaxRefs /\ MaxRefs \in Nat /\ k.arefs[a] > 1
    BY <1>3, <2>1, Constants DEF CoreIn
  <2> QED BY <2>1, <2>2
<1>7. k = core[c] /\ handle[h].core = c /\ handle[h].key = a /\ v = k.arefs[a] - 1
      /\ e = [k EXCEPT !.arefs[a] = v]
  OBVIOUS
<1> HIDE DEF c, k, a, v, e
<1>8. /\ e \in CoreIn(n, t) /\ CoreFits(e) /\ e.owed = k.owed /\ OpenAccounts(e) = OpenAccounts(k)
      /\ SameHeader(e, k)
  BY <1>2, <1>3, <1>6, <1>7, Registers
<1>9. HolderFits(handle', c, e)
  BY <1>2, <1>3, <1>4, <1>6, <1>7, RegisterHolds
<1>10. ~ Retires(e)
  <2>1. a \in OpenAccounts(e)
    BY <1>3, <1>6, <1>8, CoreFacts DEF OpenAccounts
  <2> QED BY <1>4, <1>8, <1>9, <2>1, RetiredUnheld
<1>11. PoolFits(core', handle')
  <2> DEFINE q == [core EXCEPT ![c] = IF Retires(e) THEN Gone ELSE e]
  <2>1. core' = q
    BY <1>5, <1>10
  <2>2. Stays(handle'[h], c)
    BY <1>4, NothingIs DEF Stays
  <2>3. PoolFits(core, handle) /\ c \in Cores /\ Stays(handle[h], c) /\ e \in CoreIn(n, t) /\ CoreFits(e)
    BY <1>2, <1>8 DEF IInv
  <2>4. PoolFits(q, handle')
    BY <1>4, <1>9, <2>2, <2>3, PoolDrops
  <2> HIDE DEF q
  <2> QED BY <2>1, <2>4
<1>12. \A d : CoreBytes(e, d) = CoreBytes(core[c], d)
  <2>1. SameRoot(e, k)
    BY <1>8 DEF SameRoot, SameHeader
  <2>2. ASSUME NEW d PROVE CoreBytes(e, d) = CoreBytes(k, d)
    BY <1>3, <1>8, <2>1, BytesSame
  <2> QED BY <1>7, <2>2
<1>13. ResidentFits(core', resident, limit)
  <2>1. e \in CoreSet
    BY <1>8, CoreKinds
  <2>2. ResidentFits(core, resident, limit) /\ core \in [Cores -> CoreSet] /\ c \in Cores
    BY <1>2 DEF IInv
  <2>3. \A d \in Domains : CoreBytes(e, d) = CoreBytes(core[c], d)
    BY <1>12
  <2> QED BY <1>5, <2>1, <2>2, <2>3, ResidentKeeps, ZenonT(60)
<1> QED BY <1>11, <1>13 DEF IInv

\* The last registration: the account's charge is given back with its edge.
LEMMA DropAccountKeeps ==
  ASSUME IInv, NEW h \in Handles, DropAccount(h)
  PROVE  IInv'
<1> DEFINE c == handle[h].core k == core[c] a == handle[h].key
<1>1. Held(h, {"reg"}) /\ {"reg"} \in SUBSET {"pool", "span", "edge", "reg"}
      /\ Gives(h, Nothing) /\ UNCHANGED <<limit, lost>>
  BY DEF DropAccount
<1>2. CASE k.arefs[a] > 1
  BY <1>1, <1>2, DropRegisterKeeps DEF DropAccount
<1>3. CASE ~ k.arefs[a] > 1
  <2> DEFINE e == AccountClosed(k, a) o == k.owed[a] r == Refunded(resident, k.owed[a], k.cap)
  <2>1. Retire(c, e, r)
    BY <1>3 DEF DropAccount
  <2>2. /\ c \in Cores /\ k # Gone /\ CoreFits(k) /\ HolderFits(handle, c, k)
        /\ handle[h].kind = "reg" /\ At(handle[h], c)
        /\ core \in [Cores -> CoreSet] /\ handle \in [Handles -> HandleIn]
    BY <1>1, HeldStart
  <2>3. PICK n, t \in Nat : k \in CoreIn(n, t)
    BY <1>1, HeldStart
  <2>4. /\ handle[h].kind # "none"
        /\ handle' \in [Handles -> HandleIn] /\ Turns(handle, handle', h) /\ handle'[h] = Nothing
    BY <1>1, DropStart
  <2>5. a \in Keys(t) /\ k.arefs[a] = 1
    <3>1. a \in Keys(t) /\ k.arefs[a] > 0
      BY <2>2, <2>3, UserRefs
    <3>2. k.arefs[a] \in Nat
      BY <2>3, <3>1, CoreFacts
    <3> QED BY <1>3, <3>1, <3>2
  <2>6. k = core[c] /\ handle[h].core = c /\ handle[h].key = a /\ o = k.owed[a]
        /\ e = AccountClosed(k, handle[h].key) /\ r = Refunded(resident, o, k.cap)
    OBVIOUS
  <2> HIDE DEF c, k, a, e, o, r
  <2>7. /\ HolderFits(handle', c, e) /\ e \in CoreIn(n, t) /\ CoreFits(e) /\ SameHeader(e, k)
        /\ e.arefs[a] = 0 /\ o \in Domains /\ AlikeBut(e, k, a)
    <3>1. k.arefs[handle[h].key] = 1
      BY <2>5, <2>6
    <3>2. /\ HolderFits(handle', c, e) /\ e \in CoreIn(n, t) /\ CoreFits(e) /\ SameHeader(e, k)
          /\ e.arefs[handle[h].key] = 0 /\ k.owed[handle[h].key] \in Domains /\ AlikeBut(e, k, handle[h].key)
      BY <2>2, <2>3, <2>4, <2>6, <3>1, EndHolds
    <3> QED BY <2>6, <3>2
  <2>8. \A x : CoreBytes(k, x) = CoreBytes(e, x) + IF x = o THEN k.cap ELSE 0
    <3> SUFFICES ASSUME NEW x PROVE CoreBytes(k, x) = CoreBytes(e, x) + IF x = o THEN k.cap ELSE 0
      OBVIOUS
    <3>1. SameRoot(k, e) /\ k.arefs[a] > 0 /\ e.cap = k.cap
      BY <2>5, <2>7 DEF SameRoot, SameHeader
    <3>2. CoreBytes(k, x) = CoreBytes(e, x) + IF k.owed[a] = x THEN e.cap ELSE 0
      BY <2>3, <2>5, <2>7, <3>1, BytesOpened
    <3> QED BY <2>6, <3>1, <3>2
  <2>9. resident \in [Domains -> Nat] /\ k.cap \in Nat /\ NoDomain \notin Domains
    BY <2>3, Constants DEF IInv, ResidentFits, CoreIn
  <2>10. r \in [Domains -> Int] /\ \A x \in Domains : r[x] = resident[x] - IF x = o THEN k.cap ELSE 0
    <3>1. r = [resident EXCEPT ![o] = @ - k.cap]
      BY <2>6, <2>7, <2>9 DEF Refunded
    <3>2. r \in [Domains -> Int] /\ r[o] = resident[o] - k.cap /\ \A x \in Domains \ {o} : r[x] = resident[x]
      BY <2>7, <2>9, <3>1
    <3>3. \A x \in Domains : resident[x] \in Nat
      BY <2>9
    <3> QED BY <3>2, <3>3
  <2>11. Charges(resident, r, core, c, e) /\ Lowers(r, resident)
    <3> SUFFICES ASSUME NEW x \in Domains
                 PROVE  r[x] = resident[x] + CoreBytes(e, x) - CoreBytes(core[c], x) /\ r[x] <= resident[x]
      BY DEF Charges, Lowers
    <3>1. CoreBytes(e, x) \in Nat
      BY <2>7, Bytes
    <3>2. resident[x] \in Nat /\ (IF x = o THEN k.cap ELSE 0) \in Nat
      BY <2>9
    <3>3. r[x] = resident[x] - IF x = o THEN k.cap ELSE 0
      BY <2>10
    <3>4. CoreBytes(k, x) = CoreBytes(e, x) + IF x = o THEN k.cap ELSE 0
      BY <2>8, ZenonT(60)
    <3> QED BY <2>6, <3>1, <3>2, <3>3, <3>4
  <2> QED BY <1>1, <2>1, <2>2, <2>3, <2>4, <2>6, <2>7, <2>10, <2>11, DropsKeep
<1> QED BY <1>2, <1>3

\* A span's block moves to a larger one: the old core goes without a refund,
\* the new one comes and is charged for what it adds.  Seen in two steps, the
\* root charge is given back with the old core and taken again for the new.
LEMMA GrowLeaves ==
  ASSUME NEW co, NEW ha, PoolFits(co, ha), NEW re, NEW li, ResidentFits(co, re, li),
         NEW h \in Handles, ha[h].kind = "span", NEW c \in Cores, c = ha[h].core,
         NEW n \in Nat, NEW t \in Nat, co[c] \in CoreIn(n, t),
         co[c].slots = 1, co[c].detached, co[c].refs[ha[h].key] = 1, co[c].root \in Domains,
         NEW hb \in [Handles -> HandleIn], Turns(ha, hb, h), hb[h] = Nothing,
         NEW cb, cb = [co EXCEPT ![c] = Gone], NEW rb, rb = Refunded(re, co[c].root, co[c].charged)
  PROVE  /\ PoolFits(cb, hb) /\ ResidentFits(cb, rb, li) /\ co[c].charged = co[c].cap
<1> DEFINE k == co[c] s == ha[h].key e == SlotReleased(k, ha[h].key)
<1>1. /\ co \in [Cores -> CoreSet] /\ ha \in [Handles -> HandleIn] /\ ha[h].kind # "none"
  BY DEF PoolFits
<1>2. At(ha[h], c) /\ Stays(ha[h], c) /\ CoreFits(k) /\ HolderFits(ha, c, k)
  BY <1>1, HeldFacts
<1>3. hb \in [Handles -> HandleIn] /\ Turns(ha, hb, h) /\ hb[h] = Nothing
  OBVIOUS
<1>4. k \in CoreIn(n, t) /\ k.slots = 1 /\ k.detached /\ k.refs[s] = 1 /\ k.root \in Domains /\ k = co[c]
      /\ e = SlotReleased(k, ha[h].key) /\ s = ha[h].key /\ rb = Refunded(re, k.root, k.charged)
      /\ ha[h].kind \in OfSlots
  BY DEF OfSlots
<1> HIDE DEF k, s, e
<1>5. /\ HolderFits(hb, c, e) /\ e \in CoreIn(n, t) /\ CoreFits(e)
      /\ SameAccounts(e, k) /\ SameHeader(e, k)
  <2> DEFINE q == SlotReleased(k, ha[h].key)
  <2>1. /\ HolderFits(hb, c, q) /\ q \in CoreIn(n, t) /\ CoreFits(q)
        /\ SameAccounts(q, k) /\ SameHeader(q, k)
    <3>1. k \in CoreIn(n, t) /\ CoreFits(k) /\ HolderFits(ha, c, k) /\ ha[h].kind \in OfSlots /\ At(ha[h], c)
      BY <1>2, <1>4
    <3>2. ha \in [Handles -> HandleIn] /\ hb \in [Handles -> HandleIn] /\ Turns(ha, hb, h) /\ hb[h] = Nothing
      BY <1>1, <1>3, Zenon
    <3> QED BY <3>1, <3>2, DropSlotHolds, SMTT(60)
  <2> HIDE DEF q
  <2>2. e = q
    BY <1>4, Zenon DEF q
  <2> QED BY <2>1, <2>2
<1>6. s \in Keys(n) /\ (k.refs[s] = 1 => k.link[s] = NoKey) /\ n = 1
  <2>1. n = 1
    BY <1>4 DEF CoreIn
  <2>2. /\ ha[h].kind \in OfSlots =>
              /\ ha[h].key \in Keys(n) /\ k.refs[ha[h].key] > 0
              /\ k.refs[ha[h].key] = 1 => k.link[ha[h].key] = NoKey
    <3>1. k \in CoreIn(n, t) /\ ha \in [Handles -> HandleIn] /\ HolderFits(ha, c, k) /\ At(ha[h], c)
      BY <1>1, <1>2, <1>4, Zenon
    <3> QED BY <3>1, UserRefs
  <2> QED BY <1>4, <2>1, <2>2, Zenon
<1>7. e.refs[s] = 0
  <2>1. e = SlotReleased(k, s)
    BY <1>4, Zenon
  <2>2. k \in CoreIn(n, t) /\ s \in Keys(n) /\ k.refs[s] = 1
    BY <1>4, <1>6
  <2>3. SlotReleased(k, s).refs[s] = 0
    BY <2>2, LastReleased
  <2> QED BY <2>1, <2>3, Zenon
<1>8. Unused(e) = Keys(n)
  <2>1. Keys(n) = {0}
    BY <1>6 DEF Keys
  <2>2. Keys(n) = {s}
    BY <1>6, <2>1, SMTT(60)
  <2> QED BY <1>5, <1>7, <2>2, CoreFacts DEF Unused
<1>9. Retires(e)
  <2>1. e.available = Cardinality(Keys(n)) /\ Cardinality(Keys(n)) = n
    BY <1>5, <1>8, KeyFacts DEF CoreFits, FreeFits
  <2> QED BY <1>4, <1>5, <1>6, <2>1 DEF Retires, SameHeader
<1>10. PoolFits(cb, hb)
  <2> DEFINE q == [co EXCEPT ![c] = IF Retires(e) THEN Gone ELSE e]
  <2>1. cb = q
    BY <1>9
  <2>2. Stays(hb[h], c)
    BY <1>3, NothingIs DEF Stays
  <2>3. PoolFits(q, hb)
    BY <1>2, <1>3, <1>5, <2>2, PoolDrops
  <2> HIDE DEF q
  <2> QED BY <2>1, <2>3
<1>11. \A d : CoreBytes(e, d) = CoreBytes(co[c], d)
  <2>1. SameRoot(e, k)
    BY <1>5, SMTT(60) DEF SameRoot, SameHeader
  <2>2. \A d : CoreBytes(e, d) = CoreBytes(k, d)
    BY <1>4, <1>5, <2>1, Unmoved
  <2> QED BY <1>4, <2>2
<1>12. re \in [Domains -> Int] /\ Charges(re, re, co, c, e) /\ Lowers(re, re)
  BY <1>1, <1>11, ChargesNothing
<1>13. ResidentFits(cb, rb, li)
  <2> DEFINE q == [co EXCEPT ![c] = IF Retires(e) THEN Gone ELSE e]
             r == IF Retires(e) THEN Refunded(re, e.root, e.charged) ELSE re
  <2>1. cb = q /\ rb = r
    BY <1>4, <1>5, <1>9 DEF SameHeader
  <2>2. Retires(e) => OpenAccounts(e) = {}
    BY <1>3, <1>5, RetiredUnheld
  <2>3. ResidentFits(q, r, li)
    BY <1>1, <1>5, <1>12, <2>2, ResidentRetires
  <2> HIDE DEF q, r
  <2> QED BY <2>1, <2>3
<1>14. k.charged = k.cap
  <2>1. k.charged = k.slots * k.cap /\ k.cap \in Nat
    BY <1>2, <1>4, Constants DEF CoreFits, RootFits, CoreIn
  <2>2. k.slots = 1
    BY <1>4
  <2> QED BY <2>1, <2>2
<1> QED BY <1>4, <1>10, <1>13, <1>14

LEMMA TryGrowKeeps ==
  ASSUME IInv, NEW h \in Handles, NEW c2 \in Cores, NEW cap \in Caps, TryGrow(h, c2, cap)
  PROVE  IInv'
<1> DEFINE c == handle[h].core k == core[c] root == k.root old == k.charged
           fresh == NewCore(1, cap, 1, root, cap)
           e == [Claimed(fresh) EXCEPT !.detached = TRUE]
           ha == [handle EXCEPT ![h] = Nothing]
           co == [core EXCEPT ![c] = Gone]
           re == Refunded(resident, root, old)
<1>1. Held(h, {"span"}) /\ {"span"} \in SUBSET {"pool", "span", "edge", "reg"}
  BY DEF TryGrow
<1>2. /\ c \in Cores /\ k # Gone /\ handle[h].kind = "span"
      /\ core \in [Cores -> CoreSet] /\ handle \in [Handles -> HandleIn]
  BY <1>1, HeldStart
<1>3. PICK n, t \in Nat : k \in CoreIn(n, t)
  BY <1>1, HeldStart
<1>4. /\ core[c2] = Gone /\ k.slots = 1 /\ k.detached /\ k.refs[handle[h].key] = 1 /\ root # NoDomain
      /\ cap - old <= limit[root] - resident[root]
      /\ resident' = [resident EXCEPT ![root] = @ + (cap - old)]
      /\ core' = [core EXCEPT ![c] = Gone, ![c2] = e]
      /\ handle' = [handle EXCEPT ![h] = To("span", c2, 0)]
      /\ limit' = limit /\ lost' = lost
  BY DEF TryGrow, MayGrow, Affords, Charged, Gives
<1>5. root \in Domains /\ old \in Nat /\ cap \in Nat \ {0} /\ 1 \in Nat
  BY <1>3, <1>4, Constants DEF CoreIn
<1>6. PoolFits(core, handle) /\ ResidentFits(core, resident, limit)
      /\ resident \in [Domains -> Nat] /\ limit \in [Domains -> Nat]
  BY DEF IInv, ResidentFits
<1>7. PoolFits(co, ha) /\ ResidentFits(co, re, limit)
  <2>1. /\ handle[h].kind = "span" /\ c \in Cores /\ c = handle[h].core /\ core[c] \in CoreIn(n, t)
        /\ core[c].slots = 1 /\ core[c].detached /\ core[c].refs[handle[h].key] = 1 /\ core[c].root \in Domains
    BY <1>2, <1>3, <1>4, <1>5
  <2>2. ha \in [Handles -> HandleIn] /\ Turns(handle, ha, h) /\ ha[h] = Nothing
    BY <1>2, NothingIs, GivenFacts
  <2> HIDE DEF c, ha
  <2> QED BY <1>6, <2>1, <2>2, GrowLeaves
<1>8. c2 # c /\ co[c2] = Gone
  BY <1>2, <1>4
<1>9. ha[h] = Nothing /\ ha \in [Handles -> HandleIn] /\ co \in [Cores -> CoreSet]
  BY <1>2, <1>7 DEF PoolFits
<1>10. re \in [Domains -> Int] /\ re[root] = resident[root] - old /\ \A d \in Domains \ {root} : re[d] = resident[d]
  <2>1. re = [resident EXCEPT ![root] = @ - old]
    BY <1>4 DEF Refunded
  <2> HIDE DEF re, root, old
  <2> QED BY <1>5, <1>6, <2>1
<1>11. core' = [co EXCEPT ![c2] = e]
  BY <1>4
<1>12. resident' = Charged(re, root, cap)
  <2>1. resident' = [resident EXCEPT ![root] = @ + (cap - old)] /\ Charged(re, root, cap) = [re EXCEPT ![root] = @ + cap]
    BY <1>4 DEF Charged
  <2> HIDE DEF re, root, old
  <2>2. resident[root] \in Nat /\ cap \in Nat /\ (resident[root] - old) + cap = resident[root] + (cap - old)
    BY <1>5, <1>6
  <2>3. DOMAIN re = Domains /\ DOMAIN resident = Domains
    BY <1>6, <1>10
  <2> QED BY <1>5, <1>6, <1>10, <2>1, <2>2, <2>3
<1>13. cap <= limit[root] - re[root]
  <2> HIDE DEF re, root, old
  <2>1. resident[root] \in Nat /\ limit[root] \in Nat /\ cap \in Nat
    BY <1>5, <1>6
  <2> QED BY <1>4, <1>5, <1>10, <2>1
<1>14. /\ fresh \in CoreIn(1, 1) /\ CoreFits(fresh) /\ OpenAccounts(fresh) = {} /\ Unused(fresh) = Keys(1)
       /\ fresh.free = 0 /\ 0 # NoKey /\ fresh.root = root /\ fresh.charged = cap
  <2>1. root \in Domains \cup {NoDomain} /\ cap \in Nat /\ cap = 1 * cap
    BY <1>5
  <2>2. fresh \in CoreIn(1, 1) /\ CoreFits(fresh) /\ OpenAccounts(fresh) = {} /\ Unused(fresh) = Keys(1)
    <3> HIDE DEF root
    <3> QED BY <1>5, <2>1, Starts
  <2>3. fresh.free = 0 /\ 0 # NoKey /\ fresh.root = root /\ fresh.charged = cap
    BY DEF NewCore, First, NoKey
  <2> HIDE DEF fresh
  <2> QED BY <2>2, <2>3
<1>15. /\ handle' \in [Handles -> HandleIn] /\ Turns(ha, handle', h)
       /\ At(handle'[h], c2) /\ handle'[h].kind = "span" /\ handle'[h].core = c2 /\ handle'[h].key = 0
       /\ Stays(handle'[h], c2)
  <2>1. To("span", c2, 0) \in HandleIn /\ At(To("span", c2, 0), c2) /\ Stays(To("span", c2, 0), c2)
        /\ To("span", c2, 0).kind = "span" /\ To("span", c2, 0).core = c2 /\ To("span", c2, 0).key = 0
    BY ToIs, ToStays
  <2>2. handle' = [ha EXCEPT ![h] = To("span", c2, 0)]
    BY <1>4
  <2> HIDE DEF ha
  <2> QED BY <1>9, <2>1, <2>2, GivenFacts
<1>16. Unheld(ha, c2)
  BY <1>7, <1>8 DEF PoolFits, CoreHolds
<1>17. co[c2] = Gone /\ ha[h] = Nothing /\ e = [Claimed(fresh) EXCEPT !.detached = TRUE]
  BY <1>8, <1>9
<1> HIDE DEF fresh, e, ha, co, re, root, old
<1>18. /\ HolderFits(handle', c2, e) /\ e \in CoreIn(1, 1) /\ CoreFits(e)
       /\ OpenAccounts(e) = {} /\ e.root = root /\ e.charged = cap
  <2> DEFINE m == 1
             q == [Claimed(fresh) EXCEPT !.detached = TRUE]
  <2>1. m \in Nat /\ fresh \in CoreIn(m, m) /\ Unused(fresh) = Keys(m)
    BY <1>14
  <2>2. CoreFits(fresh) /\ OpenAccounts(fresh) = {} /\ fresh.free # NoKey
    BY <1>14
  <2>3. /\ ha \in [Handles -> HandleIn] /\ handle' \in [Handles -> HandleIn] /\ Turns(ha, handle', h)
        /\ Unheld(ha, c2) /\ ha[h] = Nothing
        /\ handle'[h].kind = "span" /\ handle'[h].core = c2 /\ handle'[h].key = fresh.free
    BY <1>9, <1>14, <1>15, <1>16
  <2> HIDE DEF m
  <2>4. HolderFits(handle', c2, q)
    BY <2>1, <2>2, <2>3, SeedHolds
  <2>5. q \in CoreIn(m, m) /\ CoreFits(q)
    BY <2>1, <2>2, <2>3, SeedHolds
  <2>6. OpenAccounts(q) = {}
    BY <2>1, <2>2, <2>3, SeedHolds
  <2>7. q.root = fresh.root /\ q.charged = fresh.charged
    <3>1. SameHeader(Claimed(fresh), fresh) /\ Claimed(fresh) \in CoreIn(m, m)
      BY <2>1, <2>2, Claims
    <3> QED BY <3>1 DEF SameHeader, CoreIn
  <2> HIDE DEF q
  <2>8. e = q
    BY <1>17 DEF q
  <2> QED BY <1>14, <2>4, <2>5, <2>6, <2>7, <2>8 DEF m
<1>19. PoolFits(core', handle') /\ ResidentFits(core', resident', limit)
  <2> DEFINE m == 1
  <2>1. resident' = IF e.root = NoDomain THEN re ELSE Charged(re, e.root, e.charged)
    BY <1>4, <1>12, <1>18
  <2>2. e.root # NoDomain => e.charged <= limit[e.root] - re[e.root]
    BY <1>13, <1>18
  <2>3. /\ PoolFits(co, ha) /\ ResidentFits(co, re, limit)
        /\ co[c2] = Gone /\ core' = [co EXCEPT ![c2] = e] /\ ha[h] = Nothing
        /\ handle' \in [Handles -> HandleIn] /\ Turns(ha, handle', h)
        /\ At(handle'[h], c2) /\ Stays(handle'[h], c2)
    BY <1>7, <1>11, <1>15, <1>17
  <2>4. m \in Nat /\ e \in CoreIn(m, m) /\ CoreFits(e) /\ OpenAccounts(e) = {} /\ HolderFits(handle', c2, e)
    BY <1>18
  <2> HIDE DEF m
  <2> QED BY <2>1, <2>2, <2>3, <2>4, Creates
<1> QED BY <1>4, <1>19 DEF IInv

\* A block that does not grow leaves the charge as it was.
LEMMA TryGrowFailsKeeps ==
  ASSUME IInv, NEW h \in Handles, NEW cap \in Caps, TryGrowFails(h, cap)
  PROVE  IInv'
<1> DEFINE c == handle[h].core k == core[c] root == k.root old == k.charged
<1>1. Held(h, {"span"}) /\ {"span"} \in SUBSET {"pool", "span", "edge", "reg"}
  BY DEF TryGrowFails
<1>2. /\ c \in Cores /\ CoreFits(k) /\ core \in [Cores -> CoreSet]
  BY <1>1, HeldStart
<1>3. PICK n, t \in Nat : k \in CoreIn(n, t)
  BY <1>1, HeldStart
<1>4. /\ k.slots = 1 /\ root # NoDomain
      /\ resident' = Refunded(Charged(resident, root, cap - old), root, cap - k.cap)
      /\ core' = [core EXCEPT ![c].charged = k.cap] /\ UNCHANGED <<handle, limit, lost>>
  BY DEF TryGrowFails, MayGrow
<1>5. root \in Domains /\ old \in Nat /\ cap \in Nat /\ k.cap \in Nat /\ old = k.cap
  <2>1. old = k.slots * k.cap
    BY <1>2, <1>4 DEF CoreFits, RootFits
  <2>2. k.root \in Domains \cup {NoDomain} /\ k.charged \in Nat /\ k.cap \in Nat /\ cap \in Nat
    BY <1>3, Constants DEF CoreIn
  <2> QED BY <1>4, <2>1, <2>2
<1>6. core' = core
  <2>1. [k EXCEPT !.charged = k.cap] = k
    BY <1>3, <1>5 DEF CoreIn
  <2>2. core' = [core EXCEPT ![c] = [k EXCEPT !.charged = k.cap]]
    BY <1>2, <1>4
  <2> HIDE DEF c
  <2> QED BY <1>2, <2>1, <2>2
<1>7. resident \in [Domains -> Nat]
  BY DEF IInv, ResidentFits
<1> HIDE DEF root, old
<1>8. resident' = resident
  <2> DEFINE b == cap - old
  <2>1. resident' = [[resident EXCEPT ![root] = @ + b] EXCEPT ![root] = @ - b]
    BY <1>4, <1>5 DEF Refunded, Charged
  <2>2. b \in Int
    BY <1>5
  <2> HIDE DEF b
  <2>3. resident[root] \in Nat /\ (resident[root] + b) - b = resident[root]
    BY <1>5, <1>7, <2>2
  <2> QED BY <1>5, <1>7, <2>1, <2>3
<1> QED BY <1>4, <1>6, <1>8 DEF IInv

\* Nothing is charged to a domain whose capacity is set.
LEMMA RebudgetKeeps ==
  ASSUME IInv, NEW d \in Domains, NEW n \in Limits, Rebudget(d, n)
  PROVE  IInv'
<1>1. /\ resident[d] = 0 /\ limit' = [limit EXCEPT ![d] = n] /\ UNCHANGED <<core, handle, resident, lost>>
      /\ n \in Nat /\ ResidentFits(core, resident, limit)
  BY Constants DEF Rebudget, IInv
<1>2. limit' \in [Domains -> Nat] /\ \A b \in Domains \ {d} : limit'[b] = limit[b]
  BY <1>1 DEF ResidentFits
<1>3. limit'[d] = n
  BY <1>1 DEF ResidentFits
<1>4. \A b \in Domains : resident[b] <= limit'[b]
  <2>1. \A b \in Domains : resident[b] <= limit[b]
    BY <1>1 DEF ResidentFits
  <2> QED BY <1>1, <1>2, <1>3, <2>1
<1>5. ResidentFits(core, resident, limit')
  BY <1>1, <1>2, <1>4 DEF ResidentFits
<1> QED BY <1>1, <1>5 DEF IInv

LEMMA InitHolds == Init => IInv
<1> SUFFICES ASSUME Init PROVE IInv
  OBVIOUS
<1>1. /\ core = [c \in Cores |-> Gone] /\ handle = [h \in Handles |-> Nothing]
      /\ resident = [d \in Domains |-> 0] /\ limit \in [Domains -> Limits] /\ lost = {}
  BY DEF Init
<1>2. PoolFits(core, handle)
  <2>1. core \in [Cores -> CoreSet] /\ \A c \in Cores : core[c] = Gone
    BY <1>1, CoreKinds
  <2>2. handle \in [Handles -> HandleIn] /\ \A h \in Handles : handle[h] = Nothing
    BY <1>1, NothingIs
  <2>3. \A c \in Cores : Unheld(handle, c)
    BY <2>2, NothingIs DEF Unheld
  <2> QED BY <2>1, <2>2, <2>3 DEF PoolFits, CoreHolds
<1>3. resident \in [Domains -> Nat] /\ limit \in [Domains -> Nat]
  BY <1>1, Constants
<1>4. ASSUME NEW d \in Domains
      PROVE  resident[d] = SumFunction([c \in Cores |-> CoreBytes(core[c], d)]) /\ resident[d] <= limit[d]
  <2>1. \A c \in Cores : CoreBytes(core[c], d) = 0
    BY <1>1, CoreKinds, BytesNat
  <2>2. [c \in Cores |-> CoreBytes(core[c], d)] = [c \in Cores |-> 0]
    BY <2>1
  <2>3. SumFunction([c \in Cores |-> 0]) = 0
    BY SumZero, Constants
  <2>4. resident[d] = 0 /\ limit[d] \in Nat
    BY <1>1, <1>3
  <2> QED BY <2>2, <2>3, <2>4
<1> QED BY <1>1, <1>2, <1>3, <1>4 DEF IInv, ResidentFits

LEMMA NextKeeps == IInv /\ [Next]_vars => IInv'
<1> SUFFICES ASSUME IInv, [Next]_vars PROVE IInv'
  OBVIOUS
<1>1. CASE UNCHANGED vars
  BY <1>1 DEF IInv, vars
<1>2. CASE NextPool
  <2>1. ASSUME NEW h \in Handles, NEW c \in Cores, NEW n \in SlotCounts, NEW cap \in Caps,
               NEW t \in Tallies, NEW d \in Domains \cup {NoDomain}, NewPool(h, c, n, cap, t, d)
        PROVE  IInv'
    BY <2>1, NewPoolKeeps
  <2>2. ASSUME NEW n \in SlotCounts, NEW cap \in Caps, NEW d \in Domains, NewPoolFails(n, cap, d)
        PROVE  IInv'
    BY <2>2, NewPoolFailsKeeps
  <2>3. ASSUME NEW h \in Handles, NEW c \in Cores, NEW cap \in Caps,
               NEW t \in Tallies, NEW d \in Domains \cup {NoDomain}, Seed(h, c, cap, t, d)
        PROVE  IInv'
    BY <2>3, SeedKeeps
  <2>4. ASSUME NEW p \in Handles, NEW h \in Handles, Acquire(p, h) PROVE IInv'
    BY <2>4, AcquireKeeps
  <2>5. ASSUME NEW h \in Handles, DropPool(h) PROVE IInv'
    BY <2>5, DropPoolKeeps
  <2>6. ASSUME NEW h \in Handles, IntoEdge(h) PROVE IInv'
    BY <2>6, IntoEdgeKeeps
  <2>7. ASSUME NEW h \in Handles, DropSlot(h) PROVE IInv'
    BY <2>7, DropSlotKeeps
  <2>8. ASSUME NEW h \in Handles, Forget(h) PROVE IInv'
    BY <2>8 DEF Forget, IInv
  <2>9. ASSUME NEW h \in Handles, NEW g \in Handles, RetainEdge(h, g) PROVE IInv'
    BY <2>9, RetainEdgeKeeps
  <2> QED BY <1>2, <2>1, <2>2, <2>3, <2>4, <2>5, <2>6, <2>7, <2>8, <2>9 DEF NextPool
<1>3. CASE NextAccount
  <2>1. ASSUME NEW h \in Handles, NEW g \in Handles, NEW d \in Domains, BindAgain(h, g, d) PROVE IInv'
    BY <2>1, BindAgainKeeps
  <2>2. ASSUME NEW h \in Handles, NEW g \in Handles, NEW d \in Domains, Bind(h, g, d) PROVE IInv'
    BY <2>2, BindKeeps
  <2>3. ASSUME NEW h \in Handles, NEW g \in Handles, RetainAccount(h, g) PROVE IInv'
    BY <2>3, RetainAccountKeeps
  <2>4. ASSUME NEW h \in Handles, DropAccount(h) PROVE IInv'
    BY <2>4, DropAccountKeeps
  <2>5. ASSUME NEW h \in Handles, NEW c \in Cores, NEW cap \in Caps, TryGrow(h, c, cap) PROVE IInv'
    BY <2>5, TryGrowKeeps
  <2>6. ASSUME NEW h \in Handles, NEW cap \in Caps, TryGrowFails(h, cap) PROVE IInv'
    BY <2>6, TryGrowFailsKeeps
  <2>7. ASSUME NEW d \in Domains, NEW n \in Limits, Rebudget(d, n) PROVE IInv'
    BY <2>7, RebudgetKeeps
  <2> QED BY <1>3, <2>1, <2>2, <2>3, <2>4, <2>5, <2>6, <2>7 DEF NextAccount
<1> QED BY <1>1, <1>2, <1>3 DEF Next

LEMMA InvHolds == Spec => []IInv
BY InitHolds, NextKeeps, PTL DEF Spec

-----------------------------------------------------------------------------
(* What the invariant says of the tables, the handles and the domains. *)

\* What is known of a core that lives.
LEMMA AliveFacts ==
  ASSUME IInv, NEW c \in Alive
  PROVE  /\ c \in Cores /\ core[c] # Gone
         /\ \E n, t \in Nat : core[c] \in CoreIn(n, t)
         /\ CoreFits(core[c]) /\ HolderFits(handle, c, core[c]) /\ ~ Retires(core[c])
         /\ handle \in [Handles -> HandleIn]
<1>1. c \in Cores /\ core[c] # Gone /\ PoolFits(core, handle)
  BY DEF Alive, IInv
<1>2. core[c] \in CoreSet /\ CoreHolds(core, handle, c)
  BY <1>1 DEF PoolFits
<1> QED BY <1>1, <1>2, CoreKinds DEF CoreHolds, PoolFits

\* A slot that is retained through its account is retained by that one alone.
LEMMA KeptIs ==
  ASSUME NEW n \in Nat, NEW t \in Nat, NEW k \in CoreIn(n, t), Mutual(k), NEW s \in Keys(n)
  PROVE  Cardinality({a \in OpenAccounts(k) : k.word[a] = s}) = One(Kept(k, s))
<1> DEFINE A == {a \in OpenAccounts(k) : k.word[a] = s}
<1>1. DOMAIN k.refs = Keys(n) /\ NoKey \notin OpenAccounts(k)
  BY CoreFacts, KeyFacts
<1>2. \A a \in A : k.link[s] = a /\ Kept(k, s)
  BY <1>1 DEF Mutual, Kept
<1>3. CASE Kept(k, s)
  <2>1. A = {k.link[s]}
    BY <1>1, <1>2, <1>3 DEF Mutual, Kept
  <2>2. Cardinality(A) = 1
    BY <2>1, FS_Singleton
  <2> QED BY <1>3, <2>2 DEF One
<1>4. CASE ~ Kept(k, s)
  <2>1. A = {}
    BY <1>2, <1>4
  <2>2. Cardinality(A) = 0
    BY <2>1, FS_EmptySet
  <2> QED BY <1>4, <2>2 DEF One
<1> QED BY <1>3, <1>4

\* What Walk follows are the steps of Sums.
LEMMA WalkLists ==
  ASSUME NEW succ, NEW V, IsFiniteSet(V), V \subseteq DOMAIN succ, NoKey \notin DOMAIN succ, NEW head,
         Threads(head, [i \in V |-> succ[i]], V, NoKey)
  PROVE  Lists(head, succ, V)
<1> DEFINE n == Cardinality(V)
           link == [i \in V |-> succ[i]]
           Turn(f) == [i \in 0..n |-> IF i = 0 THEN head
                                      ELSE IF f[i - 1] \in DOMAIN succ THEN succ[f[i - 1]] ELSE NoKey]
           w == Walk(head, succ, n)
<1>0. n \in Nat /\ NoKey \notin V
  BY FS_CardinalityType
<1>1. DOMAIN link = V /\ (\A i \in V : link[i] = succ[i]) /\ Threads(head, link, V, NoKey)
  OBVIOUS
<1>2. w = CHOOSE g : g = Turn(g)
  BY DEF Walk
<1>3. {w[i] : i \in 0..(n - 1)} = V /\ w[n] = NoKey => Lists(head, succ, V)
  BY DEF Lists
<1>4. n = Cardinality(V)
  OBVIOUS
<1> HIDE DEF link, n, w
<1>5. PICK f \in [0..n -> V \cup {NoKey}] : Steps(f, head, link, n)
  <2>1. V \subseteq V \cup {NoKey} /\ head \in V \cup {NoKey} /\ link \in [V -> V \cup {NoKey}]
    BY <1>1 DEF Threads
  <2> QED BY <1>0, <2>1, StepsExist
<1>6. \A i \in 0..n : i # 0 => i \in 1..n /\ i - 1 \in 0..n
  BY <1>0
<1>7. f = Turn(f)
  <2>1. ASSUME NEW i \in 0..n PROVE f[i] = Turn(f)[i]
    <3>1. CASE i = 0
      BY <1>5, <3>1 DEF Steps
    <3>2. CASE i # 0
      <4>1. i \in 1..n /\ f[i - 1] \in V \cup {NoKey}
        BY <1>6, <3>2
      <4>2. f[i] = IF f[i - 1] \in V THEN link[f[i - 1]] ELSE f[i - 1]
        BY <1>1, <1>5, <4>1 DEF Steps
      <4> QED BY <1>0, <1>1, <3>2, <4>1, <4>2
    <3> QED BY <3>1, <3>2
  <2> QED BY <2>1
<1>8. w = Turn(w)
  <2> HIDE DEF Turn
  <2> QED BY <1>2, <1>7
<1>9. w = f
  <2>1. DOMAIN w = 0..n /\ w = [i \in 0..n |-> w[i]]
    BY <1>8
  <2>2. w[0] = f[0]
    <3>1. 0 \in 0..n
      BY <1>0
    <3>2. w[0] = Turn(w)[0] /\ f[0] = Turn(f)[0]
      <4> HIDE DEF Turn
      <4> QED BY <1>7, <1>8
    <3> QED BY <3>1, <3>2
  <2>3. ASSUME NEW i \in 1..n, w[i - 1] = f[i - 1] PROVE w[i] = f[i]
    <3>1. i \in 0..n /\ i # 0
      BY <1>0
    <3>2. w[i] = Turn(w)[i] /\ f[i] = Turn(f)[i]
      <4> HIDE DEF Turn
      <4> QED BY <1>7, <1>8
    <3> QED BY <2>3, <3>1, <3>2
  <2>4. head \in V \cup {NoKey}
    BY DEF Threads
  <2> HIDE DEF Turn
  <2> QED BY <1>0, <2>1, <2>2, <2>3, <2>4, StepsAre
<1>10. f[n] = NoKey /\ {f[i] : i \in 0..(n - 1)} = V
  BY <1>0, <1>1, <1>4, <1>5, StepsFill
<1> QED BY <1>3, <1>9, <1>10

LEMMA TypesHold ==
  ASSUME IInv PROVE TypeOK
<1>1. ASSUME NEW c \in Alive PROVE CoreTypeOK(core[c])
  <2> DEFINE k == core[c]
  <2>1. PICK n, t \in Nat : k \in CoreIn(n, t)
    BY AliveFacts
  <2>2. CoreFits(k)
    BY AliveFacts
  <2> HIDE DEF k
  <2>3. DOMAIN k.arefs = Keys(t) /\ k.slots = n /\ Unused(k) \subseteq Keys(n)
    BY <2>1, CoreFacts
  <2>4. k.available \in 0..n
    <3>1. IsFiniteSet(Keys(n)) /\ Cardinality(Keys(n)) = n
      BY KeyFacts
    <3>2. Cardinality(Unused(k)) <= n /\ Cardinality(Unused(k)) \in Nat
      BY <2>3, <3>1, FS_Subset, FS_CardinalityType
    <3> QED BY <2>2, <3>2 DEF CoreFits, FreeFits
  <2>5. CoreTypeOK(k)
    BY <2>1, <2>3, <2>4 DEF CoreTypeOK, CoreIn
  <2> QED BY <2>5 DEF k
<1> QED BY <1>1 DEF TypeOK, IInv, ResidentFits

\* At every moment the counts, the links and the words of a pool say the same
\* of each slot and account: a slot has as many edges as handles and accounts
\* retain it, an account as many as it has registrations, and a slot and its
\* account name each other.
THEOREM PoolTables == Spec => []TablesAgree
<1>1. ASSUME IInv, NEW c \in Alive, NEW s \in DOMAIN core[c].refs
      PROVE  core[c].refs[s] = Cardinality(Users({"span", "edge"}, c, s))
                               + Cardinality({a \in OpenAccounts(core[c]) : core[c].word[a] = s})
  <2>1. PICK n, t \in Nat : core[c] \in CoreIn(n, t)
    BY <1>1, AliveFacts
  <2>2. s \in Keys(n) /\ Mutual(core[c])
    BY <1>1, <2>1, AliveFacts, CoreFacts DEF CoreFits
  <2>3. Cardinality({a \in OpenAccounts(core[c]) : core[c].word[a] = s}) = One(Kept(core[c], s))
    BY <2>1, <2>2, KeptIs
  <2>4. Users({"span", "edge"}, c, s) = UsersOf(handle, OfSlots, c, s)
    BY DEF Users, UsersOf, Names, OfSlots
  <2>5. core[c].refs[s] = Cardinality(UsersOf(handle, OfSlots, c, s)) + One(Kept(core[c], s))
    BY <1>1, AliveFacts DEF HolderFits
  <2> QED BY <2>3, <2>4, <2>5
<1>2. ASSUME IInv, NEW c \in Alive, NEW a \in DOMAIN core[c].arefs
      PROVE  core[c].arefs[a] = Cardinality(Users({"reg"}, c, a))
  <2>1. Users({"reg"}, c, a) = UsersOf(handle, {"reg"}, c, a)
    BY DEF Users, UsersOf, Names
  <2>2. core[c].arefs[a] = Cardinality(UsersOf(handle, {"reg"}, c, a))
    BY <1>2, AliveFacts DEF HolderFits
  <2> QED BY <2>1, <2>2
<1>3. IInv => EdgesAreCounted
  BY <1>1, <1>2 DEF EdgesAreCounted
<1>4. IInv => LinksAreMutual
  BY AliveFacts DEF LinksAreMutual, CoreFits, Mutual
<1>5. IInv => TablesAgree
  BY <1>3, <1>4, TypesHold DEF TablesAgree
<1> QED BY <1>5, InvHolds, PTL

\* A span shares its slot with no other handle, and with one account at most:
\* what is written past its length is read by nobody.
THEOREM PoolSpans == Spec => []SpansAreSole
<1>1. ASSUME IInv, NEW h \in Handles, handle[h].kind = "span"
      PROVE  core[handle[h].core].refs[handle[h].key]
               = IF core[handle[h].core].link[handle[h].key] = NoKey THEN 1 ELSE 2
  <2>1. PoolFits(core, handle)
    BY <1>1 DEF IInv
  <2>2. At(handle[h], handle[h].core) /\ HolderFits(handle, handle[h].core, core[handle[h].core])
    BY <1>1, <2>1, HeldFacts
  <2>3. Sole(core[handle[h].core], handle[h].key)
    BY <1>1, <2>2 DEF HolderFits
  <2> QED BY <2>3 DEF Sole
<1>2. IInv => SpansAreSole
  BY <1>1 DEF SpansAreSole
<1> QED BY <1>2, InvHolds, PTL

\* Both free lists of every pool run through its vacant entries, each once, and
\* available counts the vacant slots: no slot is handed out twice or lost,
\* whatever order handles are dropped in.
THEOREM PoolFreeLists == Spec => []FreeListsAreExact
<1>1. ASSUME IInv, NEW c \in Alive
      PROVE  LET k == core[c]
                 vacant == {s \in DOMAIN k.refs : k.refs[s] = 0} IN
             /\ Lists(k.free, k.link, vacant)
             /\ k.available = Cardinality(vacant)
             /\ Lists(k.afree, k.word, DOMAIN k.arefs \ OpenAccounts(k))
  <2> DEFINE k == core[c]
  <2>1. PICK n, t \in Nat : k \in CoreIn(n, t)
    BY <1>1, AliveFacts
  <2>2. FreeFits(k) /\ ShutFits(k)
    BY <1>1, AliveFacts DEF CoreFits
  <2> HIDE DEF k
  <2>3. /\ DOMAIN k.link = Keys(n) /\ DOMAIN k.word = Keys(t)
        /\ Unused(k) \subseteq Keys(n) /\ Shut(k) \subseteq Keys(t)
    BY <2>1, CoreFacts DEF CoreIn
  <2>4. /\ NoKey \notin Keys(n) /\ NoKey \notin Keys(t)
        /\ IsFiniteSet(Unused(k)) /\ IsFiniteSet(Shut(k))
    BY <2>3, KeyFacts, FS_Subset
  <2>5. Lists(k.free, k.link, Unused(k)) /\ k.available = Cardinality(Unused(k))
    BY <2>2, <2>3, <2>4, WalkLists DEF FreeFits
  <2>6. Lists(k.afree, k.word, Shut(k))
    BY <2>2, <2>3, <2>4, WalkLists DEF ShutFits
  <2> QED BY <2>5, <2>6 DEF Unused, Shut, k
<1>2. IInv => FreeListsAreExact
  BY <1>1 DEF FreeListsAreExact
<1> QED BY <1>2, InvHolds, PTL

\* A pool's memory is there as long as any handle names it and is freed with
\* the last one, whoever drops last.
THEOREM PoolFreed == Spec => []FreedWithItsLastUser
<1>1. ASSUME IInv, NEW c \in Cores
      PROVE  core[c] # Gone <=> \E h \in Handles : handle[h].kind # "none" /\ handle[h].core = c
  <2>1. CASE core[c] = Gone
    <3>1. CoreHolds(core, handle, c)
      BY <1>1 DEF IInv, PoolFits
    <3> QED BY <2>1, <3>1 DEF CoreHolds, Unheld, At
  <2>2. CASE core[c] # Gone
    <3>1. c \in Alive
      BY <2>2 DEF Alive
    <3>2. /\ CoreFits(core[c]) /\ HolderFits(handle, c, core[c]) /\ ~ Retires(core[c])
          /\ handle \in [Handles -> HandleIn] /\ \E n, t \in Nat : core[c] \in CoreIn(n, t)
      BY <1>1, <3>1, AliveFacts
    <3>3. \E h \in Handles : At(handle[h], c)
      BY <3>2, AliveHeld
    <3> QED BY <2>2, <3>3 DEF At
  <2> QED BY <2>1, <2>2
<1>2. IInv => FreedWithItsLastUser
  BY <1>1 DEF FreedWithItsLastUser
<1> QED BY <1>2, InvHolds, PTL

\* What a domain shows as resident is exactly what its live cores and open
\* accounts were charged, through growth, refusal and retirement, and never
\* exceeds its capacity.
THEOREM PoolResident == Spec => []ResidentIsExact
<1>1. ASSUME IInv, NEW c \in Alive, core[c].root # NoDomain
      PROVE  core[c].charged = core[c].slots * core[c].cap
  BY <1>1, AliveFacts DEF CoreFits, RootFits
<1>2. ASSUME IInv, NEW d \in Domains
      PROVE  resident[d] = SumFunction([c \in Cores |-> CoreBytes(core[c], d)]) /\ resident[d] <= limit[d]
  BY <1>2 DEF IInv, ResidentFits
<1>3. IInv => ResidentIsExact
  BY <1>1, <1>2 DEF ResidentIsExact
<1> QED BY <1>3, InvHolds, PTL

-----------------------------------------------------------------------------
(* Staging buffers.                                                        *)

BlockFits(x) ==
  /\ x = Free \/ (x.mode # "free" /\ x.cap > 0)
  /\ x.mode = "warm" => x.cap = Warm

\* The unread bytes of b, when it has received n, are the last ones.
BufFits(st, x, n, b) ==
  IF x.kind = "live"
  THEN /\ x.block \in Blocks /\ st[x.block].mode \in {"warm", "accounted", "local"}
       /\ x.head <= x.end /\ x.end <= st[x.block].cap /\ x.end - x.head <= n
       /\ \A i \in x.head..(x.end - 1) : st[x.block].data[i] = <<b, n - (x.end - i)>>
  ELSE x \in {Empty, Cold}

ViewFits(st, y) ==
  y # NoView =>
    /\ y.block \in Blocks /\ st[y.block].mode # "free"
    /\ y.from + Len(y.bytes) <= st[y.block].cap
    /\ \A i \in 1..Len(y.bytes) : st[y.block].data[y.from + i - 1] = y.bytes[i]

\* No two buffers share a backing, a view of a buffer's backing ends before the
\* next byte goes, and accounts bound the warm slots that views pin.
Apart(bs) == \A b, c \in Bufs : bs[b].block = bs[c].block /\ bs[b].block # NoBlock => b = c
Behind(bs, vs) ==
  \A b \in Bufs, v \in Views :
    vs[v].block = bs[b].block /\ vs[v].block # NoBlock => vs[v].from + Len(vs[v].bytes) <= bs[b].end
Shows(vs, k) == \E v \in Views : vs[v].block = k
PinnedIn(st, vs) == {k \in Blocks : st[k].mode = "warm" /\ Shows(vs, k)}

Kinds(st, bs, ns, vs) ==
  /\ st \in [Blocks -> Backing] /\ bs \in [Bufs -> Unread]
  /\ ns \in [Bufs -> Nat] /\ vs \in [Views -> Retained]

Fits(st, bs, ns, vs) ==
  /\ Kinds(st, bs, ns, vs)
  /\ \A k \in Blocks : BlockFits(st[k])
  /\ \A b \in Bufs : BufFits(st, bs[b], ns[b], b)
  /\ \A v \in Views : ViewFits(st, vs[v])
  /\ Apart(bs) /\ Behind(bs, vs) /\ Cardinality(PinnedIn(st, vs)) <= Shared

Named(st, bs, vs) ==
  \A k \in Blocks : st[k] # Free => (\E b \in Bufs : bs[b].block = k) \/ Shows(vs, k)

StagingInv ==
  /\ mode \in {"local", "accounted"}
  /\ Fits(block, buf, next, view)
  /\ Named(block, buf, view)

-----------------------------------------------------------------------------
(* Sizes and bytes.                                                        *)

LEMMA PlanConstants ==
  /\ Warm \in Nat /\ Warm > 0 /\ Ceiling \in Nat /\ Warm <= Ceiling /\ Shared \in Nat /\ Spare \in Nat
  /\ IsFiniteSet(Bufs) /\ IsFiniteSet(Views) /\ IsFiniteSet(Blocks) /\ NoBlock \notin Blocks
  /\ Cardinality(Blocks) > Cardinality(Bufs) + Cardinality(Views)
BY StagingAssumption

LEMMA MaxOf ==
  ASSUME NEW x \in Int, NEW y \in Int
  PROVE  Max({x, y}) \in {x, y} /\ Max({x, y}) >= x /\ Max({x, y}) >= y
<1>1. \E m \in {x, y} : \A z \in {x, y} : m >= z
  <2>1. CASE x >= y
    BY <2>1
  <2>2. CASE ~ (x >= y)
    BY <2>2
  <2> QED BY <2>1, <2>2
<1>2. Max({x, y}) \in {x, y} /\ \A z \in {x, y} : Max({x, y}) >= z
  BY <1>1 DEF Max
<1> QED BY <1>2

\* Doubling reaches what is needed and stays within the ceiling.
LEMMA GrowToReaches ==
  ASSUME NEW current, NEW required \in Nat, required <= Ceiling
  PROVE  GrowTo(current, required) \in required..Ceiling
<1> DEFINE T == {c \in required..Ceiling : c = Ceiling \/ \E i \in 0..Ceiling : c = current * 2^i}
<1>1. T \in SUBSET Nat /\ Ceiling \in T
  BY PlanConstants
<1>2. \E m \in T : \A c \in T : m <= c
  <2> HIDE DEF T
  <2> QED BY <1>1, LeastOf
<1>3. Min(T) \in T
  <2> HIDE DEF T
  <2> QED BY <1>2 DEF Min
<1>4. GrowTo(current, required) = Min(T)
  BY DEF GrowTo
<1> HIDE DEF GrowTo
<1> QED BY <1>3, <1>4

LEMMA GrowthReaches ==
  ASSUME NEW current, NEW required \in Nat, required <= Ceiling
  PROVE  Growth(required, current) \in required..Ceiling
BY GrowToReaches DEF Growth

\* A byte is written where Place puts it and nowhere else.
LEMMA PlaceIs ==
  ASSUME NEW D, NEW data \in [Cells -> D], NEW at \in Nat, NEW src \in Seq(D)
  PROVE  /\ Place(data, at, src) \in [Cells -> D]
         /\ \A i \in Cells :
              /\ i >= at /\ i < at + Len(src) => Place(data, at, src)[i] = src[i - at + 1]
              /\ ~ (i >= at /\ i < at + Len(src)) => Place(data, at, src)[i] = data[i]
<1>1. Len(src) \in Nat /\ \A j \in 1..Len(src) : src[j] \in D
  BY LenProperties
<1>2. \A i \in Cells : i \in Int
  BY PlanConstants DEF Cells
<1>3. ASSUME NEW i \in Cells, i \in at..(at + Len(src) - 1)
      PROVE  src[i - at + 1] \in D
  BY <1>1, <1>2, <1>3
<1> QED BY <1>1, <1>2, <1>3 DEF Place

LEMMA ReceivedIs ==
  ASSUME NEW b \in Bufs, NEW from \in Nat, NEW n \in Nat
  PROVE  /\ Received(b, from, n) \in Seq(Byte) /\ Len(Received(b, from, n)) = n
         /\ \A i \in 1..n : Received(b, from, n)[i] = <<b, from + i - 1>>
<1>1. \A i \in 1..n : <<b, from + i - 1>> \in Byte
  BY DEF Byte
<1>2. Received(b, from, n) \in [1..n -> Byte]
  BY <1>1 DEF Received
<1> QED BY <1>1, <1>2 DEF Received

\* What a buffer reads of its backing.
LEMMA ContentIs ==
  ASSUME StagingInv, NEW b \in Bufs
  PROVE  /\ Size(b) \in Nat /\ Size(b) <= Capacity(b) /\ Capacity(b) \in 0..Ceiling
         /\ next[b] \in Nat /\ Size(b) <= next[b]
         /\ Content(b) \in Seq(Byte) /\ Len(Content(b)) = Size(b)
         /\ \A i \in 1..Size(b) : Content(b)[i] = <<b, next[b] - Size(b) + i - 1>>
<1>1. BufFits(block, buf[b], next[b], b) /\ next[b] \in Nat /\ buf[b] \in Unread
  BY DEF StagingInv, Fits, Kinds
<1>2. CASE buf[b].kind = "live"
  <2>1. /\ buf[b].block \in Blocks /\ buf[b].head \in Nat /\ buf[b].end \in Nat
        /\ buf[b].head <= buf[b].end /\ buf[b].end <= block[buf[b].block].cap
        /\ buf[b].end - buf[b].head <= next[b]
        /\ \A i \in buf[b].head..(buf[b].end - 1) : block[buf[b].block].data[i] = <<b, next[b] - (buf[b].end - i)>>
    BY <1>1, <1>2, PlanConstants DEF BufFits, Unread
  <2>2. block[buf[b].block].cap \in 0..Ceiling
    BY <2>1 DEF StagingInv, Fits, Kinds, Backing
  <2>3. Size(b) = buf[b].end - buf[b].head /\ Size(b) \in Nat /\ Capacity(b) = block[buf[b].block].cap
    BY <1>2, <2>1 DEF Size, Capacity
  <2>4. ASSUME NEW i \in 1..Size(b)
        PROVE  /\ block[buf[b].block].data[buf[b].head + i - 1] = <<b, next[b] - Size(b) + i - 1>>
               /\ <<b, next[b] - Size(b) + i - 1>> \in Byte
    <3>1. buf[b].head + i - 1 \in buf[b].head..(buf[b].end - 1)
      BY <2>1, <2>3
    <3>2. next[b] - (buf[b].end - (buf[b].head + i - 1)) = next[b] - Size(b) + i - 1
      BY <1>1, <2>1, <2>3
    <3>3. next[b] - Size(b) + i - 1 \in Nat
      BY <1>1, <2>1, <2>3
    <3> QED BY <2>1, <3>1, <3>2, <3>3 DEF Byte
  <2>5. CASE Size(b) = 0
    <3>1. Content(b) = <<>>
      BY <2>5 DEF Content
    <3> QED BY <1>1, <2>1, <2>2, <2>3, <2>5, <3>1
  <2>6. CASE Size(b) # 0
    <3>1. Content(b) = [i \in 1..Size(b) |-> block[buf[b].block].data[buf[b].head + i - 1]]
      BY <2>6 DEF Content, Read
    <3>2. Content(b) \in [1..Size(b) -> Byte] /\ \A i \in 1..Size(b) : Content(b)[i] = <<b, next[b] - Size(b) + i - 1>>
      BY <2>4, <3>1
    <3>3. Content(b) \in Seq(Byte) /\ Len(Content(b)) = Size(b)
      BY <2>3, <3>2
    <3>4. Size(b) <= Capacity(b) /\ Size(b) <= next[b]
      BY <2>1, <2>2, <2>3
    <3> QED BY <1>1, <2>2, <2>3, <3>2, <3>3, <3>4
  <2> QED BY <2>5, <2>6
<1>3. CASE buf[b].kind # "live"
  <2>1. buf[b].head = 0 /\ buf[b].end = 0
    BY <1>1, <1>3 DEF BufFits, Empty, Cold
  <2>2. Size(b) = 0 /\ Capacity(b) = 0
    BY <1>3, <2>1 DEF Size, Capacity
  <2>3. Content(b) = <<>>
    BY <2>2 DEF Content
  <2> QED BY <1>1, <2>2, <2>3, PlanConstants
<1> QED BY <1>2, <1>3

\* What it reads once n more bytes follow: again the last ones received.
LEMMA JoinedIs ==
  ASSUME StagingInv, NEW b \in Bufs, NEW n \in Nat
  PROVE  LET bytes == Content(b) \o Received(b, next[b], n) IN
         /\ bytes \in Seq(Byte) /\ Len(bytes) = Size(b) + n
         /\ \A i \in 1..(Size(b) + n) : bytes[i] = <<b, next[b] - Size(b) + i - 1>>
<1> DEFINE new == Received(b, next[b], n)
           old == Content(b)
<1>1. /\ Size(b) \in Nat /\ next[b] \in Nat /\ old \in Seq(Byte) /\ Len(old) = Size(b)
      /\ \A i \in 1..Size(b) : old[i] = <<b, next[b] - Size(b) + i - 1>>
  BY ContentIs
<1>2. new \in Seq(Byte) /\ Len(new) = n /\ \A i \in 1..n : new[i] = <<b, next[b] + i - 1>>
  BY <1>1, ReceivedIs
<1> HIDE DEF new, old
<1>3. /\ old \o new \in Seq(Byte) /\ Len(old \o new) = Len(old) + Len(new)
      /\ \A i \in 1..(Len(old) + Len(new)) :
           (old \o new)[i] = IF i <= Len(old) THEN old[i] ELSE new[i - Len(old)]
  BY <1>1, <1>2, ConcatProperties
<1>4. ASSUME NEW i \in 1..(Size(b) + n) PROVE (old \o new)[i] = <<b, next[b] - Size(b) + i - 1>>
  <2>1. CASE i <= Size(b)
    BY <1>1, <1>2, <1>3, <2>1
  <2>2. CASE ~ (i <= Size(b))
    <3>0. i \in Int /\ i <= Size(b) + n /\ Size(b) \in Int /\ next[b] \in Int
      BY <1>1
    <3>1. i - Size(b) \in 1..n /\ next[b] + (i - Size(b)) - 1 = next[b] - Size(b) + i - 1
      BY <2>2, <3>0
    <3>2. (old \o new)[i] = new[i - Size(b)]
      BY <1>1, <1>2, <1>3, <2>2
    <3>3. new[i - Size(b)] = <<b, next[b] + (i - Size(b)) - 1>>
      BY <1>2, <3>1
    <3> QED BY <3>1, <3>2, <3>3
  <2> QED BY <2>1, <2>2
<1> QED BY <1>1, <1>2, <1>3, <1>4 DEF old, new

-----------------------------------------------------------------------------
(* What is freed, what is vacant.                                          *)

LEMMA PinnedFinite ==
  ASSUME NEW st, NEW vs
  PROVE  IsFiniteSet(PinnedIn(st, vs)) /\ Cardinality(PinnedIn(st, vs)) \in Nat
<1>1. PinnedIn(st, vs) \in SUBSET Blocks
  BY DEF PinnedIn
<1> QED BY <1>1, PlanConstants, FS_Subset, FS_CardinalityType

LEMMA UnusedFits == Free \in Backing /\ BlockFits(Free)
<1>1. Blank \in [Cells -> Byte \cup {<<>>}]
  BY DEF Blank
<1> QED BY <1>1, PlanConstants DEF Free, Backing, BlockFits

\* Sweeping frees what nothing names and disturbs nothing else.
LEMMA SweptKeeps ==
  ASSUME NEW st, NEW bs, NEW ns, NEW vs, Fits(st, bs, ns, vs)
  PROVE  Fits(Swept(st, bs, vs), bs, ns, vs) /\ Named(Swept(st, bs, vs), bs, vs)
<1> DEFINE sw == Swept(st, bs, vs)
           IsNamed(k) == (\E b \in Bufs : bs[b].block = k) \/ (\E v \in Views : vs[v].block = k)
<1>1. ASSUME NEW k \in Blocks
      PROVE  (IsNamed(k) => sw[k] = st[k]) /\ (~ IsNamed(k) => sw[k] = Free)
  BY DEF Swept
<1>2. Kinds(st, bs, ns, vs) /\ (\A k \in Blocks : BlockFits(st[k]))
  BY DEF Fits
<1>3. Kinds(sw, bs, ns, vs)
  <2>1. \A k \in Blocks : sw[k] \in Backing
    BY <1>1, <1>2, UnusedFits DEF Kinds
  <2>2. sw = [k \in Blocks |-> sw[k]]
    BY DEF Swept
  <2>3. sw \in [Blocks -> Backing]
    BY <2>1, <2>2
  <2> QED BY <1>2, <2>3 DEF Kinds
<1>4. \A k \in Blocks : BlockFits(sw[k])
  BY <1>1, <1>2, UnusedFits
<1> HIDE DEF sw
<1>5. ASSUME NEW b \in Bufs PROVE BufFits(sw, bs[b], ns[b], b)
  <2>1. BufFits(st, bs[b], ns[b], b)
    BY DEF Fits
  <2>2. bs[b].block \in Blocks => sw[bs[b].block] = st[bs[b].block]
    BY <1>1
  <2> QED BY <2>1, <2>2 DEF BufFits
<1>6. ASSUME NEW v \in Views PROVE ViewFits(sw, vs[v])
  <2>1. ViewFits(st, vs[v])
    BY DEF Fits
  <2>2. vs[v].block \in Blocks => sw[vs[v].block] = st[vs[v].block]
    BY <1>1
  <2> QED BY <2>1, <2>2 DEF ViewFits
<1>7. Cardinality(PinnedIn(sw, vs)) <= Shared
  <2>1. PinnedIn(sw, vs) \subseteq PinnedIn(st, vs)
    <3>1. ASSUME NEW k \in Blocks, sw[k].mode = "warm", Shows(vs, k) PROVE st[k].mode = "warm"
      BY <1>1, <3>1 DEF Shows
    <3> QED BY <3>1 DEF PinnedIn
  <2>2. Cardinality(PinnedIn(sw, vs)) <= Cardinality(PinnedIn(st, vs))
    BY <2>1, PinnedFinite, FS_Subset
  <2>3. Cardinality(PinnedIn(st, vs)) <= Shared
    BY DEF Fits
  <2> QED BY <2>2, <2>3, PinnedFinite, PlanConstants
<1>8. Apart(bs) /\ Behind(bs, vs)
  BY DEF Fits
<1>9. Named(sw, bs, vs)
  BY <1>1 DEF Named, Shows
<1>10. Fits(sw, bs, ns, vs)
  BY <1>3, <1>4, <1>5, <1>6, <1>7, <1>8 DEF Fits
<1> QED BY <1>9, <1>10 DEF sw

\* A function takes no more values than it has arguments.
LEMMA Images ==
  ASSUME NEW S, IsFiniteSet(S), NEW T, NEW f \in [S -> T], \A t \in T : \E x \in S : f[x] = t
  PROVE  IsFiniteSet(T) /\ Cardinality(T) \in Nat /\ Cardinality(T) <= Cardinality(S)
<1>1. f \in Surjection(S, T)
  BY DEF Surjection
<1>2. IsFiniteSet(T) /\ Cardinality(T) <= Cardinality(S)
  BY <1>1, FS_Surjection
<1> QED BY <1>2, FS_CardinalityType

\* There are more backings than names, so one is free, and no free one is named.
LEMMA VacantIs ==
  ASSUME StagingInv
  PROVE  /\ VacantBlock \in Blocks /\ block[VacantBlock] = Free
         /\ \A b \in Bufs : buf[b].block # VacantBlock
         /\ \A v \in Views : view[v].block # VacantBlock
<1> DEFINE ByBufs == {buf[b].block : b \in Bufs}
           ByViews == {view[v].block : v \in Views}
<1>1. IsFiniteSet(ByBufs) /\ Cardinality(ByBufs) \in Nat /\ Cardinality(ByBufs) <= Cardinality(Bufs)
  <2> DEFINE f == [b \in Bufs |-> buf[b].block]
  <2>1. IsFiniteSet(Bufs) /\ f \in [Bufs -> ByBufs] /\ \A t \in ByBufs : \E x \in Bufs : f[x] = t
    BY PlanConstants
  <2> HIDE DEF f, ByBufs
  <2> QED BY <2>1, Images
<1>2. IsFiniteSet(ByViews) /\ Cardinality(ByViews) \in Nat /\ Cardinality(ByViews) <= Cardinality(Views)
  <2> DEFINE f == [v \in Views |-> view[v].block]
  <2>1. IsFiniteSet(Views) /\ f \in [Views -> ByViews] /\ \A t \in ByViews : \E x \in Views : f[x] = t
    BY PlanConstants
  <2> HIDE DEF f, ByViews
  <2> QED BY <2>1, Images
<1> HIDE DEF ByBufs, ByViews
<1>3. /\ IsFiniteSet(ByBufs \cup ByViews) /\ Cardinality(ByBufs \cup ByViews) \in Nat
      /\ Cardinality(ByBufs \cup ByViews) <= Cardinality(ByBufs) + Cardinality(ByViews)
  <2>1. IsFiniteSet(ByBufs \cap ByViews) /\ Cardinality(ByBufs \cap ByViews) \in Nat
    BY <1>1, FS_Intersection, FS_CardinalityType
  <2>2. Cardinality(ByBufs \cup ByViews) = Cardinality(ByBufs) + Cardinality(ByViews) - Cardinality(ByBufs \cap ByViews)
    BY <1>1, <1>2, FS_Union
  <2>3. IsFiniteSet(ByBufs \cup ByViews)
    BY <1>1, <1>2, FS_Union
  <2> QED BY <1>1, <1>2, <2>1, <2>2, <2>3, FS_CardinalityType
<1>4. PICK q \in Blocks : q \notin ByBufs \cup ByViews
  <2>1. ASSUME Blocks \subseteq ByBufs \cup ByViews PROVE FALSE
    <3>1. Cardinality(Blocks) <= Cardinality(ByBufs \cup ByViews) /\ Cardinality(Blocks) \in Nat
      BY <1>3, <2>1, FS_Subset, FS_CardinalityType
    <3>2. Cardinality(Bufs) \in Nat /\ Cardinality(Views) \in Nat
      BY PlanConstants, FS_CardinalityType
    <3> QED BY <1>1, <1>2, <1>3, <3>1, <3>2, PlanConstants
  <2> QED BY <2>1
<1>5. block[q] = Free
  BY <1>4 DEF StagingInv, Named, Shows, ByBufs, ByViews
<1>6. VacantBlock \in Blocks /\ block[VacantBlock] = Free
  BY <1>5 DEF VacantBlock
<1>7. block[VacantBlock].mode = "free"
  BY <1>6 DEF Free
<1>8. ASSUME NEW b \in Bufs PROVE buf[b].block # VacantBlock
  <2>1. BufFits(block, buf[b], next[b], b)
    BY DEF StagingInv, Fits
  <2> QED BY <1>6, <1>7, <2>1, PlanConstants DEF BufFits, Empty, Cold
<1>9. ASSUME NEW v \in Views PROVE view[v].block # VacantBlock
  <2>1. ViewFits(block, view[v])
    BY DEF StagingInv, Fits
  <2> QED BY <1>6, <1>7, <2>1, PlanConstants DEF ViewFits, NoView
<1> QED BY <1>6, <1>8, <1>9

-----------------------------------------------------------------------------
(* What a step may do to a state that fits.                                *)

Data == [Cells -> Byte \cup {<<>>}]

LEMMA FitsNow ==
  ASSUME StagingInv
  PROVE  /\ Fits(block, buf, next, view) /\ Kinds(block, buf, next, view)
         /\ \A k \in Blocks : BlockFits(block[k]) /\ block[k] \in Backing
         /\ \A b \in Bufs : BufFits(block, buf[b], next[b], b) /\ buf[b] \in Unread /\ next[b] \in Nat
         /\ \A v \in Views : ViewFits(block, view[v]) /\ view[v] \in Retained
         /\ Apart(buf) /\ Behind(buf, view) /\ Cardinality(PinnedIn(block, view)) <= Shared
BY DEF StagingInv, Fits, Kinds

\* A buffer rewrites the cells of its own backing that no view looks at.
LEMMA RewrittenFits ==
  ASSUME StagingInv, NEW b \in Bufs, buf[b].kind = "live", NEW d \in Data,
         NEW h \in Nat, NEW e \in Nat, NEW m \in Nat,
         h <= e, e <= block[buf[b].block].cap, e - h <= m,
         \A i \in h..(e - 1) : d[i] = <<b, m - (e - i)>>,
         \A v \in Views : view[v].block = buf[b].block =>
            /\ view[v].from + Len(view[v].bytes) <= e
            /\ \A i \in 1..Len(view[v].bytes) :
                 d[view[v].from + i - 1] = block[buf[b].block].data[view[v].from + i - 1]
  PROVE  LET st == [block EXCEPT ![buf[b].block].data = d]
             bs == [buf EXCEPT ![b] = Live(buf[b].block, h, e)]
         IN Fits(st, bs, [next EXCEPT ![b] = m], view) /\ Named(st, bs, view)
<1> DEFINE k == buf[b].block
           st == [block EXCEPT ![k].data = d]
           x  == Live(k, h, e)
           bs == [buf EXCEPT ![b] = x]
           ns == [next EXCEPT ![b] = m]
<1>1. /\ k \in Blocks /\ block[k] \in Backing /\ BlockFits(block[k])
      /\ block[k].mode \in {"warm", "accounted", "local"}
  BY FitsNow DEF BufFits
<1>2. /\ block \in [Blocks -> Backing] /\ buf \in [Bufs -> Unread]
      /\ next \in [Bufs -> Nat] /\ view \in [Views -> Retained]
  BY FitsNow DEF Kinds
<1>3. /\ \A j \in Blocks : j # k => st[j] = block[j]
      /\ st[k] = [block[k] EXCEPT !.data = d] /\ st[k].mode = block[k].mode
      /\ st[k].cap = block[k].cap /\ st[k].data = d
  BY <1>1, <1>2 DEF Backing
<1>4. st \in [Blocks -> Backing] /\ ns \in [Bufs -> Nat]
  BY <1>1, <1>2 DEF Backing, Data
<1>5. x \in Unread /\ bs \in [Bufs -> Unread]
  <2>1. h \in 0..Ceiling /\ e \in 0..Ceiling
    BY <1>1, PlanConstants DEF Backing
  <2>2. x \in Unread
    BY <1>1, <2>1 DEF Unread, Live
  <2> QED BY <1>2, <2>2
<1>6. /\ bs[b] = x /\ \A c \in Bufs : c # b => bs[c] = buf[c] /\ ns[c] = next[c]
      /\ ns[b] = m
  BY <1>2
<1>7. x.kind = "live" /\ x.block = k /\ x.head = h /\ x.end = e
  BY DEF Live
<1> HIDE DEF st, bs, ns, x
<1>8. ASSUME NEW j \in Blocks PROVE BlockFits(st[j])
  <2>1. BlockFits(block[j])
    BY FitsNow
  <2>2. CASE j = k
    <3>1. st[k].mode # "free" /\ st[k].cap > 0 /\ (st[k].mode = "warm" => st[k].cap = Warm)
      BY <1>1, <1>3 DEF BlockFits, Free
    <3> QED BY <2>2, <3>1 DEF BlockFits
  <2>3. CASE j # k
    BY <1>3, <2>1, <2>3
  <2> QED BY <2>2, <2>3
<1>9. ASSUME NEW c \in Bufs PROVE BufFits(st, bs[c], ns[c], c)
  <2>1. CASE c = b
    <3>1. /\ x.kind = "live" /\ x.block = k /\ x.head = h /\ x.end = e
          /\ st[k].mode \in {"warm", "accounted", "local"} /\ st[k].cap = block[k].cap /\ st[k].data = d
      BY <1>1, <1>3, <1>7
    <3>2. BufFits(st, x, m, b)
      BY <1>1, <3>1 DEF BufFits
    <3> QED BY <1>6, <2>1, <3>2
  <2>2. CASE c # b
    <3>1. BufFits(block, buf[c], next[c], c)
      BY FitsNow
    <3>2. k # NoBlock /\ buf[c].block # k
      BY <1>1, <2>2, FitsNow, PlanConstants DEF Apart
    <3>3. buf[c].block \in Blocks => st[buf[c].block] = block[buf[c].block]
      BY <1>3, <3>2
    <3> QED BY <1>6, <2>2, <3>1, <3>3 DEF BufFits
  <2> QED BY <2>1, <2>2
<1>10. ASSUME NEW v \in Views PROVE ViewFits(st, view[v])
  <2>1. ViewFits(block, view[v])
    BY FitsNow
  <2>2. CASE view[v].block = k
    <3> SUFFICES ASSUME view[v] # NoView PROVE ViewFits(st, view[v])
      BY DEF ViewFits
    <3>1. /\ view[v].from + Len(view[v].bytes) <= st[k].cap
          /\ \A i \in 1..Len(view[v].bytes) : block[k].data[view[v].from + i - 1] = view[v].bytes[i]
      BY <1>3, <2>1, <2>2 DEF ViewFits
    <3>2. \A i \in 1..Len(view[v].bytes) : st[k].data[view[v].from + i - 1] = view[v].bytes[i]
      BY <1>3, <2>2, <3>1
    <3> QED BY <1>1, <1>3, <2>2, <3>1, <3>2 DEF ViewFits
  <2>3. CASE view[v].block # k
    <3>1. view[v].block \in Blocks => st[view[v].block] = block[view[v].block]
      BY <1>3, <2>3
    <3> QED BY <2>1, <3>1 DEF ViewFits
  <2> QED BY <2>2, <2>3
<1>11. \A c \in Bufs : bs[c].block = buf[c].block
  BY <1>6, <1>7
<1>12. Apart(bs)
  BY <1>11, FitsNow DEF Apart
<1>13. Behind(bs, view)
  <2> SUFFICES ASSUME NEW c \in Bufs, NEW v \in Views, view[v].block = bs[c].block, view[v].block # NoBlock
               PROVE  view[v].from + Len(view[v].bytes) <= bs[c].end
    BY DEF Behind
  <2>1. CASE c = b
    BY <1>6, <1>7, <2>1
  <2>2. CASE c # b
    BY <1>6, <2>2, FitsNow DEF Behind
  <2> QED BY <2>1, <2>2
<1>14. PinnedIn(st, view) = PinnedIn(block, view)
  BY <1>3 DEF PinnedIn
<1>15. Fits(st, bs, ns, view)
  BY <1>2, <1>4, <1>5, <1>8, <1>9, <1>10, <1>12, <1>13, <1>14, FitsNow DEF Fits, Kinds
<1>16. Named(st, bs, view)
  <2> SUFFICES ASSUME NEW j \in Blocks, st[j] # Free
               PROVE  (\E c \in Bufs : bs[c].block = j) \/ Shows(view, j)
    BY DEF Named
  <2>1. CASE j = k
    BY <1>6, <1>7, <2>1
  <2>2. CASE j # k
    <3>1. block[j] # Free
      BY <1>3, <2>2
    <3>2. (\E c \in Bufs : buf[c].block = j) \/ Shows(view, j)
      BY <3>1 DEF StagingInv, Named
    <3> QED BY <1>11, <3>2
  <2> QED BY <2>1, <2>2
<1> QED BY <1>15, <1>16 DEF st, bs, ns, x, k

\* A backing nothing names is written, and disturbs nobody.
LEMMA WrittenFits ==
  ASSUME StagingInv, NEW x \in Backing, BlockFits(x)
  PROVE  LET st == [block EXCEPT ![VacantBlock] = x] IN
         /\ st \in [Blocks -> Backing] /\ st[VacantBlock] = x /\ \A k \in Blocks : BlockFits(st[k])
         /\ \A k \in Blocks : k # VacantBlock => st[k] = block[k]
         /\ \A c \in Bufs : BufFits(st, buf[c], next[c], c)
         /\ \A v \in Views : ViewFits(st, view[v])
         /\ PinnedIn(st, view) = PinnedIn(block, view)
<1> DEFINE q == VacantBlock
           st == [block EXCEPT ![q] = x]
<1>1. /\ q \in Blocks /\ \A c \in Bufs : buf[c].block # q
      /\ \A v \in Views : view[v].block # q
  BY VacantIs
<1>2. block \in [Blocks -> Backing]
  BY FitsNow DEF Kinds
<1> HIDE DEF q
<1>3. st \in [Blocks -> Backing] /\ st[q] = x /\ \A k \in Blocks : k # q => st[k] = block[k]
  BY <1>1, <1>2
<1> HIDE DEF st
<1>4. \A k \in Blocks : BlockFits(st[k])
  BY <1>3, FitsNow
<1>5. ASSUME NEW c \in Bufs PROVE BufFits(st, buf[c], next[c], c)
  <2>1. BufFits(block, buf[c], next[c], c)
    BY FitsNow
  <2>2. buf[c].block \in Blocks => st[buf[c].block] = block[buf[c].block]
    BY <1>1, <1>3
  <2> QED BY <2>1, <2>2 DEF BufFits
<1>6. ASSUME NEW v \in Views PROVE ViewFits(st, view[v])
  <2>1. ViewFits(block, view[v])
    BY FitsNow
  <2>2. view[v].block \in Blocks => st[view[v].block] = block[view[v].block]
    BY <1>1, <1>3
  <2> QED BY <2>1, <2>2 DEF ViewFits
<1>7. PinnedIn(st, view) = PinnedIn(block, view)
  <2>1. ASSUME NEW k \in Blocks, Shows(view, k) PROVE st[k] = block[k]
    BY <1>1, <1>3, <2>1 DEF Shows
  <2> QED BY <2>1 DEF PinnedIn
<1> QED BY <1>3, <1>4, <1>5, <1>6, <1>7 DEF st, q

\* A buffer takes the first e bytes of a backing nothing names.
LEMMA MovedFits ==
  ASSUME StagingInv, NEW b \in Bufs, NEW x \in Backing, BlockFits(x),
         x.mode \in {"warm", "accounted", "local"},
         NEW e \in Nat, NEW m \in Nat, e <= x.cap, e <= m,
         \A i \in 0..(e - 1) : x.data[i] = <<b, m - (e - i)>>
  PROVE  Fits([block EXCEPT ![VacantBlock] = x], [buf EXCEPT ![b] = Live(VacantBlock, 0, e)],
              [next EXCEPT ![b] = m], view)
<1> DEFINE q == VacantBlock
           st == [block EXCEPT ![q] = x]
           y  == Live(q, 0, e)
           bs == [buf EXCEPT ![b] = y]
           ns == [next EXCEPT ![b] = m]
<1>1. /\ st \in [Blocks -> Backing] /\ st[q] = x /\ \A k \in Blocks : BlockFits(st[k])
      /\ \A c \in Bufs : BufFits(st, buf[c], next[c], c)
      /\ \A v \in Views : ViewFits(st, view[v])
      /\ PinnedIn(st, view) = PinnedIn(block, view)
  BY WrittenFits
<1>2. /\ q \in Blocks /\ \A c \in Bufs : buf[c].block # q
      /\ \A v \in Views : view[v].block # q
  BY VacantIs
<1>3. buf \in [Bufs -> Unread] /\ next \in [Bufs -> Nat] /\ view \in [Views -> Retained]
  BY FitsNow DEF Kinds
<1>4. /\ bs[b] = y /\ \A c \in Bufs : c # b => bs[c] = buf[c] /\ ns[c] = next[c]
      /\ ns[b] = m /\ ns \in [Bufs -> Nat]
  BY <1>3
<1>5. bs \in [Bufs -> Unread]
  <2>1. 0 \in 0..Ceiling /\ e \in 0..Ceiling
    BY PlanConstants DEF Backing
  <2>2. y \in Unread
    BY <1>2, <2>1 DEF Unread, Live
  <2> QED BY <1>3, <2>2
<1>6. y.kind = "live" /\ y.block = q /\ y.head = 0 /\ y.end = e
  BY DEF Live
<1> HIDE DEF st, bs, ns, y, q
<1>7. ASSUME NEW c \in Bufs PROVE BufFits(st, bs[c], ns[c], c)
  <2>1. CASE c = b
    BY <1>1, <1>2, <1>4, <1>6, <2>1 DEF BufFits
  <2>2. CASE c # b
    BY <1>1, <1>4, <2>2
  <2> QED BY <2>1, <2>2
<1>8. Apart(bs)
  <2> SUFFICES ASSUME NEW c \in Bufs, NEW g \in Bufs, bs[c].block = bs[g].block, bs[c].block # NoBlock
               PROVE  c = g
    BY DEF Apart
  <2>1. CASE c # b /\ g # b
    BY <1>4, <2>1, FitsNow DEF Apart
  <2>2. CASE ~ (c # b /\ g # b)
    BY <1>2, <1>4, <1>6, <2>2
  <2> QED BY <2>1, <2>2
<1>9. Behind(bs, view)
  <2> SUFFICES ASSUME NEW c \in Bufs, NEW v \in Views, view[v].block = bs[c].block, view[v].block # NoBlock
               PROVE  view[v].from + Len(view[v].bytes) <= bs[c].end
    BY DEF Behind
  <2>1. c # b
    BY <1>2, <1>4, <1>6
  <2> QED BY <1>4, <2>1, FitsNow DEF Behind
<1>10. Cardinality(PinnedIn(st, view)) <= Shared
  BY <1>1, FitsNow
<1>11. Kinds(st, bs, ns, view)
  BY <1>1, <1>3, <1>4, <1>5 DEF Kinds
<1>12. Fits(st, bs, ns, view)
  BY <1>1, <1>7, <1>8, <1>9, <1>10, <1>11 DEF Fits
<1> QED BY <1>12 DEF st, bs, ns, y, q

\* A buffer lets its backing go, or reads on in it.
LEMMA ShrunkFits ==
  ASSUME StagingInv, NEW b \in Bufs, NEW x,
         x \in {Empty, Cold} \/ (buf[b].kind = "live" /\ \E h \in Nat :
             buf[b].head <= h /\ h <= buf[b].end /\ x = [buf[b] EXCEPT !.head = h])
  PROVE  Fits(block, [buf EXCEPT ![b] = x], next, view)
<1> DEFINE bs == [buf EXCEPT ![b] = x]
<1>1. /\ block \in [Blocks -> Backing] /\ buf \in [Bufs -> Unread]
      /\ next \in [Bufs -> Nat] /\ view \in [Views -> Retained]
  BY FitsNow DEF Kinds
<1>2. BufFits(block, buf[b], next[b], b) /\ buf[b] \in Unread
  BY FitsNow
<1>3. /\ x \in Unread /\ BufFits(block, x, next[b], b)
      /\ x.block # NoBlock => x.block = buf[b].block /\ x.end = buf[b].end
  <2>1. CASE x \in {Empty, Cold}
    <3>1. x \in Unread /\ x.kind # "live" /\ x.block = NoBlock
      BY <2>1, PlanConstants DEF Unread, Empty, Cold
    <3> QED BY <2>1, <3>1 DEF BufFits
  <2>2. CASE ~ (x \in {Empty, Cold})
    <3>1. PICK h \in Nat : buf[b].head <= h /\ h <= buf[b].end /\ x = [buf[b] EXCEPT !.head = h]
      BY <2>2
    <3>2. /\ x.kind = buf[b].kind /\ x.block = buf[b].block /\ x.head = h /\ x.end = buf[b].end
          /\ x \in Unread /\ buf[b].head \in Nat /\ buf[b].end \in Nat /\ buf[b].kind = "live"
      BY <1>2, <2>2, <3>1, PlanConstants DEF Unread
    <3>3. h..(buf[b].end - 1) \subseteq buf[b].head..(buf[b].end - 1)
      BY <3>1, <3>2
    <3>4. next[b] \in Nat /\ buf[b].end - h <= next[b]
      BY <1>1, <1>2, <3>1, <3>2 DEF BufFits
    <3> QED BY <1>2, <3>1, <3>2, <3>3, <3>4 DEF BufFits
  <2> QED BY <2>1, <2>2
<1>4. bs[b] = x /\ (\A c \in Bufs : c # b => bs[c] = buf[c]) /\ bs \in [Bufs -> Unread]
  BY <1>1, <1>3
<1> HIDE DEF bs
<1>5. \A c \in Bufs : BufFits(block, bs[c], next[c], c)
  BY <1>3, <1>4, FitsNow
<1>6. \A c \in Bufs : bs[c].block # NoBlock => bs[c].block = buf[c].block /\ bs[c].end = buf[c].end
  BY <1>3, <1>4
<1>7. Apart(bs)
  BY <1>6, FitsNow DEF Apart
<1>8. Behind(bs, view)
  BY <1>6, FitsNow DEF Behind
<1>9. Kinds(block, bs, next, view)
  BY <1>1, <1>4 DEF Kinds
<1>10. Fits(block, bs, next, view)
  BY <1>5, <1>7, <1>8, <1>9, FitsNow DEF Fits
<1> QED BY <1>10 DEF bs

\* A view begins or ends.
LEMMA ViewedFits ==
  ASSUME StagingInv, NEW v \in Views, NEW y \in Retained, NEW st \in [Blocks -> Backing],
         \A k \in Blocks : BlockFits(st[k]),
         \A c \in Bufs : BufFits(st, buf[c], next[c], c),
         \A w \in Views : ViewFits(st, view[w]),
         ViewFits(st, y),
         \A c \in Bufs : buf[c].block = y.block /\ y.block # NoBlock =>
            y.from + Len(y.bytes) <= buf[c].end,
         Cardinality(PinnedIn(st, [view EXCEPT ![v] = y])) <= Shared
  PROVE  Fits(st, buf, next, [view EXCEPT ![v] = y])
<1> DEFINE vs == [view EXCEPT ![v] = y]
<1>1. buf \in [Bufs -> Unread] /\ next \in [Bufs -> Nat] /\ view \in [Views -> Retained]
  BY FitsNow DEF Kinds
<1>2. vs[v] = y /\ (\A w \in Views : w # v => vs[w] = view[w]) /\ vs \in [Views -> Retained]
  BY <1>1
<1> HIDE DEF vs
<1>3. \A w \in Views : ViewFits(st, vs[w])
  BY <1>2
<1>4. Behind(buf, vs)
  <2> SUFFICES ASSUME NEW c \in Bufs, NEW w \in Views, vs[w].block = buf[c].block, vs[w].block # NoBlock
               PROVE  vs[w].from + Len(vs[w].bytes) <= buf[c].end
    BY DEF Behind
  <2>1. CASE w = v
    BY <1>2, <2>1
  <2>2. CASE w # v
    BY <1>2, <2>2, FitsNow DEF Behind
  <2> QED BY <2>1, <2>2
<1>5. Kinds(st, buf, next, vs)
  BY <1>1, <1>2 DEF Kinds
<1>6. Cardinality(PinnedIn(st, vs)) <= Shared
  BY DEF vs
<1>7. Fits(st, buf, next, vs)
  BY <1>3, <1>4, <1>5, <1>6, FitsNow DEF Fits
<1> QED BY <1>7 DEF vs

\* A view pins at most one warm slot more, and only one no view had pinned.
LEMMA PinnedMore ==
  ASSUME StagingInv, NEW v \in Views, NEW y \in Retained, NEW k \in Blocks, y.block = k,
         NEW st, st[k].mode = "warm" /\ ~ Shows(view, k) => Cardinality(PinnedIn(st, view)) < Shared,
         Cardinality(PinnedIn(st, view)) <= Shared
  PROVE  Cardinality(PinnedIn(st, [view EXCEPT ![v] = y])) <= Shared
<1> DEFINE vs == [view EXCEPT ![v] = y]
           old == PinnedIn(st, view)
<1>1. view \in [Views -> Retained]
  BY FitsNow DEF Kinds
<1>2. vs[v] = y /\ \A w \in Views : w # v => vs[w] = view[w]
  BY <1>1
<1> HIDE DEF vs
<1>3. \A j \in Blocks : Shows(vs, j) => Shows(view, j) \/ j = k
  BY <1>2 DEF Shows
<1>4. IsFiniteSet(old) /\ Cardinality(old) \in Nat
  BY PinnedFinite
<1>5. CASE st[k].mode = "warm" /\ ~ Shows(view, k)
  <2>1. PinnedIn(st, vs) \subseteq old \cup {k}
    BY <1>3 DEF PinnedIn
  <2>2. IsFiniteSet(old \cup {k}) /\ Cardinality(old \cup {k}) <= Cardinality(old) + 1
    <3>1. /\ IsFiniteSet(old \cup {k})
          /\ Cardinality(old \cup {k}) = IF k \in old THEN Cardinality(old) ELSE Cardinality(old) + 1
      <4> HIDE DEF old
      <4> QED BY <1>4, FS_AddElement
    <3> QED BY <1>4, <3>1
  <2>3. Cardinality(PinnedIn(st, vs)) <= Cardinality(old \cup {k}) /\ Cardinality(old \cup {k}) \in Nat
    BY <2>1, <2>2, FS_Subset, FS_CardinalityType
  <2>4. Cardinality(PinnedIn(st, vs)) \in Nat /\ Cardinality(old) < Shared
    BY <1>5, PinnedFinite
  <2> QED BY <1>4, <2>2, <2>3, <2>4, PlanConstants DEF vs
<1>6. CASE ~ (st[k].mode = "warm" /\ ~ Shows(view, k))
  <2>1. PinnedIn(st, vs) \subseteq old
    BY <1>3, <1>6 DEF PinnedIn
  <2>2. Cardinality(PinnedIn(st, vs)) <= Cardinality(old)
    BY <1>4, <2>1, FS_Subset
  <2> QED BY <1>4, <2>2, PinnedFinite, PlanConstants DEF vs, old
<1> QED BY <1>5, <1>6

LEMMA PinnedLess ==
  ASSUME StagingInv, NEW v \in Views
  PROVE  Cardinality(PinnedIn(block, [view EXCEPT ![v] = NoView])) <= Shared
<1> DEFINE vs == [view EXCEPT ![v] = NoView]
<1>1. view \in [Views -> Retained]
  BY FitsNow DEF Kinds
<1>2. vs[v] = NoView /\ \A w \in Views : w # v => vs[w] = view[w]
  BY <1>1
<1> HIDE DEF vs
<1>3. \A j \in Blocks : Shows(vs, j) => Shows(view, j)
  BY <1>2, PlanConstants DEF Shows, NoView
<1>4. PinnedIn(block, vs) \subseteq PinnedIn(block, view)
  BY <1>3 DEF PinnedIn
<1>5. Cardinality(PinnedIn(block, vs)) <= Cardinality(PinnedIn(block, view))
  BY <1>4, PinnedFinite, FS_Subset
<1> QED BY <1>5, PinnedFinite, FitsNow, PlanConstants DEF vs

-----------------------------------------------------------------------------
(* The actions.                                                            *)

LEMMA LiveIs ==
  ASSUME StagingInv, NEW b \in Bufs, buf[b].kind = "live"
  PROVE  LET k == buf[b].block IN
         /\ k \in Blocks /\ block[k].data \in Data /\ block[k].mode \in {"warm", "accounted", "local"}
         /\ buf[b].head \in Nat /\ buf[b].end \in Nat /\ block[k].cap \in Nat /\ block[k].cap <= Ceiling
         /\ buf[b].head <= buf[b].end /\ buf[b].end <= block[k].cap /\ buf[b].end - buf[b].head <= next[b]
         /\ next[b] \in Nat /\ Size(b) = buf[b].end - buf[b].head /\ Capacity(b) = block[k].cap
         /\ \A i \in buf[b].head..(buf[b].end - 1) : block[k].data[i] = <<b, next[b] - (buf[b].end - i)>>
<1> DEFINE k == buf[b].block
<1>1. BufFits(block, buf[b], next[b], b) /\ buf[b] \in Unread /\ next[b] \in Nat
  BY FitsNow
<1>2. k \in Blocks /\ buf[b].head \in Nat /\ buf[b].end \in Nat
  BY <1>1, PlanConstants DEF BufFits, Unread
<1>3. block[k] \in Backing
  BY <1>2, FitsNow
<1>4. block[k].data \in Data /\ block[k].cap \in Nat /\ block[k].cap <= Ceiling
  BY <1>3, PlanConstants DEF Backing, Data
<1> QED BY <1>1, <1>2, <1>4 DEF BufFits, Size, Capacity

LEMMA ViewIs ==
  ASSUME StagingInv, NEW v \in Views, view[v].block # NoBlock
  PROVE  /\ view[v].block \in Blocks /\ view[v].from \in Nat /\ view[v].bytes \in Seq(Byte)
         /\ Len(view[v].bytes) \in Nat
         /\ view[v].from + Len(view[v].bytes) <= block[view[v].block].cap
         /\ block[view[v].block].cap \in Nat /\ block[view[v].block].cap <= Ceiling
         /\ \A i \in 1..Len(view[v].bytes) :
              block[view[v].block].data[view[v].from + i - 1] = view[v].bytes[i]
<1>1. ViewFits(block, view[v]) /\ view[v] \in Retained /\ view[v] # NoView
  BY FitsNow DEF NoView
<1>2. view[v].from \in Nat /\ view[v].bytes \in Seq(Byte) /\ view[v].block \in Blocks
  BY <1>1, PlanConstants DEF Retained, ViewFits
<1>3. block[view[v].block] \in Backing
  BY <1>2, FitsNow
<1>4. block[view[v].block].cap \in Nat /\ block[view[v].block].cap <= Ceiling
  BY <1>3, PlanConstants DEF Backing
<1>5. Len(view[v].bytes) \in Nat
  BY <1>2, LenProperties
<1> QED BY <1>1, <1>2, <1>4, <1>5 DEF ViewFits

LEMMA WrittenData ==
  ASSUME NEW data \in Data, NEW at \in Nat, NEW src \in Seq(Byte)
  PROVE  /\ Place(data, at, src) \in Data
         /\ \A i \in Cells :
              /\ i >= at /\ i < at + Len(src) => Place(data, at, src)[i] = src[i - at + 1]
              /\ ~ (i >= at /\ i < at + Len(src)) => Place(data, at, src)[i] = data[i]
<1>1. src \in Seq(Byte \cup {<<>>})
  BY SeqMonotonic
<1>2. data \in [Cells -> Byte \cup {<<>>}]
  BY DEF Data
<1> QED BY <1>1, <1>2, PlaceIs DEF Data

\* A byte of a view lies before the end of what the view may show.
LEMMA InView ==
  ASSUME NEW from \in Nat, NEW len \in Nat, NEW end \in Nat, from + len <= end, end <= Ceiling,
         NEW i \in 1..len
  PROVE  from + i - 1 \in Cells /\ ~ (from + i - 1 >= end)
BY PlanConstants DEF Cells

LEMMA SendableIs ==
  ASSUME StagingInv, NEW b \in Bufs, NEW n \in Sendable(b)
  PROVE  n \in Nat /\ n > 0 /\ Size(b) + n <= Ceiling
<1>1. Size(b) \in Nat
  BY ContentIs
<1> QED BY <1>1, PlanConstants DEF Sendable, Admits

LEMMA InPlaceKeeps ==
  ASSUME StagingInv, NEW b \in Bufs, AppendInPlace(b)
  PROVE  StagingInv'
<1>1. PICK n \in Sendable(b) :
        /\ FitsSuffix(b, n)
        /\ block' = [block EXCEPT ![buf[b].block].data =
                       Place(block[buf[b].block].data, buf[b].end, Received(b, next[b], n))]
        /\ buf' = [buf EXCEPT ![b].end = buf[b].end + n]
        /\ Receives(b, n) /\ UNCHANGED <<mode, view>>
  BY DEF AppendInPlace
<1> DEFINE k == buf[b].block
           src == Received(b, next[b], n)
           d == Place(block[k].data, buf[b].end, src)
           h == buf[b].head
           e == buf[b].end + n
           m == next[b] + n
<1>2. buf[b].kind = "live" /\ n <= Capacity(b) - buf[b].end
  BY <1>1 DEF FitsSuffix
<1>3. /\ k \in Blocks /\ block[k].data \in Data
      /\ h \in Nat /\ buf[b].end \in Nat /\ block[k].cap \in Nat /\ block[k].cap <= Ceiling
      /\ h <= buf[b].end /\ buf[b].end <= block[k].cap /\ buf[b].end - h <= next[b]
      /\ next[b] \in Nat /\ Capacity(b) = block[k].cap
      /\ \A i \in h..(buf[b].end - 1) : block[k].data[i] = <<b, next[b] - (buf[b].end - i)>>
  BY <1>2, LiveIs
<1>4. n \in Nat /\ n > 0
  BY SendableIs
<1> DEFINE z == buf[b].end
           c == block[k].cap
<1>n. /\ h \in Nat /\ z \in Nat /\ c \in Nat /\ n \in Nat /\ n > 0 /\ next[b] \in Nat /\ Ceiling \in Nat
      /\ h <= z /\ z <= c /\ c <= Ceiling /\ z - h <= next[b] /\ n <= c - z
  BY <1>2, <1>3, <1>4, PlanConstants
<1>5. src \in Seq(Byte) /\ Len(src) = n /\ \A i \in 1..n : src[i] = <<b, next[b] + i - 1>>
  <2>1. next[b] \in Nat /\ n \in Nat
    BY <1>n
  <2>2. /\ Received(b, next[b], n) \in Seq(Byte) /\ Len(Received(b, next[b], n)) = n
        /\ \A i \in 1..n : Received(b, next[b], n)[i] = <<b, next[b] + i - 1>>
    BY <2>1, ReceivedIs
  <2> QED BY <2>2, Zenon DEF src
<1> HIDE DEF src
<1>6. /\ d \in Data
      /\ \A i \in Cells :
           /\ i >= buf[b].end /\ i < e => d[i] = src[i - buf[b].end + 1]
           /\ ~ (i >= buf[b].end /\ i < e) => d[i] = block[k].data[i]
  <2> DEFINE old == block[k].data
  <2>1. old \in Data /\ z \in Nat /\ e = z + Len(src)
    BY <1>3, <1>5
  <2> HIDE DEF old, z, e
  <2>2. /\ Place(old, z, src) \in Data
        /\ \A i \in Cells :
             /\ i >= z /\ i < z + Len(src) => Place(old, z, src)[i] = src[i - z + 1]
             /\ ~ (i >= z /\ i < z + Len(src)) => Place(old, z, src)[i] = old[i]
    BY <1>5, <2>1, WrittenData
  <2> QED BY <2>1, <2>2, Zenon DEF old, z, d
<1> HIDE DEF d
<1>7. e \in Nat /\ m \in Nat /\ h <= e /\ e <= block[k].cap /\ e - h <= m /\ e <= Ceiling
  BY <1>n
<1>8. ASSUME NEW i \in h..(e - 1) PROVE d[i] = <<b, m - (e - i)>>
  <2>0. i \in Int /\ i >= h /\ i < e /\ i \in Cells
    BY <1>n DEF Cells
  <2>1. m - (e - i) = next[b] - (buf[b].end - i)
    BY <1>n, <2>0
  <2>2. CASE i >= buf[b].end
    <3>1. i - buf[b].end + 1 \in 1..n
      BY <1>n, <2>0, <2>2
    <3>2. next[b] + (i - buf[b].end + 1) - 1 = m - (e - i)
      BY <1>n, <2>0
    <3>3. src[i - buf[b].end + 1] = <<b, next[b] + (i - buf[b].end + 1) - 1>>
      BY <1>5, <3>1
    <3>4. d[i] = src[i - buf[b].end + 1]
      BY <1>6, <2>0, <2>2
    <3> QED BY <3>2, <3>3, <3>4
  <2>3. CASE ~ (i >= buf[b].end)
    <3>1. i \in h..(buf[b].end - 1)
      BY <1>n, <2>0, <2>3
    <3>2. d[i] = block[k].data[i]
      BY <1>6, <2>0, <2>3
    <3> QED BY <1>3, <2>1, <3>1, <3>2
  <2> QED BY <2>2, <2>3
<1>9. ASSUME NEW v \in Views, view[v].block = k
      PROVE  /\ view[v].from + Len(view[v].bytes) <= e
             /\ \A i \in 1..Len(view[v].bytes) :
                  d[view[v].from + i - 1] = block[k].data[view[v].from + i - 1]
  <2>0. view[v].block # NoBlock
    BY <1>3, <1>9, PlanConstants
  <2>1. view[v].from \in Nat /\ Len(view[v].bytes) \in Nat
    BY <2>0, ViewIs
  <2>2. view[v].from + Len(view[v].bytes) <= buf[b].end
    BY <1>9, <2>0, FitsNow DEF Behind
  <2>3. ASSUME NEW i \in 1..Len(view[v].bytes)
        PROVE  d[view[v].from + i - 1] = block[k].data[view[v].from + i - 1]
    <3>1. view[v].from + i - 1 \in Cells /\ ~ (view[v].from + i - 1 >= buf[b].end)
      <4>1. z \in Nat /\ z <= Ceiling
        BY <1>n
      <4> QED BY <2>1, <2>2, <4>1, InView
    <3> QED BY <1>6, <3>1
  <2>4. view[v].from + Len(view[v].bytes) <= e
    <3> DEFINE l == view[v].from + Len(view[v].bytes)
    <3>1. l \in Nat /\ l <= z
      BY <2>1, <2>2
    <3> HIDE DEF l
    <3>2. l <= e
      BY <1>n, <3>1
    <3> QED BY <3>2 DEF l
  <2> QED BY <2>3, <2>4
<1>10. /\ Fits([block EXCEPT ![k].data = d], [buf EXCEPT ![b] = Live(k, h, e)], [next EXCEPT ![b] = m], view)
       /\ Named([block EXCEPT ![k].data = d], [buf EXCEPT ![b] = Live(k, h, e)], view)
  <2> HIDE DEF h, e, m, k
  <2>1. h \in Nat /\ buf[b].kind = "live" /\ block[k].cap = block[buf[b].block].cap
    BY <1>2, <1>3 DEF k
  <2> QED BY <1>6, <1>7, <1>8, <1>9, <2>1, RewrittenFits DEF k
<1>11. block' = [block EXCEPT ![k].data = d]
  BY <1>1 DEF d, src
<1>12. buf' = [buf EXCEPT ![b] = Live(k, h, e)]
  <2>1. buf[b] \in Unread /\ buf \in [Bufs -> Unread]
    BY FitsNow DEF Kinds
  <2>2. [buf[b] EXCEPT !.end = e] = Live(k, h, e)
    BY <1>2, <2>1 DEF Unread, Live
  <2>3. buf' = [buf EXCEPT ![b] = [buf[b] EXCEPT !.end = e]]
    BY <1>1, <2>1
  <2> QED BY <2>2, <2>3
<1>13. next' = [next EXCEPT ![b] = m]
  BY <1>1 DEF Receives
<1>14. mode' = mode /\ view' = view
  BY <1>1
<1>15. Fits(block', buf', next', view')
  BY <1>10, <1>11, <1>12, <1>13, <1>14, Zenon
<1>16. Named(block', buf', view')
  BY <1>10, <1>11, <1>12, <1>14, Zenon
<1> QED BY <1>14, <1>15, <1>16 DEF StagingInv

\* The unread bytes of a buffer and n new ones, put at the start of a backing.
LEMMA FromStart ==
  ASSUME StagingInv, NEW b \in Bufs, NEW n \in Nat, Size(b) + n <= Ceiling, NEW data \in Data
  PROVE  LET bytes == Content(b) \o Received(b, next[b], n)
             d == Place(data, 0, bytes)
             e == Size(b) + n
             m == next[b] + n
         IN /\ d \in Data /\ e \in Nat /\ m \in Nat /\ e <= m /\ Len(bytes) = e
            /\ \A i \in 0..(e - 1) : d[i] = <<b, m - (e - i)>>
<1> DEFINE bytes == Content(b) \o Received(b, next[b], n)
           d == Place(data, 0, bytes)
           e == Size(b) + n
           m == next[b] + n
<1>1. /\ bytes \in Seq(Byte) /\ Len(bytes) = e
      /\ \A i \in 1..e : bytes[i] = <<b, next[b] - Size(b) + i - 1>>
  BY JoinedIs
<1>2. Size(b) \in Nat /\ next[b] \in Nat /\ Size(b) <= next[b]
  BY ContentIs
<1> HIDE DEF bytes
<1>3. /\ d \in Data
      /\ \A i \in Cells : i >= 0 /\ i < 0 + Len(bytes) => d[i] = bytes[i - 0 + 1]
  BY <1>1, WrittenData
<1> HIDE DEF d
<1>4. e \in Nat /\ m \in Nat /\ e <= m
  BY <1>2
<1>5. ASSUME NEW i \in 0..(e - 1) PROVE d[i] = <<b, m - (e - i)>>
  <2>1. i \in Cells /\ i \in Int /\ i >= 0 /\ i < 0 + Len(bytes) /\ i - 0 + 1 = i + 1 /\ i + 1 \in 1..e
    BY <1>1, <1>4, PlanConstants DEF Cells
  <2>2. d[i] = bytes[i + 1]
    BY <1>3, <2>1
  <2>3. bytes[i + 1] = <<b, next[b] - Size(b) + (i + 1) - 1>>
    BY <1>1, <2>1
  <2>4. next[b] - Size(b) + (i + 1) - 1 = m - (e - i)
    <3>1. i \in Int /\ Size(b) \in Int /\ next[b] \in Int
      BY <1>2, <2>1
    <3> QED BY <3>1
  <2> QED BY <2>2, <2>3, <2>4
<1> QED BY <1>1, <1>3, <1>4, <1>5 DEF bytes, d

LEMMA CompactedKeeps ==
  ASSUME StagingInv, NEW b \in Bufs, AppendCompacted(b)
  PROVE  StagingInv'
<1>1. PICK n \in Sendable(b) :
        /\ Compacts(b, n)
        /\ block' = [block EXCEPT ![buf[b].block].data =
                       Place(block[buf[b].block].data, 0, Content(b) \o Received(b, next[b], n))]
        /\ buf' = [buf EXCEPT ![b] = Live(buf[b].block, 0, Size(b) + n)]
        /\ Receives(b, n) /\ UNCHANGED <<mode, view>>
  BY DEF AppendCompacted
<1> DEFINE k == buf[b].block
           d == Place(block[k].data, 0, Content(b) \o Received(b, next[b], n))
           e == Size(b) + n
           m == next[b] + n
<1>2. /\ buf[b].kind = "live" /\ n <= Capacity(b) - Size(b)
      /\ \A v \in Views : view[v].block # k
  BY <1>1 DEF Compacts, FitsBacking, IsUnique, IsShared
<1>3. /\ k \in Blocks /\ block[k].data \in Data /\ block[k].cap \in Nat /\ Capacity(b) = block[k].cap
  BY <1>2, LiveIs
<1>4. n \in Nat /\ Size(b) + n <= Ceiling /\ Size(b) \in Nat
  BY SendableIs, ContentIs
<1>5. /\ d \in Data /\ e \in Nat /\ m \in Nat /\ e <= m
      /\ \A i \in 0..(e - 1) : d[i] = <<b, m - (e - i)>>
  BY <1>3, <1>4, FromStart
<1>6. e <= block[k].cap
  BY <1>2, <1>3, <1>4
<1>7. block' = [block EXCEPT ![k].data = d] /\ next' = [next EXCEPT ![b] = m]
  BY <1>1 DEF Receives
<1> HIDE DEF d, e, m
<1>8. /\ Fits([block EXCEPT ![k].data = d], [buf EXCEPT ![b] = Live(k, 0, e)], [next EXCEPT ![b] = m], view)
      /\ Named([block EXCEPT ![k].data = d], [buf EXCEPT ![b] = Live(k, 0, e)], view)
  <2>1. 0 \in Nat /\ 0 <= e /\ e - 0 <= m
    BY <1>5
  <2> QED BY <1>2, <1>5, <1>6, <2>1, RewrittenFits
<1>9. buf' = [buf EXCEPT ![b] = Live(k, 0, e)] /\ mode' = mode /\ view' = view
  BY <1>1 DEF e
<1>10. Fits(block', buf', next', view')
  BY <1>7, <1>8, <1>9, Zenon
<1>11. Named(block', buf', view')
  BY <1>7, <1>8, <1>9, Zenon
<1> QED BY <1>9, <1>10, <1>11 DEF StagingInv

\* A backing that a buffer's r bytes can be moved to.
Suits(shape, r) ==
  /\ shape.mode \in {"warm", "accounted", "local"} /\ shape.cap \in Nat
  /\ r <= shape.cap /\ shape.cap <= Ceiling /\ shape.cap > 0
  /\ shape.mode = "warm" => shape.cap = Warm

LEMMA MoveKeeps ==
  ASSUME StagingInv, NEW b \in Bufs, NEW n \in Nat, NEW shape, Suits(shape, Size(b) + n),
         Move(b, shape, n), next' = [next EXCEPT ![b] = next[b] + n], UNCHANGED <<mode, view>>
  PROVE  StagingInv'
<1> DEFINE bytes == Content(b) \o Received(b, next[b], n)
           d == Place(Blank, 0, bytes)
           e == Size(b) + n
           m == next[b] + n
           x == [mode |-> shape.mode, cap |-> shape.cap, data |-> d]
           st == [block EXCEPT ![VacantBlock] = x]
           bs == [buf EXCEPT ![b] = Live(VacantBlock, 0, e)]
           ns == [next EXCEPT ![b] = m]
<1>1. /\ shape.mode \in {"warm", "accounted", "local"} /\ shape.cap \in Nat
      /\ e <= shape.cap /\ shape.cap <= Ceiling /\ shape.cap > 0
      /\ shape.mode = "warm" => shape.cap = Warm
  BY DEF Suits
<1>2. Blank \in Data
  BY DEF Blank, Data
<1>3. Size(b) \in Nat /\ e \in Nat
  BY ContentIs
<1>4. e <= Ceiling
  BY <1>1, <1>3, PlanConstants
<1>5. /\ d \in Data /\ m \in Nat /\ e <= m /\ Len(bytes) = e
      /\ \A i \in 0..(e - 1) : d[i] = <<b, m - (e - i)>>
  BY <1>2, <1>4, FromStart
<1> HIDE DEF d, m
<1>6. x \in Backing /\ BlockFits(x)
  <2>1. shape.cap \in 0..Ceiling
    BY <1>1, PlanConstants
  <2>2. x \in Backing
    BY <1>1, <1>5, <2>1 DEF Backing, Data
  <2>3. x.mode # "free" /\ x.cap > 0 /\ (x.mode = "warm" => x.cap = Warm)
    BY <1>1
  <2> QED BY <2>2, <2>3 DEF BlockFits
<1>7. x.mode \in {"warm", "accounted", "local"} /\ e <= x.cap /\ x.data = d
  BY <1>1
<1> HIDE DEF x, e
<1>8. Fits(st, bs, ns, view)
  BY <1>3, <1>5, <1>6, <1>7, MovedFits
<1>9. /\ block' = Swept(st, bs, view) /\ buf' = bs /\ next' = ns
      /\ mode' = mode /\ view' = view
  <2>1. buf' = bs /\ block' = Swept(st, buf', view)
    BY <1>5 DEF Move, x, d, e
  <2> QED BY <2>1 DEF m
<1> HIDE DEF st, bs, ns
<1>10. Fits(Swept(st, bs, view), bs, ns, view) /\ Named(Swept(st, bs, view), bs, view)
  BY <1>8, SweptKeeps
<1>11. Fits(block', buf', next', view')
  BY <1>9, <1>10, Zenon
<1>12. Named(block', buf', view')
  BY <1>9, <1>10, Zenon
<1> QED BY <1>9, <1>11, <1>12 DEF StagingInv

LEMMA SizesAre ==
  ASSUME NEW ideal, NEW need, NEW held
  PROVE  Sizes(ideal, need, held) \subseteq {ideal, need}
BY DEF Sizes

\* The cases of a reservation.
LEMMA NextShapesAre ==
  ASSUME NEW b, NEW target, NEW ideal, NEW need,
         buf[b].kind \in {"empty", "cold", "live"},
         buf[b].kind = "live" => BackingMode(b) \in {"warm", "accounted", "local"}
  PROVE  LET shapes == NextShapes(b, target, ideal, need) IN
         /\ buf[b].kind = "empty" =>
              shapes = IF target <= Warm /\ HasWarmSlot
                       THEN {[mode |-> "warm", cap |-> Warm]} ELSE FreshShapes(target)
         /\ buf[b].kind = "cold" => shapes = Shapes("local", Sizes(target, target, 0))
         /\ buf[b].kind = "live" /\ BackingMode(b) = "warm" => shapes = FreshShapes(target)
         /\ buf[b].kind = "live" /\ BackingMode(b) = "accounted" => shapes = AccountedShapes(b, target)
         /\ buf[b].kind = "live" /\ BackingMode(b) = "local" =>
              shapes = Shapes("local", Sizes(ideal, need, IF IsUnique(b) THEN Capacity(b) ELSE 0))
<1>1. buf[b].kind # "live" => BackingMode(b) = "none"
  BY DEF BackingMode
<1> QED BY <1>1 DEF NextShapes

\* Whatever backing a buffer can be given holds what it must.
LEMMA ShapesSuit ==
  ASSUME StagingInv, NEW b \in Bufs, NEW target \in Nat, NEW ideal \in Nat, NEW need \in Nat, NEW r \in Nat,
         target <= Ceiling, ideal <= Ceiling, need <= Ceiling,
         r <= target, r <= ideal, r <= need, target > 0, ideal > 0, need > 0,
         NEW shape \in NextShapes(b, target, ideal, need)
  PROVE  Suits(shape, r)
<1>1. mode \in {"local", "accounted"}
  BY DEF StagingInv
<1>2. ASSUME NEW m \in {"accounted", "local"}, NEW c \in Nat, r <= c, c <= Ceiling, c > 0,
             shape = [mode |-> m, cap |-> c]
      PROVE  Suits(shape, r)
  BY <1>2 DEF Suits
<1>3. ASSUME NEW m \in {"accounted", "local"}, NEW s, s \subseteq {ideal, need, target}, shape \in Shapes(m, s)
      PROVE  Suits(shape, r)
  <2>1. PICK c \in s : shape = [mode |-> m, cap |-> c]
    BY <1>3 DEF Shapes
  <2>2. c \in Nat /\ r <= c /\ c <= Ceiling /\ c > 0
    BY <1>3, <2>1
  <2> QED BY <1>2, <2>1, <2>2
<1>4. \A held : Sizes(target, target, held) \subseteq {ideal, need, target}
               /\ Sizes(ideal, need, held) \subseteq {ideal, need, target}
  BY SizesAre
<1>5. ASSUME shape \in FreshShapes(target) PROVE Suits(shape, r)
  BY <1>1, <1>3, <1>4, <1>5 DEF FreshShapes
<1> DEFINE shapes == NextShapes(b, target, ideal, need)
<1>6. buf[b].kind \in {"empty", "cold", "live"}
  BY FitsNow DEF Unread
<1>7. buf[b].kind = "live" => BackingMode(b) \in {"warm", "accounted", "local"}
  BY LiveIs DEF BackingMode
<1>8. /\ buf[b].kind = "empty" =>
           shapes = IF target <= Warm /\ HasWarmSlot
                    THEN {[mode |-> "warm", cap |-> Warm]} ELSE FreshShapes(target)
      /\ buf[b].kind = "cold" => shapes = Shapes("local", Sizes(target, target, 0))
      /\ buf[b].kind = "live" /\ BackingMode(b) = "warm" => shapes = FreshShapes(target)
      /\ buf[b].kind = "live" /\ BackingMode(b) = "accounted" => shapes = AccountedShapes(b, target)
      /\ buf[b].kind = "live" /\ BackingMode(b) = "local" =>
           shapes = Shapes("local", Sizes(ideal, need, IF IsUnique(b) THEN Capacity(b) ELSE 0))
  BY <1>6, <1>7, NextShapesAre
<1>9. shape \in shapes
  OBVIOUS
<1> HIDE DEF shapes
<1>10. ASSUME target <= Warm, shape = [mode |-> "warm", cap |-> Warm] PROVE Suits(shape, r)
  BY <1>10, PlanConstants DEF Suits
<1>11. ASSUME shape \in AccountedShapes(b, target) PROVE Suits(shape, r)
  <2>1. shape \in FreshShapes(target) \/ shape \in Shapes("accounted", Sizes(target, target, Capacity(b)))
    BY <1>11 DEF AccountedShapes
  <2> QED BY <1>3, <1>4, <1>5, <2>1
<1>12. ASSUME NEW held, shape \in Shapes("local", Sizes(ideal, need, held)) PROVE Suits(shape, r)
  BY <1>3, <1>4, <1>12
<1>13. ASSUME shape \in Shapes("local", Sizes(target, target, 0)) PROVE Suits(shape, r)
  BY <1>3, <1>4, <1>13
<1>14. CASE buf[b].kind = "empty"
  BY <1>5, <1>8, <1>9, <1>10, <1>14
<1>15. CASE buf[b].kind = "cold"
  BY <1>8, <1>9, <1>13, <1>15
<1>16. CASE buf[b].kind = "live"
  BY <1>5, <1>7, <1>8, <1>9, <1>11, <1>12, <1>16
<1> QED BY <1>6, <1>14, <1>15, <1>16

LEMMA RotatedKeeps ==
  ASSUME StagingInv, NEW b \in Bufs, AppendRotated(b)
  PROVE  StagingInv'
<1>1. PICK n \in Sendable(b) :
        /\ Rotates(b, n) /\ Move(b, [mode |-> "warm", cap |-> Warm], n)
        /\ Receives(b, n) /\ UNCHANGED <<mode, view>>
  BY DEF AppendRotated
<1> DEFINE shape == [mode |-> "warm", cap |-> Warm]
<1>2. buf[b].kind = "live" /\ n <= Capacity(b) - Size(b) /\ BackingMode(b) = "warm"
  BY <1>1 DEF Rotates, FitsBacking
<1>3. n \in Nat /\ Size(b) \in Nat /\ Capacity(b) \in Nat
  BY SendableIs, ContentIs
<1>4. Capacity(b) = Warm
  <2>1. buf[b].block \in Blocks /\ Capacity(b) = block[buf[b].block].cap
    BY <1>2, LiveIs
  <2>2. block[buf[b].block].mode = "warm" /\ BlockFits(block[buf[b].block])
    BY <1>2, <2>1, FitsNow DEF BackingMode
  <2> QED BY <2>1, <2>2 DEF BlockFits
<1>5. Suits(shape, Size(b) + n)
  BY <1>2, <1>3, <1>4, PlanConstants DEF Suits
<1>6. Move(b, shape, n) /\ next' = [next EXCEPT ![b] = next[b] + n] /\ UNCHANGED <<mode, view>>
  BY <1>1 DEF Receives
<1> HIDE DEF shape
<1> QED BY <1>3, <1>5, <1>6, MoveKeeps

\* What an append asks for.
LEMMA SpillAsks ==
  ASSUME StagingInv, NEW b \in Bufs, NEW n \in Sendable(b)
  PROVE  LET required == Size(b) + n
             target == Growth(required, Capacity(b))
             ideal == IF required <= Capacity(b) THEN Capacity(b) ELSE target
         IN /\ SpillShapes(b, n) = NextShapes(b, target, ideal, required)
            /\ required \in Nat /\ required > 0 /\ required <= Ceiling
            /\ target \in Nat /\ required <= target /\ target <= Ceiling
            /\ ideal \in Nat /\ required <= ideal /\ ideal <= Ceiling
<1> DEFINE required == Size(b) + n
           target == Growth(required, Capacity(b))
           ideal == IF required <= Capacity(b) THEN Capacity(b) ELSE target
<1>1. /\ required \in Nat /\ required > 0 /\ required <= Ceiling
      /\ Capacity(b) \in Nat /\ Capacity(b) <= Ceiling
  BY SendableIs, ContentIs, PlanConstants
<1>2. SpillShapes(b, n) = NextShapes(b, target, ideal, required)
  BY DEF SpillShapes
<1> HIDE DEF required
<1>3. target \in required..Ceiling
  BY <1>1, GrowthReaches
<1> HIDE DEF target
<1>4. target \in Nat /\ required <= target /\ target <= Ceiling
  BY <1>1, <1>3, PlanConstants
<1>5. ideal \in Nat /\ required <= ideal /\ ideal <= Ceiling
  BY <1>1, <1>4
<1> QED BY <1>1, <1>2, <1>4, <1>5 DEF required, target

LEMMA SpilledKeeps ==
  ASSUME StagingInv, NEW b \in Bufs, AppendSpilled(b)
  PROVE  StagingInv'
<1>1. PICK n \in Sendable(b) :
        /\ \E shape \in SpillShapes(b, n) : Move(b, shape, n)
        /\ Receives(b, n) /\ UNCHANGED <<mode, view>>
  BY DEF AppendSpilled
<1>2. PICK shape \in SpillShapes(b, n) : Move(b, shape, n)
  BY <1>1
<1> DEFINE required == Size(b) + n
           target == Growth(required, Capacity(b))
           ideal == IF required <= Capacity(b) THEN Capacity(b) ELSE target
<1>3. /\ SpillShapes(b, n) = NextShapes(b, target, ideal, required)
      /\ required \in Nat /\ required > 0 /\ required <= Ceiling
      /\ target \in Nat /\ required <= target /\ target <= Ceiling
      /\ ideal \in Nat /\ required <= ideal /\ ideal <= Ceiling
  BY SpillAsks
<1>4. n \in Nat
  BY SendableIs
<1> HIDE DEF target, ideal
<1>5. Suits(shape, required)
  <2> HIDE DEF required
  <2>1. target > 0 /\ ideal > 0 /\ required <= required
    BY <1>3
  <2> QED BY <1>2, <1>3, <2>1, ShapesSuit
<1>6. next' = [next EXCEPT ![b] = next[b] + n] /\ UNCHANGED <<mode, view>>
  BY <1>1 DEF Receives
<1> QED BY <1>2, <1>4, <1>5, <1>6, MoveKeeps

LEMMA BecomesKeeps ==
  ASSUME StagingInv, NEW b \in Bufs, NEW x, Becomes(b, x), UNCHANGED <<mode, view, next>>,
         x \in {Empty, Cold} \/ (buf[b].kind = "live" /\ \E h \in Nat :
             buf[b].head <= h /\ h <= buf[b].end /\ x = [buf[b] EXCEPT !.head = h])
  PROVE  StagingInv'
<1> DEFINE bs == [buf EXCEPT ![b] = x]
<1>1. Fits(block, bs, next, view)
  BY ShrunkFits
<1>2. /\ buf' = bs /\ block' = Swept(block, bs, view)
      /\ mode' = mode /\ view' = view /\ next' = next
  BY DEF Becomes
<1> HIDE DEF bs
<1>3. Fits(Swept(block, bs, view), bs, next, view) /\ Named(Swept(block, bs, view), bs, view)
  BY <1>1, SweptKeeps
<1>4. Fits(block', buf', next', view')
  BY <1>2, <1>3, Zenon
<1>5. Named(block', buf', view')
  BY <1>2, <1>3, Zenon
<1> QED BY <1>2, <1>4, <1>5 DEF StagingInv

LEMMA StageKeeps ==
  ASSUME StagingInv, NEW b \in Bufs, NEW target \in Nat, target > 0, Size(b) <= target, target <= Ceiling,
         Stage(b, target)
  PROVE  StagingInv'
<1>1. mode' = mode /\ view' = view /\ next' = next
  BY DEF Stage
<1>2. ASSUME NEW shape \in StageShapes(b, target), Move(b, shape, 0)
      PROVE  StagingInv'
  <2>1. Size(b) \in Nat /\ Size(b) + 0 = Size(b) /\ next[b] \in Nat /\ next \in [Bufs -> Nat]
    BY ContentIs, FitsNow DEF Kinds
  <2>2. shape \in NextShapes(b, target, target, target)
    BY <1>2 DEF StageShapes
  <2>3. Suits(shape, Size(b) + 0)
    BY <2>1, <2>2, ShapesSuit
  <2>4. next' = [next EXCEPT ![b] = next[b] + 0]
    BY <1>1, <2>1
  <2>5. 0 \in Nat /\ UNCHANGED <<mode, view>>
    BY <1>1
  <2> QED BY <1>2, <2>3, <2>4, <2>5, MoveKeeps
<1>3. ASSUME Becomes(b, Empty) PROVE StagingInv'
  BY <1>1, <1>3, BecomesKeeps
<1> QED BY <1>2, <1>3 DEF Stage

LEMMA ReserveKeeps ==
  ASSUME StagingInv, NEW b \in Bufs, TryReserve(b)
  PROVE  StagingInv'
<1>1. PICK target \in (Capacity(b) + 1)..Ceiling : Stage(b, target)
  BY DEF TryReserve
<1>2. target \in Nat /\ target > 0 /\ Size(b) <= target /\ target <= Ceiling
  <2>1. Size(b) \in Nat /\ Capacity(b) \in Nat /\ Size(b) <= Capacity(b)
    BY ContentIs
  <2> QED BY <2>1, PlanConstants
<1> QED BY <1>1, <1>2, StageKeeps

LEMMA GrowKeeps ==
  ASSUME StagingInv, NEW b \in Bufs, GrowStaging(b)
  PROVE  StagingInv'
<1> DEFINE target == Growth(Size(b) + 1, Size(b))
<1>1. Size(b) \in Nat /\ Size(b) + 1 \in Nat /\ Size(b) + 1 <= Ceiling /\ Stage(b, target)
  BY ContentIs, PlanConstants DEF GrowStaging
<1>2. target \in (Size(b) + 1)..Ceiling
  BY <1>1, GrowthReaches
<1> HIDE DEF target
<1>3. target \in Nat /\ target > 0 /\ Size(b) <= target /\ target <= Ceiling
  BY <1>1, <1>2, PlanConstants
<1> QED BY <1>1, <1>3, StageKeeps

LEMMA ConsumeKeeps ==
  ASSUME StagingInv, NEW b \in Bufs, Consume(b)
  PROVE  StagingInv'
<1>1. PICK n \in 1..Size(b) : Becomes(b, Advanced(b, n))
  BY DEF Consume
<1>2. UNCHANGED <<mode, view, next>>
  BY DEF Consume
<1>3. buf[b].kind = "live"
  <2>1. CASE buf[b].kind # "live"
    <3>1. BufFits(block, buf[b], next[b], b)
      BY FitsNow
    <3>2. Size(b) = 0
      BY <2>1, <3>1 DEF BufFits, Size, Empty, Cold
    <3> QED BY <3>2
  <2> QED BY <2>1
<1>4. buf[b].head \in Nat /\ buf[b].end \in Nat /\ Size(b) = buf[b].end - buf[b].head
  BY <1>3, LiveIs
<1>5. buf[b].head + n \in Nat /\ buf[b].head <= buf[b].head + n /\ buf[b].head + n <= buf[b].end
  BY <1>4
<1>6. Advanced(b, n) = Cold \/ Advanced(b, n) = [buf[b] EXCEPT !.head = buf[b].head + n]
  BY DEF Advanced
<1> QED BY <1>1, <1>2, <1>3, <1>5, <1>6, BecomesKeeps

LEMMA ClearKeeps ==
  ASSUME StagingInv, NEW b \in Bufs, Clear(b)
  PROVE  StagingInv'
BY BecomesKeeps DEF Clear

\* A view that shares a buffer's backing, or copies from it, reads the unread
\* bytes between two places.
LEMMA ReadIs ==
  ASSUME StagingInv, NEW b \in Bufs, buf[b].kind = "live", NEW r \in Subrange(b)
  PROVE  LET from == buf[b].head + r[1]
             n == r[2] - r[1]
             bytes == Read(buf[b].block, from, n)
         IN /\ from \in Nat /\ n \in Nat /\ n > 0 /\ from + n <= buf[b].end
            /\ bytes \in Seq(Byte) /\ Len(bytes) = n
            /\ \A i \in 1..n : bytes[i] = block[buf[b].block].data[from + i - 1]
<1> DEFINE k == buf[b].block
           h == buf[b].head
           z == buf[b].end
           from == h + r[1]
           n == r[2] - r[1]
           bytes == Read(k, from, n)
<1>1. /\ h \in Nat /\ z \in Nat /\ h <= z /\ z - h <= next[b] /\ next[b] \in Nat
      /\ Size(b) = z - h
      /\ \A i \in h..(z - 1) : block[k].data[i] = <<b, next[b] - (z - i)>>
  BY LiveIs
<1>2. r[1] \in 0..Size(b) /\ r[2] \in 0..Size(b) /\ r[1] < r[2]
  BY DEF Subrange
<1>3. /\ from \in Nat /\ n \in Nat /\ n > 0 /\ from + n <= z /\ h <= from
  BY <1>1, <1>2
<1>4. ASSUME NEW i \in 1..n PROVE block[k].data[from + i - 1] \in Byte
  <2>1. from + i - 1 \in h..(z - 1)
    BY <1>1, <1>3
  <2>2. next[b] - (z - (from + i - 1)) \in Nat
    BY <1>1, <2>1
  <2>3. block[k].data[from + i - 1] = <<b, next[b] - (z - (from + i - 1))>>
    BY <1>1, <2>1
  <2> QED BY <2>2, <2>3 DEF Byte
<1>5. bytes = [i \in 1..n |-> block[k].data[from + i - 1]]
  BY DEF Read
<1> HIDE DEF from, n, bytes
<1>6. bytes \in [1..n -> Byte] /\ \A i \in 1..n : bytes[i] = block[k].data[from + i - 1]
  BY <1>4, <1>5
<1>7. bytes \in Seq(Byte) /\ Len(bytes) = n
  BY <1>3, <1>6
<1> QED BY <1>3, <1>6, <1>7 DEF from, n, bytes

LEMMA SharedKeeps ==
  ASSUME StagingInv, NEW b \in Bufs, NEW v \in Views, RetainShared(b, v)
  PROVE  StagingInv'
<1> DEFINE k == buf[b].block
<1>1. PICK r \in Subrange(b) :
        view' = [view EXCEPT ![v] =
                   [block |-> k, from |-> buf[b].head + r[1],
                    bytes |-> Read(k, buf[b].head + r[1], r[2] - r[1])]]
  BY DEF RetainShared
<1>2. /\ buf[b].kind = "live" /\ view[v] = NoView /\ (block[k].mode = "local" \/ OpensView(k))
      /\ mode' = mode /\ block' = block /\ buf' = buf /\ next' = next
  BY DEF RetainShared
<1> DEFINE from == buf[b].head + r[1]
           n == r[2] - r[1]
           bytes == Read(k, from, n)
           y == [block |-> k, from |-> from, bytes |-> bytes]
           vs == [view EXCEPT ![v] = y]
<1>3. /\ from \in Nat /\ n \in Nat /\ n > 0 /\ from + n <= buf[b].end
      /\ bytes \in Seq(Byte) /\ Len(bytes) = n
      /\ \A i \in 1..n : bytes[i] = block[k].data[from + i - 1]
  BY <1>2, ReadIs
<1> HIDE DEF from, n, bytes
<1>4. /\ k \in Blocks /\ block[k].mode \in {"warm", "accounted", "local"}
      /\ buf[b].end \in Nat /\ block[k].cap \in Nat /\ buf[b].end <= block[k].cap /\ block[k].cap <= Ceiling
  BY <1>2, LiveIs
<1>5. from \in 0..Ceiling /\ from + n <= block[k].cap
  BY <1>3, <1>4, PlanConstants
<1>6. y \in Retained
  BY <1>3, <1>4, <1>5 DEF Retained
<1>7. ViewFits(block, y)
  BY <1>3, <1>4, <1>5 DEF ViewFits
<1>8. ASSUME NEW c \in Bufs, buf[c].block = y.block, y.block # NoBlock
      PROVE  y.from + Len(y.bytes) <= buf[c].end
  <2>1. c = b
    BY <1>8, FitsNow DEF Apart
  <2> QED BY <1>3, <2>1
<1>9. block[k].mode = "warm" /\ ~ Shows(view, k) => Cardinality(PinnedIn(block, view)) < Shared
  <2>1. {j \in InUse("warm") : IsShared(j)} = PinnedIn(block, view)
    BY DEF InUse, IsShared, PinnedIn, Shows
  <2> QED BY <1>2, <2>1 DEF OpensView, IsShared, Shows
<1>10. y.block = k /\ Cardinality(PinnedIn(block, view)) <= Shared
  BY FitsNow
<1> HIDE DEF y, k
<1>11. Cardinality(PinnedIn(block, vs)) <= Shared
  BY <1>4, <1>6, <1>9, <1>10, PinnedMore
<1>12. Fits(block, buf, next, vs)
  <2>1. block \in [Blocks -> Backing] /\ \A j \in Blocks : BlockFits(block[j])
    BY FitsNow DEF Kinds
  <2> QED BY <1>6, <1>7, <1>8, <1>11, <2>1, ViewedFits, FitsNow
<1>13. Named(block, buf, vs)
  <2> SUFFICES ASSUME NEW j \in Blocks, block[j] # Free, ~ (\E c \in Bufs : buf[c].block = j)
               PROVE  Shows(vs, j)
    BY DEF Named
  <2>1. PICK w \in Views : view[w].block = j
    BY DEF StagingInv, Named, Shows
  <2>2. w # v
    BY <1>2, <2>1, PlanConstants DEF NoView
  <2> QED BY <2>1, <2>2 DEF Shows
<1>14. view' = vs
  BY <1>1 DEF y, from, bytes, n, k
<1>15. Fits(block', buf', next', view')
  BY <1>2, <1>12, <1>14, Zenon
<1>16. Named(block', buf', view')
  BY <1>2, <1>13, <1>14, Zenon
<1> QED BY <1>2, <1>15, <1>16 DEF StagingInv

LEMMA DropKeeps ==
  ASSUME StagingInv, NEW v \in Views, DropView(v)
  PROVE  StagingInv'
<1> DEFINE vs == [view EXCEPT ![v] = NoView]
<1>1. /\ view' = vs /\ block' = Swept(block, buf, vs)
      /\ mode' = mode /\ buf' = buf /\ next' = next
  BY DEF DropView
<1>2. NoView \in Retained /\ ViewFits(block, NoView) /\ NoView.block = NoBlock
  <2>1. <<>> \in Seq(Byte)
    BY EmptySeq
  <2> QED BY <2>1, PlanConstants DEF NoView, Retained, ViewFits
<1>3. Fits(block, buf, next, vs)
  <2>1. /\ block \in [Blocks -> Backing] /\ \A j \in Blocks : BlockFits(block[j])
        /\ \A c \in Bufs : BufFits(block, buf[c], next[c], c)
        /\ \A w \in Views : ViewFits(block, view[w])
    BY FitsNow DEF Kinds
  <2>2. Cardinality(PinnedIn(block, vs)) <= Shared
    BY PinnedLess
  <2> HIDE DEF NoView
  <2> QED BY <1>2, <2>1, <2>2, ViewedFits
<1> HIDE DEF vs
<1>4. Fits(Swept(block, buf, vs), buf, next, vs) /\ Named(Swept(block, buf, vs), buf, vs)
  BY <1>3, SweptKeeps
<1>5. Fits(block', buf', next', view')
  BY <1>1, <1>4, Zenon
<1>6. Named(block', buf', view')
  BY <1>1, <1>4, Zenon
<1> QED BY <1>1, <1>5, <1>6 DEF StagingInv

LEMMA CopyKeeps ==
  ASSUME StagingInv, NEW b \in Bufs, NEW v \in Views, RetainCopy(b, v)
  PROVE  StagingInv'
<1>1. /\ buf[b].kind = "live" /\ view[v] = NoView
      /\ mode' = mode /\ buf' = buf /\ next' = next
  BY DEF RetainCopy
<1>2. PICK r \in Subrange(b) :
        LET bytes == Read(buf[b].block, buf[b].head + r[1], r[2] - r[1]) IN
        /\ view' = [view EXCEPT ![v] = [block |-> VacantBlock, from |-> 0, bytes |-> bytes]]
        /\ block' = [block EXCEPT ![VacantBlock] =
                       [mode |-> "owned", cap |-> Len(bytes), data |-> Place(Blank, 0, bytes)]]
  BY DEF RetainCopy
<1> DEFINE q == VacantBlock
           from == buf[b].head + r[1]
           n == r[2] - r[1]
           bytes == Read(buf[b].block, from, n)
           d == Place(Blank, 0, bytes)
           x == [mode |-> "owned", cap |-> Len(bytes), data |-> d]
           y == [block |-> q, from |-> 0, bytes |-> bytes]
           st == [block EXCEPT ![VacantBlock] = x]
           vs == [view EXCEPT ![v] = y]
<1>3. /\ from \in Nat /\ n \in Nat /\ n > 0 /\ from + n <= buf[b].end
      /\ bytes \in Seq(Byte) /\ Len(bytes) = n
  BY <1>1, ReadIs
<1>4. block' = st /\ view' = vs
  BY <1>2, Zenon
<1> HIDE DEF from, n, bytes
<1>5. n <= Ceiling
  <2>1. /\ buf[b].end \in Nat /\ block[buf[b].block].cap \in Nat
        /\ buf[b].end <= block[buf[b].block].cap /\ block[buf[b].block].cap <= Ceiling
    BY <1>1, LiveIs
  <2> QED BY <1>3, <2>1, PlanConstants
<1>6. /\ d \in Data
      /\ \A i \in Cells : i >= 0 /\ i < 0 + Len(bytes) => d[i] = bytes[i - 0 + 1]
  <2>1. Blank \in Data
    BY DEF Blank, Data
  <2> QED BY <1>3, <2>1, WrittenData
<1>7. x.mode = "owned" /\ x.cap = n /\ x.data = d /\ y.block = q /\ y.from = 0 /\ y.bytes = bytes
  BY <1>3
<1>8. x \in Backing /\ BlockFits(x)
  <2>1. Len(bytes) \in 0..Ceiling
    BY <1>3, <1>5, PlanConstants
  <2>2. x \in Backing
    BY <1>6, <2>1 DEF Backing, Data
  <2> QED BY <1>3, <1>7, <2>2 DEF BlockFits
<1>9. /\ q \in Blocks /\ q # NoBlock /\ \A c \in Bufs : buf[c].block # q
      /\ \A w \in Views : view[w].block # q
  BY VacantIs, PlanConstants
<1>10. y \in Retained
  BY <1>3, <1>9, PlanConstants DEF Retained
<1> HIDE DEF d, x, y
<1>11. /\ st \in [Blocks -> Backing] /\ st[q] = x /\ \A k \in Blocks : BlockFits(st[k])
       /\ \A k \in Blocks : k # q => st[k] = block[k]
       /\ \A c \in Bufs : BufFits(st, buf[c], next[c], c)
       /\ \A w \in Views : ViewFits(st, view[w])
       /\ PinnedIn(st, view) = PinnedIn(block, view)
  BY <1>8, WrittenFits
<1> HIDE DEF q, st
<1>12. ViewFits(st, y)
  <2>1. ASSUME NEW i \in 1..n PROVE d[0 + i - 1] = bytes[i]
    <3>1. i - 1 \in Cells /\ i - 1 >= 0 /\ i - 1 < 0 + Len(bytes) /\ (i - 1) - 0 + 1 = i /\ 0 + i - 1 = i - 1
      BY <1>3, <1>5, PlanConstants DEF Cells
    <3> QED BY <1>6, <3>1
  <2>2. 0 + n <= n
    BY <1>3
  <2> QED BY <1>3, <1>7, <1>9, <1>11, <2>1, <2>2 DEF ViewFits
<1>13. Cardinality(PinnedIn(st, vs)) <= Shared
  <2>1. ~ (st[q].mode = "warm") /\ Cardinality(PinnedIn(st, view)) <= Shared
    BY <1>7, <1>11, FitsNow
  <2> QED BY <1>7, <1>9, <1>10, <2>1, PinnedMore
<1>14. Fits(st, buf, next, vs)
  <2>1. \A c \in Bufs : buf[c].block = y.block /\ y.block # NoBlock => y.from + Len(y.bytes) <= buf[c].end
    BY <1>7, <1>9
  <2> QED BY <1>10, <1>11, <1>12, <1>13, <2>1, ViewedFits
<1>15. Named(st, buf, vs)
  <2>1. vs[v] = y /\ \A w \in Views : w # v => vs[w] = view[w]
    BY FitsNow DEF Kinds
  <2> SUFFICES ASSUME NEW j \in Blocks, st[j] # Free, ~ (\E c \in Bufs : buf[c].block = j)
               PROVE  Shows(vs, j)
    BY DEF Named
  <2>2. CASE j = q
    BY <1>7, <2>1, <2>2 DEF Shows
  <2>3. CASE j # q
    <3>1. PICK w \in Views : view[w].block = j
      BY <1>11, <2>3 DEF StagingInv, Named, Shows
    <3>2. w # v
      BY <1>1, <3>1, PlanConstants DEF NoView
    <3> QED BY <2>1, <3>1, <3>2 DEF Shows
  <2> QED BY <2>2, <2>3
<1>16. Fits(block', buf', next', view')
  BY <1>1, <1>4, <1>14, Zenon
<1>17. Named(block', buf', view')
  BY <1>1, <1>4, <1>15, Zenon
<1> QED BY <1>1, <1>16, <1>17 DEF StagingInv

-----------------------------------------------------------------------------
(* The inductive invariant.                                                *)

LEMMA StagingInitHolds == StagingInit => StagingInv
<1> SUFFICES ASSUME StagingInit PROVE StagingInv
  OBVIOUS
<1>1. /\ mode \in Modes /\ block = [k \in Blocks |-> Free] /\ buf = [b \in Bufs |-> Empty]
      /\ view = [v \in Views |-> NoView] /\ next = [b \in Bufs |-> 0]
  BY DEF StagingInit
<1>2. mode \in {"local", "accounted"}
  BY <1>1, StagingAssumption
<1>3. Empty \in Unread /\ NoView \in Retained /\ 0 \in Nat
  <2>1. <<>> \in Seq(Byte)
    BY EmptySeq
  <2> QED BY <2>1, PlanConstants DEF Empty, Unread, NoView, Retained
<1>4. Kinds(block, buf, next, view)
  BY <1>1, <1>3, UnusedFits DEF Kinds
<1>5. \A k \in Blocks : BlockFits(block[k])
  BY <1>1, UnusedFits
<1>6. \A b \in Bufs : BufFits(block, buf[b], next[b], b)
  BY <1>1 DEF BufFits, Empty
<1>7. \A v \in Views : ViewFits(block, view[v])
  BY <1>1 DEF ViewFits
<1>8. \A b \in Bufs : buf[b].block = NoBlock
  BY <1>1 DEF Empty
<1>9. \A v \in Views : view[v].block = NoBlock
  BY <1>1 DEF NoView
<1>10. Apart(buf) /\ Behind(buf, view)
  BY <1>8, <1>9 DEF Apart, Behind
<1>11. Cardinality(PinnedIn(block, view)) <= Shared
  <2>1. PinnedIn(block, view) = {}
    BY <1>9, PlanConstants DEF PinnedIn, Shows
  <2> QED BY <2>1, FS_EmptySet, PlanConstants
<1>12. Named(block, buf, view)
  BY <1>1 DEF Named
<1> QED BY <1>2, <1>4, <1>5, <1>6, <1>7, <1>10, <1>11, <1>12 DEF StagingInv, Fits

LEMMA StepHolds == StagingInv /\ [StagingNext]_stagingVars => StagingInv'
<1> SUFFICES ASSUME StagingInv, [StagingNext]_stagingVars PROVE StagingInv'
  OBVIOUS
<1>1. ASSUME NEW b \in Bufs, AppendInPlace(b) PROVE StagingInv'
  BY <1>1, InPlaceKeeps
<1>2. ASSUME NEW b \in Bufs, AppendCompacted(b) PROVE StagingInv'
  BY <1>2, CompactedKeeps
<1>3. ASSUME NEW b \in Bufs, AppendRotated(b) PROVE StagingInv'
  BY <1>3, RotatedKeeps
<1>4. ASSUME NEW b \in Bufs, AppendSpilled(b) PROVE StagingInv'
  BY <1>4, SpilledKeeps
<1>5. ASSUME NEW b \in Bufs, TryReserve(b) PROVE StagingInv'
  BY <1>5, ReserveKeeps
<1>6. ASSUME NEW b \in Bufs, GrowStaging(b) PROVE StagingInv'
  BY <1>6, GrowKeeps
<1>7. ASSUME NEW b \in Bufs, Consume(b) PROVE StagingInv'
  BY <1>7, ConsumeKeeps
<1>8. ASSUME NEW b \in Bufs, Clear(b) PROVE StagingInv'
  BY <1>8, ClearKeeps
<1>9. ASSUME NEW b \in Bufs, NEW v \in Views, RetainShared(b, v) PROVE StagingInv'
  BY <1>9, SharedKeeps
<1>10. ASSUME NEW b \in Bufs, NEW v \in Views, RetainCopy(b, v) PROVE StagingInv'
  BY <1>10, CopyKeeps
<1>11. ASSUME NEW v \in Views, DropView(v) PROVE StagingInv'
  BY <1>11, DropKeeps
<1>12. ASSUME UNCHANGED stagingVars PROVE StagingInv'
  <2>1. mode' = mode /\ block' = block /\ buf' = buf /\ next' = next /\ view' = view
    BY <1>12 DEF stagingVars
  <2>2. Fits(block', buf', next', view')
    BY <2>1, Zenon DEF StagingInv
  <2>3. Named(block', buf', view')
    BY <2>1, Zenon DEF StagingInv
  <2> QED BY <2>1, <2>2, <2>3 DEF StagingInv
<1> QED BY <1>1, <1>2, <1>3, <1>4, <1>5, <1>6, <1>7, <1>8, <1>9, <1>10, <1>11, <1>12 DEF StagingNext

\* What the three theorems rest on: no two buffers share a backing, a view of a
\* buffer's backing ends before the byte that comes next, the unread bytes are
\* the last received, the accounts bound the warm slots that views pin, and
\* every backing in use has a name.
THEOREM StagingInductive == StagingSpec => []StagingInv
BY StagingInitHolds, StepHolds, PTL DEF StagingSpec

-----------------------------------------------------------------------------
(* What it says of the bytes.                                              *)

LEMMA StagingTypesHold == StagingInv => StagingTypeOK
<1> SUFFICES ASSUME StagingInv PROVE StagingTypeOK
  OBVIOUS
<1>1. /\ block \in [Blocks -> Backing] /\ buf \in [Bufs -> Unread]
      /\ next \in [Bufs -> Nat] /\ view \in [Views -> Retained]
  BY FitsNow DEF Kinds
<1>2. \A k \in Blocks : block[k] = Free \/ (block[k].mode # "free" /\ block[k].cap > 0)
  BY FitsNow DEF BlockFits
<1>3. ASSUME NEW b \in Bufs
      PROVE  /\ IF buf[b].kind = "live" THEN buf[b].block \in Blocks /\ block[buf[b].block].mode # "free"
                ELSE buf[b] \in {Empty, Cold}
             /\ buf[b].head <= buf[b].end /\ buf[b].end <= Capacity(b)
  <2>1. CASE buf[b].kind = "live"
    BY <2>1, LiveIs
  <2>2. CASE buf[b].kind # "live"
    <3>1. buf[b] \in {Empty, Cold}
      BY <2>2, FitsNow DEF BufFits
    <3> QED BY <2>2, <3>1 DEF Empty, Cold, Capacity
  <2> QED BY <2>1, <2>2
<1>4. ASSUME NEW v \in Views, view[v] # NoView
      PROVE  /\ view[v].block \in Blocks /\ block[view[v].block].mode # "free"
             /\ view[v].from + Len(view[v].bytes) <= block[view[v].block].cap
  BY <1>4, FitsNow DEF ViewFits
<1>5. mode \in {"local", "accounted"}
  BY DEF StagingInv
<1> QED BY <1>1, <1>2, <1>3, <1>4, <1>5 DEF StagingTypeOK

LEMMA KeptHolds == ASSUME StagingInv, NEW b \in Bufs PROVE IsKept(b)
<1> DEFINE from == next[b] - Size(b)
           n == Size(b)
<1>1. /\ n \in Nat /\ from \in Nat /\ Content(b) \in Seq(Byte) /\ Len(Content(b)) = n
      /\ \A i \in 1..n : Content(b)[i] = <<b, next[b] - n + i - 1>>
  BY ContentIs
<1>2. /\ Received(b, from, n) \in Seq(Byte) /\ Len(Received(b, from, n)) = n
      /\ \A i \in 1..n : Received(b, from, n)[i] = <<b, from + i - 1>>
  BY <1>1, ReceivedIs
<1>3. \A i \in 1..n : Content(b)[i] = Received(b, from, n)[i]
  BY <1>1, <1>2
<1>4. Content(b) = Received(b, from, n)
  BY <1>1, <1>2, <1>3, SeqEqual
<1> QED BY <1>4 DEF IsKept

LEMMA IntactHolds == ASSUME StagingInv, NEW v \in Views PROVE IsIntact(v)
<1> SUFFICES ASSUME view[v] # NoView
             PROVE  Read(view[v].block, view[v].from, Len(view[v].bytes)) = view[v].bytes
  BY DEF IsIntact
<1> DEFINE bytes == view[v].bytes
           shown == Read(view[v].block, view[v].from, Len(bytes))
<1>1. view[v].block # NoBlock
  BY FitsNow, PlanConstants DEF ViewFits
<1>2. /\ bytes \in Seq(Byte) /\ Len(bytes) \in Nat
      /\ \A i \in 1..Len(bytes) : block[view[v].block].data[view[v].from + i - 1] = bytes[i]
  BY <1>1, ViewIs
<1>3. shown = [i \in 1..Len(bytes) |-> block[view[v].block].data[view[v].from + i - 1]]
  BY DEF Read
<1> HIDE DEF shown
<1>4. \A i \in 1..Len(bytes) : bytes[i] \in Byte
  BY <1>2, ElementOfSeq
<1>5. shown \in [1..Len(bytes) -> Byte] /\ \A i \in 1..Len(bytes) : shown[i] = bytes[i]
  BY <1>2, <1>3, <1>4
<1>6. shown \in Seq(Byte) /\ Len(shown) = Len(bytes)
  BY <1>2, <1>5
<1>7. shown = bytes
  BY <1>2, <1>5, <1>6, SeqEqual
<1> QED BY <1>7 DEF shown

LEMMA BytesHold == StagingInv => BytesAreKept
BY StagingTypesHold, KeptHolds, IntactHolds DEF BytesAreKept

\* A buffer reads the bytes it received in their order, and a retained view
\* what it was taken over, whatever the buffer did since (Buf, Span and Edit
\* move the unread bytes, hold::raw::Retain keeps or copies a range).
THEOREM StagingBytes == StagingSpec => []BytesAreKept
BY StagingInductive, BytesHold, PTL

-----------------------------------------------------------------------------
(* What it says of the warm slots.                                         *)

LEMMA UnionBound ==
  ASSUME NEW S, NEW T, IsFiniteSet(S), IsFiniteSet(T)
  PROVE  /\ IsFiniteSet(S \cup T) /\ Cardinality(S \cup T) \in Nat
         /\ Cardinality(S) \in Nat /\ Cardinality(T) \in Nat
         /\ Cardinality(S \cup T) <= Cardinality(S) + Cardinality(T)
<1>1. IsFiniteSet(S \cap T) /\ Cardinality(S \cap T) \in Nat
  BY FS_Intersection, FS_CardinalityType
<1>2. /\ IsFiniteSet(S \cup T)
      /\ Cardinality(S \cup T) = Cardinality(S) + Cardinality(T) - Cardinality(S \cap T)
  BY FS_Union
<1>3. Cardinality(S) \in Nat /\ Cardinality(T) \in Nat /\ Cardinality(S \cup T) \in Nat
  BY <1>2, FS_CardinalityType
<1> QED BY <1>1, <1>2, <1>3

\* The backings of the other buffers are fewer than the buffers.
LEMMA OthersAre ==
  ASSUME NEW b \in Bufs
  PROVE  LET T == {buf[c].block : c \in Bufs \ {b}} IN
         /\ IsFiniteSet(T) /\ Cardinality(T) \in Nat
         /\ Cardinality(Bufs) \in Nat /\ Cardinality(T) <= Cardinality(Bufs) - 1
<1> DEFINE R == Bufs \ {b}
           T == {buf[c].block : c \in R}
<1>1. /\ IsFiniteSet(R) /\ Cardinality(R) = Cardinality(Bufs) - 1 /\ Cardinality(Bufs) \in Nat
  BY PlanConstants, FS_RemoveElement, FS_CardinalityType
<1>2. IsFiniteSet(T) /\ Cardinality(T) \in Nat /\ Cardinality(T) <= Cardinality(R)
  <2> DEFINE f == [c \in R |-> buf[c].block]
  <2>1. f \in [R -> T] /\ \A t \in T : \E x \in R : f[x] = t
    OBVIOUS
  <2> HIDE DEF f, T, R
  <2> QED BY <1>1, <2>1, Images
<1> QED BY <1>1, <1>2

LEMMA WarmHolds == StagingInv => WarmIsReserved
<1> SUFFICES ASSUME StagingInv, NEW b \in Bufs,
                    buf[b].kind = "empty" \/ (BackingMode(b) = "warm" /\ ~ IsUnique(b))
             PROVE  HasWarmSlot
  BY DEF WarmIsReserved
<1> DEFINE W == InUse("warm")
           P == PinnedIn(block, view)
           T == {buf[c].block : c \in Bufs \ {b}}
<1>1. W \subseteq P \cup T
  <2> SUFFICES ASSUME NEW k \in Blocks, block[k].mode = "warm" PROVE k \in P \cup T
    BY DEF InUse
  <2>1. block[k] # Free
    BY DEF Free
  <2>2. (\E c \in Bufs : buf[c].block = k) \/ Shows(view, k)
    BY <2>1 DEF StagingInv, Named
  <2>3. CASE Shows(view, k)
    BY <2>3 DEF PinnedIn
  <2>4. ASSUME NEW c \in Bufs, buf[c].block = k PROVE k \in P \cup T
    <3>1. CASE c # b
      BY <2>4, <3>1
    <3>2. CASE c = b
      <4>1. buf[b].kind # "empty"
        BY <2>4, <3>2, FitsNow, PlanConstants DEF BufFits, Empty, Cold
      <4>2. Shows(view, k)
        BY <2>4, <3>2, <4>1 DEF IsUnique, IsShared, Shows
      <4> QED BY <4>2 DEF PinnedIn
    <3> QED BY <3>1, <3>2
  <2> QED BY <2>2, <2>3, <2>4
<1>2. IsFiniteSet(T) /\ Cardinality(T) \in Nat /\ Cardinality(Bufs) \in Nat /\ Cardinality(T) <= Cardinality(Bufs) - 1
  BY OthersAre
<1>3. IsFiniteSet(P) /\ Cardinality(P) \in Nat /\ Cardinality(P) <= Shared
  BY PinnedFinite, FitsNow
<1> HIDE DEF W, P, T
<1>4. /\ IsFiniteSet(P \cup T) /\ Cardinality(P \cup T) \in Nat
      /\ Cardinality(P \cup T) <= Cardinality(P) + Cardinality(T)
  BY <1>2, <1>3, UnionBound
<1>5. Cardinality(W) <= Cardinality(P \cup T) /\ Cardinality(W) \in Nat
  BY <1>1, <1>4, FS_Subset, FS_CardinalityType
<1>6. Cardinality(W) < Cardinality(Bufs) + Shared
  BY <1>2, <1>3, <1>4, <1>5, PlanConstants
<1> QED BY <1>6 DEF HasWarmSlot, WarmSlots, W

\* Warm slots never run out for a buffer that has none, or shares its own:
\* Layout::new has one for every buffer beyond those that accounts can pin.
THEOREM StagingWarm == StagingSpec => []WarmIsReserved
BY StagingInductive, WarmHolds, PTL

-----------------------------------------------------------------------------
(* What it says of the budget.                                             *)

\* What a buffer alone holds of the budget.
Own(b) == IF BackingMode(b) \in {"local", "accounted"} /\ IsUnique(b) THEN Capacity(b) ELSE 0

LEMMA ChargeIs ==
  ASSUME StagingInv, NEW k \in Blocks
  PROVE  /\ Charge(k) \in Nat /\ (block[k] = Free => Charge(k) = 0)
         /\ ~ IsShared(k) => Charge(k) <= Ceiling
         /\ ~ IsShared(k) /\ block[k].mode \in {"local", "accounted"} => Charge(k) = block[k].cap
         /\ ~ IsShared(k) /\ block[k].mode = "warm" => Charge(k) = 0
<1>1. block[k] \in Backing
  BY FitsNow
<1>2. block[k].cap \in Nat /\ block[k].cap <= Ceiling
  BY <1>1, PlanConstants DEF Backing
<1>3. block[k] = Free => block[k].mode = "free"
  BY DEF Free
<1> DEFINE own == IF block[k].mode \in {"local", "accounted", "owned"} THEN block[k].cap ELSE 0
           opened == IF block[k].mode \in {"warm", "accounted"} /\ IsShared(k) THEN block[k].cap ELSE 0
<1>4. Charge(k) = own + opened
  BY DEF Charge
<1>5. own \in Nat /\ own <= Ceiling /\ opened \in Nat
  BY <1>2, PlanConstants
<1>6. ~ IsShared(k) => opened = 0
  OBVIOUS
<1>7. block[k].mode = "free" => own = 0 /\ opened = 0
  OBVIOUS
<1>8. block[k].mode \in {"local", "accounted"} => own = block[k].cap
  OBVIOUS
<1>9. block[k].mode = "warm" => own = 0
  OBVIOUS
<1> HIDE DEF own, opened
<1> QED BY <1>3, <1>4, <1>5, <1>6, <1>7, <1>8, <1>9

\* Beyond what views hold, every other buffer takes a ceiling at most.
LEMMA AvailableIs ==
  ASSUME StagingInv, HeldByViews <= Spare, NEW b \in Bufs
  PROVE  Available \in Int /\ Available >= Ceiling - Own(b) /\ Own(b) \in Nat
<1> DEFINE q == buf[b].block
           held == [k \in Blocks |-> IF IsShared(k) THEN Charge(k) ELSE 0]
           with == [k \in Blocks |-> IF IsShared(k) \/ k = q THEN Charge(k) ELSE 0]
           charge == [k \in Blocks |-> Charge(k)]
           T == {buf[c].block : c \in Bufs \ {b}}
           U == T \cap Blocks
<1>1. \A k \in Blocks : Charge(k) \in Nat
  BY ChargeIs
<1>2. held \in [Blocks -> Nat] /\ with \in [Blocks -> Nat] /\ charge \in [Blocks -> Nat]
  BY <1>1
<1>3. Own(b) \in Nat
  BY ContentIs DEF Own
<1>4. SumFunction(with) <= SumFunction(held) + Own(b)
  <2>1. held \in [Blocks -> Int] /\ with \in [Blocks -> Int]
    BY <1>2
  <2>2. CASE q \in Blocks
    <3>1. \A k \in Blocks \ {q} : with[k] = held[k]
      OBVIOUS
    <3>2. with[q] <= held[q] + Own(b)
      <4>1. with[q] = Charge(q) /\ held[q] = IF IsShared(q) THEN Charge(q) ELSE 0
        BY <2>2
      <4>2. CASE IsShared(q)
        BY <1>1, <1>3, <2>2, <4>1, <4>2
      <4>3. CASE ~ IsShared(q)
        <5>1. buf[b].kind = "live"
          BY <2>2, FitsNow, PlanConstants DEF BufFits, Empty, Cold
        <5>2. block[q].mode \in {"warm", "accounted", "local"} /\ Capacity(b) = block[q].cap
          BY <5>1, LiveIs
        <5>3. BackingMode(b) = block[q].mode /\ IsUnique(b)
          BY <4>3, <5>1 DEF BackingMode, IsUnique
        <5>4. Charge(q) = Own(b)
          BY <2>2, <4>3, <5>2, <5>3, ChargeIs DEF Own
        <5> QED BY <1>3, <4>1, <4>3, <5>4
      <4> QED BY <4>2, <4>3
    <3>3. with[q] \in Nat /\ held[q] \in Nat
      BY <1>2, <2>2
    <3> HIDE DEF held, with, q
    <3>4. SumFunction(with) = SumFunction(held) + with[q] - held[q]
      BY <2>1, <2>2, <3>1, SumChanges, PlanConstants
    <3>5. SumFunction(held) \in Nat
      BY <1>2, SumBounds, PlanConstants
    <3> QED BY <1>3, <3>2, <3>3, <3>4, <3>5
  <2>3. CASE q \notin Blocks
    <3>1. with = held
      BY <2>3
    <3> HIDE DEF held, with, q
    <3>2. SumFunction(held) \in Nat
      BY <1>2, SumBounds, PlanConstants
    <3> QED BY <1>3, <3>1, <3>2
  <2> QED BY <2>2, <2>3
<1>5. SumFunction(charge) <= SumFunction(with) + Cardinality(U) * Ceiling
  <2>1. ASSUME NEW k \in Blocks
        PROVE  charge[k] <= with[k] + (IF k \in U THEN Ceiling ELSE 0)
    <3>1. CASE IsShared(k) \/ k = q
      <4>1. charge[k] = Charge(k) /\ with[k] = Charge(k)
        BY <3>1
      <4> QED BY <1>1, <4>1, PlanConstants
    <3>2. CASE ~ (IsShared(k) \/ k = q)
      <4>1. charge[k] = Charge(k) /\ with[k] = 0
        BY <3>2
      <4>2. CASE block[k] = Free
        BY <4>1, <4>2, ChargeIs, PlanConstants
      <4>3. CASE block[k] # Free
        <5>1. PICK c \in Bufs : buf[c].block = k
          BY <3>2, <4>3 DEF StagingInv, Named, Shows, IsShared
        <5>2. k \in U
          BY <3>2, <5>1
        <5>3. Charge(k) <= Ceiling
          BY <3>2, ChargeIs
        <5> HIDE DEF U, charge, with
        <5> QED BY <1>1, <4>1, <5>2, <5>3, PlanConstants
      <4> QED BY <4>2, <4>3
    <3> QED BY <3>1, <3>2
  <2>2. U \in SUBSET Blocks
    OBVIOUS
  <2> HIDE DEF U, charge, with
  <2> QED BY <1>2, <2>1, <2>2, SumExceeds, PlanConstants
<1>6. Cardinality(U) \in Nat /\ Cardinality(Bufs) \in Nat /\ Cardinality(U) <= Cardinality(Bufs) - 1
  <2>1. IsFiniteSet(T) /\ Cardinality(T) \in Nat /\ Cardinality(Bufs) \in Nat /\ Cardinality(T) <= Cardinality(Bufs) - 1
    BY OthersAre
  <2>2. U \in SUBSET T
    OBVIOUS
  <2> HIDE DEF T, U
  <2>3. IsFiniteSet(U) /\ Cardinality(U) <= Cardinality(T) /\ Cardinality(U) \in Nat
    BY <2>1, <2>2, FS_Subset, FS_CardinalityType
  <2> QED BY <2>1, <2>3
<1>7. /\ SumFunction(held) \in Nat /\ SumFunction(with) \in Nat /\ SumFunction(charge) \in Nat
  <2> HIDE DEF held, with, charge
  <2> QED BY <1>2, SumBounds, PlanConstants
<1>8. SumFunction(held) <= Spare
  BY DEF HeldByViews
<1> DEFINE used == Cardinality(U) * Ceiling
           most == Cardinality(Bufs) * Ceiling
           warm == WarmSlots * Warm
<1>9. used \in Nat /\ most \in Nat /\ used + Ceiling <= most
  <2> DEFINE i == Cardinality(U)
             j == Cardinality(Bufs)
  <2>1. i \in Nat /\ j \in Nat /\ i + 1 \in Nat /\ i + 1 <= j /\ Ceiling \in Nat
    BY <1>6, PlanConstants
  <2> HIDE DEF i, j, U
  <2>2. (i + 1) * Ceiling <= j * Ceiling /\ j * Ceiling \in Nat
    BY <2>1, FewerTimes
  <2>3. (i + 1) * Ceiling = i * Ceiling + Ceiling /\ i * Ceiling \in Nat
    BY <2>1, MoreTimes
  <2> QED BY <2>2, <2>3 DEF i, j
<1>10. warm \in Nat
  <2>1. WarmSlots \in Nat
    BY <1>6, PlanConstants DEF WarmSlots
  <2> QED BY <2>1, PlanConstants
<1>11. Available = (most + warm + Spare) - (warm + SumFunction(charge))
  BY DEF Available, Budget, Resident
<1> HIDE DEF used, most, warm, held, with, charge, U
<1>12. SumFunction(charge) <= SumFunction(with) + used
  BY <1>5 DEF used
<1>13. Spare \in Nat /\ Ceiling \in Nat
  BY PlanConstants
<1> QED BY <1>3, <1>4, <1>7, <1>8, <1>9, <1>10, <1>11, <1>12, <1>13

LEMMA SizesAfford ==
  ASSUME NEW ideal \in Int, NEW need \in Int, NEW held \in Int, Available \in Int, need - held <= Available
  PROVE  Sizes(ideal, need, held) # {}
<1>1. CASE ideal - held <= Available
  BY <1>1 DEF Sizes
<1>2. CASE ~ (ideal - held <= Available)
  <2>1. need \in Sizes(ideal, need, held)
    BY <1>2 DEF Sizes
  <2> QED BY <2>1
<1> QED BY <1>1, <1>2

LEMMA ShapesAfford ==
  ASSUME StagingInv, HeldByViews <= Spare, NEW b \in Bufs,
         NEW target \in Nat, NEW ideal \in Nat, NEW need \in Nat, target <= Ceiling, need <= Ceiling,
         BackingMode(b) = "accounted" /\ IsUnique(b) => target > Capacity(b)
  PROVE  NextShapes(b, target, ideal, need) # {}
<1>1. /\ Available \in Int /\ Available >= Ceiling - Own(b) /\ Own(b) \in Nat
      /\ Capacity(b) \in Nat /\ Ceiling \in Nat
  BY AvailableIs, ContentIs, PlanConstants
<1>2. buf[b].kind \in {"empty", "cold", "live"}
  BY FitsNow DEF Unread
<1>3. buf[b].kind = "live" => BackingMode(b) \in {"warm", "accounted", "local"}
  BY LiveIs DEF BackingMode
<1>4. buf[b].kind # "live" => BackingMode(b) = "none"
  BY DEF BackingMode
<1>5. ASSUME NEW m, NEW s, s # {} PROVE Shapes(m, s) # {}
  BY <1>5 DEF Shapes
<1>6. ASSUME Own(b) = 0 PROVE Sizes(target, target, 0) # {} /\ FreshShapes(target) # {}
  <2>1. target - 0 <= Available
    BY <1>1, <1>6
  <2>2. Sizes(target, target, 0) # {}
    BY <1>1, <2>1, SizesAfford
  <2> QED BY <1>5, <2>2 DEF FreshShapes
<1> DEFINE shapes == NextShapes(b, target, ideal, need)
<1>7. /\ buf[b].kind = "empty" =>
           shapes = IF target <= Warm /\ HasWarmSlot
                    THEN {[mode |-> "warm", cap |-> Warm]} ELSE FreshShapes(target)
      /\ buf[b].kind = "cold" => shapes = Shapes("local", Sizes(target, target, 0))
      /\ buf[b].kind = "live" /\ BackingMode(b) = "warm" => shapes = FreshShapes(target)
      /\ buf[b].kind = "live" /\ BackingMode(b) = "accounted" => shapes = AccountedShapes(b, target)
      /\ buf[b].kind = "live" /\ BackingMode(b) = "local" =>
           shapes = Shapes("local", Sizes(ideal, need, IF IsUnique(b) THEN Capacity(b) ELSE 0))
  BY <1>2, <1>3, NextShapesAre
<1>8. SUFFICES shapes # {}
  OBVIOUS
<1> HIDE DEF shapes
<1>9. CASE buf[b].kind # "live" \/ BackingMode(b) = "warm"
  <2>1. Own(b) = 0
    BY <1>4, <1>9 DEF Own
  <2>2. Sizes(target, target, 0) # {} /\ FreshShapes(target) # {}
    BY <1>6, <2>1
  <2>3. Shapes("local", Sizes(target, target, 0)) # {}
    BY <1>5, <2>2
  <2> QED BY <1>2, <1>4, <1>7, <1>9, <2>2, <2>3
<1>10. CASE buf[b].kind = "live" /\ BackingMode(b) = "accounted"
  <2>1. shapes = AccountedShapes(b, target)
    BY <1>7, <1>10
  <2>2. CASE IsUnique(b)
    <3>1. Own(b) = Capacity(b) /\ target > Capacity(b)
      BY <1>10, <2>2 DEF Own
    <3>2. target - Capacity(b) <= Available
      BY <1>1, <3>1
    <3>3. Sizes(target, target, Capacity(b)) # {}
      BY <1>1, <3>2, SizesAfford
    <3>4. AccountedShapes(b, target) = Shapes("accounted", Sizes(target, target, Capacity(b)))
      BY <2>2, <3>1 DEF AccountedShapes
    <3> QED BY <1>5, <2>1, <3>3, <3>4
  <2>3. CASE ~ IsUnique(b)
    <3>1. Own(b) = 0
      BY <2>3 DEF Own
    <3>2. AccountedShapes(b, target) = FreshShapes(target)
      BY <2>3 DEF AccountedShapes
    <3> QED BY <1>6, <2>1, <3>1, <3>2
  <2> QED BY <2>2, <2>3
<1>11. CASE buf[b].kind = "live" /\ BackingMode(b) = "local"
  <2> DEFINE held == IF IsUnique(b) THEN Capacity(b) ELSE 0
  <2>1. Own(b) = held /\ held \in Nat
    BY <1>1, <1>11 DEF Own
  <2>2. shapes = Shapes("local", Sizes(ideal, need, held))
    BY <1>7, <1>11
  <2> HIDE DEF held
  <2>3. need - held <= Available
    BY <1>1, <2>1
  <2>4. Sizes(ideal, need, held) # {}
    BY <1>1, <2>1, <2>3, SizesAfford
  <2> QED BY <1>5, <2>2, <2>4
<1> QED BY <1>2, <1>3, <1>9, <1>10, <1>11

LEMMA CeilingHolds == StagingInv => CeilingIsReserved
<1> SUFFICES ASSUME StagingInv, HeldByViews <= Spare, NEW b \in Bufs
             PROVE  /\ \A n \in Sendable(b) : Spills(b, n) => SpillShapes(b, n) # {}
                    /\ \A target \in (Capacity(b) + 1)..Ceiling : StageShapes(b, target) # {}
  BY DEF CeilingIsReserved
<1>1. Capacity(b) \in Nat /\ Size(b) \in Nat
  BY ContentIs
<1>2. ASSUME NEW n \in Sendable(b), Spills(b, n) PROVE SpillShapes(b, n) # {}
  <2> DEFINE required == Size(b) + n
             target == Growth(required, Capacity(b))
             ideal == IF required <= Capacity(b) THEN Capacity(b) ELSE target
  <2>1. /\ SpillShapes(b, n) = NextShapes(b, target, ideal, required)
        /\ required \in Nat /\ required <= Ceiling
        /\ target \in Nat /\ required <= target /\ target <= Ceiling /\ ideal \in Nat
    BY SpillAsks
  <2>2. ASSUME BackingMode(b) = "accounted", IsUnique(b) PROVE target > Capacity(b)
    <3>1. buf[b].kind = "live" /\ ~ FitsBacking(b, n)
      BY <1>2, <2>2 DEF Spills, Compacts, BackingMode
    <3>2. ~ (n <= Capacity(b) - Size(b))
      BY <3>1 DEF FitsBacking
    <3>3. n \in Nat
      BY SendableIs
    <3> HIDE DEF target
    <3> QED BY <1>1, <2>1, <3>2, <3>3
  <2> HIDE DEF target, ideal, required
  <2> QED BY <2>1, <2>2, ShapesAfford
<1>3. ASSUME NEW target \in (Capacity(b) + 1)..Ceiling PROVE StageShapes(b, target) # {}
  <2>1. target \in Nat /\ target <= Ceiling /\ target > Capacity(b)
    BY <1>1, PlanConstants
  <2> QED BY <2>1, ShapesAfford DEF StageShapes
<1> QED BY <1>2, <1>3

\* While what views hold stays within the reserve, the budget of Layout::new
\* affords every append and every reservation within the ceiling, for any
\* buffers at any sizes: nothing the others do can starve one of them.
THEOREM StagingCeiling == StagingSpec => []CeilingIsReserved
BY StagingInductive, CeilingHolds, PTL
=============================================================================
