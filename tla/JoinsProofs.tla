------------------------------ MODULE JoinsProofs ------------------------------
(***************************************************************************)
(* A join's two users, Rounds and Resident, keep the promise of the fair   *)
(* lanes, for any slots, lanes, groups, payloads, registrations and grants.*)
(*                                                                         *)
(* HooksProofs says which sequences the words spell; a Table is a join     *)
(* whose lanes and turns are such sequences.  Each operation of a join     *)
(* becomes an operator of the promise, and each action of a user then adds *)
(* what it does to its own variables.                                      *)
(***************************************************************************)
EXTENDS Rounds, Resident, HooksProofs

-----------------------------------------------------------------------------
(* A join: its lanes, and the turns of the lanes that are not empty.       *)

Waits(order, i) == \E l \in Lanes : Stands(order[l], i)
Busy(order) == {l \in Lanes : order[l] # <<>>}

IsTable(u) == DOMAIN u = {"hook", "chain", "track", "ring"}

Chained(u, V, order) ==
  /\ IsTable(u)
  /\ u.hook \in Plane(V)
  /\ u.chain = [l \in Lanes |-> u.chain[l]]
  /\ order \in [Lanes -> Seq(V)]
  /\ \A l \in Lanes : Spells(u.hook, u.chain[l], order[l], V)
  /\ \A l, m \in Lanes : l # m => \A i : ~ (Stands(order[l], i) /\ Stands(order[m], i))

Turned(u, turn, busy) ==
  /\ IsTable(u)
  /\ u.track \in Plane(Lanes)
  /\ u.ring = [g \in Groups |-> u.ring[g]]
  /\ turn \in [Groups -> Seq(Lanes)]
  /\ \A g \in Groups : Circles(u.track, u.ring[g], turn[g], Lanes)
  /\ \A g \in Groups : \A l \in Lanes : Stands(turn[g], l) <=> Group(l) = g /\ l \in busy

Table(u, V, order, turn) == Chained(u, V, order) /\ Turned(u, turn, Busy(order))

\* The words of no other node than those that wait and i changed.
Spared(u, w, V, order, i) ==
  \A j \in V : ~ Waits(order, j) /\ j # i =>
     w.hook.previous[j] = u.hook.previous[j] /\ w.hook.next[j] = u.hook.next[j]

\* One lane's order, or one group's turn, is told anew.
Retold(order, l, s) == [order EXCEPT ![l] = s]
Redealt(turn, l, s) == [turn EXCEPT ![Group(l)] = s]

\* Every lane belongs to a group.
LEMMA GroupOf == ASSUME NEW l \in Lanes PROVE Group(l) \in Groups
BY LanesAreIndices DEF Group, Groups

\* One lane is spelled anew: the others keep their words.
LEMMA Rechained ==
  ASSUME NEW V, END \notin V, NEW u, NEW order, Chained(u, V, order), NEW l \in Lanes, NEW i \in V,
         Stands(order[l], i) \/ ~ Waits(order, i),
         NEW out, out.hook \in Plane(V), NEW s, Spells(out.hook, out.chain, s, V),
         \A j : Stands(s, j) => Stands(order[l], j) \/ j = i,
         \A j \in V : ~ Stands(order[l], j) /\ j # i =>
           out.hook.previous[j] = u.hook.previous[j] /\ out.hook.next[j] = u.hook.next[j]
  PROVE  LET w == WithChain(u, l, out)
         IN /\ Chained(w, V, Retold(order, l, s))
            /\ w.track = u.track /\ w.ring = u.ring
            /\ w.hook = out.hook
            /\ w.chain[l] = out.chain
            /\ Spared(u, w, V, order, i)
<1> DEFINE w == WithChain(u, l, out)  o == Retold(order, l, s)
<1>1. /\ w.hook = out.hook /\ w.track = u.track /\ w.ring = u.ring /\ IsTable(w)
      /\ w.chain = [u.chain EXCEPT ![l] = out.chain]
  BY DEF WithChain, Chained, IsTable
<1> HIDE DEF w
<1>2. /\ w.chain = [m \in Lanes |-> w.chain[m]]
      /\ \A m \in Lanes : w.chain[m] = IF m = l THEN out.chain ELSE u.chain[m]
  BY <1>1 DEF Chained
<1>3. /\ o \in [Lanes -> Seq(V)]
      /\ \A m \in Lanes : o[m] = IF m = l THEN s ELSE order[m]
  BY DEF Chained, Spells, Retold
<1> HIDE DEF o
<1>4. ASSUME NEW m \in Lanes, m # l PROVE \A j : ~ (Stands(order[m], j) /\ (Stands(order[l], j) \/ j = i))
  BY <1>4 DEF Chained, Waits
<1>5. ASSUME NEW m \in Lanes PROVE Spells(w.hook, w.chain[m], o[m], V)
  <2>1. CASE m = l
    BY <1>1, <1>2, <1>3, <2>1
  <2>2. CASE m # l
    <3>1. Spells(u.hook, u.chain[m], order[m], V)
      BY DEF Chained
    <3>2. \A j \in V : Stands(order[m], j) => out.hook.previous[j] = u.hook.previous[j] /\ out.hook.next[j] = u.hook.next[j]
      BY <1>4, <2>2
    <3>3. Spells(out.hook, u.chain[m], order[m], V)
      BY <3>1, <3>2, SpellsFrame
    <3> QED BY <1>1, <1>2, <1>3, <2>2, <3>3
  <2> QED BY <2>1, <2>2
<1>6. \A m, n \in Lanes : m # n => \A j : ~ (Stands(o[m], j) /\ Stands(o[n], j))
  <2> SUFFICES ASSUME NEW m \in Lanes, NEW n \in Lanes, m # n, NEW j, Stands(o[m], j), Stands(o[n], j) PROVE FALSE
    OBVIOUS
  <2>1. CASE m = l
    BY <1>3, <1>4, <2>1
  <2>2. CASE n = l
    BY <1>3, <1>4, <2>2
  <2>3. CASE m # l /\ n # l
    BY <1>3, <2>3 DEF Chained
  <2> QED BY <2>1, <2>2, <2>3
<1>7. Chained(w, V, o)
  BY <1>1, <1>2, <1>3, <1>5, <1>6 DEF Chained
<1>8. Spared(u, w, V, order, i)
  BY <1>1 DEF Spared, Waits
<1> QED BY <1>1, <1>2, <1>7, <1>8 DEF w, o

\* One group takes its turns anew.
LEMMA Returned ==
  ASSUME NEW u, NEW turn, NEW busy, Turned(u, turn, busy), NEW l \in Lanes, NEW more,
         NEW out, out.hook \in Plane(Lanes), NEW s, Circles(out.hook, out.ring, s, Lanes),
         \A m \in Lanes : Stands(s, m) <=> Group(m) = Group(l) /\ m \in more,
         \A m \in Lanes : Group(m) # Group(l) => (m \in busy <=> m \in more),
         \A j \in Lanes : ~ Stands(turn[Group(l)], j) /\ j # l =>
           out.hook.previous[j] = u.track.previous[j] /\ out.hook.next[j] = u.track.next[j]
  PROVE  LET w == WithTrack(u, l, out)
         IN /\ Turned(w, Redealt(turn, l, s), more)
            /\ w.hook = u.hook /\ w.chain = u.chain
<1> DEFINE w == WithTrack(u, l, out)  o == Redealt(turn, l, s)  k == Group(l)
<1>0. k \in Groups
  BY GroupOf
<1>1. /\ w.track = out.hook /\ w.hook = u.hook /\ w.chain = u.chain /\ IsTable(w)
      /\ w.ring = [u.ring EXCEPT ![k] = out.ring]
  BY DEF WithTrack, Turned, IsTable
<1> HIDE DEF w
<1>2. /\ w.ring = [g \in Groups |-> w.ring[g]]
      /\ \A g \in Groups : w.ring[g] = IF g = k THEN out.ring ELSE u.ring[g]
  BY <1>0, <1>1 DEF Turned
<1>3. /\ o \in [Groups -> Seq(Lanes)]
      /\ \A g \in Groups : o[g] = IF g = k THEN s ELSE turn[g]
  BY <1>0 DEF Turned, Circles, Redealt
<1> HIDE DEF o
<1>4. ASSUME NEW g \in Groups, g # k, NEW j \in Lanes, Stands(turn[g], j) PROVE j # l /\ ~ Stands(turn[k], j)
  BY <1>0, <1>4 DEF Turned
<1>5. ASSUME NEW g \in Groups PROVE Circles(w.track, w.ring[g], o[g], Lanes)
  <2>1. CASE g = k
    BY <1>1, <1>2, <1>3, <2>1
  <2>2. CASE g # k
    <3>1. Circles(u.track, u.ring[g], turn[g], Lanes)
      BY DEF Turned
    <3>2. \A j \in Lanes : Stands(turn[g], j) => out.hook.previous[j] = u.track.previous[j] /\ out.hook.next[j] = u.track.next[j]
      BY <1>4, <2>2
    <3>3. Circles(out.hook, u.ring[g], turn[g], Lanes)
      BY <3>1, <3>2, CirclesFrame
    <3> QED BY <1>1, <1>2, <1>3, <2>2, <3>3
  <2> QED BY <2>1, <2>2
<1>6. ASSUME NEW g \in Groups, NEW m \in Lanes PROVE Stands(o[g], m) <=> Group(m) = g /\ m \in more
  <2>1. CASE g = k
    BY <1>3, <2>1
  <2>2. CASE g # k
    BY <1>3, <2>2 DEF Turned
  <2> QED BY <2>1, <2>2
<1>7. Turned(w, o, more)
  BY <1>1, <1>2, <1>3, <1>5, <1>6 DEF Turned
<1> QED BY <1>1, <1>7 DEF w, o

\* The lanes depend on the hooks and the chains alone.
LEMMA ChainedFrame ==
  ASSUME NEW V, NEW u, NEW order, Chained(u, V, order), NEW w, IsTable(w), w.hook = u.hook, w.chain = u.chain
  PROVE  Chained(w, V, order)
BY DEF Chained

\* The turns depend on the tracks and the rings alone.
LEMMA TurnedFrame ==
  ASSUME NEW u, NEW turn, NEW busy, Turned(u, turn, busy), NEW w, IsTable(w), w.track = u.track, w.ring = u.ring
  PROVE  Turned(w, turn, busy)
BY DEF Turned

-----------------------------------------------------------------------------
(* What a join does is what the promise says.                              *)

Now(order, turn) == [lane |-> order, turn |-> turn]

\* Removing an element by value removes it at its one index.
LEMMA PromiseRemoves ==
  ASSUME NEW V, NEW s \in Seq(V), OneEach(s), NEW p \in 1..Len(s)
  PROVE  Promise!RemoveFirst(s, s[p]) = Without(s, p)
<1> DEFINE I == {k \in 1..Len(s) : s[k] = s[p]}
<1>1. I = {p}
  BY DEF OneEach
<1>2. Promise!Min(I) = p
  BY <1>1 DEF Promise!Min
<1>3. Promise!SelectInSeq(s, LAMBDA v : v = s[p]) = p
  BY <1>1, <1>2 DEF Promise!SelectInSeq
<1>4. Promise!RemoveFirst(s, s[p]) = Promise!RemoveAt(s, p)
  BY <1>3 DEF Promise!RemoveFirst
<1>5. Promise!RemoveAt(s, p) = Without(s, p)
  BY CutOut DEF Promise!RemoveAt
<1> QED BY <1>4, <1>5

\* What a well formed join says of one lane.
LEMMA TableFacts ==
  ASSUME NEW V, END \notin V, NEW u, NEW order, NEW turn, Table(u, V, order, turn), NEW l \in Lanes
  PROVE  /\ u.hook \in Plane(V) /\ u.track \in Plane(Lanes) /\ END \notin Lanes
         /\ order \in [Lanes -> Seq(V)] /\ turn \in [Groups -> Seq(Lanes)]
         /\ order[l] \in Seq(V) /\ OneEach(order[l]) /\ Spells(u.hook, u.chain[l], order[l], V)
         /\ u.chain[l].first = (IF order[l] = <<>> THEN END ELSE order[l][1])
         /\ u.chain[l].first = END <=> order[l] = <<>>
         /\ Group(l) \in Groups /\ turn[Group(l)] \in Seq(Lanes) /\ OneEach(turn[Group(l)])
         /\ Circles(u.track, Turn(u, l), turn[Group(l)], Lanes)
         /\ Stands(turn[Group(l)], l) <=> order[l] # <<>>
         /\ \A m \in Lanes : Stands(turn[Group(l)], m) <=> Group(m) = Group(l) /\ m \in Busy(order)
<1>1. /\ u.hook \in Plane(V) /\ order \in [Lanes -> Seq(V)] /\ order[l] \in Seq(V)
      /\ Spells(u.hook, u.chain[l], order[l], V) /\ OneEach(order[l])
  BY DEF Table, Chained, Spells
<1>2. /\ u.chain[l].first = (IF order[l] = <<>> THEN END ELSE order[l][1])
      /\ order[l] # <<>> => order[l][1] \in V
  BY <1>1 DEF Spells
<1>3. Group(l) \in Groups
  BY GroupOf
<1>4. /\ u.track \in Plane(Lanes) /\ turn \in [Groups -> Seq(Lanes)]
      /\ turn[Group(l)] \in Seq(Lanes) /\ OneEach(turn[Group(l)])
      /\ Circles(u.track, Turn(u, l), turn[Group(l)], Lanes)
      /\ \A m \in Lanes : Stands(turn[Group(l)], m) <=> Group(m) = Group(l) /\ m \in Busy(order)
  BY <1>3 DEF Table, Turned, Circles, Turn
<1> QED BY <1>1, <1>2, <1>3, <1>4, LanesAreIndices DEF Busy

\* Join::push is the promise's Entered.
LEMMA TableInserted ==
  ASSUME NEW V, END \notin V, NEW u, NEW order, NEW turn, Table(u, V, order, turn),
         NEW l \in Lanes, NEW i \in V, ~ Waits(order, i)
  PROVE  LET w == Inserted(u, l, i)  e == Promise!Entered(Now(order, turn), l, i)
         IN /\ Table(w, V, e.lane, e.turn) /\ Spared(u, w, V, order, i)
            /\ e.lane = Retold(order, l, Append(order[l], i))
<1> DEFINE s == order[l]  a == Append(s, i)  o == Retold(order, l, a)
           out == Pushed(u.hook, u.chain[l], i)  x == WithChain(u, l, out)
           e == Promise!Entered(Now(order, turn), l, i)  w == Inserted(u, l, i)
           b == Append(turn[Group(l)], l)
<1>1. /\ u.hook \in Plane(V) /\ u.track \in Plane(Lanes) /\ END \notin Lanes
      /\ order \in [Lanes -> Seq(V)] /\ turn \in [Groups -> Seq(Lanes)]
      /\ s \in Seq(V) /\ OneEach(s) /\ Spells(u.hook, u.chain[l], s, V)
      /\ u.chain[l].first = END <=> s = <<>>
      /\ Group(l) \in Groups /\ turn[Group(l)] \in Seq(Lanes) /\ OneEach(turn[Group(l)])
      /\ Circles(u.track, Turn(u, l), turn[Group(l)], Lanes)
      /\ Stands(turn[Group(l)], l) <=> s # <<>>
      /\ \A m \in Lanes : Stands(turn[Group(l)], m) <=> Group(m) = Group(l) /\ m \in Busy(order)
  BY TableFacts
<1>2. ~ Stands(s, i)
  BY DEF Waits
<1>3. /\ out.hook \in Plane(V) /\ Spells(out.hook, out.chain, a, V)
      /\ \A j \in V : ~ Stands(s, j) /\ j # i =>
           out.hook.previous[j] = u.hook.previous[j] /\ out.hook.next[j] = u.hook.next[j]
  BY <1>1, <1>2, SpellsPushed
<1>4. a # <<>> /\ \A j : Stands(a, j) <=> Stands(s, j) \/ j = i
  BY <1>1, AppendFacts
<1>5. e.lane = o /\ e.turn = IF s = <<>> THEN Redealt(turn, l, b) ELSE turn
  BY DEF Promise!Entered, Now, Retold, Redealt
<1>6. w = IF s # <<>> THEN x ELSE WithTrack(x, l, Joined(u.track, Turn(u, l), l))
  BY <1>1 DEF Inserted
<1>7. Busy(o) = Busy(order) \cup {l}
  <2>1. \A m \in Lanes : o[m] = IF m = l THEN a ELSE order[m]
    BY <1>1 DEF Retold
  <2> HIDE DEF o, a
  <2> QED BY <1>4, <2>1 DEF Busy
<1> HIDE DEF out, a, s, b
<1>8. /\ Chained(x, V, o) /\ x.track = u.track /\ x.ring = u.ring /\ Spared(u, x, V, order, i)
  BY <1>2, <1>3, <1>4, Rechained DEF Table, s
<1>9. Turned(x, turn, Busy(order))
  BY <1>8, TurnedFrame DEF Table, Chained
<1> HIDE DEF x, e, w
<1>10. CASE s # <<>>
  <2>1. Busy(o) = Busy(order)
    BY <1>7, <1>10 DEF Busy, s
  <2> QED BY <1>5, <1>6, <1>8, <1>9, <1>10, <2>1 DEF Table, e, w, o, a, s
<1>11. CASE s = <<>>
  <2> DEFINE r == Joined(u.track, Turn(u, l), l)  y == WithTrack(x, l, r)
  <2>1. /\ r.hook \in Plane(Lanes) /\ Circles(r.hook, r.ring, b, Lanes)
        /\ \A j \in Lanes : ~ Stands(turn[Group(l)], j) /\ j # l =>
             r.hook.previous[j] = u.track.previous[j] /\ r.hook.next[j] = u.track.next[j]
    BY <1>1, <1>11, CirclesJoined DEF b
  <2>2. \A m \in Lanes : Stands(b, m) <=> Group(m) = Group(l) /\ m \in Busy(o)
    <3>1. \A m : Stands(b, m) <=> Stands(turn[Group(l)], m) \/ m = l
      BY <1>1, AppendFacts DEF b
    <3> QED BY <1>1, <1>7, <3>1
  <2>3. \A m \in Lanes : Group(m) # Group(l) => (m \in Busy(order) <=> m \in Busy(o))
    BY <1>7
  <2> HIDE DEF r, o
  <2>4. Turned(y, Redealt(turn, l, b), Busy(o)) /\ y.hook = x.hook /\ y.chain = x.chain
    BY <1>8, <1>9, <2>1, <2>2, <2>3, Returned
  <2>5. Chained(y, V, o) /\ Spared(u, y, V, order, i)
    BY <1>8, <2>4, ChainedFrame DEF Turned, Spared
  <2> HIDE DEF y
  <2>6. w = y /\ e.lane = o /\ e.turn = Redealt(turn, l, b)
    BY <1>5, <1>6, <1>11 DEF y, r
  <2> QED BY <2>4, <2>5, <2>6 DEF Table, w, e, o, a, s
<1> QED BY <1>10, <1>11

\* The lane that is empty leaves its group's turn.
LEMMA TurnLeft ==
  ASSUME NEW x, NEW turn, NEW busy, Turned(x, turn, busy), NEW l \in Lanes, l \in busy
  PROVE  LET w == Deactivated(x, l)
         IN /\ Turned(w, Redealt(turn, l, Promise!RemoveFirst(turn[Group(l)], l)), busy \ {l})
            /\ w.hook = x.hook /\ w.chain = x.chain
<1> DEFINE q == turn[Group(l)]
<1>1. /\ x.track \in Plane(Lanes) /\ END \notin Lanes /\ Group(l) \in Groups
      /\ q \in Seq(Lanes) /\ OneEach(q)
      /\ Circles(x.track, Turn(x, l), q, Lanes)
      /\ \A m \in Lanes : Stands(q, m) <=> Group(m) = Group(l) /\ m \in busy
  BY GroupOf, LanesAreIndices DEF Turned, Circles, Turn
<1>2. PICK p \in 1..Len(q) : q[p] = l
  BY <1>1 DEF Stands
<1>3. PICK r : r = Left(x.track, Turn(x, l), l)
  OBVIOUS
<1>4. PICK b : b = Without(q, p)
  OBVIOUS
<1> DEFINE less == busy \ {l}
<1>5. /\ r.hook \in Plane(Lanes) /\ Circles(r.hook, r.ring, b, Lanes)
      /\ \A j \in Lanes : ~ Stands(q, j) => r.hook.previous[j] = x.track.previous[j] /\ r.hook.next[j] = x.track.next[j]
  BY <1>1, <1>2, <1>3, <1>4, CirclesLeft
<1>6. \A m \in Lanes : Stands(b, m) <=> Group(m) = Group(l) /\ m \in less
  <2>1. \A m : Stands(b, m) <=> Stands(q, m) /\ m # l
    BY <1>1, <1>2, <1>4, WithoutFacts
  <2> QED BY <1>1, <2>1
<1>7. LET w == WithTrack(x, l, r)
      IN /\ Turned(w, Redealt(turn, l, b), less)
         /\ w.hook = x.hook /\ w.chain = x.chain
  <2>1. \A m \in Lanes : Group(m) # Group(l) => (m \in busy <=> m \in less)
    OBVIOUS
  <2>2. \A j \in Lanes : ~ Stands(turn[Group(l)], j) /\ j # l =>
          r.hook.previous[j] = x.track.previous[j] /\ r.hook.next[j] = x.track.next[j]
    BY <1>5
  <2> HIDE DEF less, q
  <2> QED BY <1>5, <1>6, <2>1, <2>2, Returned
<1>8. Promise!RemoveFirst(q, l) = b
  BY <1>1, <1>2, <1>4, PromiseRemoves
<1> QED BY <1>3, <1>7, <1>8 DEF Deactivated

\* Slot p of the lane leaves it, by whatever wrote the words so.
LEMMA TableShorter ==
  ASSUME NEW V, END \notin V, NEW u, NEW order, NEW turn, Table(u, V, order, turn),
         NEW l \in Lanes, NEW p \in 1..Len(order[l]),
         NEW out, out.hook \in Plane(V), Spells(out.hook, out.chain, Without(order[l], p), V),
         \A j \in V : ~ Stands(order[l], j) =>
           out.hook.previous[j] = u.hook.previous[j] /\ out.hook.next[j] = u.hook.next[j]
  PROVE  LET x == WithChain(u, l, out)  e == Promise!Departed(Now(order, turn), l, order[l][p])
             w == IF x.chain[l].first = END THEN Deactivated(x, l) ELSE x
         IN /\ Table(w, V, e.lane, e.turn) /\ Spared(u, w, V, order, order[l][p])
            /\ e.lane = Retold(order, l, Without(order[l], p))
            /\ x.chain[l].first = END <=> e.lane[l] = <<>>
<1> DEFINE s == order[l]  i == s[p]  a == Without(s, p)  o == Retold(order, l, a)
           x == WithChain(u, l, out)  e == Promise!Departed(Now(order, turn), l, i)
           w == IF x.chain[l].first = END THEN Deactivated(x, l) ELSE x
<1>1. /\ order \in [Lanes -> Seq(V)] /\ s \in Seq(V) /\ OneEach(s) /\ i \in V /\ Stands(s, i) /\ s # <<>>
  BY TableFacts DEF Stands
<1>2. a \in Seq(V) /\ \A j : Stands(a, j) <=> Stands(s, j) /\ j # i
  BY <1>1, WithoutFacts
<1>3. Promise!RemoveFirst(s, i) = a
  BY <1>1, PromiseRemoves
<1>4. e.lane = o /\ e.turn = IF a = <<>> THEN Redealt(turn, l, Promise!RemoveFirst(turn[Group(l)], l)) ELSE turn
  BY <1>3 DEF Promise!Departed, Now, Retold, Redealt
<1>5. o[l] = a /\ \A m \in Lanes : m # l => o[m] = order[m]
  BY <1>1 DEF Retold
<1>6. /\ Chained(x, V, o) /\ x.track = u.track /\ x.ring = u.ring /\ Spared(u, x, V, order, i)
      /\ x.chain[l] = out.chain
  <2> HIDE DEF x, o, a, i
  <2>1. Chained(u, V, order)
    BY DEF Table
  <2>2. Spells(out.hook, out.chain, a, V)
    BY DEF a
  <2>3. \A j \in V : ~ Stands(order[l], j) /\ j # i =>
          out.hook.previous[j] = u.hook.previous[j] /\ out.hook.next[j] = u.hook.next[j]
    OBVIOUS
  <2>4. \A j : Stands(a, j) => Stands(order[l], j) \/ j = i
    BY <1>2
  <2>5. LET v == WithChain(u, l, out)
        IN /\ Chained(v, V, Retold(order, l, a))
           /\ v.track = u.track /\ v.ring = u.ring
           /\ v.hook = out.hook
           /\ v.chain[l] = out.chain
           /\ Spared(u, v, V, order, i)
    BY <1>1, <2>1, <2>2, <2>3, <2>4, Rechained
  <2> QED BY <2>5 DEF x, o
<1>7. x.chain[l].first = END <=> a = <<>>
  <2>1. out.chain.first = (IF a = <<>> THEN END ELSE a[1]) /\ (a # <<>> => a[1] \in V)
    BY <1>2 DEF Spells
  <2> QED BY <1>6, <2>1
<1> HIDE DEF x, e, a, i, o
<1>8. CASE a = <<>>
  <2>1. Busy(o) = Busy(order) \ {l}
    BY <1>1, <1>5, <1>8 DEF Busy
  <2>2. Table(w, V, o, Redealt(turn, l, Promise!RemoveFirst(turn[Group(l)], l))) /\ w.hook = x.hook
    <3>1. w = Deactivated(x, l)
      BY <1>7, <1>8
    <3> HIDE DEF w
    <3> HIDE DEF w
    <3>2. Turned(x, turn, Busy(order)) /\ l \in Busy(order)
      BY <1>1, <1>6, TurnedFrame DEF Table, Chained, Busy
    <3>3. LET v == Deactivated(x, l)
          IN /\ Turned(v, Redealt(turn, l, Promise!RemoveFirst(turn[Group(l)], l)), Busy(order) \ {l})
             /\ v.hook = x.hook /\ v.chain = x.chain
      BY <3>2, TurnLeft
    <3>4. Chained(w, V, o)
      BY <1>6, <3>1, <3>3, ChainedFrame DEF Turned
    <3> QED BY <2>1, <3>1, <3>3, <3>4 DEF Table
  <2>3. Spared(u, w, V, order, i)
    BY <1>6, <2>2 DEF Spared
  <2> QED BY <1>4, <1>5, <1>7, <1>8, <2>2, <2>3 DEF x, e, i, o, a
<1>9. CASE a # <<>>
  <2>1. Busy(o) = Busy(order) /\ w = x
    BY <1>1, <1>5, <1>7, <1>9 DEF Busy
  <2>2. Turned(x, turn, Busy(o))
    BY <1>6, <2>1, TurnedFrame DEF Table, Chained
  <2> QED BY <1>4, <1>5, <1>6, <1>7, <1>9, <2>1, <2>2 DEF Table, x, e, i, o, a
<1> QED BY <1>8, <1>9

\* Join::remove is the promise's Departed.
LEMMA TableRemoved ==
  ASSUME NEW V, END \notin V, NEW u, NEW order, NEW turn, Table(u, V, order, turn),
         NEW l \in Lanes, NEW i, Stands(order[l], i)
  PROVE  LET w == Removed(u, l, i)  e == Promise!Departed(Now(order, turn), l, i)
         IN /\ Table(w, V, e.lane, e.turn) /\ Spared(u, w, V, order, i)
            /\ \E p \in 1..Len(order[l]) : order[l][p] = i /\ e.lane = Retold(order, l, Without(order[l], p))
<1>1. PICK p \in 1..Len(order[l]) : order[l][p] = i
  BY DEF Stands
<1> DEFINE out == Unlinked(u.hook, u.chain[l], order[l][p])
<1>2. u.hook \in Plane(V) /\ Spells(u.hook, u.chain[l], order[l], V)
  BY TableFacts
<1>3. /\ out.hook \in Plane(V) /\ Spells(out.hook, out.chain, Without(order[l], p), V)
      /\ \A j \in V : ~ Stands(order[l], j) =>
           out.hook.previous[j] = u.hook.previous[j] /\ out.hook.next[j] = u.hook.next[j]
  BY <1>2, SpellsUnlinked
<1> HIDE DEF out
<1>4. LET x == WithChain(u, l, out)  e == Promise!Departed(Now(order, turn), l, order[l][p])
          w == IF x.chain[l].first = END THEN Deactivated(x, l) ELSE x
      IN /\ Table(w, V, e.lane, e.turn) /\ Spared(u, w, V, order, order[l][p])
         /\ e.lane = Retold(order, l, Without(order[l], p))
  BY <1>3, TableShorter
<1> QED BY <1>1, <1>4 DEF Removed, out

\* The lane that is served goes to the back of its group's turn.
LEMMA TurnServed ==
  ASSUME NEW x, NEW turn, NEW busy, Turned(x, turn, busy), NEW l \in Lanes, l \in busy
  PROVE  LET w == WithTrack(x, l, CycledBack(x.track, Turn(x, l), l))
         IN /\ Turned(w, Redealt(turn, l, Append(Promise!RemoveFirst(turn[Group(l)], l), l)), busy)
            /\ w.hook = x.hook /\ w.chain = x.chain
<1> DEFINE q == turn[Group(l)]
<1>1. /\ x.track \in Plane(Lanes) /\ END \notin Lanes /\ Group(l) \in Groups
      /\ q \in Seq(Lanes) /\ OneEach(q)
      /\ Circles(x.track, Turn(x, l), q, Lanes)
      /\ \A m \in Lanes : Stands(q, m) <=> Group(m) = Group(l) /\ m \in busy
  BY GroupOf, LanesAreIndices DEF Turned, Circles, Turn
<1>2. PICK p \in 1..Len(q) : q[p] = l
  BY <1>1 DEF Stands
<1>3. PICK r : r = CycledBack(x.track, Turn(x, l), l)
  OBVIOUS
<1>4. PICK b : b = Append(Without(q, p), l)
  OBVIOUS
<1>5. /\ r.hook \in Plane(Lanes) /\ Circles(r.hook, r.ring, b, Lanes)
      /\ \A j \in Lanes : ~ Stands(q, j) => r.hook.previous[j] = x.track.previous[j] /\ r.hook.next[j] = x.track.next[j]
  BY <1>1, <1>2, <1>3, <1>4, CirclesCycledBack
<1>6. \A m \in Lanes : Stands(b, m) <=> Group(m) = Group(l) /\ m \in busy
  <2>1. Without(q, p) \in Seq(Lanes) /\ \A m : Stands(Without(q, p), m) <=> Stands(q, m) /\ m # l
    BY <1>1, <1>2, WithoutFacts
  <2>2. \A m : Stands(b, m) <=> Stands(Without(q, p), m) \/ m = l
    BY <1>4, <2>1, AppendFacts
  <2> QED BY <1>1, <2>1, <2>2
<1>7. LET w == WithTrack(x, l, r)
      IN /\ Turned(w, Redealt(turn, l, b), busy)
         /\ w.hook = x.hook /\ w.chain = x.chain
  <2>1. \A m \in Lanes : Group(m) # Group(l) => (m \in busy <=> m \in busy)
    OBVIOUS
  <2>2. \A j \in Lanes : ~ Stands(turn[Group(l)], j) /\ j # l =>
          r.hook.previous[j] = x.track.previous[j] /\ r.hook.next[j] = x.track.next[j]
    BY <1>5
  <2> HIDE DEF q
  <2> QED BY <1>5, <1>6, <2>1, <2>2, Returned
<1>8. Promise!RemoveFirst(q, l) = Without(q, p)
  BY <1>1, <1>2, PromiseRemoves
<1> QED BY <1>3, <1>4, <1>7, <1>8

\* The head of a lane leaves it; with rotate the lane goes to its turn's back.
LEMMA TableFrontRemoved ==
  ASSUME NEW V, END \notin V, NEW u, NEW order, NEW turn, Table(u, V, order, turn),
         NEW l \in Lanes, order[l] # <<>>, NEW rotate \in BOOLEAN
  PROVE  LET w == FrontRemoved(u, l, rotate)
             e == IF rotate THEN Promise!Served(Now(order, turn), l)
                  ELSE Promise!Departed(Now(order, turn), l, order[l][1])
         IN /\ Table(w, V, e.lane, e.turn) /\ Spared(u, w, V, order, order[l][1])
            /\ e.lane = Retold(order, l, Without(order[l], 1))
<1>1. /\ u.hook \in Plane(V) /\ Spells(u.hook, u.chain[l], order[l], V) /\ order[l] \in Seq(V) /\ 1 \in 1..Len(order[l])
      /\ Head(order[l]) = order[l][1] /\ OneEach(order[l]) /\ order \in [Lanes -> Seq(V)]
      /\ turn \in [Groups -> Seq(Lanes)] /\ Group(l) \in Groups
  BY TableFacts
<1>2. PICK out : out = Popped(u.hook, u.chain[l])
  OBVIOUS
<1>3. /\ out.hook \in Plane(V) /\ Spells(out.hook, out.chain, Without(order[l], 1), V)
      /\ \A j \in V : ~ Stands(order[l], j) =>
           out.hook.previous[j] = u.hook.previous[j] /\ out.hook.next[j] = u.hook.next[j]
  BY <1>1, <1>2, SpellsPopped
<1>4. PICK x : x = WithChain(u, l, out)
  OBVIOUS
<1>5. PICK e : e = Promise!Departed(Now(order, turn), l, order[l][1])
  OBVIOUS
<1>6. PICK y : y = IF x.chain[l].first = END THEN Deactivated(x, l) ELSE x
  OBVIOUS
<1>7. /\ Table(y, V, e.lane, e.turn) /\ Spared(u, y, V, order, order[l][1])
      /\ e.lane = Retold(order, l, Without(order[l], 1))
      /\ x.chain[l].first = END <=> e.lane[l] = <<>>
  BY <1>1, <1>3, <1>4, <1>5, <1>6, TableShorter
<1>8. x.track = u.track /\ x.ring = u.ring
  BY <1>4 DEF WithChain
<1>9. CASE ~ rotate
  BY <1>2, <1>4, <1>5, <1>6, <1>7, <1>9 DEF FrontRemoved
<1>10. CASE rotate /\ e.lane[l] = <<>>
  <2>1. FrontRemoved(u, l, rotate) = y
    BY <1>2, <1>4, <1>6, <1>7, <1>10 DEF FrontRemoved
  <2>2. Promise!Served(Now(order, turn), l) = e
    BY <1>1, <1>5, <1>10 DEF Promise!Served, Now
  <2> QED BY <1>7, <1>10, <2>1, <2>2
<1>11. CASE rotate /\ e.lane[l] # <<>>
  <2> DEFINE b == Append(Promise!RemoveFirst(turn[Group(l)], l), l)
  <2>1. y = x
    BY <1>6, <1>7, <1>11
  <2>2. e.turn = turn /\ e.lane = Promise!Departed(Now(order, turn), l, order[l][1]).lane
    <3>1. e.lane[l] = Promise!RemoveFirst(order[l], order[l][1])
      BY <1>1, <1>5 DEF Promise!Departed, Now
    <3> QED BY <1>5, <1>11, <3>1 DEF Promise!Departed, Now
  <2>3. /\ Promise!Served(Now(order, turn), l).lane = e.lane
        /\ Promise!Served(Now(order, turn), l).turn = Redealt(turn, l, b)
    <3>1. e = [lane |-> e.lane, turn |-> turn]
      BY <1>5, <2>2 DEF Promise!Departed
    <3>2. Promise!Served(Now(order, turn), l) = [e EXCEPT !.turn[Group(l)] = Append(Promise!RemoveFirst(@, l), l)]
      BY <1>1, <1>5, <1>11 DEF Promise!Served, Now
    <3> QED BY <3>1, <3>2 DEF Redealt
  <2>4. Turned(x, turn, Busy(e.lane)) /\ Chained(x, V, e.lane)
    BY <1>7, <2>1, <2>2 DEF Table
  <2>5. l \in Busy(e.lane)
    BY <1>11 DEF Busy
  <2>6. PICK w : w = WithTrack(x, l, CycledBack(x.track, Turn(x, l), l))
    OBVIOUS
  <2>7. /\ Turned(w, Redealt(turn, l, b), Busy(e.lane))
        /\ w.hook = x.hook /\ w.chain = x.chain
    BY <2>4, <2>5, <2>6, TurnServed
  <2>8. Chained(w, V, e.lane) /\ Spared(u, w, V, order, order[l][1])
    BY <1>7, <2>1, <2>4, <2>7, ChainedFrame DEF Turned, Spared
  <2>9. FrontRemoved(u, l, rotate) = w
    BY <1>2, <1>4, <1>7, <1>8, <1>11, <2>6 DEF FrontRemoved, Turn
  <2> QED BY <1>7, <1>11, <2>3, <2>7, <2>8, <2>9 DEF Table
<1> QED BY <1>9, <1>10, <1>11

\* A hook that waits in no lane may be made idle.
LEMMA TableIdle ==
  ASSUME NEW V, END \notin V, NEW u, NEW order, NEW turn, Table(u, V, order, turn),
         NEW i \in V, ~ Waits(order, i)
  PROVE  LET w == Idle(u, i)
         IN /\ Table(w, V, order, turn) /\ w.hook.previous[i] = i
            /\ \A j \in V : j # i => w.hook.previous[j] = u.hook.previous[j] /\ w.hook.next[j] = u.hook.next[j]
<1> DEFINE w == Idle(u, i)
<1>1. /\ u.hook \in Plane(V) /\ IsTable(u)
      /\ u.hook.previous \in [V -> V \cup {END}] /\ u.hook.next \in [V -> V \cup {END}]
  BY DEF Table, Chained, Plane
<1>2. /\ w.hook = Idled(u.hook, i) /\ w.chain = u.chain /\ w.track = u.track /\ w.ring = u.ring /\ IsTable(w)
  BY <1>1 DEF Idle, IsTable
<1> HIDE DEF w
<1>3. /\ w.hook \in Plane(V) /\ w.hook.previous[i] = i
      /\ \A j \in V : j # i => w.hook.previous[j] = u.hook.previous[j] /\ w.hook.next[j] = u.hook.next[j]
  BY <1>1, <1>2 DEF Idled, SetHook, Plane
<1>4. ASSUME NEW l \in Lanes PROVE Spells(w.hook, w.chain[l], order[l], V)
  BY <1>2, <1>3, SpellsFrame DEF Waits, Table, Chained
<1>5. Chained(w, V, order)
  BY <1>2, <1>3, <1>4 DEF Table, Chained
<1>6. Turned(w, turn, Busy(order))
  BY <1>2, TurnedFrame DEF Table
<1> QED BY <1>3, <1>5, <1>6 DEF w, Table

-----------------------------------------------------------------------------
(* A join between two operations.                                          *)

\* Every hook that waits in no lane is vacant or parked.
Kept(u, V, order, turn) ==
  /\ Table(u, V, order, turn)
  /\ \A j \in V : ~ Waits(order, j) => u.hook.previous[j] = j

\* A hook reads as linked exactly when it stands in a lane.
LEMMA KeptLinked ==
  ASSUME NEW V, END \notin V, NEW u, NEW order, NEW turn, Kept(u, V, order, turn), NEW i \in V
  PROVE  IsLinked(u.hook, i) <=> Waits(order, i)
<1>1. ASSUME NEW l \in Lanes, Stands(order[l], i) PROVE u.hook.previous[i] # i
  <2>1. Spells(u.hook, u.chain[l], order[l], V)
    BY TableFacts DEF Kept
  <2>2. PICK k \in 1..Len(order[l]) : order[l][k] = i
    BY <1>1 DEF Stands
  <2>3. /\ u.hook.previous[i] = (IF k = 1 THEN END ELSE order[l][k - 1])
        /\ k # 1 => k - 1 \in 1..Len(order[l]) /\ k - 1 # k
    BY <2>1, <2>2 DEF Spells
  <2>4. k # 1 => order[l][k - 1] # order[l][k]
    BY <2>1, <2>3 DEF Spells, OneEach
  <2> QED BY <2>2, <2>3, <2>4
<1> QED BY <1>1 DEF Kept, IsLinked, Waits

\* What the words of a well formed join spell is what Walk reads.
LEMMA OrdersAre ==
  ASSUME NEW V, END \notin V, IsFiniteSet(V), NEW u, NEW order, NEW turn, Table(u, V, order, turn)
  PROVE  LaneOrder(u) = order /\ TurnOrder(u) = turn
<1>1. ASSUME NEW l \in Lanes PROVE Walk(u.hook, u.chain[l].first) = order[l]
  <2>1. u.hook \in Plane(V) /\ Spells(u.hook, u.chain[l], order[l], V)
    BY TableFacts
  <2>2. u.hook.next \in [V -> V \cup {END}]
    BY <2>1 DEF Plane
  <2>3. Follows(u.hook, u.chain[l].first, order[l], V)
    BY <2>1 DEF Follows, Spells
  <2> QED BY <2>2, <2>3, WalkIs
<1>2. ASSUME NEW g \in Groups PROVE Walk(u.track, u.ring[g]) = turn[g]
  <2>1. u.track \in Plane(Lanes) /\ Circles(u.track, u.ring[g], turn[g], Lanes)
    BY DEF Table, Turned
  <2>2. u.track.next \in [Lanes -> Lanes \cup {END}] /\ END \notin Lanes /\ IsFiniteSet(Lanes)
    BY <2>1, LanesAreIndices DEF Plane
  <2>3. turn[g] # <<>> => Len(turn[g]) \in 1..Len(turn[g]) /\ u.ring[g] = turn[g][1]
    BY <2>1 DEF Circles
  <2>4. Follows(u.track, u.ring[g], turn[g], Lanes)
    BY <2>1, <2>3 DEF Follows, Circles, After
  <2> QED BY <2>2, <2>4, WalkIs
<1>3. order = [l \in Lanes |-> order[l]] /\ turn = [g \in Groups |-> turn[g]]
  BY DEF Table, Chained, Turned
<1> QED BY <1>1, <1>2, <1>3 DEF LaneOrder, TurnOrder

\* Who stands where once a slot left its lane, or came to one.
Gone(order, o, i) == \A m \in Lanes : \A j : Stands(o[m], j) <=> Stands(order[m], j) /\ j # i
Come(order, o, l, i) == \A m \in Lanes : \A j : Stands(o[m], j) <=> Stands(order[m], j) \/ (m = l /\ j = i)

\* Taking one element out of one lane leaves the others in theirs.
LEMMA GoneFrom ==
  ASSUME NEW V, NEW u, NEW order, NEW turn, Table(u, V, order, turn),
         NEW l \in Lanes, NEW p \in 1..Len(order[l])
  PROVE  Gone(order, Retold(order, l, Without(order[l], p)), order[l][p])
<1> DEFINE o == Retold(order, l, Without(order[l], p))
<1>1. /\ order \in [Lanes -> Seq(V)] /\ order[l] \in Seq(V) /\ OneEach(order[l]) /\ Stands(order[l], order[l][p])
      /\ \A m \in Lanes : m # l => ~ Stands(order[m], order[l][p])
  <2>1. Spells(u.hook, u.chain[l], order[l], V) /\ order \in [Lanes -> Seq(V)]
    BY DEF Table, Chained
  <2>2. Stands(order[l], order[l][p])
    BY DEF Stands
  <2>3. order[l] \in Seq(V) /\ OneEach(order[l])
    BY <2>1 DEF Spells
  <2>4. \A m \in Lanes : m # l => ~ Stands(order[m], order[l][p])
    BY <2>2 DEF Table, Chained
  <2> QED BY <2>1, <2>2, <2>3, <2>4
<1>2. \A j : Stands(Without(order[l], p), j) <=> Stands(order[l], j) /\ j # order[l][p]
  BY <1>1, WithoutFacts
<1>3. \A m \in Lanes : o[m] = IF m = l THEN Without(order[l], p) ELSE order[m]
  BY <1>1 DEF Retold
<1> HIDE DEF o
<1>4. Gone(order, o, order[l][p])
  BY <1>1, <1>2, <1>3 DEF Gone
<1> QED BY <1>4 DEF o

\* Appending to one lane changes who stands where by one.
LEMMA ArrivedAt ==
  ASSUME NEW V, NEW order \in [Lanes -> Seq(V)], NEW l \in Lanes, NEW i \in V
  PROVE  Come(order, Retold(order, l, Append(order[l], i)), l, i)
<1> DEFINE o == Retold(order, l, Append(order[l], i))
<1>1. order[l] \in Seq(V) /\ \A j : Stands(Append(order[l], i), j) <=> Stands(order[l], j) \/ j = i
  BY AppendFacts
<1>2. \A m \in Lanes : o[m] = IF m = l THEN Append(order[l], i) ELSE order[m]
  BY DEF Retold
<1> HIDE DEF o
<1>3. Come(order, o, l, i)
  BY <1>1, <1>2 DEF Come
<1> QED BY <1>3 DEF o

\* The same, of waiting anywhere.
LEMMA WhoWaits ==
  ASSUME NEW order, NEW o, NEW i
  PROVE  /\ Gone(order, o, i) => \A j : Waits(o, j) <=> Waits(order, j) /\ j # i
         /\ \A l \in Lanes : Come(order, o, l, i) => \A j : Waits(o, j) <=> Waits(order, j) \/ j = i
BY DEF Gone, Come, Waits

\* An insertion keeps the join, and every hook outside its lanes.
LEMMA KeptInserted ==
  ASSUME NEW V, END \notin V, NEW u, NEW order, NEW turn, Table(u, V, order, turn),
         NEW l \in Lanes, NEW i \in V, ~ Waits(order, i),
         \A j \in V : ~ Waits(order, j) /\ j # i => u.hook.previous[j] = j
  PROVE  LET w == Inserted(u, l, i)  e == Promise!Entered(Now(order, turn), l, i)
         IN /\ Kept(w, V, e.lane, e.turn) /\ e.lane = Retold(order, l, Append(order[l], i))
            /\ Come(order, e.lane, l, i)
            /\ \A j \in V : ~ Waits(e.lane, j) => w.hook.next[j] = u.hook.next[j]
<1>1. PICK w : w = Inserted(u, l, i)
  OBVIOUS
<1>2. PICK e : e = Promise!Entered(Now(order, turn), l, i)
  OBVIOUS
<1>3. /\ Table(w, V, e.lane, e.turn) /\ Spared(u, w, V, order, i)
      /\ e.lane = Retold(order, l, Append(order[l], i))
  BY <1>1, <1>2, TableInserted
<1>4. order \in [Lanes -> Seq(V)]
  BY DEF Table, Chained
<1>5. Come(order, e.lane, l, i) /\ \A j : Waits(e.lane, j) <=> Waits(order, j) \/ j = i
  <2>1. Come(order, e.lane, l, i)
    BY <1>3, <1>4, ArrivedAt
  <2> QED BY <2>1, WhoWaits
<1> QED BY <1>1, <1>2, <1>3, <1>5 DEF Kept, Spared

\* A slot moves to a lane's tail, from its own lane or from another.
LEMMA KeptMoved ==
  ASSUME NEW V, END \notin V, NEW u, NEW order, NEW turn, Kept(u, V, order, turn),
         NEW l \in Lanes, NEW m \in Lanes, NEW i, Stands(order[l], i)
  PROVE  LET w == Inserted(Removed(u, l, i), m, i)
             d == Promise!Departed(Now(order, turn), l, i)
             e == Promise!Entered(d, m, i)
         IN /\ Kept(w, V, e.lane, e.turn)
            /\ \A j \in V : ~ Waits(e.lane, j) => w.hook.next[j] = u.hook.next[j]
            /\ \E p \in 1..Len(order[l]) : order[l][p] = i /\ d.lane = Retold(order, l, Without(order[l], p))
            /\ e.lane = Retold(d.lane, m, Append(d.lane[m], i))
            /\ Gone(order, d.lane, i) /\ Come(d.lane, e.lane, m, i)
<1>0. Table(u, V, order, turn) /\ i \in V
  BY IsInside, TableFacts DEF Kept
<1>1. PICK x : x = Removed(u, l, i)
  OBVIOUS
<1>2. PICK d : d = Promise!Departed(Now(order, turn), l, i)
  OBVIOUS
<1>3. /\ Table(x, V, d.lane, d.turn) /\ Spared(u, x, V, order, i)
      /\ \E p \in 1..Len(order[l]) : order[l][p] = i /\ d.lane = Retold(order, l, Without(order[l], p))
  BY <1>0, <1>1, <1>2, TableRemoved
<1>4. Gone(order, d.lane, i) /\ \A j : Waits(d.lane, j) <=> Waits(order, j) /\ j # i
  BY <1>0, <1>3, GoneFrom, WhoWaits
<1>5. d = Now(d.lane, d.turn)
  BY <1>2 DEF Promise!Departed, Now
<1>6. \A j \in V : ~ Waits(d.lane, j) /\ j # i => x.hook.previous[j] = j /\ x.hook.next[j] = u.hook.next[j]
  BY <1>3, <1>4 DEF Kept, Spared
<1>7. PICK w : w = Inserted(x, m, i)
  OBVIOUS
<1>8. PICK e : e = Promise!Entered(d, m, i)
  OBVIOUS
<1>9. /\ Kept(w, V, e.lane, e.turn) /\ e.lane = Retold(d.lane, m, Append(d.lane[m], i))
      /\ Come(d.lane, e.lane, m, i)
      /\ \A j \in V : ~ Waits(e.lane, j) => w.hook.next[j] = x.hook.next[j]
  BY <1>0, <1>3, <1>4, <1>5, <1>6, <1>7, <1>8, KeptInserted
<1>10. \A j \in V : ~ Waits(e.lane, j) => j # i /\ ~ Waits(d.lane, j)
  BY <1>9, WhoWaits
<1> QED BY <1>1, <1>2, <1>3, <1>4, <1>6, <1>7, <1>8, <1>9, <1>10


\* A removal keeps the join; its hook may be made idle or written otherwise.
LEMMA KeptCleared ==
  ASSUME NEW V, END \notin V, NEW u, NEW order, NEW turn, Kept(u, V, order, turn),
         NEW l \in Lanes, NEW i, Stands(order[l], i)
  PROVE  LET x == Removed(u, l, i)  w == Idle(x, i)  e == Promise!Departed(Now(order, turn), l, i)
         IN /\ Kept(w, V, e.lane, e.turn)
            /\ Table(x, V, e.lane, e.turn) /\ Spared(u, x, V, order, i)
            /\ Gone(order, e.lane, i)
            /\ \E p \in 1..Len(order[l]) : order[l][p] = i /\ e.lane = Retold(order, l, Without(order[l], p))
<1>0. Table(u, V, order, turn) /\ i \in V
  BY IsInside, TableFacts DEF Kept
<1>1. PICK x : x = Removed(u, l, i)
  OBVIOUS
<1>2. PICK e : e = Promise!Departed(Now(order, turn), l, i)
  OBVIOUS
<1>3. /\ Table(x, V, e.lane, e.turn) /\ Spared(u, x, V, order, i)
      /\ \E p \in 1..Len(order[l]) : order[l][p] = i /\ e.lane = Retold(order, l, Without(order[l], p))
  BY <1>0, <1>1, <1>2, TableRemoved
<1>4. Gone(order, e.lane, i) /\ \A j : Waits(e.lane, j) <=> Waits(order, j) /\ j # i
  BY <1>0, <1>3, GoneFrom, WhoWaits
<1>5. PICK w : w = Idle(x, i)
  OBVIOUS
<1>6. /\ Table(w, V, e.lane, e.turn) /\ w.hook.previous[i] = i
      /\ \A j \in V : j # i => w.hook.previous[j] = x.hook.previous[j] /\ w.hook.next[j] = x.hook.next[j]
  BY <1>0, <1>3, <1>4, <1>5, TableIdle
<1>7. Kept(w, V, e.lane, e.turn)
  BY <1>3, <1>4, <1>6 DEF Kept, Spared
<1> QED BY <1>1, <1>2, <1>3, <1>4, <1>5, <1>7

\* So does taking a front, with or without its turn.
LEMMA KeptPopped ==
  ASSUME NEW V, END \notin V, NEW u, NEW order, NEW turn, Kept(u, V, order, turn),
         NEW l \in Lanes, order[l] # <<>>, NEW rotate \in BOOLEAN
  PROVE  LET i == order[l][1]  x == FrontRemoved(u, l, rotate)  w == Idle(x, i)
             e == IF rotate THEN Promise!Served(Now(order, turn), l)
                  ELSE Promise!Departed(Now(order, turn), l, i)
         IN /\ Kept(w, V, e.lane, e.turn)
            /\ Table(x, V, e.lane, e.turn) /\ Spared(u, x, V, order, i)
            /\ Gone(order, e.lane, i)
            /\ e.lane = Retold(order, l, Without(order[l], 1))
            /\ i \in V /\ Stands(order[l], i) /\ u.chain[l].first = i
<1>0. Table(u, V, order, turn) /\ 1 \in 1..Len(order[l])
  BY TableFacts DEF Kept
<1>1. PICK i : i = order[l][1]
  OBVIOUS
<1>2. i \in V /\ Stands(order[l], i) /\ u.chain[l].first = i
  BY <1>0, <1>1, TableFacts DEF Stands
<1>3. PICK x : x = FrontRemoved(u, l, rotate)
  OBVIOUS
<1>4. PICK e : e = IF rotate THEN Promise!Served(Now(order, turn), l)
                   ELSE Promise!Departed(Now(order, turn), l, i)
  OBVIOUS
<1>5. /\ Table(x, V, e.lane, e.turn) /\ Spared(u, x, V, order, i)
      /\ e.lane = Retold(order, l, Without(order[l], 1))
  BY <1>0, <1>1, <1>3, <1>4, TableFrontRemoved
<1>6. Gone(order, e.lane, i) /\ \A j : Waits(e.lane, j) <=> Waits(order, j) /\ j # i
  BY <1>0, <1>1, <1>5, GoneFrom, WhoWaits
<1>7. PICK w : w = Idle(x, i)
  OBVIOUS
<1>8. /\ Table(w, V, e.lane, e.turn) /\ w.hook.previous[i] = i
      /\ \A j \in V : j # i => w.hook.previous[j] = x.hook.previous[j] /\ w.hook.next[j] = x.hook.next[j]
  BY <1>2, <1>5, <1>6, <1>7, TableIdle
<1>9. Kept(w, V, e.lane, e.turn)
  BY <1>5, <1>6, <1>8 DEF Kept, Spared
<1> QED BY <1>1, <1>2, <1>3, <1>4, <1>5, <1>6, <1>7, <1>9

-----------------------------------------------------------------------------
(* Rounds: the invariant.                                                  *)

InLanes == LaneOrder(t)
InTurn == TurnOrder(t)

RoundsTyped ==
  /\ shape \in Shapes
  /\ cell \in [Slots -> Lanes]
  /\ value \in [Slots -> Vals \cup {None}]
  /\ calls \in Seq(Call)

\* An exclusive dequeue keeps everybody else out of the owner.
LoanAlone ==
  loan # None => /\ shape = "lanes" /\ calls = <<>>
                 /\ loan \in [slot : Slots, lane : Lanes]
                 /\ cell[loan.slot] = loan.lane

\* Who waits does so in the lane recorded for it, and in a Values holds a payload.
Filed(order) ==
  \A l \in Lanes : \A i : Stands(order[l], i) =>
     cell[i] = l /\ (shape = "values" => value[i] # None)

RoundsInv ==
  /\ RoundsTyped
  /\ LoanAlone
  /\ Kept(t, Slots, InLanes, InTurn)
  /\ Filed(InLanes)

-----------------------------------------------------------------------------
(* Steps of the promise.                                                   *)

\* What a kept join is read as.
LEMMA Reads ==
  ASSUME NEW w, NEW e, Kept(w, Slots, e.lane, e.turn)
  PROVE  LaneOrder(w) = e.lane /\ TurnOrder(w) = e.turn /\ Kept(w, Slots, LaneOrder(w), TurnOrder(w))
BY OrdersAre, SlotsAreNodes DEF Kept

\* What the two orders are now, and after the step.
Told == Now(InLanes, InTurn)

\* What the orders are after a step that keeps the join.
LEMMA ToldIs ==
  ASSUME NEW e, e = Now(e.lane, e.turn), Kept(t', Slots, e.lane, e.turn)
  PROVE  /\ Told' = e /\ InLanes' = e.lane /\ InTurn' = e.turn
         /\ Kept(t, Slots, InLanes, InTurn)'
<1>1. LaneOrder(t') = e.lane /\ TurnOrder(t') = e.turn
  BY Reads
<1>2. InLanes' = e.lane /\ InTurn' = e.turn
  BY <1>1 DEF InLanes, InTurn
<1> QED BY <1>2 DEF Told, Now

\* Standing in a sequence is being in its set.
LEMMA StandsInSet ==
  ASSUME NEW V, NEW s \in Seq(V), NEW i
  PROVE  i \in Promise!ToSet(s) <=> Stands(s, i)
BY DEF Promise!ToSet, Stands

\* The actions of the promise, said of the two orders.
LEMMA StepEnter ==
  ASSUME Kept(t, Slots, InLanes, InTurn), NEW l \in Lanes, NEW i \in Slots, ~ Waits(InLanes, i),
         Told' = Promise!Entered(Told, l, i)
  PROVE  Promise!Next
<1>1. \A m \in Lanes : InLanes[m] \in Seq(Slots)
  BY DEF Kept, Table, Chained
<1>2. i \notin Promise!Waiting
  BY <1>1, StandsInSet DEF Promise!Waiting, Waits, InLanes
<1>3. Promise!Enter(l, i)
  BY DEF Promise!Enter, Promise!now, Told, Now, InLanes, InTurn
<1> QED BY <1>2, <1>3 DEF Promise!Next

\* A step to Departed is a step of the promise.
LEMMA StepLeave ==
  ASSUME Kept(t, Slots, InLanes, InTurn), NEW l \in Lanes, NEW i, Stands(InLanes[l], i),
         Told' = Promise!Departed(Told, l, i)
  PROVE  Promise!Next
<1>1. InLanes[l] \in Seq(Slots)
  BY DEF Kept, Table, Chained
<1>2. i \in Promise!ToSet(LaneOrder(t)[l])
  BY <1>1, StandsInSet DEF InLanes
<1>3. Promise!Leave(l, i)
  BY DEF Promise!Leave, Promise!now, Told, Now, InLanes, InTurn
<1> QED BY <1>2, <1>3 DEF Promise!Next

\* A step to Departed, then Entered, is one step of the promise.
LEMMA StepTransfer ==
  ASSUME Kept(t, Slots, InLanes, InTurn), NEW l \in Lanes, NEW m \in Lanes, NEW i, Stands(InLanes[l], i),
         Told' = Promise!Entered(Promise!Departed(Told, l, i), m, i)
  PROVE  Promise!Next
<1>1. InLanes[l] \in Seq(Slots)
  BY DEF Kept, Table, Chained
<1>2. i \in Promise!ToSet(LaneOrder(t)[l])
  BY <1>1, StandsInSet DEF InLanes
<1>3. Promise!Transfer(l, m, i)
  BY DEF Promise!Transfer, Promise!now, Told, Now, InLanes, InTurn
<1> QED BY <1>2, <1>3 DEF Promise!Next

\* A step to Served is a step of the promise.
LEMMA StepServe ==
  ASSUME NEW l \in Lanes, InLanes[l] # <<>>, Told' = Promise!Served(Told, l)
  PROVE  Promise!Next
<1>1. Promise!Serve(l)
  BY DEF Promise!Serve, Promise!now, Told, Now, InLanes, InTurn
<1> QED BY <1>1 DEF Promise!Next

\* A step to Served, then Entered, is one step of the promise.
LEMMA StepRotate ==
  ASSUME NEW l \in Lanes, InLanes[l] # <<>>,
         Told' = Promise!Entered(Promise!Served(Told, l), l, Head(InLanes[l]))
  PROVE  Promise!Next
<1>1. Promise!Rotate(l)
  BY DEF Promise!Rotate, Promise!now, Told, Now, InLanes, InTurn
<1> QED BY <1>1 DEF Promise!Next

-----------------------------------------------------------------------------
(* Rounds: what each action does.                                          *)

\* A linked slot stands in the lane recorded for it.
LEMMA LinkedStands ==
  ASSUME RoundsInv, NEW i \in Slots
  PROVE  /\ Linked(i) <=> Waits(InLanes, i)
         /\ Linked(i) => Stands(InLanes[cell[i]], i) /\ cell[i] \in Lanes
<1>1. Linked(i) <=> Waits(InLanes, i)
  BY KeptLinked, SlotsAreNodes DEF RoundsInv, Linked
<1> QED BY <1>1 DEF RoundsInv, Filed, Waits

\* What the orders come to when slot i moves, leaves or arrives.
LEMMA PushedFrom ==
  ASSUME RoundsInv, NEW i \in Slots, NEW l \in Lanes, PushFrom(i, l)
  PROVE  /\ Kept(t, Slots, InLanes, InTurn)' /\ Promise!Next
         /\ cell' = [cell EXCEPT ![i] = l]
         /\ \A m \in Lanes : \A j : Stands(InLanes'[m], j) => (m = l /\ j = i) \/ (j # i /\ Stands(InLanes[m], j))
<1>0. /\ Kept(t, Slots, InLanes, InTurn) /\ Table(t, Slots, InLanes, InTurn) /\ END \notin Slots
  BY SlotsAreNodes DEF RoundsInv, Kept
<1>1. CASE Linked(i)
  <2>1. cell[i] \in Lanes /\ Stands(InLanes[cell[i]], i)
    BY <1>1, LinkedStands
  <2>2. t' = Inserted(Removed(t, cell[i], i), l, i) /\ cell' = [cell EXCEPT ![i] = l]
    BY <1>1 DEF PushFrom
  <2>3. PICK k \in Lanes : k = cell[i]
    BY <2>1
  <2>4. PICK d : d = Promise!Departed(Told, k, i)
    OBVIOUS
  <2>5. PICK e : e = Promise!Entered(d, l, i)
    OBVIOUS
  <2>6. /\ Kept(t', Slots, e.lane, e.turn)
        /\ Gone(InLanes, d.lane, i) /\ Come(d.lane, e.lane, l, i)
    BY <1>0, <2>1, <2>2, <2>3, <2>4, <2>5, KeptMoved DEF Told
  <2>7. e = Now(e.lane, e.turn)
    BY <2>5 DEF Promise!Entered, Now
  <2>8. Told' = e /\ InLanes' = e.lane /\ Kept(t, Slots, InLanes, InTurn)'
    BY <2>6, <2>7, ToldIs
  <2>9. Promise!Next
    BY <1>0, <2>1, <2>3, <2>4, <2>5, <2>8, StepTransfer
  <2> QED BY <2>2, <2>6, <2>8, <2>9 DEF Gone, Come
<1>2. CASE ~ Linked(i)
  <2>1. ~ Waits(InLanes, i)
    BY <1>2, LinkedStands
  <2>2. t' = Inserted(t, l, i) /\ cell' = [cell EXCEPT ![i] = l]
    BY <1>2 DEF PushFrom
  <2>5. PICK e : e = Promise!Entered(Told, l, i)
    OBVIOUS
  <2>6. Kept(t', Slots, e.lane, e.turn) /\ Come(InLanes, e.lane, l, i)
    <3>1. \A j \in Slots : ~ Waits(InLanes, j) /\ j # i => t.hook.previous[j] = j
      BY <1>0 DEF Kept
    <3> QED BY <1>0, <2>1, <2>2, <2>5, <3>1, KeptInserted DEF Told
  <2>7. e = Now(e.lane, e.turn)
    BY <2>5 DEF Promise!Entered, Now
  <2>8. Told' = e /\ InLanes' = e.lane /\ Kept(t, Slots, InLanes, InTurn)'
    BY <2>6, <2>7, ToldIs
  <2>9. Promise!Next
    BY <1>0, <2>1, <2>5, <2>8, StepEnter
  <2>10. \A m \in Lanes : ~ Stands(InLanes[m], i)
    BY <2>1 DEF Waits
  <2> QED BY <2>2, <2>6, <2>8, <2>9, <2>10 DEF Come
<1> QED BY <1>1, <1>2

\* A slot that waits leaves its lane.
LEMMA LeftLane ==
  ASSUME RoundsInv, NEW l \in Lanes, NEW i, Stands(InLanes[l], i), t' = Idle(Removed(t, l, i), i)
  PROVE  /\ Kept(t, Slots, InLanes, InTurn)' /\ Promise!Next
         /\ Gone(InLanes, InLanes', i)
<1>0. Kept(t, Slots, InLanes, InTurn) /\ END \notin Slots
  BY SlotsAreNodes DEF RoundsInv
<1>1. PICK e : e = Promise!Departed(Told, l, i)
  OBVIOUS
<1>2. Kept(t', Slots, e.lane, e.turn) /\ Gone(InLanes, e.lane, i)
  BY <1>0, <1>1, KeptCleared DEF Told
<1>3. e = Now(e.lane, e.turn)
  BY <1>1 DEF Promise!Departed, Now
<1>4. Told' = e /\ InLanes' = e.lane /\ Kept(t, Slots, InLanes, InTurn)'
  BY <1>2, <1>3, ToldIs
<1>5. Promise!Next
  BY <1>0, <1>1, <1>4, StepLeave
<1> QED BY <1>2, <1>4, <1>5

\* The front of a lane leaves it.
LEMMA FrontLeft ==
  ASSUME RoundsInv, NEW l \in Lanes, Front(t, l) # END, NEW rotate \in BOOLEAN,
         t' = Idle(FrontRemoved(t, l, rotate), Front(t, l))
  PROVE  /\ Kept(t, Slots, InLanes, InTurn)' /\ Promise!Next
         /\ Gone(InLanes, InLanes', Front(t, l))
         /\ Front(t, l) \in Slots /\ Stands(InLanes[l], Front(t, l))
<1>0. Kept(t, Slots, InLanes, InTurn) /\ Table(t, Slots, InLanes, InTurn) /\ END \notin Slots
  BY SlotsAreNodes DEF RoundsInv, Kept
<1>1. InLanes[l] # <<>>
  BY <1>0, TableFacts DEF Front
<1>2. PICK i : i = InLanes[l][1]
  OBVIOUS
<1>3. PICK e : e = IF rotate THEN Promise!Served(Told, l) ELSE Promise!Departed(Told, l, i)
  OBVIOUS
<1>4. /\ Kept(Idle(FrontRemoved(t, l, rotate), i), Slots, e.lane, e.turn) /\ Gone(InLanes, e.lane, i)
      /\ i \in Slots /\ Stands(InLanes[l], i) /\ t.chain[l].first = i
  BY <1>0, <1>1, <1>2, <1>3, KeptPopped DEF Told
<1>5. Front(t, l) = i
  BY <1>4 DEF Front
<1>6. e = Now(e.lane, e.turn)
  BY <1>3 DEF Promise!Departed, Promise!Served, Now
<1>7. Told' = e /\ InLanes' = e.lane /\ Kept(t, Slots, InLanes, InTurn)'
  BY <1>4, <1>5, <1>6, ToldIs
<1>8. Promise!Next
  BY <1>0, <1>1, <1>3, <1>4, <1>7, StepServe, StepLeave
<1> QED BY <1>4, <1>5, <1>7, <1>8

\* The front of a lane goes to its tail, and the lane to its turn's.
LEMMA FrontTurned ==
  ASSUME RoundsInv, NEW l \in Lanes, Front(t, l) # END,
         t' = Inserted(FrontRemoved(t, l, TRUE), l, Front(t, l))
  PROVE  /\ Kept(t, Slots, InLanes, InTurn)' /\ Promise!Next
         /\ \A m \in Lanes : \A j : Stands(InLanes'[m], j) => Stands(InLanes[m], j)
<1>0. Kept(t, Slots, InLanes, InTurn) /\ Table(t, Slots, InLanes, InTurn) /\ END \notin Slots
  BY SlotsAreNodes DEF RoundsInv, Kept
<1>1. InLanes[l] # <<>>
  BY <1>0, TableFacts DEF Front
<1>2. PICK i : i = InLanes[l][1]
  OBVIOUS
<1>3. PICK d : d = Promise!Served(Told, l)
  OBVIOUS
<1>4. PICK x : x = FrontRemoved(t, l, TRUE)
  OBVIOUS
<1>5. /\ Table(x, Slots, d.lane, d.turn) /\ Spared(t, x, Slots, InLanes, i) /\ Gone(InLanes, d.lane, i)
      /\ i \in Slots /\ Stands(InLanes[l], i) /\ t.chain[l].first = i
  <2>1. PICK rotate \in BOOLEAN : rotate = TRUE
    OBVIOUS
  <2>2. d = IF rotate THEN Promise!Served(Told, l) ELSE Promise!Departed(Told, l, i)
    BY <1>3, <2>1
  <2>3. x = FrontRemoved(t, l, rotate)
    BY <1>4, <2>1
  <2> QED BY <1>0, <1>1, <1>2, <2>2, <2>3, KeptPopped DEF Told
<1>6. Front(t, l) = i /\ Head(InLanes[l]) = i
  <2>1. InLanes[l] \in Seq(Slots)
    BY <1>0, TableFacts
  <2> QED BY <1>1, <1>2, <1>5, <2>1 DEF Front
<1>7. d = Now(d.lane, d.turn)
  BY <1>3 DEF Promise!Departed, Promise!Served, Now
<1>8. \A j \in Slots : ~ Waits(d.lane, j) /\ j # i => x.hook.previous[j] = j
  BY <1>0, <1>5, WhoWaits DEF Kept, Spared
<1>9. PICK e : e = Promise!Entered(d, l, i)
  OBVIOUS
<1>10. Kept(Inserted(x, l, i), Slots, e.lane, e.turn) /\ Come(d.lane, e.lane, l, i)
  <2>1. ~ Waits(d.lane, i)
    BY <1>5, WhoWaits
  <2> QED BY <1>0, <1>5, <1>7, <1>8, <1>9, <2>1, KeptInserted
<1>11. e = Now(e.lane, e.turn)
  BY <1>9 DEF Promise!Entered, Now
<1>12. Told' = e /\ InLanes' = e.lane /\ Kept(t, Slots, InLanes, InTurn)'
  BY <1>4, <1>6, <1>10, <1>11, ToldIs
<1>13. Promise!Next
  BY <1>1, <1>3, <1>6, <1>9, <1>12, StepRotate
<1> QED BY <1>5, <1>10, <1>12, <1>13 DEF Gone, Come

\* A step of the queue is a step of the promise, or none.
Kepts == Kept(t, Slots, InLanes, InTurn)' /\ (Promise!Next \/ UNCHANGED <<InLanes, InTurn>>)

\* A step that leaves the join alone.
LEMMA SameTable ==
  ASSUME Kept(t, Slots, InLanes, InTurn), t' = t
  PROVE  Kepts /\ InLanes' = InLanes
<1>1. InLanes' = InLanes /\ InTurn' = InTurn
  BY DEF InLanes, InTurn
<1>2. Kept(t, Slots, InLanes, InTurn)'
  BY <1>1
<1> QED BY <1>1, <1>2 DEF Kepts

\* A payload is written and the others stay.
LEMMA PutTyped ==
  ASSUME RoundsTyped, NEW i \in Slots, NEW v \in Vals \cup {None}, Put(i, v)
  PROVE  value' \in [Slots -> Vals \cup {None}] /\ value'[i] = v /\ \A j : j # i => value'[j] = value[j]
<1>1. value' = [value EXCEPT ![i] = v] /\ value \in [Slots -> Vals \cup {None}]
  BY DEF Put, RoundsTyped
<1>2. \A j \in Slots : j # i => value'[j] = value[j]
  BY <1>1
<1>3. \A j : j # i => value'[j] = value[j]
  BY <1>1
<1> QED BY <1>1, <1>3

\* Slot::write, Slot::take and Slot::clear.
LEMMA WriteSteps ==
  ASSUME RoundsInv, loan = None, NEW i \in Slots, Write(i)
  PROVE  RoundsInv' /\ Kepts
<1>1. PICK v \in Payloads \cup {None} : Clear(i) /\ Put(i, v) /\ UNCHANGED <<shape, cell, calls, loan>>
  BY DEF Write
<1>2. v \in Vals \cup {None} /\ RoundsTyped
  BY DEF Payloads, RoundsInv
<1>3. value' \in [Slots -> Vals \cup {None}] /\ value'[i] = v /\ \A j : j # i => value'[j] = value[j]
  BY <1>1, <1>2, PutTyped
<1>4. Kepts /\ \A m \in Lanes : \A j : Stands(InLanes'[m], j) => j # i /\ Stands(InLanes[m], j)
  <2>1. CASE Linked(i)
    <3>1. cell[i] \in Lanes /\ Stands(InLanes[cell[i]], i)
      BY <2>1, LinkedStands
    <3>2. t' = Idle(Removed(t, cell[i], i), i)
      BY <1>1, <2>1 DEF Clear
    <3>3. Kept(t, Slots, InLanes, InTurn)' /\ Promise!Next /\ Gone(InLanes, InLanes', i)
      BY <3>1, <3>2, LeftLane
    <3> QED BY <3>3 DEF Gone, Kepts
  <2>2. CASE ~ Linked(i)
    <3>1. t' = t
      BY <1>1, <2>2 DEF Clear
    <3>2. ~ Waits(InLanes, i)
      BY <2>2, LinkedStands
    <3> QED BY <3>1, <3>2, SameTable DEF Waits, RoundsInv
  <2> QED BY <2>1, <2>2
<1>5. RoundsTyped' /\ LoanAlone'
  BY <1>1, <1>2, <1>3 DEF RoundsTyped, LoanAlone
<1>6. Filed(InLanes)'
  BY <1>1, <1>3, <1>4 DEF RoundsInv, Filed
<1> QED BY <1>4, <1>5, <1>6 DEF RoundsInv, Kepts

\* A recorded lane is written and the others stay.
LEMMA CellTyped ==
  ASSUME RoundsTyped, NEW i \in Slots, NEW l \in Lanes, cell' = [cell EXCEPT ![i] = l]
  PROVE  cell' \in [Slots -> Lanes] /\ cell'[i] = l /\ \A j : j # i => cell'[j] = cell[j]
<1>1. cell \in [Slots -> Lanes]
  BY DEF RoundsTyped
<1> QED BY <1>1

\* Place::push.
LEMMA PushSteps ==
  ASSUME RoundsInv, loan = None, NEW i \in Slots, NEW l \in Lanes, Push(i, l)
  PROVE  RoundsInv' /\ Kepts
<1>1. PICK v \in Payloads : PushFrom(i, l) /\ Put(i, v) /\ UNCHANGED <<shape, calls, loan>>
  BY DEF Push
<1>2. v \in Vals \cup {None} /\ RoundsTyped /\ (shape = "values" => v # None)
  BY SlotsAreNodes, NoneIsNoPayload DEF Payloads, RoundsInv
<1>3. value' \in [Slots -> Vals \cup {None}] /\ value'[i] = v /\ \A j : j # i => value'[j] = value[j]
  BY <1>1, <1>2, PutTyped
<1>4. /\ Kept(t, Slots, InLanes, InTurn)' /\ Promise!Next
      /\ cell' = [cell EXCEPT ![i] = l]
      /\ \A m \in Lanes : \A j : Stands(InLanes'[m], j) => (m = l /\ j = i) \/ (j # i /\ Stands(InLanes[m], j))
  BY <1>1, PushedFrom
<1>5. cell' \in [Slots -> Lanes] /\ cell'[i] = l /\ \A j : j # i => cell'[j] = cell[j]
  BY <1>2, <1>4, CellTyped
<1>6. RoundsTyped' /\ LoanAlone'
  BY <1>1, <1>2, <1>3, <1>5 DEF RoundsTyped, LoanAlone
<1>7. Filed(InLanes)'
  BY <1>1, <1>2, <1>3, <1>4, <1>5 DEF RoundsInv, Filed
<1> QED BY <1>4, <1>6, <1>7 DEF RoundsInv, Kepts

\* Place::set, with a callback before it or none.
LEMMA SettleSteps ==
  ASSUME RoundsInv, loan = None, NEW i \in Slots, NEW l \in Lanes, Settle(i, l),
         shape = "values" => value[i] # None,
         UNCHANGED <<shape, value, loan>>, calls' \in Seq(Call)
  PROVE  RoundsInv' /\ Kepts
<1>1. CASE Linked(i) /\ cell[i] = l
  <2>1. UNCHANGED <<t, cell>>
    BY <1>1 DEF Settle
  <2>2. Kepts /\ InLanes' = InLanes
    BY <2>1, SameTable DEF RoundsInv
  <2>3. RoundsTyped' /\ LoanAlone'
    BY <2>1 DEF RoundsInv, RoundsTyped, LoanAlone
  <2>4. Filed(InLanes)'
    BY <2>1, <2>2 DEF RoundsInv, Filed
  <2> QED BY <2>2, <2>3, <2>4 DEF RoundsInv, Kepts
<1>2. CASE ~ (Linked(i) /\ cell[i] = l)
  <2>1. PushFrom(i, l)
    BY <1>2 DEF Settle
  <2>2. /\ Kept(t, Slots, InLanes, InTurn)' /\ Promise!Next
        /\ cell' = [cell EXCEPT ![i] = l]
        /\ \A m \in Lanes : \A j : Stands(InLanes'[m], j) => (m = l /\ j = i) \/ (j # i /\ Stands(InLanes[m], j))
    BY <2>1, PushedFrom
  <2>3. cell' \in [Slots -> Lanes] /\ cell'[i] = l /\ \A j : j # i => cell'[j] = cell[j]
    BY <2>2, CellTyped DEF RoundsInv
  <2>4. RoundsTyped' /\ LoanAlone'
    BY <2>3 DEF RoundsInv, RoundsTyped, LoanAlone
  <2>5. Filed(InLanes)'
    BY <2>2, <2>3 DEF RoundsInv, Filed
  <2> QED BY <2>2, <2>4, <2>5 DEF RoundsInv, Kepts
<1> QED BY <1>1, <1>2

\* Every way the front of a lane is popped.
LEMMA PopSteps ==
  ASSUME RoundsInv, loan = None, NEW l \in Lanes, Front(t, l) # END, NEW rotate \in BOOLEAN, Pop(l, rotate),
         UNCHANGED <<shape, cell, loan>>, calls' \in Seq(Call)
  PROVE  RoundsInv' /\ Kepts
<1>1. t' = Idle(FrontRemoved(t, l, rotate), Front(t, l)) /\ Put(Front(t, l), None)
  BY DEF Pop
<1>2. /\ Kept(t, Slots, InLanes, InTurn)' /\ Promise!Next
      /\ Gone(InLanes, InLanes', Front(t, l)) /\ Front(t, l) \in Slots
  BY <1>1, FrontLeft
<1>3. PICK i \in Slots : i = Front(t, l)
  BY <1>2
<1>4. value' \in [Slots -> Vals \cup {None}] /\ \A j : j # i => value'[j] = value[j]
  <2>1. None \in Vals \cup {None} /\ Put(i, None) /\ RoundsTyped
    BY <1>1, <1>3 DEF RoundsInv
  <2> QED BY <2>1, PutTyped
<1>5. RoundsTyped' /\ LoanAlone'
  BY <1>4 DEF RoundsInv, RoundsTyped, LoanAlone
<1>6. Filed(InLanes)'
  BY <1>2, <1>3, <1>4 DEF RoundsInv, Filed, Gone
<1> QED BY <1>2, <1>5, <1>6 DEF RoundsInv, Kepts

\* Location::rotate.
LEMMA RotateSteps ==
  ASSUME RoundsInv, loan = None, NEW l \in Lanes, Rotate(l)
  PROVE  RoundsInv' /\ Kepts
<1>1. /\ Kept(t, Slots, InLanes, InTurn)' /\ Promise!Next
      /\ \A m \in Lanes : \A j : Stands(InLanes'[m], j) => Stands(InLanes[m], j)
  BY FrontTurned DEF Rotate
<1>2. RoundsTyped' /\ LoanAlone' /\ Filed(InLanes)'
  BY <1>1 DEF RoundsInv, RoundsTyped, LoanAlone, Filed, Rotate
<1> QED BY <1>1, <1>2 DEF RoundsInv, Kepts

\* Nothing but the calls changes.
LEMMA CallSteps ==
  ASSUME RoundsInv, loan = None, UNCHANGED <<shape, t, cell, value, loan>>, calls' \in Seq(Call)
  PROVE  RoundsInv' /\ Kepts
<1>1. Kepts /\ InLanes' = InLanes
  BY SameTable DEF RoundsInv
<1>2. RoundsTyped' /\ LoanAlone'
  BY DEF RoundsInv, RoundsTyped, LoanAlone
<1>3. Filed(InLanes)'
  BY <1>1 DEF RoundsInv, Filed
<1> QED BY <1>1, <1>2, <1>3 DEF RoundsInv, Kepts

\* The lane whose turn it is has a front.
LEMMA TurnFront ==
  ASSUME Kept(t, Slots, InLanes, InTurn), NEW g \in Groups, t.ring[g] # END
  PROVE  t.ring[g] \in Lanes /\ Front(t, t.ring[g]) # END
<1>1. Table(t, Slots, InLanes, InTurn) /\ END \notin Slots
  BY SlotsAreNodes DEF Kept
<1>2. Circles(t.track, t.ring[g], InTurn[g], Lanes)
      /\ \A l \in Lanes : Stands(InTurn[g], l) <=> Group(l) = g /\ l \in Busy(InLanes)
  BY <1>1 DEF Table, Turned
<1>3. t.ring[g] \in Lanes /\ Stands(InTurn[g], t.ring[g])
  <2>1. END \notin Lanes
    BY LanesAreIndices
  <2>2. /\ InTurn[g] # <<>> /\ t.ring[g] = InTurn[g][1] /\ 1 \in 1..Len(InTurn[g])
        /\ \A k \in 1..Len(InTurn[g]) : InTurn[g][k] \in Lanes
    BY <1>2, <2>1, CirclesFacts
  <2> QED BY <2>2 DEF Stands
<1>4. PICK l \in Lanes : l = t.ring[g]
  BY <1>3
<1>5. InLanes[l] # <<>>
  BY <1>2, <1>3, <1>4 DEF Busy
<1> QED BY <1>1, <1>3, <1>4, <1>5, TableFacts DEF Front

\* An exclusive dequeue, which retains the position.
LEMMA DequeueSteps ==
  ASSUME RoundsInv, loan = None, NEW l \in Lanes, Dequeue(l)
  PROVE  RoundsInv' /\ Kepts
<1>1. /\ Kept(t, Slots, InLanes, InTurn)' /\ Promise!Next
      /\ Gone(InLanes, InLanes', Front(t, l)) /\ Front(t, l) \in Slots /\ Stands(InLanes[l], Front(t, l))
  <2>1. PICK rotate \in BOOLEAN : rotate = TRUE
    OBVIOUS
  <2>2. t' = Idle(FrontRemoved(t, l, rotate), Front(t, l)) /\ Front(t, l) # END
    BY <2>1 DEF Dequeue
  <2> QED BY <2>2, FrontLeft
<1>2. cell[Front(t, l)] = l
  BY <1>1 DEF RoundsInv, Filed
<1>3. RoundsTyped' /\ LoanAlone'
  BY <1>1, <1>2 DEF Dequeue, RoundsInv, RoundsTyped, LoanAlone
<1>4. Filed(InLanes)'
  BY <1>1 DEF Dequeue, RoundsInv, Filed, Gone
<1> QED BY <1>1, <1>3, <1>4 DEF RoundsInv, Kepts

\* The retained position goes back to its lane's tail.
LEMMA PushBackSteps ==
  ASSUME RoundsInv, loan # None, PushBack
  PROVE  RoundsInv' /\ Kepts
<1>0. Kept(t, Slots, InLanes, InTurn) /\ Table(t, Slots, InLanes, InTurn) /\ END \notin Slots
  BY SlotsAreNodes DEF RoundsInv, Kept
<1>1. /\ shape = "lanes" /\ loan.slot \in Slots /\ loan.lane \in Lanes /\ cell[loan.slot] = loan.lane
  BY DEF RoundsInv, LoanAlone
<1>2. PICK i \in Slots : i = loan.slot
  BY <1>1
<1>3. PICK l \in Lanes : l = loan.lane
  BY <1>1
<1>4. t' = Inserted(t, l, i) /\ ~ Waits(InLanes, i)
  BY <1>2, <1>3, LinkedStands DEF PushBack
<1>5. PICK e : e = Promise!Entered(Told, l, i)
  OBVIOUS
<1>6. Kept(t', Slots, e.lane, e.turn) /\ Come(InLanes, e.lane, l, i)
  <2>1. \A j \in Slots : ~ Waits(InLanes, j) /\ j # i => t.hook.previous[j] = j
    BY <1>0 DEF Kept
  <2> QED BY <1>0, <1>4, <1>5, <2>1, KeptInserted DEF Told
<1>7. e = Now(e.lane, e.turn)
  BY <1>5 DEF Promise!Entered, Now
<1>8. Told' = e /\ InLanes' = e.lane /\ Kept(t, Slots, InLanes, InTurn)'
  BY <1>6, <1>7, ToldIs
<1>9. Promise!Next
  BY <1>0, <1>4, <1>5, <1>8, StepEnter
<1>10. RoundsTyped' /\ LoanAlone'
  BY DEF PushBack, RoundsInv, RoundsTyped, LoanAlone
<1>11. Filed(InLanes)'
  BY <1>1, <1>2, <1>3, <1>6, <1>8 DEF PushBack, RoundsInv, Filed, Come
<1> QED BY <1>8, <1>9, <1>10, <1>11 DEF RoundsInv, Kepts

\* The retained position leaves its lane again.
LEMMA RemoveAgainSteps ==
  ASSUME RoundsInv, loan # None, RemoveAgain
  PROVE  RoundsInv' /\ Kepts
<1>1. /\ loan.slot \in Slots /\ loan.lane \in Lanes /\ cell[loan.slot] = loan.lane
  BY DEF RoundsInv, LoanAlone
<1>2. PICK i \in Slots : i = loan.slot
  BY <1>1
<1>3. PICK l \in Lanes : l = loan.lane
  BY <1>1
<1>4. t' = Idle(Removed(t, l, i), i) /\ Stands(InLanes[l], i)
  BY <1>1, <1>2, <1>3, LinkedStands DEF RemoveAgain
<1>5. Kept(t, Slots, InLanes, InTurn)' /\ Promise!Next /\ Gone(InLanes, InLanes', i)
  BY <1>4, LeftLane
<1>6. RoundsTyped' /\ LoanAlone' /\ Filed(InLanes)'
  BY <1>5 DEF RemoveAgain, RoundsInv, RoundsTyped, LoanAlone, Filed, Gone
<1> QED BY <1>5, <1>6 DEF RoundsInv, Kepts

\* The exclusive handle is dropped.
LEMMA EndLoanSteps ==
  ASSUME RoundsInv, EndLoan
  PROVE  RoundsInv' /\ Kepts
<1>1. Kepts /\ InLanes' = InLanes
  BY SameTable DEF EndLoan, RoundsInv
<1>2. RoundsTyped' /\ LoanAlone' /\ Filed(InLanes)'
  BY <1>1 DEF EndLoan, RoundsInv, RoundsTyped, LoanAlone, Filed
<1> QED BY <1>1, <1>2 DEF RoundsInv, Kepts

\* A call that begins is pushed on the calls that wait.
LEMMA BeginTyped ==
  ASSUME calls \in Seq(Call), NEW c \in Call, Begin(c)
  PROVE  calls' \in Seq(Call)
<1>1. <<c>> \in Seq(Call)
  OBVIOUS
<1> QED BY <1>1, EndToEnd DEF Begin

\* The innermost call is a call, and nothing is on loan meanwhile.
LEMMA FirstCall ==
  ASSUME RoundsInv, calls # <<>>
  PROVE  /\ loan = None /\ Tail(calls) \in Seq(Call)
         /\ calls[1] \in Call /\ calls[1].slot \in Slots /\ calls[1].lane \in Lanes
         /\ [calls EXCEPT ![1].kind = "equal"] \in Seq(Call)
<1>1. calls \in Seq(Call) /\ 1 \in 1..Len(calls) /\ Len(calls) \in Nat
  BY DEF RoundsInv, RoundsTyped
<1>2. calls[1] \in Call /\ Tail(calls) \in Seq(Call)
  BY <1>1
<1>3. [calls[1] EXCEPT !.kind = "equal"] \in Call
  BY <1>2 DEF Call
<1>4. [calls EXCEPT ![1].kind = "equal"] = [calls EXCEPT ![1] = [calls[1] EXCEPT !.kind = "equal"]]
  OBVIOUS
<1>5. [calls EXCEPT ![1] = [calls[1] EXCEPT !.kind = "equal"]] \in Seq(Call)
  BY <1>1, <1>3
<1> QED BY <1>2, <1>4, <1>5 DEF RoundsInv, LoanAlone, Call

\* Every step of Rounds keeps the invariant and the promise.
LEMMA RoundsStep ==
  ASSUME RoundsInv, Next
  PROVE  RoundsInv' /\ Kepts
<1>0. calls \in Seq(Call)
  BY DEF RoundsInv, RoundsTyped
<1>1. ASSUME loan = None, NEW i \in Slots, Write(i) PROVE RoundsInv' /\ Kepts
  BY <1>1, WriteSteps
<1>2. ASSUME loan = None, NEW i \in Slots, NEW l \in Lanes, Push(i, l) PROVE RoundsInv' /\ Kepts
  BY <1>2, PushSteps
<1>3. ASSUME loan = None, NEW i \in Slots, NEW l \in Lanes, Set(i, l) PROVE RoundsInv' /\ Kepts
  BY <1>0, <1>3, SettleSteps DEF Set
<1>4. ASSUME loan = None, NEW l \in Lanes, PopFront(l) PROVE RoundsInv' /\ Kepts
  <2>1. PICK rotate \in BOOLEAN : rotate = FALSE
    OBVIOUS
  <2>2. Pop(l, rotate) /\ UNCHANGED <<shape, cell, loan>> /\ calls' \in Seq(Call) /\ Front(t, l) # END
    BY <1>0, <1>4, <2>1 DEF PopFront
  <2> QED BY <1>4, <2>2, PopSteps
<1>5. ASSUME loan = None, NEW l \in Lanes, Rotate(l) PROVE RoundsInv' /\ Kepts
  BY <1>5, RotateSteps
<1>6. ASSUME loan = None, NEW l \in Lanes, Dequeue(l) PROVE RoundsInv' /\ Kepts
  BY <1>6, DequeueSteps
<1>7. ASSUME loan = None, NEW g \in Groups, GroupNext(g) PROVE RoundsInv' /\ Kepts
  <2>1. PICK rotate \in BOOLEAN : rotate = TRUE
    OBVIOUS
  <2>2. t.ring[g] \in Lanes /\ Front(t, t.ring[g]) # END
    BY <1>7, TurnFront DEF GroupNext, RoundsInv
  <2>3. Pop(t.ring[g], rotate) /\ UNCHANGED <<shape, cell, loan>> /\ calls' \in Seq(Call)
    BY <1>0, <1>7, <2>1 DEF GroupNext
  <2> QED BY <1>7, <2>2, <2>3, PopSteps
<1>8. ASSUME loan = None, NEW c \in Call, BeginPop(c) \/ BeginSet(c) PROVE RoundsInv' /\ Kepts
  <2>1. UNCHANGED <<shape, t, cell, value, loan>> /\ calls' \in Seq(Call)
    BY <1>0, <1>8, BeginTyped DEF BeginPop, BeginSet
  <2> QED BY <1>8, <2>1, CallSteps
<1>9. ASSUME calls # <<>>, CommitPop(calls[1]) PROVE RoundsInv' /\ Kepts
  <2>1. PICK c \in Call : c = calls[1]
    BY <1>9, FirstCall
  <2>2. loan = None /\ c.slot \in Slots /\ c.lane \in Lanes /\ Tail(calls) \in Seq(Call) /\ END \notin Slots
    BY <1>9, <2>1, FirstCall, SlotsAreNodes
  <2>3. PICK rotate \in BOOLEAN : rotate = (c.kind = "turn")
    OBVIOUS
  <2>4. /\ Front(t, c.lane) # END /\ Pop(c.lane, rotate) /\ UNCHANGED <<shape, cell, loan>>
        /\ calls' \in Seq(Call)
    BY <1>9, <2>1, <2>2, <2>3 DEF CommitPop, Resolves, Return
  <2> QED BY <2>2, <2>4, PopSteps
<1>10. ASSUME calls # <<>>, BeginEqual(calls[1]) \/ Decline PROVE RoundsInv' /\ Kepts
  <2>1. loan = None /\ UNCHANGED <<shape, t, cell, value, loan>> /\ calls' \in Seq(Call)
    BY <1>10, FirstCall DEF BeginEqual, Decline, Return
  <2> QED BY <2>1, CallSteps
<1>11. ASSUME calls # <<>>, CommitSet(calls[1]) PROVE RoundsInv' /\ Kepts
  <2>1. PICK c \in Call : c = calls[1]
    BY <1>11, FirstCall
  <2>2. loan = None /\ c.slot \in Slots /\ c.lane \in Lanes /\ Tail(calls) \in Seq(Call)
    BY <1>11, <2>1, FirstCall
  <2>3. Settle(c.slot, c.lane) /\ value[c.slot] # None /\ UNCHANGED <<shape, value, loan>> /\ calls' \in Seq(Call)
    BY <1>11, <2>1, <2>2 DEF CommitSet, Return
  <2> QED BY <2>2, <2>3, SettleSteps
<1>12. ASSUME loan # None, PushBack PROVE RoundsInv' /\ Kepts
  BY <1>12, PushBackSteps
<1>13. ASSUME loan # None, RemoveAgain PROVE RoundsInv' /\ Kepts
  BY <1>13, RemoveAgainSteps
<1>14. ASSUME EndLoan PROVE RoundsInv' /\ Kepts
  BY <1>14, EndLoanSteps
<1>15. CASE loan = None /\ Shared
  BY <1>1, <1>2, <1>3, <1>4, <1>5, <1>6, <1>7, <1>8, <1>15 DEF Shared
<1> QED BY <1>9, <1>10, <1>11, <1>12, <1>13, <1>14, <1>15 DEF Next

-----------------------------------------------------------------------------
(* Rounds: the first state, and the theorems.                              *)

\* An owner in which nobody waits.
NoLane == [l \in Lanes |-> <<>>]
NoTurn == [g \in Groups |-> <<>>]

\* A plane in which every hook is vacant.
LEMMA VacatedPlane ==
  ASSUME NEW V
  PROVE  Vacated(V) \in Plane(V) /\ \A i \in V : Vacated(V).previous[i] = i
BY DEF Vacated, Plane

\* A join without waiters is well formed.
LEMMA KeptEmpty ==
  ASSUME NEW V, END \notin V, NEW h \in Plane(V), \A i \in V : h.previous[i] = i
  PROVE  Kept(Empty(h), V, NoLane, NoTurn) /\ \A i : ~ Waits(NoLane, i)
<1> DEFINE u == Empty(h)
<1>1. /\ u.hook = h /\ u.chain = [l \in Lanes |-> EmptyChain] /\ u.track = Vacated(Lanes)
      /\ u.ring = [g \in Groups |-> END] /\ IsTable(u)
  BY DEF Empty, IsTable
<1> HIDE DEF u
<1>2. <<>> \in Seq(V) /\ <<>> \in Seq(Lanes) /\ Len(<<>>) = 0 /\ \A i : ~ Stands(<<>>, i)
  BY DEF Stands
<1>3. \A l \in Lanes : Spells(u.hook, u.chain[l], <<>>, V)
  BY <1>1, <1>2 DEF Spells, OneEach, EmptyChain
<1>4. \A g \in Groups : Circles(u.track, u.ring[g], <<>>, Lanes)
  BY <1>1, <1>2 DEF Circles, OneEach
<1>5. Chained(u, V, NoLane)
  BY <1>1, <1>2, <1>3 DEF Chained, NoLane
<1>6. Turned(u, NoTurn, Busy(NoLane))
  BY <1>1, <1>2, <1>4, VacatedPlane DEF Turned, NoLane, NoTurn, Busy
<1>7. \A i : ~ Waits(NoLane, i)
  BY <1>2 DEF Waits, NoLane
<1> QED BY <1>1, <1>5, <1>6, <1>7 DEF Kept, Table, u

\* The first states satisfy the invariant and the promise's.
LEMMA RoundsInit == Init => RoundsInv /\ Promise!Init
<1> SUFFICES ASSUME Init PROVE RoundsInv /\ Promise!Init
  OBVIOUS
<1>1. Vacated(Slots) \in Plane(Slots) /\ \A i \in Slots : Vacated(Slots).previous[i] = i
  BY VacatedPlane
<1>2. Kept(t, Slots, NoLane, NoTurn) /\ \A i : ~ Waits(NoLane, i)
  BY <1>1, KeptEmpty, SlotsAreNodes DEF Init
<1>3. LaneOrder(t) = NoLane /\ TurnOrder(t) = NoTurn
  BY <1>2, OrdersAre, SlotsAreNodes DEF Kept
<1>4. InLanes = NoLane /\ InTurn = NoTurn
  BY <1>3 DEF InLanes, InTurn
<1>5. RoundsTyped /\ LoanAlone
  BY LanesAreIndices DEF Init, RoundsTyped, LoanAlone, Shapes
<1>6. Filed(InLanes)
  BY <1>2, <1>4 DEF Filed, Waits
<1>7. Promise!Init
  BY <1>3 DEF Promise!Init, NoLane, NoTurn
<1> QED BY <1>2, <1>4, <1>5, <1>6, <1>7 DEF RoundsInv

\* A stuttering step keeps both.
LEMMA RoundsStutter == ASSUME RoundsInv, UNCHANGED vars PROVE RoundsInv' /\ Kepts
<1>1. Kepts /\ InLanes' = InLanes
  BY SameTable DEF vars, RoundsInv
<1>2. RoundsTyped' /\ LoanAlone' /\ Filed(InLanes)'
  BY <1>1 DEF vars, RoundsInv, RoundsTyped, LoanAlone, Filed
<1> QED BY <1>1, <1>2 DEF RoundsInv, Kepts

\* The words of lanes::Lanes and values::Values are well formed and follow the
\* recorded lanes and the payloads, also while callbacks and loans are pending.
THEOREM RoundsInvariant == Spec => []RoundsInv
<1>1. Init => RoundsInv
  BY RoundsInit
<1>2. RoundsInv /\ [Next]_vars => RoundsInv'
  BY RoundsStep, RoundsStutter
<1> QED BY <1>1, <1>2, PTL DEF Spec

\* The invariant implies ScheduledIsInitialized.
LEMMA InvScheduled == RoundsInv => ScheduledIsInitialized
<1> SUFFICES ASSUME RoundsInv PROVE ScheduledIsInitialized
  OBVIOUS
<1>1. cell \in [Slots -> Lanes]
  BY DEF RoundsInv, RoundsTyped
<1>2. ASSUME NEW i \in Slots, NEW l \in Lanes PROVE StandsIn(i, l) <=> Stands(InLanes[l], i)
  <2>1. InLanes[l] \in Seq(Slots)
    BY DEF RoundsInv, Kept, Table, Chained
  <2> QED BY <2>1 DEF StandsIn, Stands, InLanes
<1>3. ASSUME NEW i \in Slots
      PROVE  /\ Linked(i) => Stands(InLanes[cell[i]], i)
             /\ \A l \in Lanes : Stands(InLanes[l], i) => Linked(i) /\ cell[i] = l /\ (shape = "values" => value[i] # None)
  BY LinkedStands DEF RoundsInv, Filed, Waits
<1> QED BY <1>1, <1>2, <1>3 DEF ScheduledIsInitialized

\* A slot that reads as linked stands in the lane recorded for it and in no other,
\* and a scheduled slot of a Values is initialized: what Head::get and every
\* unchecked removal rely on.
THEOREM RoundsSchedule == Spec => []ScheduledIsInitialized
BY RoundsInvariant, InvScheduled, PTL

\* Lanes and Values keep the round's promise: each lane first in first out, each
\* lane's turn once a round, whatever handles and callbacks do in between.
THEOREM RoundsFair == Spec => ImplementsFairLanes
<1>1. Init => Promise!Init
  BY RoundsInit
<1>2. RoundsInv /\ [Next]_vars => [Promise!Next]_(Promise!vars)
  BY RoundsStep, RoundsStutter DEF Kepts, Promise!vars, InLanes, InTurn
<1> QED BY <1>1, <1>2, RoundsInvariant, PTL DEF Spec, ImplementsFairLanes, Promise!Spec

-----------------------------------------------------------------------------
(* Rounds: nobody's turn is put off.                                       *)

\* Whoever stands in q stands in r no later.
Ahead(q, r, l) == \A k \in 1..Len(q) : q[k] = l => \E j \in 1..Len(r) : j <= k /\ r[j] = l

\* A turn is no later than itself.
LEMMA AheadSame == ASSUME NEW q \in Seq(Lanes), NEW l PROVE Ahead(q, q, l)
<1>1. \A k \in 1..Len(q) : k <= k
  OBVIOUS
<1> QED BY <1>1 DEF Ahead

\* Nor is it after two such steps.
LEMMA AheadOf ==
  ASSUME NEW q \in Seq(Lanes), NEW r \in Seq(Lanes), NEW s \in Seq(Lanes), NEW l, Ahead(q, r, l), Ahead(r, s, l)
  PROVE  Ahead(q, s, l)
<1> SUFFICES ASSUME NEW k \in 1..Len(q), q[k] = l PROVE \E j \in 1..Len(s) : j <= k /\ s[j] = l
  BY DEF Ahead
<1>1. PICK i \in 1..Len(r) : i <= k /\ r[i] = l
  BY DEF Ahead
<1>2. PICK j \in 1..Len(s) : j <= i /\ s[j] = l
  BY <1>1 DEF Ahead
<1>3. j <= k
  BY <1>1, <1>2
<1> QED BY <1>2, <1>3

\* A lane that joins at the back delays nobody.
LEMMA AheadAppend ==
  ASSUME NEW q \in Seq(Lanes), NEW m \in Lanes, NEW l
  PROVE  Append(q, m) \in Seq(Lanes) /\ Ahead(q, Append(q, m), l)
<1>1. /\ Append(q, m) \in Seq(Lanes) /\ Len(Append(q, m)) = Len(q) + 1 /\ Len(q) \in Nat
      /\ \A k \in 1..Len(q) : Append(q, m)[k] = q[k]
  BY AppendFacts
<1>2. \A k \in 1..Len(q) : k \in 1..Len(Append(q, m)) /\ k <= k
  BY <1>1
<1> QED BY <1>1, <1>2 DEF Ahead

\* A lane that leaves delays nobody.
LEMMA AheadWithout ==
  ASSUME NEW q \in Seq(Lanes), OneEach(q), NEW p \in 1..Len(q), NEW l, q[p] # l
  PROVE  Without(q, p) \in Seq(Lanes) /\ Ahead(q, Without(q, p), l)
<1> DEFINE w == Without(q, p)
<1>1. /\ w \in Seq(Lanes) /\ Len(w) = Len(q) - 1 /\ Len(q) \in Nat
      /\ \A k \in 1..(Len(q) - 1) : w[k] = IF k < p THEN q[k] ELSE q[k + 1]
  BY WithoutFacts
<1> HIDE DEF w
<1>2. ASSUME NEW k \in 1..Len(q), q[k] = l PROVE \E j \in 1..Len(w) : j <= k /\ w[j] = l
  <2>1. CASE k < p
    <3>1. k \in 1..(Len(q) - 1) /\ k <= k
      BY <1>1, <2>1
    <3>2. w[k] = l
      BY <1>1, <1>2, <2>1, <3>1
    <3> QED BY <1>1, <3>1, <3>2
  <2>2. CASE ~ (k < p)
    <3>1. k # p
      BY <1>2
    <3>2. k - 1 \in 1..(Len(q) - 1) /\ k - 1 <= k /\ ~ (k - 1 < p) /\ (k - 1) + 1 = k
      BY <1>1, <2>2, <3>1
    <3>3. w[k - 1] = l
      BY <1>1, <1>2, <3>2
    <3> QED BY <1>1, <3>2, <3>3
  <2> QED BY <2>1, <2>2
<1> QED BY <1>1, <1>2 DEF Ahead, w

\* Whoever stands no later has no greater place.
LEMMA AheadPlace ==
  ASSUME NEW q \in Seq(Lanes), NEW r \in Seq(Lanes), NEW l, Stands(q, l), OneEach(q), OneEach(r), Ahead(q, r, l)
  PROVE  Place(r, l) <= Place(q, l)
<1>1. PICK k \in 1..Len(q) : q[k] = l
  BY DEF Stands
<1>2. PICK j \in 1..Len(r) : j <= k /\ r[j] = l
  BY <1>1 DEF Ahead
<1>3. Place(q, l) = k
  <2>1. \A n \in DOMAIN q : q[n] = l <=> n = k
    BY <1>1 DEF OneEach
  <2> QED BY <1>1, <2>1 DEF Place
<1>4. Place(r, l) = j
  <2>1. \A n \in DOMAIN r : r[n] = l <=> n = j
    BY <1>2 DEF OneEach
  <2> QED BY <1>2, <2>1 DEF Place
<1> QED BY <1>2, <1>3, <1>4

\* Turns are dealt anew in one group, and nobody but m is later for it.
LEMMA AheadRedealt ==
  ASSUME NEW turn \in [Groups -> Seq(Lanes)], NEW m \in Lanes, NEW s \in Seq(Lanes), NEW l \in Lanes,
         Ahead(turn[Group(m)], s, l)
  PROVE  /\ Redealt(turn, m, s) \in [Groups -> Seq(Lanes)]
         /\ Ahead(turn[Group(l)], Redealt(turn, m, s)[Group(l)], l)
<1>1. Group(m) \in Groups /\ Group(l) \in Groups
  BY GroupOf
<1>2. CASE Group(l) = Group(m)
  BY <1>1, <1>2 DEF Redealt
<1>3. CASE Group(l) # Group(m)
  <2>1. Redealt(turn, m, s)[Group(l)] = turn[Group(l)] /\ turn[Group(l)] \in Seq(Lanes)
    BY <1>1, <1>3 DEF Redealt
  <2>2. Redealt(turn, m, s) \in [Groups -> Seq(Lanes)]
    BY <1>1 DEF Redealt
  <2> QED BY <2>1, <2>2, AheadSame
<1> QED BY <1>2, <1>3

\* A slot that enters a lane delays no other lane.
LEMMA EnteredAhead ==
  ASSUME NEW d, d.turn \in [Groups -> Seq(Lanes)], NEW m \in Lanes, NEW i, NEW l \in Lanes
  PROVE  LET e == Promise!Entered(d, m, i)
         IN e.turn \in [Groups -> Seq(Lanes)] /\ Ahead(d.turn[Group(l)], e.turn[Group(l)], l)
<1> DEFINE e == Promise!Entered(d, m, i)  s == Append(d.turn[Group(m)], m)
<1>1. e.turn = IF d.lane[m] = <<>> THEN Redealt(d.turn, m, s) ELSE d.turn
  BY DEF Promise!Entered, Redealt
<1>2. Group(m) \in Groups /\ Group(l) \in Groups
  BY GroupOf
<1>3. s \in Seq(Lanes) /\ Ahead(d.turn[Group(m)], s, l)
  BY <1>2, AheadAppend
<1> HIDE DEF e, s
<1>4. Redealt(d.turn, m, s) \in [Groups -> Seq(Lanes)] /\ Ahead(d.turn[Group(l)], Redealt(d.turn, m, s)[Group(l)], l)
  BY <1>3, AheadRedealt
<1>5. Ahead(d.turn[Group(l)], d.turn[Group(l)], l)
  BY <1>2, AheadSame
<1>6. e.turn \in [Groups -> Seq(Lanes)] /\ Ahead(d.turn[Group(l)], e.turn[Group(l)], l)
  BY <1>1, <1>4, <1>5
<1> QED BY <1>6 DEF e

\* A slot that departs or is served delays no other lane.
LEMMA DepartedAhead ==
  ASSUME NEW V, END \notin V, NEW u, NEW order, NEW turn, Table(u, V, order, turn),
         NEW m \in Lanes, order[m] # <<>>, NEW i, NEW l \in Lanes, l # m
  PROVE  LET d == Promise!Departed(Now(order, turn), m, i)
             e == Promise!Served(Now(order, turn), m)
         IN /\ d.turn \in [Groups -> Seq(Lanes)] /\ Ahead(turn[Group(l)], d.turn[Group(l)], l)
            /\ e.turn \in [Groups -> Seq(Lanes)] /\ Ahead(turn[Group(l)], e.turn[Group(l)], l)
<1> DEFINE q == turn[Group(m)]  r == Promise!RemoveFirst(q, m)  a == Append(r, m)
           d == Promise!Departed(Now(order, turn), m, i)
           e == Promise!Served(Now(order, turn), m)
<1>1. /\ turn \in [Groups -> Seq(Lanes)] /\ q \in Seq(Lanes) /\ OneEach(q) /\ Stands(q, m) /\ Group(l) \in Groups
  BY TableFacts, GroupOf
<1>2. PICK p \in 1..Len(q) : q[p] = m
  BY <1>1 DEF Stands
<1>3. r = Without(q, p)
  BY <1>1, <1>2, PromiseRemoves
<1>4. r \in Seq(Lanes) /\ Ahead(q, r, l)
  BY <1>1, <1>2, <1>3, AheadWithout
<1>5. a \in Seq(Lanes) /\ Ahead(r, a, l)
  BY <1>4, AheadAppend
<1> HIDE DEF r, a
<1>6. Ahead(q, a, l)
  BY <1>1, <1>4, <1>5, AheadOf
<1>7. /\ Redealt(turn, m, r) \in [Groups -> Seq(Lanes)] /\ Ahead(turn[Group(l)], Redealt(turn, m, r)[Group(l)], l)
      /\ Redealt(turn, m, a) \in [Groups -> Seq(Lanes)] /\ Ahead(turn[Group(l)], Redealt(turn, m, a)[Group(l)], l)
      /\ Ahead(turn[Group(l)], turn[Group(l)], l)
  BY <1>1, <1>4, <1>5, <1>6, AheadRedealt, AheadSame
<1>8. d.turn = Redealt(turn, m, r) \/ d.turn = turn
  BY DEF Promise!Departed, Now, Redealt, r
<1>9. e.turn \in {Redealt(turn, m, r), turn, Redealt(turn, m, a)}
  <2> DEFINE f == Promise!Departed(Now(order, turn), m, Head(order[m]))
  <2>1. f.lane[m] = <<>> => e.turn = f.turn
    BY DEF Promise!Served, Now
  <2>2. f.turn = (IF f.lane[m] = <<>> THEN Redealt(turn, m, r) ELSE turn)
    <3>1. order \in [Lanes -> Seq(V)]
      BY TableFacts
    <3> QED BY <3>1 DEF Promise!Departed, Now, Redealt, r
  <2>3. f.lane[m] # <<>> => e.turn = Redealt(turn, m, a)
    <3>1. f = [lane |-> f.lane, turn |-> f.turn]
      BY DEF Promise!Departed
    <3>2. f.lane[m] # <<>> => e = [f EXCEPT !.turn[Group(m)] = Append(Promise!RemoveFirst(@, m), m)]
      BY DEF Promise!Served, Now
    <3> HIDE DEF e, f
    <3> QED BY <2>2, <3>1, <3>2 DEF Redealt, a, r
  <2> HIDE DEF e, f
  <2> QED BY <2>1, <2>2, <2>3
<1> HIDE DEF d, e
<1>10. /\ d.turn \in [Groups -> Seq(Lanes)] /\ Ahead(turn[Group(l)], d.turn[Group(l)], l)
       /\ e.turn \in [Groups -> Seq(Lanes)] /\ Ahead(turn[Group(l)], e.turn[Group(l)], l)
  BY <1>1, <1>7, <1>8, <1>9
<1> QED BY <1>10 DEF d, e

\* Who departs shortens its lane; the lane that is left nonempty keeps its turn.
LEMMA DepartedLane ==
  ASSUME NEW V, END \notin V, NEW u, NEW order, NEW turn, Table(u, V, order, turn),
         NEW l \in Lanes, NEW p \in 1..Len(order[l])
  PROVE  LET d == Promise!Departed(Now(order, turn), l, order[l][p])
         IN /\ d.lane[l] = Without(order[l], p) /\ Len(d.lane[l]) = Len(order[l]) - 1
            /\ d.lane = Retold(order, l, Without(order[l], p))
            /\ Len(order[l]) > 1 => d.turn = turn
            /\ p = 1 => Promise!Served(Now(order, turn), l).lane = d.lane
<1> DEFINE d == Promise!Departed(Now(order, turn), l, order[l][p])
<1>1. /\ order \in [Lanes -> Seq(V)] /\ order[l] \in Seq(V) /\ OneEach(order[l])
  BY TableFacts
<1>2. Promise!RemoveFirst(order[l], order[l][p]) = Without(order[l], p)
  BY <1>1, PromiseRemoves
<1>3. Len(Without(order[l], p)) = Len(order[l]) - 1 /\ Without(order[l], p) \in Seq(V)
  BY <1>1, WithoutFacts
<1>4. /\ d.lane = Retold(order, l, Without(order[l], p))
      /\ Without(order[l], p) # <<>> => d.turn = turn
  BY <1>2 DEF Promise!Departed, Now, Retold
<1>5. d.lane[l] = Without(order[l], p)
  BY <1>1, <1>4 DEF Retold
<1>6. Len(order[l]) > 1 => Without(order[l], p) # <<>>
  BY <1>1, WithoutFacts
<1>7. p = 1 => Promise!Served(Now(order, turn), l).lane = d.lane
  <2> SUFFICES ASSUME p = 1 PROVE Promise!Served(Now(order, turn), l).lane = d.lane
    OBVIOUS
  <2>1. Head(order[l]) = order[l][p]
    BY <1>1
  <2>2. d = [lane |-> d.lane, turn |-> d.turn] /\ d = Promise!Departed(Now(order, turn), l, Head(order[l]))
    BY <2>1 DEF Promise!Departed
  <2> HIDE DEF d
  <2>3. Promise!Served(Now(order, turn), l)
          = IF d.lane[l] = <<>> THEN d ELSE [d EXCEPT !.turn[Group(l)] = Append(Promise!RemoveFirst(@, l), l)]
    BY <2>2 DEF Promise!Served, Now
  <2>4. CASE d.lane[l] = <<>>
    BY <2>3, <2>4
  <2>5. CASE d.lane[l] # <<>>
    BY <2>2, <2>3, <2>5
  <2> QED BY <2>4, <2>5
<1> HIDE DEF d
<1> QED BY <1>3, <1>4, <1>5, <1>6, <1>7 DEF d

\* Who enters a lane lengthens it, and a nonempty lane keeps its turn.
LEMMA EnteredLane ==
  ASSUME NEW d, d.lane \in [Lanes -> Seq(Slots)], NEW l \in Lanes, NEW i \in Slots
  PROVE  LET e == Promise!Entered(d, l, i)
         IN /\ e.lane[l] = Append(d.lane[l], i)
            /\ \A m \in Lanes : m # l => e.lane[m] = d.lane[m]
            /\ d.lane[l] # <<>> => e.turn = d.turn
BY DEF Promise!Entered

\* What a step of the promise leaves of the turn of a lane that looks the same.
LEMMA TurnKept ==
  ASSUME Kept(t, Slots, InLanes, InTurn), Promise!Next, NEW l \in Lanes,
         Len(InLanes[l]) > 1, InLanes'[l] = InLanes[l]
  PROVE  InTurn'[Group(l)] \in Seq(Lanes) /\ Ahead(InTurn[Group(l)], InTurn'[Group(l)], l)
<1> DEFINE s == InLanes[l]
<1>0. /\ Table(t, Slots, InLanes, InTurn) /\ END \notin Slots
      /\ InLanes \in [Lanes -> Seq(Slots)] /\ InTurn \in [Groups -> Seq(Lanes)]
      /\ s \in Seq(Slots) /\ OneEach(s) /\ s # <<>> /\ Len(s) \in Nat /\ Len(s) - 1 # Len(s)
      /\ Group(l) \in Groups /\ InTurn[Group(l)] \in Seq(Lanes)
      /\ Told.turn = InTurn /\ Told.lane = InLanes
  BY TableFacts, SlotsAreNodes DEF Kept, Told, Now
<1>1. Promise!now = Told /\ Told' = Promise!now'
  BY DEF Promise!now, Told, Now, InLanes, InTurn
<1>2. Told'.turn = InTurn' /\ Told'.lane = InLanes'
  BY DEF Told, Now
<1>3. ASSUME NEW m \in Lanes, NEW i, Promise!Enter(m, i)
      PROVE  InTurn'[Group(l)] \in Seq(Lanes) /\ Ahead(InTurn[Group(l)], InTurn'[Group(l)], l)
  <2>1. Told' = Promise!Entered(Told, m, i)
    BY <1>1, <1>3 DEF Promise!Enter
  <2>2. PICK e : e = Promise!Entered(Told, m, i)
    OBVIOUS
  <2>3. e.turn \in [Groups -> Seq(Lanes)] /\ Ahead(InTurn[Group(l)], e.turn[Group(l)], l)
    BY <1>0, <2>2, EnteredAhead
  <2>4. InTurn' = e.turn
    BY <1>2, <2>1, <2>2
  <2> QED BY <1>0, <2>3, <2>4
<1>4. ASSUME NEW m \in Lanes, NEW i \in Promise!ToSet(InLanes[m])
      PROVE  InLanes[m] \in Seq(Slots) /\ i \in Slots /\ \E p \in 1..Len(InLanes[m]) : InLanes[m][p] = i
  <2>1. InLanes[m] \in Seq(Slots)
    BY <1>0
  <2>2. Stands(InLanes[m], i)
    BY <2>1, StandsInSet
  <2> QED BY <2>1, <2>2 DEF Stands
<1>5. ASSUME NEW m \in Lanes, NEW i \in Promise!ToSet(InLanes[m]), Promise!Leave(m, i)
      PROVE  InTurn'[Group(l)] \in Seq(Lanes) /\ Ahead(InTurn[Group(l)], InTurn'[Group(l)], l)
  <2>1. Told' = Promise!Departed(Told, m, i)
    BY <1>1, <1>5 DEF Promise!Leave
  <2>2. PICK p \in 1..Len(InLanes[m]) : InLanes[m][p] = i
    BY <1>4
  <2>3. m # l
    BY <1>0, <1>2, <2>1, <2>2, DepartedLane DEF Told
  <2>4. InLanes[m] # <<>>
    BY <1>4, <2>2
  <2> QED BY <1>0, <1>2, <2>1, <2>3, <2>4, DepartedAhead DEF Told
<1>6. ASSUME NEW m \in Lanes, NEW n \in Lanes, NEW i \in Promise!ToSet(InLanes[m]), Promise!Transfer(m, n, i)
      PROVE  InTurn'[Group(l)] \in Seq(Lanes) /\ Ahead(InTurn[Group(l)], InTurn'[Group(l)], l)
  <2>1. PICK d : d = Promise!Departed(Told, m, i)
    OBVIOUS
  <2>2. Told' = Promise!Entered(d, n, i)
    BY <1>1, <1>6, <2>1 DEF Promise!Transfer
  <2>3. PICK p \in 1..Len(InLanes[m]) : InLanes[m][p] = i
    BY <1>4
  <2>4. i \in Slots /\ InLanes[m] # <<>>
    BY <1>4, <2>3
  <2>5. /\ d.lane[m] = Without(InLanes[m], p) /\ Len(d.lane[m]) = Len(InLanes[m]) - 1
        /\ d.lane = Retold(InLanes, m, Without(InLanes[m], p))
        /\ Len(InLanes[m]) > 1 => d.turn = InTurn
    <3>1. d = Promise!Departed(Now(InLanes, InTurn), m, InLanes[m][p])
      BY <2>1, <2>3 DEF Told
    <3>2. LET f == Promise!Departed(Now(InLanes, InTurn), m, InLanes[m][p])
          IN /\ f.lane[m] = Without(InLanes[m], p) /\ Len(f.lane[m]) = Len(InLanes[m]) - 1
             /\ f.lane = Retold(InLanes, m, Without(InLanes[m], p))
             /\ Len(InLanes[m]) > 1 => f.turn = InTurn
             /\ p = 1 => Promise!Served(Now(InLanes, InTurn), m).lane = f.lane
      BY <1>0, DepartedLane
    <3> QED BY <3>1, <3>2
  <2>6. d.lane \in [Lanes -> Seq(Slots)]
    <3>3. Without(InLanes[m], p) \in Seq(Slots)
      BY <1>0, <2>3, WithoutFacts, TableFacts
    <3> QED BY <1>0, <2>5, <3>3 DEF Retold
  <2>7. PICK e : e = Promise!Entered(d, n, i)
    OBVIOUS
  <2>8. /\ e.lane[n] = Append(d.lane[n], i)
        /\ \A k \in Lanes : k # n => e.lane[k] = d.lane[k]
        /\ d.lane[n] # <<>> => e.turn = d.turn
    BY <2>4, <2>6, <2>7, EnteredLane
  <2>9. InLanes' = e.lane /\ InTurn' = e.turn
    BY <1>2, <2>2, <2>7
  <2>10. CASE m = l
    <3>1. n = l
      BY <1>0, <2>5, <2>8, <2>9, <2>10
    <3>2. d.lane[l] # <<>> /\ d.turn = InTurn
      BY <1>0, <2>5, <2>10
    <3>3. InTurn' = InTurn
      BY <2>8, <2>9, <3>1, <3>2
    <3> QED BY <1>0, <3>3, AheadSame
  <2>11. CASE m # l
    <3>1. d.turn \in [Groups -> Seq(Lanes)] /\ Ahead(InTurn[Group(l)], d.turn[Group(l)], l)
      BY <1>0, <2>1, <2>4, <2>11, DepartedAhead DEF Told
    <3>2. e.turn \in [Groups -> Seq(Lanes)] /\ Ahead(d.turn[Group(l)], e.turn[Group(l)], l)
      BY <2>7, <3>1, EnteredAhead
    <3>3. d.turn[Group(l)] \in Seq(Lanes) /\ e.turn[Group(l)] \in Seq(Lanes)
      BY <1>0, <3>1, <3>2
    <3> QED BY <1>0, <2>9, <3>1, <3>2, <3>3, AheadOf
  <2> QED BY <2>10, <2>11
<1>7. ASSUME NEW m \in Lanes, Promise!Serve(m)
      PROVE  InTurn'[Group(l)] \in Seq(Lanes) /\ Ahead(InTurn[Group(l)], InTurn'[Group(l)], l)
  <2>1. Told' = Promise!Served(Told, m) /\ InLanes[m] # <<>>
    BY <1>1, <1>7 DEF Promise!Serve, InLanes
  <2>2. InLanes[m] \in Seq(Slots) /\ 1 \in 1..Len(InLanes[m])
    BY <1>0, <2>1
  <2>3. m # l
    BY <1>0, <1>2, <2>1, <2>2, DepartedLane DEF Told
  <2>4. PICK e : e = Promise!Served(Told, m)
    OBVIOUS
  <2>5. e.turn \in [Groups -> Seq(Lanes)] /\ Ahead(InTurn[Group(l)], e.turn[Group(l)], l)
    BY <1>0, <2>1, <2>3, <2>4, DepartedAhead DEF Told
  <2>6. InTurn' = e.turn
    BY <1>2, <2>1, <2>4
  <2> QED BY <1>0, <2>5, <2>6
<1>8. ASSUME NEW m \in Lanes, Promise!Rotate(m)
      PROVE  InTurn'[Group(l)] \in Seq(Lanes) /\ Ahead(InTurn[Group(l)], InTurn'[Group(l)], l)
  <2>1. PICK i : i = Head(InLanes[m])
    OBVIOUS
  <2>2. PICK d : d = Promise!Served(Told, m)
    OBVIOUS
  <2>3. PICK e : e = Promise!Entered(d, m, i)
    OBVIOUS
  <2>4. Told' = e /\ InLanes[m] # <<>>
    BY <1>1, <1>8, <2>1, <2>2, <2>3 DEF Promise!Rotate, InLanes
  <2>5. InLanes[m] \in Seq(Slots) /\ 1 \in 1..Len(InLanes[m]) /\ i = InLanes[m][1] /\ i \in Slots
    BY <1>0, <2>1, <2>4
  <2>6. /\ d.lane[m] = Without(InLanes[m], 1) /\ Len(d.lane[m]) = Len(InLanes[m]) - 1
    BY <1>0, <2>2, <2>5, DepartedLane DEF Told
  <2>7. m # l
    <3> SUFFICES ASSUME m = l PROVE FALSE
      OBVIOUS
    <3>1. InLanes'[l] = Append(Without(s, 1), s[1])
      <4>1. e.lane[m] = Append(d.lane[m], i)
        <5>1. d.lane = [Told.lane EXCEPT ![m] = Promise!RemoveFirst(Told.lane[m], i)]
          <6>1. d.lane = Promise!Departed(Told, m, i).lane
            BY <1>0, <2>2, <2>5, DepartedLane DEF Told
          <6> QED BY <6>1 DEF Promise!Departed
        <5> QED BY <1>0, <2>3, <5>1 DEF Promise!Entered
      <4> QED BY <1>2, <2>4, <2>5, <2>6, <4>1
    <3>2. /\ Without(s, 1) \in Seq(Slots) /\ Len(Without(s, 1)) = Len(s) - 1
          /\ Without(s, 1)[1] = s[2] /\ 2 \in 1..Len(s) /\ 1 \in 1..Len(s) /\ 1 \in 1..(Len(s) - 1)
      <4>1. 1 \in 1..Len(s) /\ 2 \in 1..Len(s) /\ 1 \in 1..(Len(s) - 1)
        BY <1>0
      <4>2. /\ Without(s, 1) \in Seq(Slots) /\ Len(Without(s, 1)) = Len(s) - 1
            /\ \A k \in 1..(Len(s) - 1) : Without(s, 1)[k] = IF k < 1 THEN s[k] ELSE s[k + 1]
        BY <1>0, <4>1, WithoutFacts
      <4> QED BY <4>1, <4>2
    <3>3. Append(Without(s, 1), s[1])[1] = s[2]
      BY <1>0, <3>2
    <3>4. s[1] = s[2]
      BY <3>1, <3>3
    <3> QED BY <1>0, <3>2, <3>4 DEF OneEach
  <2>8. d.turn \in [Groups -> Seq(Lanes)] /\ Ahead(InTurn[Group(l)], d.turn[Group(l)], l)
    BY <1>0, <2>2, <2>4, <2>7, DepartedAhead DEF Told
  <2>9. e.turn \in [Groups -> Seq(Lanes)] /\ Ahead(d.turn[Group(l)], e.turn[Group(l)], l)
    BY <2>3, <2>8, EnteredAhead
  <2>10. d.turn[Group(l)] \in Seq(Lanes) /\ e.turn[Group(l)] \in Seq(Lanes)
    BY <1>0, <2>8, <2>9
  <2> QED BY <1>0, <1>2, <2>4, <2>8, <2>9, <2>10, AheadOf
<1>9. \A m : LaneOrder(t)[m] = InLanes[m]
  BY DEF InLanes
<1> QED BY <1>3, <1>5, <1>6, <1>7, <1>8, <1>9 DEF Promise!Next

\* A lane that nobody touches never moves back in its turn.
THEOREM RoundsTurns == Spec => WaitersKeepTheirTurn
<1> DEFINE Waiter(l) == Len(LaneOrder(t)[l]) > 1 /\ LaneOrder(t)'[l] = LaneOrder(t)[l] =>
                          Place(TurnOrder(t)[Group(l)]', l) <= Place(TurnOrder(t)[Group(l)], l)
<1>1. ASSUME RoundsInv, RoundsInv', [Next]_vars, NEW l \in Lanes PROVE Waiter(l)
  <2> SUFFICES ASSUME Len(InLanes[l]) > 1, InLanes'[l] = InLanes[l]
               PROVE  Place(InTurn'[Group(l)], l) <= Place(InTurn[Group(l)], l)
    BY DEF InLanes, InTurn
  <2>1. /\ Kept(t, Slots, InLanes, InTurn) /\ Table(t, Slots, InLanes, InTurn) /\ END \notin Slots
    BY <1>1, SlotsAreNodes DEF RoundsInv, Kept
  <2>2. InTurn[Group(l)] \in Seq(Lanes) /\ OneEach(InTurn[Group(l)]) /\ Stands(InTurn[Group(l)], l)
    <3>1. InLanes[l] # <<>>
      <4>1. InLanes[l] \in Seq(Slots)
        BY <2>1, TableFacts
      <4> QED BY <4>1
    <3> QED BY <2>1, <3>1, TableFacts
  <2>3. InTurn'[Group(l)] \in Seq(Lanes) /\ OneEach(InTurn'[Group(l)])
    <3>1. PICK w : w = t'
      OBVIOUS
    <3>2. PICK o : o = InLanes'
      OBVIOUS
    <3>3. PICK r : r = InTurn'
      OBVIOUS
    <3>4. Table(w, Slots, o, r)
      BY <1>1, <3>1, <3>2, <3>3 DEF RoundsInv, Kept
    <3> QED BY <2>1, <3>3, <3>4, TableFacts
  <2>4. Ahead(InTurn[Group(l)], InTurn'[Group(l)], l)
    <3>1. Kepts
      BY <1>1, RoundsStep, RoundsStutter
    <3>2. CASE Promise!Next
      BY <2>1, <3>2, TurnKept
    <3>3. CASE UNCHANGED <<InLanes, InTurn>>
      BY <2>2, <3>3, AheadSame
    <3> QED BY <3>1, <3>2, <3>3 DEF Kepts
  <2> QED BY <2>2, <2>3, <2>4, AheadPlace
<1>2. RoundsInv /\ RoundsInv' /\ [Next]_vars => \A l \in Lanes : Waiter(l)
  BY <1>1
<1>3. RoundsInv /\ RoundsInv' /\ [Next]_vars => [\A l \in Lanes : Waiter(l)]_vars
  BY <1>2
<1> QED BY <1>3, RoundsInvariant, PTL DEF Spec, WaitersKeepTheirTurn

\* The hooks outside the lanes may be written at will, as long as they stay vacant.
LEMMA KeptRewritten ==
  ASSUME NEW V, END \notin V, NEW u, NEW order, NEW turn, Table(u, V, order, turn),
         NEW g \in Plane(V), NEW w, w = [u EXCEPT !.hook = g],
         \A j \in V : Waits(order, j) => g.previous[j] = u.hook.previous[j] /\ g.next[j] = u.hook.next[j],
         \A j \in V : ~ Waits(order, j) => g.previous[j] = j
  PROVE  Kept(w, V, order, turn) /\ w.hook = g /\ w.chain = u.chain
<1>1. IsTable(u)
  BY DEF Table, Chained
<1>2. /\ w.hook = g /\ w.chain = u.chain /\ w.track = u.track /\ w.ring = u.ring /\ IsTable(w)
  BY <1>1 DEF IsTable
<1>3. ASSUME NEW l \in Lanes PROVE Spells(w.hook, w.chain[l], order[l], V)
  <2>1. Spells(u.hook, u.chain[l], order[l], V)
    BY DEF Table, Chained
  <2>2. \A j \in V : Stands(order[l], j) => g.previous[j] = u.hook.previous[j] /\ g.next[j] = u.hook.next[j]
    BY DEF Waits
  <2> QED BY <1>2, <2>1, <2>2, SpellsFrame
<1>4. Chained(w, V, order)
  BY <1>2, <1>3 DEF Table, Chained
<1>5. Turned(w, turn, Busy(order))
  BY <1>2, TurnedFrame DEF Table
<1>6. Kept(w, V, order, turn)
  BY <1>2, <1>4, <1>5 DEF Kept, Table
<1> QED BY <1>2, <1>6

-----------------------------------------------------------------------------
(* Waiting rooms: what a step does to the words.                           *)

\* Outside M nobody enters or leaves a lane, and who waits in none keeps next.
SameElsewhere(u, w, order, o, M) ==
  \A j \in Slots \ M : /\ Waits(o, j) <=> Waits(order, j)
                       /\ ~ Waits(order, j) => w.hook.next[j] = u.hook.next[j]

\* A parked hook stands in no lane and names itself.
LEMMA ParkedIs ==
  ASSUME NEW u, NEW order, NEW turn, Kept(u, Slots, order, turn), NEW i \in Slots
  PROVE  IsParked(u.hook, i) <=> ~ Waits(order, i) /\ u.hook.next[i] = i
BY KeptLinked, SlotsAreNodes DEF IsParked, IsLinked

\* The hook of slot i written anew: i is in no lane, n in its next word.
Rewritten(u, i, n) == [u EXCEPT !.hook = SetHook(u.hook, i, i, n)]

\* Slot i left the lanes of u, if it was in one, and its hook was written anew.
LEMMA HookWritten ==
  ASSUME NEW u, Kept(u, Slots, InLanes, InTurn), NEW x, NEW e, e = Now(e.lane, e.turn),
         Table(x, Slots, e.lane, e.turn), NEW i \in Slots, NEW n \in Slots \cup {END},
         Spared(u, x, Slots, InLanes, i), Gone(InLanes, e.lane, i),
         t' = Rewritten(x, i, n)
  PROVE  /\ Kept(t, Slots, InLanes, InTurn)' /\ Told' = e /\ InLanes' = e.lane
         /\ t'.hook.next[i] = n /\ ~ Waits(InLanes', i)
         /\ SameElsewhere(u, t', InLanes, InLanes', {i})
<1>0. END \notin Slots
  BY SlotsAreNodes
<1>1. PICK h \in Plane(Slots) : h = x.hook
  BY DEF Table, Chained
<1>2. PICK g : g = SetHook(h, i, i, n)
  OBVIOUS
<1>3. /\ g \in Plane(Slots) /\ g.previous[i] = i /\ g.next[i] = n
      /\ \A j \in Slots : j # i => g.previous[j] = x.hook.previous[j] /\ g.next[j] = x.hook.next[j]
  <2>1. /\ g \in Plane(Slots) /\ g.previous[i] = i /\ g.next[i] = n
        /\ \A j \in Slots : j # i => g.previous[j] = h.previous[j] /\ g.next[j] = h.next[j]
    BY <1>0, <1>2 DEF SetHook, Plane
  <2> QED BY <1>1, <2>1
<1>4. \A j : Waits(e.lane, j) <=> Waits(InLanes, j) /\ j # i
  BY WhoWaits
<1>5. \A j \in Slots : ~ Waits(InLanes, j) /\ j # i =>
        x.hook.previous[j] = j /\ x.hook.next[j] = u.hook.next[j]
  BY DEF Kept, Spared
<1>6. Kept(t', Slots, e.lane, e.turn) /\ t'.hook = g
  <2>1. \A j \in Slots : Waits(e.lane, j) => g.previous[j] = x.hook.previous[j] /\ g.next[j] = x.hook.next[j]
    BY <1>3, <1>4
  <2>2. \A j \in Slots : ~ Waits(e.lane, j) => g.previous[j] = j
    BY <1>3, <1>4, <1>5
  <2>3. PICK o, p : o = e.lane /\ p = e.turn
    OBVIOUS
  <2>4. t' = [x EXCEPT !.hook = g] /\ Table(x, Slots, o, p)
    BY <1>1, <1>2, <2>3 DEF Rewritten
  <2>7. PICK w : w = t'
    OBVIOUS
  <2>5. /\ \A j \in Slots : Waits(o, j) => g.previous[j] = x.hook.previous[j] /\ g.next[j] = x.hook.next[j]
        /\ \A j \in Slots : ~ Waits(o, j) => g.previous[j] = j
    BY <2>1, <2>2, <2>3
  <2>6. Kept(w, Slots, o, p) /\ w.hook = g
    BY <1>0, <1>3, <2>4, <2>5, <2>7, KeptRewritten
  <2> QED BY <2>3, <2>6, <2>7
<1>7. Told' = e /\ InLanes' = e.lane /\ Kept(t, Slots, InLanes, InTurn)'
  BY <1>6, ToldIs
<1>8. SameElsewhere(u, t', InLanes, InLanes', {i})
  BY <1>3, <1>4, <1>5, <1>6, <1>7 DEF SameElsewhere
<1> QED BY <1>3, <1>4, <1>6, <1>7, <1>8

\* The front of a lane leaves it, and its hook is written anew.
LEMMA FrontWritten ==
  ASSUME Kept(t, Slots, InLanes, InTurn), NEW u, Kept(u, Slots, InLanes, InTurn),
         NEW l \in Lanes, Front(u, l) # END, NEW rotate \in BOOLEAN, NEW n \in Slots \cup {END},
         NEW x, x = FrontRemoved(u, l, rotate),
         t' = Rewritten(x, Front(u, l), n)
  PROVE  /\ Kept(t, Slots, InLanes, InTurn)' /\ Promise!Next
         /\ Front(u, l) \in Slots /\ Stands(InLanes[l], Front(u, l))
         /\ Gone(InLanes, InLanes', Front(u, l))
         /\ t'.hook.next[Front(u, l)] = n
         /\ SameElsewhere(u, t', InLanes, InLanes', {Front(u, l)})
<1>0. Table(u, Slots, InLanes, InTurn) /\ END \notin Slots
  BY SlotsAreNodes DEF Kept
<1>1. InLanes[l] # <<>>
  BY <1>0, TableFacts DEF Front
<1>2. PICK i : i = InLanes[l][1]
  OBVIOUS
<1>3. PICK e : e = IF rotate THEN Promise!Served(Told, l) ELSE Promise!Departed(Told, l, i)
  OBVIOUS
<1>4. /\ Table(x, Slots, e.lane, e.turn) /\ Spared(u, x, Slots, InLanes, i) /\ Gone(InLanes, e.lane, i)
      /\ i \in Slots /\ Stands(InLanes[l], i) /\ u.chain[l].first = i
  BY <1>0, <1>1, <1>2, <1>3, KeptPopped DEF Told
<1>5. Front(u, l) = i
  BY <1>4 DEF Front
<1>6. e = Now(e.lane, e.turn)
  BY <1>3 DEF Promise!Departed, Promise!Served, Now
<1>7. /\ Kept(t, Slots, InLanes, InTurn)' /\ Told' = e /\ InLanes' = e.lane
      /\ t'.hook.next[i] = n /\ SameElsewhere(u, t', InLanes, InLanes', {i})
  BY <1>4, <1>5, <1>6, HookWritten
<1>8. Promise!Next
  BY <1>1, <1>3, <1>4, <1>7, StepServe, StepLeave
<1> QED BY <1>4, <1>5, <1>7, <1>8

\* A slot leaves the lane it waits in, and its hook is written anew.
LEMMA SlotWritten ==
  ASSUME Kept(t, Slots, InLanes, InTurn), NEW l \in Lanes, NEW i, Stands(InLanes[l], i),
         NEW n \in Slots \cup {END}, NEW x, x = Removed(t, l, i),
         t' = Rewritten(x, i, n)
  PROVE  /\ Kept(t, Slots, InLanes, InTurn)' /\ Promise!Next
         /\ i \in Slots /\ Gone(InLanes, InLanes', i)
         /\ t'.hook.next[i] = n /\ ~ Waits(InLanes', i)
         /\ SameElsewhere(t, t', InLanes, InLanes', {i})
<1>0. END \notin Slots /\ i \in Slots
  BY SlotsAreNodes, IsInside DEF Kept, Table, Chained
<1>1. PICK e : e = Promise!Departed(Told, l, i)
  OBVIOUS
<1>2. Table(x, Slots, e.lane, e.turn) /\ Spared(t, x, Slots, InLanes, i) /\ Gone(InLanes, e.lane, i)
  BY <1>0, <1>1, KeptCleared DEF Told
<1>3. e = Now(e.lane, e.turn)
  BY <1>1 DEF Promise!Departed, Now
<1>4. /\ Kept(t, Slots, InLanes, InTurn)' /\ Told' = e /\ InLanes' = e.lane
      /\ t'.hook.next[i] = n /\ ~ Waits(InLanes', i) /\ SameElsewhere(t, t', InLanes, InLanes', {i})
  BY <1>0, <1>2, <1>3, HookWritten
<1>5. Promise!Next
  BY <1>1, <1>4, StepLeave
<1> QED BY <1>0, <1>2, <1>4, <1>5

\* The hook of a slot that waits in no lane is written anew.
LEMMA SpareWritten ==
  ASSUME Kept(t, Slots, InLanes, InTurn), NEW i \in Slots, ~ Waits(InLanes, i),
         NEW n \in Slots \cup {END}, NEW u, u = Rewritten(t, i, n)
  PROVE  /\ Kept(u, Slots, InLanes, InTurn) /\ u.chain = t.chain
         /\ u.hook.next[i] = n
         /\ SameElsewhere(t, u, InLanes, InLanes, {i})
<1>0. END \notin Slots /\ Table(t, Slots, InLanes, InTurn)
  BY SlotsAreNodes DEF Kept
<1>1. PICK h \in Plane(Slots) : h = t.hook
  BY <1>0 DEF Table, Chained
<1>2. PICK g : g = SetHook(h, i, i, n)
  OBVIOUS
<1>3. /\ g \in Plane(Slots) /\ g.previous[i] = i /\ g.next[i] = n
      /\ \A j \in Slots : j # i => g.previous[j] = t.hook.previous[j] /\ g.next[j] = t.hook.next[j]
  <2>1. /\ g \in Plane(Slots) /\ g.previous[i] = i /\ g.next[i] = n
        /\ \A j \in Slots : j # i => g.previous[j] = h.previous[j] /\ g.next[j] = h.next[j]
    BY <1>0, <1>2 DEF SetHook, Plane
  <2> QED BY <1>1, <2>1
<1>4. \A j \in Slots : ~ Waits(InLanes, j) => g.previous[j] = j
  BY <1>3 DEF Kept
<1>5. \A j \in Slots : Waits(InLanes, j) => g.previous[j] = t.hook.previous[j] /\ g.next[j] = t.hook.next[j]
  BY <1>3
<1>6. Kept(u, Slots, InLanes, InTurn) /\ u.hook = g /\ u.chain = t.chain
  <2>1. u = [t EXCEPT !.hook = g]
    BY <1>1, <1>2 DEF Rewritten
  <2> QED BY <1>0, <1>3, <1>4, <1>5, <2>1, KeptRewritten
<1> QED BY <1>3, <1>6 DEF SameElsewhere

\* The same as a step: no order changes.
LEMMA SpareStep ==
  ASSUME Kept(t, Slots, InLanes, InTurn), NEW i \in Slots, ~ Waits(InLanes, i),
         NEW n \in Slots \cup {END}, t' = Rewritten(t, i, n)
  PROVE  /\ Kept(t, Slots, InLanes, InTurn)' /\ InLanes' = InLanes /\ InTurn' = InTurn
         /\ t'.hook.next[i] = n
         /\ SameElsewhere(t, t', InLanes, InLanes', {i})
<1>1. /\ Kept(t', Slots, InLanes, InTurn) /\ t'.hook.next[i] = n
      /\ SameElsewhere(t, t', InLanes, InLanes, {i})
  BY SpareWritten
<1>2. PICK e : e = Told
  OBVIOUS
<1>3. e = Now(e.lane, e.turn) /\ e.lane = InLanes /\ e.turn = InTurn
  BY <1>2 DEF Told, Now
<1>4. InLanes' = InLanes /\ InTurn' = InTurn /\ Kept(t, Slots, InLanes, InTurn)'
  BY <1>1, <1>3, ToldIs
<1> QED BY <1>1, <1>4

\* A slot that waits in no lane of u comes to the tail of one.
LEMMA SlotEnters ==
  ASSUME Kept(t, Slots, InLanes, InTurn), NEW u, Table(u, Slots, InLanes, InTurn),
         NEW l \in Lanes, NEW i \in Slots, ~ Waits(InLanes, i),
         \A j \in Slots : ~ Waits(InLanes, j) => u.hook.previous[j] = j,
         t' = Inserted(u, l, i)
  PROVE  /\ Kept(t, Slots, InLanes, InTurn)' /\ Promise!Next
         /\ Come(InLanes, InLanes', l, i)
         /\ SameElsewhere(u, t', InLanes, InLanes', {i})
<1>0. END \notin Slots
  BY SlotsAreNodes
<1>1. PICK e : e = Promise!Entered(Told, l, i)
  OBVIOUS
<1>2. /\ Kept(t', Slots, e.lane, e.turn) /\ Come(InLanes, e.lane, l, i)
      /\ \A j \in Slots : ~ Waits(e.lane, j) => t'.hook.next[j] = u.hook.next[j]
  BY <1>0, <1>1, KeptInserted DEF Told
<1>3. e = Now(e.lane, e.turn)
  BY <1>1 DEF Promise!Entered, Now
<1>4. Told' = e /\ InLanes' = e.lane /\ Kept(t, Slots, InLanes, InTurn)'
  BY <1>2, <1>3, ToldIs
<1>5. Promise!Next
  BY <1>1, <1>4, StepEnter
<1>6. SameElsewhere(u, t', InLanes, InLanes', {i})
  BY <1>2, <1>4, WhoWaits DEF SameElsewhere
<1> QED BY <1>2, <1>4, <1>5, <1>6

\* Slot i stands in lane l, whatever it stood in before, and nobody else moved.
Shifted(order, o, l, i) ==
  \A k \in Lanes : \A j : Stands(o[k], j) <=> (k = l /\ j = i) \/ (j # i /\ Stands(order[k], j))

\* A slot that waits goes to the tail of another lane.
LEMMA SlotMoves ==
  ASSUME Kept(t, Slots, InLanes, InTurn), NEW l \in Lanes, NEW m \in Lanes,
         NEW i, Stands(InLanes[l], i), t' = Inserted(Removed(t, l, i), m, i)
  PROVE  /\ Kept(t, Slots, InLanes, InTurn)' /\ Promise!Next /\ i \in Slots
         /\ Shifted(InLanes, InLanes', m, i)
         /\ SameElsewhere(t, t', InLanes, InLanes', {i})
<1>0. END \notin Slots /\ i \in Slots
  BY SlotsAreNodes, IsInside DEF Kept, Table, Chained
<1>1. PICK d : d = Promise!Departed(Told, l, i)
  OBVIOUS
<1>2. PICK e : e = Promise!Entered(d, m, i)
  OBVIOUS
<1>3. /\ Kept(t', Slots, e.lane, e.turn) /\ Gone(InLanes, d.lane, i) /\ Come(d.lane, e.lane, m, i)
      /\ \A j \in Slots : ~ Waits(e.lane, j) => t'.hook.next[j] = t.hook.next[j]
  BY <1>0, <1>1, <1>2, KeptMoved DEF Told
<1>4. e = Now(e.lane, e.turn)
  BY <1>2 DEF Promise!Entered, Now
<1>5. Told' = e /\ InLanes' = e.lane /\ Kept(t, Slots, InLanes, InTurn)'
  BY <1>3, <1>4, ToldIs
<1>6. Promise!Next
  BY <1>1, <1>2, <1>5, StepTransfer
<1>7. SameElsewhere(t, t', InLanes, InLanes', {i})
  BY <1>3, <1>5, WhoWaits DEF SameElsewhere
<1> QED BY <1>0, <1>3, <1>5, <1>6, <1>7 DEF Gone, Come, Shifted

-----------------------------------------------------------------------------
(* Waiting rooms: the invariant.                                           *)

FreeOrder == Walk(t.hook, free)
Parking == {i \in Held : ParkedAt(i)}
Lease(i, l) == [slot |-> i, lane |-> l]

RoomTyped ==
  /\ kind \in Kinds
  /\ payload \in [Slots -> Regs \cup Grants \cup {None}]
  /\ reg \in [Regs -> [slot : Slots, lane : Lanes] \cup {None}]
  /\ draining \in BOOLEAN
  /\ held \subseteq Grants

\* The free list holds every slot of no registration, each once.
Vacancies ==
  /\ Stacked(t.hook, free, FreeOrder, Slots)
  /\ \A i : Stands(FreeOrder, i) <=> i \in Slots \ Held

OneLease == \A r, q \in Regs : Active(r) /\ Active(q) /\ reg[r].slot = reg[q].slot => r = q

\* Who waits does so for the registration that has its slot and names its lane.
Waiters ==
  \A l \in Lanes : \A i : Stands(InLanes[l], i) =>
     \E r \in Regs : reg[r] = Lease(i, l) /\ payload[i] = r

\* The grants nobody holds are parked, one in each parked slot; a fifo's leases
\* hold none.
GrantsParked ==
  /\ kind = "fifo" => held = Grants
  /\ \A i \in Parking : payload[i] \in Grants \ held
  /\ \A i, j \in Parking : payload[i] = payload[j] => i = j
  /\ \A g \in Grants \ held : \E i \in Parking : payload[i] = g

RoomInv ==
  /\ RoomTyped
  /\ Kept(t, Slots, InLanes, InTurn)
  /\ Vacancies
  /\ OneLease
  /\ Waiters
  /\ GrantsParked

\* What a registration's lease names.
LEMMA Leased ==
  ASSUME RoomInv, NEW r \in Regs, Active(r)
  PROVE  /\ reg[r].slot \in Slots /\ reg[r].lane \in Lanes
         /\ reg[r] = Lease(reg[r].slot, reg[r].lane)
         /\ reg[r].slot \in Held
         /\ ~ Stands(FreeOrder, reg[r].slot)
<1>1. reg[r] \in [slot : Slots, lane : Lanes]
  BY DEF RoomInv, RoomTyped, Active
<1>2. reg[r].slot \in Held
  BY DEF Held
<1> QED BY <1>1, <1>2 DEF RoomInv, Vacancies, Lease

\* A lease is not the absence of one.
LEMMA LeaseIsNo ==
  ASSUME NEW i \in Slots, NEW l \in Lanes
  PROVE  Lease(i, l) # None /\ Lease(i, l) \in [slot : Slots, lane : Lanes]
         /\ Lease(i, l).slot = i /\ Lease(i, l).lane = l
BY Distinct DEF Lease

\* Linked and parked, said of the lanes.
LEMMA RoomLinked ==
  ASSUME RoomInv, NEW i \in Slots
  PROVE  /\ Linked(i) <=> Waits(InLanes, i)
         /\ ParkedAt(i) <=> ~ Waits(InLanes, i) /\ t.hook.next[i] = i
BY KeptLinked, ParkedIs, SlotsAreNodes DEF RoomInv, Linked, ParkedAt

\* Who waits has a registration, whose value its slot holds.
LEMMA WaiterHas ==
  ASSUME RoomInv, NEW l \in Lanes, NEW i, Stands(InLanes[l], i)
  PROVE  /\ i \in Slots /\ i \in Held /\ i \notin Parking /\ Waits(InLanes, i)
         /\ \E r \in Regs : Active(r) /\ reg[r] = Lease(i, l) /\ payload[i] = r
<1>1. i \in Slots
  BY IsInside DEF RoomInv, Kept, Table, Chained
<1>2. PICK r \in Regs : reg[r] = Lease(i, l) /\ payload[i] = r
  BY DEF RoomInv, Waiters
<1>3. Active(r) /\ reg[r].slot = i
  BY <1>1, <1>2, LeaseIsNo DEF Active
<1>4. i \in Held /\ Waits(InLanes, i)
  BY <1>3 DEF Held, Waits
<1>5. i \notin Parking
  BY <1>1, <1>4, RoomLinked DEF Parking
<1> QED BY <1>1, <1>2, <1>3, <1>4, <1>5

\* The slot of a registration waits in its lane or in none.
LEMMA WaitsWhere ==
  ASSUME RoomInv, NEW r \in Regs, Active(r)
  PROVE  /\ Waits(InLanes, reg[r].slot) <=> Stands(InLanes[reg[r].lane], reg[r].slot)
         /\ Waits(InLanes, reg[r].slot) => payload[reg[r].slot] = r
<1>1. reg[r].lane \in Lanes
  BY Leased
<1>2. ASSUME NEW l \in Lanes, Stands(InLanes[l], reg[r].slot)
      PROVE  l = reg[r].lane /\ payload[reg[r].slot] = r
  <2>1. PICK q \in Regs : Active(q) /\ reg[q] = Lease(reg[r].slot, l) /\ payload[reg[r].slot] = q
    BY <1>2, WaiterHas
  <2>2. reg[q].slot = reg[r].slot /\ reg[q].lane = l
    BY <2>1 DEF Lease
  <2>3. q = r
    BY <2>1, <2>2 DEF RoomInv, OneLease
  <2> QED BY <2>1, <2>2, <2>3
<1> QED BY <1>1, <1>2 DEF Waits

\* A slot of no registration is free, in no lane and not parked.
LEMMA Unleased ==
  ASSUME RoomInv, NEW i \in Slots, i \notin Held
  PROVE  ~ Waits(InLanes, i) /\ Stands(FreeOrder, i) /\ i \notin Parking
<1>1. ~ Waits(InLanes, i)
  BY WaiterHas DEF Waits
<1> QED BY <1>1 DEF RoomInv, Vacancies, Parking

-----------------------------------------------------------------------------
(* What follows a step, part by part.                                      *)

\* Outside M a slot is parked as before.
LEMMA ParkedAfter ==
  ASSUME RoomInv, Kept(t, Slots, InLanes, InTurn)', NEW M, SameElsewhere(t, t', InLanes, InLanes', M),
         NEW j \in Slots, j \notin M
  PROVE  ParkedAt(j)' <=> ParkedAt(j)
<1>1. ParkedAt(j) <=> ~ Waits(InLanes, j) /\ t.hook.next[j] = j
  BY RoomLinked
<1>2. ParkedAt(j)' <=> ~ Waits(InLanes', j) /\ t'.hook.next[j] = j
  <2>1. PICK u : u = t'
    OBVIOUS
  <2>2. PICK o, p : o = InLanes' /\ p = InTurn'
    OBVIOUS
  <2>3. Kept(u, Slots, o, p)
    BY <2>1, <2>2
  <2>4. IsParked(u.hook, j) <=> ~ Waits(o, j) /\ u.hook.next[j] = j
    BY <2>3, ParkedIs
  <2> QED BY <2>1, <2>2, <2>4 DEF ParkedAt
<1> QED BY <1>1, <1>2 DEF SameElsewhere

\* The free list is what its words spell.
LEMMA FreeAfter ==
  ASSUME Kept(t, Slots, InLanes, InTurn)', NEW s, Stacked(t'.hook, free', s, Slots),
         \A i : Stands(s, i) <=> i \in Slots \ Held'
  PROVE  Vacancies'
<1>1. t'.hook \in Plane(Slots)
  BY DEF Kept, Table, Chained
<1>2. Walk(t'.hook, free') = s
  BY <1>1, StackIs, SlotsAreNodes
<1>3. FreeOrder' = s
  BY <1>2 DEF FreeOrder
<1> QED BY <1>3 DEF Vacancies

\* A step that writes held slots alone leaves the free list's words.
LEMMA FreeKept ==
  ASSUME RoomInv, NEW M, M \subseteq Held, SameElsewhere(t, t', InLanes, InLanes', M)
  PROVE  \A j : Stands(FreeOrder, j) => t'.hook.next[j] = t.hook.next[j]
<1> SUFFICES ASSUME NEW j, Stands(FreeOrder, j) PROVE t'.hook.next[j] = t.hook.next[j]
  OBVIOUS
<1>1. j \in Slots /\ j \notin Held
  BY DEF RoomInv, Vacancies
<1>2. ~ Waits(InLanes, j)
  BY <1>1, Unleased
<1> QED BY <1>1, <1>2 DEF SameElsewhere

\* Such a step keeps the free list.
LEMMA VacantSame ==
  ASSUME RoomInv, Kept(t, Slots, InLanes, InTurn)', NEW M, M \subseteq Held,
         SameElsewhere(t, t', InLanes, InLanes', M), free' = free, Held' = Held
  PROVE  Vacancies'
<1>1. Stacked(t.hook, free, FreeOrder, Slots) /\ \A i : Stands(FreeOrder, i) <=> i \in Slots \ Held
  BY DEF RoomInv, Vacancies
<1>2. PICK s : s = FreeOrder
  OBVIOUS
<1>3. Stacked(t'.hook, free', s, Slots)
  BY <1>1, <1>2, FreeKept, StackedSame
<1> QED BY <1>1, <1>2, <1>3, FreeAfter

\* A held slot goes back on top of the free list.
LEMMA VacantPushed ==
  ASSUME RoomInv, Kept(t, Slots, InLanes, InTurn)', NEW M, M \subseteq Held,
         SameElsewhere(t, t', InLanes, InLanes', M),
         NEW i \in Held, i \in Slots, t'.hook.next[i] = free, free' = i, Held' = Held \ {i}
  PROVE  Vacancies'
<1>1. Stacked(t.hook, free, FreeOrder, Slots) /\ \A j : Stands(FreeOrder, j) <=> j \in Slots \ Held
  BY DEF RoomInv, Vacancies
<1>2. PICK s : s = FreeOrder
  OBVIOUS
<1>3. ~ Stands(s, i)
  BY <1>1, <1>2
<1>4. /\ Stacked(t'.hook, free', <<i>> \o s, Slots)
      /\ \A j : Stands(<<i>> \o s, j) <=> Stands(s, j) \/ j = i
  <2>1. PICK g, h, top : g = t'.hook /\ h = t.hook /\ top = free
    OBVIOUS
  <2>2. \A j : Stands(s, j) => g.next[j] = h.next[j]
    BY <1>2, <2>1, FreeKept
  <2>3. Stacked(h, top, s, Slots) /\ g.next[i] = top
    BY <1>1, <1>2, <2>1
  <2>4. Stacked(g, i, <<i>> \o s, Slots) /\ \A j : Stands(<<i>> \o s, j) <=> Stands(s, j) \/ j = i
    BY <1>3, <2>2, <2>3, StackedPushed
  <2> QED BY <2>1, <2>4
<1>5. PICK r : r = <<i>> \o s
  OBVIOUS
<1>6. Stacked(t'.hook, free', r, Slots) /\ \A j : Stands(r, j) <=> j \in Slots \ Held'
  BY <1>1, <1>2, <1>4, <1>5
<1> QED BY <1>6, FreeAfter

\* The head of the free list is a slot of nobody.
LEMMA FreeTop ==
  ASSUME RoomInv, free # END
  PROVE  free \in Slots /\ free \notin Held /\ ~ Waits(InLanes, free) /\ FreeOrder # <<>>
<1>1. Stacked(t.hook, free, FreeOrder, Slots) /\ \A j : Stands(FreeOrder, j) <=> j \in Slots \ Held
  BY DEF RoomInv, Vacancies
<1>2. FreeOrder # <<>> /\ Stands(FreeOrder, free)
  BY <1>1 DEF Stacked, Stands
<1> QED BY <1>1, <1>2, Unleased

\* The head of the free list goes to a registration.
LEMMA VacantPopped ==
  ASSUME RoomInv, Kept(t, Slots, InLanes, InTurn)', free # END,
         SameElsewhere(t, t', InLanes, InLanes', {free}),
         free' = t.hook.next[free], Held' = Held \cup {free}
  PROVE  Vacancies'
<1>1. Stacked(t.hook, free, FreeOrder, Slots) /\ \A j : Stands(FreeOrder, j) <=> j \in Slots \ Held
  BY DEF RoomInv, Vacancies
<1>2. PICK s : s = FreeOrder
  OBVIOUS
<1>3. \A j : Stands(s, j) /\ j # free => t'.hook.next[j] = t.hook.next[j]
  BY <1>1, <1>2, Unleased DEF SameElsewhere
<1>4. /\ Stacked(t'.hook, free', Without(s, 1), Slots)
      /\ \A j : Stands(Without(s, 1), j) <=> Stands(s, j) /\ j # free
  <2>1. s # <<>>
    BY <1>2, FreeTop
  <2> QED BY <1>1, <1>2, <1>3, <2>1, StackedPopped
<1>5. PICK r : r = Without(s, 1)
  OBVIOUS
<1>6. Stacked(t'.hook, free', r, Slots) /\ \A j : Stands(r, j) <=> j \in Slots \ Held'
  BY <1>1, <1>2, <1>4, <1>5
<1> QED BY <1>6, FreeAfter

\* What is held are slots.
LEMMA HeldIn == ASSUME RoomInv PROVE Held \subseteq Slots
BY Leased DEF Held

\* A lease is given to r, whose slot this already is or nobody's.
LEMMA RegKept ==
  ASSUME RoomInv, NEW r \in Regs, NEW i \in Slots, NEW l \in Lanes,
         (Active(r) /\ reg[r].slot = i) \/ (~ Active(r) /\ i \notin Held),
         reg' = [reg EXCEPT ![r] = Lease(i, l)]
  PROVE  /\ reg' \in [Regs -> [slot : Slots, lane : Lanes] \cup {None}]
         /\ reg'[r] = Lease(i, l) /\ \A q \in Regs : q # r => reg'[q] = reg[q]
         /\ Held' = Held \cup {i} /\ OneLease'
<1>1. /\ reg \in [Regs -> [slot : Slots, lane : Lanes] \cup {None}] /\ OneLease
  BY DEF RoomInv, RoomTyped
<1>2. Lease(i, l) \in [slot : Slots, lane : Lanes] /\ Lease(i, l) # None /\ Lease(i, l).slot = i
  BY LeaseIsNo
<1>3. /\ reg' \in [Regs -> [slot : Slots, lane : Lanes] \cup {None}]
      /\ reg'[r] = Lease(i, l) /\ \A q \in Regs : q # r => reg'[q] = reg[q]
  BY <1>1, <1>2
<1>4. \A q \in Regs : q # r /\ Active(q) => reg[q].slot # i
  BY <1>1 DEF OneLease, Held
<1>5. Active(r)' /\ reg'[r].slot = i /\ \A q \in Regs : q # r => (Active(q)' <=> Active(q)) /\ reg'[q] = reg[q]
  BY <1>2, <1>3 DEF Active
<1>6. OneLease'
  BY <1>1, <1>4, <1>5 DEF OneLease
<1>7. Held' = Held \cup {i}
  BY <1>5 DEF Held
<1> QED BY <1>3, <1>6, <1>7

\* A registration gives its lease up.
LEMMA RegEnded ==
  ASSUME RoomInv, NEW r \in Regs, Active(r), reg' = [reg EXCEPT ![r] = None]
  PROVE  /\ reg' \in [Regs -> [slot : Slots, lane : Lanes] \cup {None}]
         /\ \A q \in Regs : q # r => reg'[q] = reg[q]
         /\ Held' = Held \ {reg[r].slot} /\ OneLease'
<1>1. /\ reg \in [Regs -> [slot : Slots, lane : Lanes] \cup {None}] /\ OneLease
  BY DEF RoomInv, RoomTyped
<1>2. /\ reg' \in [Regs -> [slot : Slots, lane : Lanes] \cup {None}]
      /\ reg'[r] = None /\ \A q \in Regs : q # r => reg'[q] = reg[q]
  BY <1>1
<1>3. ~ Active(r)' /\ \A q \in Regs : q # r => (Active(q)' <=> Active(q)) /\ reg'[q] = reg[q]
  BY <1>2 DEF Active
<1>4. OneLease'
  BY <1>1, <1>3 DEF OneLease
<1>5. \A q \in Regs : q # r /\ Active(q) => reg[q].slot # reg[r].slot
  BY <1>1 DEF OneLease
<1>6. Held' = Held \ {reg[r].slot}
  BY <1>3, <1>5 DEF Held
<1> QED BY <1>2, <1>4, <1>6

\* No lease changes.
LEMMA SameLeases ==
  ASSUME RoomInv, UNCHANGED reg
  PROVE  Held' = Held /\ OneLease' /\ reg' \in [Regs -> [slot : Slots, lane : Lanes] \cup {None}]
<1>1. \A q \in Regs : Active(q)' <=> Active(q)
  BY DEF Active
<1> QED BY <1>1 DEF RoomInv, RoomTyped, OneLease, Held

\* A slot's union is written and the others stay.
LEMMA Filled ==
  ASSUME RoomInv, NEW i \in Slots, NEW v \in Regs \cup Grants \cup {None}, Fill(i, v)
  PROVE  /\ payload' \in [Slots -> Regs \cup Grants \cup {None}]
         /\ payload'[i] = v /\ \A j \in Slots : j # i => payload'[j] = payload[j]
BY DEF RoomInv, RoomTyped, Fill

\* Who still waits did so before, and neither its value nor its lease changed.
LEMMA WaitersLeave ==
  ASSUME RoomInv, NEW M,
         \A l \in Lanes : \A j : Stands(InLanes'[l], j) => Stands(InLanes[l], j) /\ j \notin M,
         \A j \in Slots \ M : payload'[j] = payload[j],
         \A r \in Regs : Active(r) /\ reg[r].slot \notin M => reg'[r] = reg[r]
  PROVE  Waiters'
<1> SUFFICES ASSUME NEW l \in Lanes, NEW j, Stands(InLanes'[l], j)
             PROVE  \E r \in Regs : reg'[r] = Lease(j, l) /\ payload'[j] = r
  BY DEF Waiters, Lease
<1>1. Stands(InLanes[l], j) /\ j \notin M
  OBVIOUS
<1>2. j \in Slots
  BY <1>1, WaiterHas
<1>3. PICK r \in Regs : Active(r) /\ reg[r] = Lease(j, l) /\ payload[j] = r
  BY <1>1, WaiterHas
<1>4. reg[r].slot = j
  BY <1>3 DEF Lease
<1> QED BY <1>1, <1>2, <1>3, <1>4

\* One registration's slot comes to stand in the lane its lease names.
LEMMA WaitersJoin ==
  ASSUME RoomInv, NEW i, NEW l \in Lanes, NEW r \in Regs, reg'[r] = Lease(i, l), payload'[i] = r,
         (Active(r) /\ reg[r].slot = i) \/ ~ Active(r),
         \A k \in Lanes : \A j : Stands(InLanes'[k], j) => (k = l /\ j = i) \/ (j # i /\ Stands(InLanes[k], j)),
         \A j \in Slots : j # i => payload'[j] = payload[j],
         \A q \in Regs : q # r => reg'[q] = reg[q]
  PROVE  Waiters'
<1> SUFFICES ASSUME NEW k \in Lanes, NEW j, Stands(InLanes'[k], j)
             PROVE  \E q \in Regs : reg'[q] = Lease(j, k) /\ payload'[j] = q
  BY DEF Waiters, Lease
<1>1. CASE k = l /\ j = i
  BY <1>1
<1>2. CASE j # i /\ Stands(InLanes[k], j)
  <2>1. j \in Slots
    BY <1>2, WaiterHas
  <2>2. PICK q \in Regs : Active(q) /\ reg[q] = Lease(j, k) /\ payload[j] = q
    BY <1>2, WaiterHas
  <2>3. reg[q].slot = j
    BY <2>2 DEF Lease
  <2>4. q # r
    BY <1>2, <2>2, <2>3
  <2> QED BY <1>2, <2>1, <2>2, <2>4
<1> QED BY <1>1, <1>2

-----------------------------------------------------------------------------
(* Parked grants.                                                          *)

\* Who is parked after a step.
LEMMA ParkedNow ==
  ASSUME Kept(t, Slots, InLanes, InTurn)', NEW j \in Slots
  PROVE  ParkedAt(j)' <=> ~ Waits(InLanes', j) /\ t'.hook.next[j] = j
<1>1. PICK u, o, p : u = t' /\ o = InLanes' /\ p = InTurn'
  OBVIOUS
<1>2. Kept(u, Slots, o, p)
  BY <1>1
<1>3. IsParked(u.hook, j) <=> ~ Waits(o, j) /\ u.hook.next[j] = j
  BY <1>2, ParkedIs
<1> QED BY <1>1, <1>3 DEF ParkedAt

\* Outside M the parked slots are those of before.
LEMMA ParkingAfter ==
  ASSUME RoomInv, Kept(t, Slots, InLanes, InTurn)', NEW M, SameElsewhere(t, t', InLanes, InLanes', M),
         Held' \subseteq Slots, Held' \ M = Held \ M
  PROVE  Parking' \ M = Parking \ M
<1>1. Held \subseteq Slots
  BY HeldIn
<1>2. \A j \in Slots \ M : ParkedAt(j)' <=> ParkedAt(j)
  BY ParkedAfter
<1> QED BY <1>1, <1>2 DEF Parking

\* No parked grant changes.
LEMMA GrantsSame ==
  ASSUME RoomInv, Parking' = Parking, \A j \in Parking : payload'[j] = payload[j], UNCHANGED <<kind, held>>
  PROVE  GrantsParked'
BY DEF RoomInv, GrantsParked

\* A grant leaves its caller and is parked.
LEMMA GrantsAdded ==
  ASSUME RoomInv, NEW i, i \notin Parking, Parking' = Parking \cup {i}, NEW g \in held, payload'[i] = g,
         \A j \in Parking : payload'[j] = payload[j], held' = held \ {g}, UNCHANGED kind, kind # "fifo"
  PROVE  GrantsParked'
<1>1. GrantsParked /\ held \subseteq Grants
  BY DEF RoomInv, RoomTyped
<1>2. \A j \in Parking' : payload'[j] \in Grants \ held'
  BY <1>1 DEF GrantsParked
<1>3. \A j, k \in Parking' : payload'[j] = payload'[k] => j = k
  BY <1>1 DEF GrantsParked
<1>4. \A h \in Grants \ held' : \E j \in Parking' : payload'[j] = h
  BY <1>1 DEF GrantsParked
<1> QED BY <1>2, <1>3, <1>4 DEF GrantsParked

\* A parked grant goes back to a caller.
LEMMA GrantsReturned ==
  ASSUME RoomInv, NEW i \in Parking, Parking' = Parking \ {i},
         \A j \in Parking : j # i => payload'[j] = payload[j],
         held' = held \cup {payload[i]}, UNCHANGED kind
  PROVE  GrantsParked' /\ held' \subseteq Grants
<1>1. GrantsParked /\ held \subseteq Grants
  BY DEF RoomInv, RoomTyped
<1>2. \A j \in Parking' : payload'[j] \in Grants \ held'
  BY <1>1 DEF GrantsParked
<1>3. \A j, k \in Parking' : payload'[j] = payload'[k] => j = k
  BY <1>1 DEF GrantsParked
<1>4. \A h \in Grants \ held' : \E j \in Parking' : payload'[j] = h
  BY <1>1 DEF GrantsParked
<1>5. held' \subseteq Grants /\ (kind' = "fifo" => held' = Grants)
  BY <1>1 DEF GrantsParked
<1> QED BY <1>2, <1>3, <1>4, <1>5 DEF GrantsParked

\* The part of the state that no step of a lease's own disturbs.
LEMMA RoomFacts ==
  ASSUME RoomInv
  PROVE  /\ kind \in Kinds /\ draining \in BOOLEAN /\ held \subseteq Grants
         /\ payload \in [Slots -> Regs \cup Grants \cup {None}]
         /\ Kept(t, Slots, InLanes, InTurn) /\ Table(t, Slots, InLanes, InTurn)
         /\ t.hook \in Plane(Slots) /\ END \notin Slots
         /\ free \in Slots \cup {END} /\ OneLease
         /\ (kind = "fifo" => Parking = {})
<1>1. Kept(t, Slots, InLanes, InTurn) /\ Table(t, Slots, InLanes, InTurn) /\ t.hook \in Plane(Slots)
  BY DEF RoomInv, Kept, Table, Chained
<1>2. free \in Slots \cup {END}
  BY FreeTop
<1>3. kind = "fifo" => Parking = {}
  BY DEF RoomInv, GrantsParked
<1> QED BY <1>1, <1>2, <1>3, SlotsAreNodes DEF RoomInv, RoomTyped

-----------------------------------------------------------------------------
(* Waiting rooms: keeping a value.                                         *)

\* Where the slot of r goes when r asks for lane l.
LEMMA RelinkTable ==
  ASSUME RoomInv, NEW r \in Regs, Active(r), NEW l \in Lanes, NEW i, i = reg[r].slot,
         t' = IF ~ Linked(i) THEN Inserted(t, l, i)
              ELSE IF reg[r].lane = l THEN t
              ELSE Inserted(Removed(t, reg[r].lane, i), l, i)
  PROVE  /\ Kept(t, Slots, InLanes, InTurn)' /\ Kepts
         /\ \A k \in Lanes : \A j : Stands(InLanes'[k], j) => (k = l /\ j = i) \/ (j # i /\ Stands(InLanes[k], j))
         /\ Waits(InLanes', i)
         /\ SameElsewhere(t, t', InLanes, InLanes', {i})
<1>1. i \in Slots /\ reg[r].lane \in Lanes
  BY Leased
<1>2. Linked(i) <=> Waits(InLanes, i)
  BY <1>1, RoomLinked
<1>3. Waits(InLanes, i) <=> Stands(InLanes[reg[r].lane], i)
  BY WaitsWhere
<1>4. Kept(t, Slots, InLanes, InTurn) /\ Table(t, Slots, InLanes, InTurn)
  BY RoomFacts
<1>5. CASE ~ Linked(i)
  <2>1. t' = Inserted(t, l, i) /\ ~ Waits(InLanes, i)
    BY <1>2, <1>5
  <2>2. \A j \in Slots : ~ Waits(InLanes, j) => t.hook.previous[j] = j
    BY <1>4 DEF Kept
  <2>3. /\ Kept(t, Slots, InLanes, InTurn)' /\ Promise!Next
        /\ Come(InLanes, InLanes', l, i) /\ SameElsewhere(t, t', InLanes, InLanes', {i})
    BY <1>1, <1>4, <2>1, <2>2, SlotEnters
  <2>4. \A k \in Lanes : \A j : Stands(InLanes'[k], j) => (k = l /\ j = i) \/ (j # i /\ Stands(InLanes[k], j))
    BY <2>1, <2>3 DEF Come, Waits
  <2>5. Waits(InLanes', i)
    BY <2>3 DEF Come, Waits
  <2> QED BY <2>3, <2>4, <2>5 DEF Kepts
<1>6. CASE Linked(i) /\ reg[r].lane = l
  <2>1. t' = t
    BY <1>6
  <2>2. Kepts /\ InLanes' = InLanes
    BY <1>4, <2>1, SameTable
  <2>3. \A k \in Lanes : Stands(InLanes[k], i) => k = l
    <3> SUFFICES ASSUME NEW k \in Lanes, Stands(InLanes[k], i) PROVE k = l
      OBVIOUS
    <3>1. PICK q \in Regs : Active(q) /\ reg[q] = Lease(i, k)
      BY WaiterHas
    <3>2. reg[q].slot = i /\ reg[q].lane = k
      BY <3>1 DEF Lease
    <3> QED BY <1>6, <3>1, <3>2 DEF RoomInv, OneLease
  <2>4. SameElsewhere(t, t', InLanes, InLanes', {i})
    BY <2>1, <2>2 DEF SameElsewhere
  <2> QED BY <1>2, <1>6, <2>2, <2>3, <2>4 DEF Kepts
<1>7. CASE Linked(i) /\ reg[r].lane # l
  <2>0. PICK m \in Lanes : m = reg[r].lane
    BY <1>1
  <2>1. t' = Inserted(Removed(t, m, i), l, i) /\ Stands(InLanes[m], i)
    BY <1>2, <1>3, <1>7, <2>0
  <2>2. /\ Kept(t, Slots, InLanes, InTurn)' /\ Promise!Next
        /\ Shifted(InLanes, InLanes', l, i)
        /\ SameElsewhere(t, t', InLanes, InLanes', {i})
    BY <1>4, <2>1, SlotMoves
  <2>3. Waits(InLanes', i)
    BY <2>2 DEF Waits, Shifted
  <2> QED BY <2>2, <2>3 DEF Kepts, Shifted
<1> QED BY <1>5, <1>6, <1>7

\* What a registration keeps: its slot, its lane and its value.
LEMMA KeepSteps ==
  ASSUME RoomInv, NEW r \in Regs, NEW i \in Slots, NEW l \in Lanes,
         (Active(r) /\ reg[r].slot = i) \/ (~ Active(r) /\ i \notin Held),
         i \notin Parking,
         Fill(i, r), reg' = [reg EXCEPT ![r] = Lease(i, l)], UNCHANGED <<kind, draining, held>>,
         Kepts,
         \A k \in Lanes : \A j : Stands(InLanes'[k], j) => (k = l /\ j = i) \/ (j # i /\ Stands(InLanes[k], j)),
         Waits(InLanes', i), SameElsewhere(t, t', InLanes, InLanes', {i}),
         Vacancies'
  PROVE  RoomInv'
<1>1. /\ reg' \in [Regs -> [slot : Slots, lane : Lanes] \cup {None}]
      /\ reg'[r] = Lease(i, l) /\ \A q \in Regs : q # r => reg'[q] = reg[q]
      /\ Held' = Held \cup {i} /\ OneLease'
  BY RegKept
<1>2. /\ payload' \in [Slots -> Regs \cup Grants \cup {None}]
      /\ payload'[i] = r /\ \A j \in Slots : j # i => payload'[j] = payload[j]
  BY Filled
<1>3. RoomTyped'
  BY <1>1, <1>2, RoomFacts DEF RoomTyped
<1>4. Kept(t, Slots, InLanes, InTurn)'
  BY DEF Kepts
<1>5. Waiters'
  BY <1>1, <1>2, WaitersJoin
<1>6. Parking' = Parking
  <2>1. Held \subseteq Slots
    BY HeldIn
  <2>2. Parking' \ {i} = Parking \ {i}
    BY <1>1, <1>4, <2>1, ParkingAfter
  <2>3. ~ ParkedAt(i)'
    BY <1>4, ParkedNow
  <2>4. i \notin Parking'
    BY <2>3 DEF Parking
  <2> QED BY <2>2, <2>4
<1>7. GrantsParked'
  <2>1. \A j \in Parking : payload'[j] = payload[j]
    BY <1>2, HeldIn DEF Parking
  <2> QED BY <1>6, <2>1, GrantsSame
<1> QED BY <1>1, <1>3, <1>4, <1>5, <1>7 DEF RoomInv

\* try_keep of a registration that has a slot.
LEMMA RelinkSteps ==
  ASSUME RoomInv, NEW r \in Regs, NEW l \in Lanes, Relink(r, l), UNCHANGED <<kind, draining, held>>
  PROVE  RoomInv' /\ Kepts
<1>1. PICK i : i = reg[r].slot
  OBVIOUS
<1>2. /\ Active(r) /\ ~ ParkedAt(i) /\ free' = free
      /\ t' = (IF ~ Linked(i) THEN Inserted(t, l, i)
               ELSE IF reg[r].lane = l THEN t
               ELSE Inserted(Removed(t, reg[r].lane, i), l, i))
      /\ Fill(i, r) /\ reg' = [reg EXCEPT ![r] = Lease(i, l)]
  BY <1>1 DEF Relink, Keep, Lease
<1>3. i \in Slots /\ i \in Held /\ i \notin Parking
  BY <1>1, <1>2, Leased DEF Parking
<1>4. /\ Kept(t, Slots, InLanes, InTurn)' /\ Kepts
      /\ \A k \in Lanes : \A j : Stands(InLanes'[k], j) => (k = l /\ j = i) \/ (j # i /\ Stands(InLanes[k], j))
      /\ Waits(InLanes', i)
      /\ SameElsewhere(t, t', InLanes, InLanes', {i})
  BY <1>1, <1>2, RelinkTable
<1>5. Held' = Held
  <2>1. reg[r].lane \in Lanes /\ Held' = Held \cup {i}
    BY <1>1, <1>2, <1>3, Leased, RegKept
  <2> QED BY <1>3, <2>1
<1>6. Vacancies'
  BY <1>2, <1>3, <1>4, <1>5, VacantSame
<1> QED BY <1>1, <1>2, <1>3, <1>4, <1>6, KeepSteps

\* try_keep of one that acquires its slot.
LEMMA RegisterSteps ==
  ASSUME RoomInv, NEW r \in Regs, NEW l \in Lanes, Register(r, l), UNCHANGED <<kind, draining, held>>
  PROVE  RoomInv' /\ Kepts
<1>1. PICK i : i = free
  OBVIOUS
<1>2. PICK g : g = [t.hook EXCEPT !.next[i] = END]
  OBVIOUS
<1>3. PICK u : u = [t EXCEPT !.hook = g]
  OBVIOUS
<1>4. /\ ~ Active(r) /\ i # END /\ free' = t.hook.next[i] /\ t' = Inserted(u, l, i)
      /\ Fill(i, r) /\ reg' = [reg EXCEPT ![r] = Lease(i, l)]
  BY <1>1, <1>2, <1>3 DEF Register, Keep, Acquired, Lease
<1>5. i \in Slots /\ i \notin Held /\ ~ Waits(InLanes, i) /\ i \notin Parking
  BY <1>1, <1>4, FreeTop DEF Parking
<1>6. /\ g \in Plane(Slots) /\ g.previous = t.hook.previous
      /\ \A j \in Slots : j # i => g.next[j] = t.hook.next[j]
  <2>1. t.hook \in Plane(Slots)
    BY RoomFacts
  <2> QED BY <1>2, <1>5, <2>1 DEF Plane
<1>7. Kept(u, Slots, InLanes, InTurn) /\ u.hook = g
  <2>1. \A j \in Slots : Waits(InLanes, j) => g.previous[j] = t.hook.previous[j] /\ g.next[j] = t.hook.next[j]
    BY <1>5, <1>6
  <2>2. \A j \in Slots : ~ Waits(InLanes, j) => g.previous[j] = j
    BY <1>6, RoomFacts DEF Kept
  <2> QED BY <1>3, <1>6, <2>1, <2>2, RoomFacts, KeptRewritten
<1>8. /\ Kept(t, Slots, InLanes, InTurn)' /\ Promise!Next
      /\ Come(InLanes, InLanes', l, i) /\ SameElsewhere(u, t', InLanes, InLanes', {i})
  <2>1. Table(u, Slots, InLanes, InTurn) /\ \A j \in Slots : ~ Waits(InLanes, j) => u.hook.previous[j] = j
    BY <1>7 DEF Kept
  <2> QED BY <1>4, <1>5, <2>1, RoomFacts, SlotEnters
<1>9. SameElsewhere(t, t', InLanes, InLanes', {i})
  BY <1>6, <1>7, <1>8 DEF SameElsewhere
<1>10. \A k \in Lanes : \A j : Stands(InLanes'[k], j) => (k = l /\ j = i) \/ (j # i /\ Stands(InLanes[k], j))
  BY <1>5, <1>8 DEF Come, Waits
<1>11. Waits(InLanes', i) /\ Kepts
  BY <1>8 DEF Come, Waits, Kepts
<1>12. Held' = Held \cup {i}
  BY <1>4, <1>5, RegKept
<1>13. Vacancies'
  BY <1>1, <1>4, <1>8, <1>9, <1>12, VacantPopped
<1> QED BY <1>4, <1>5, <1>9, <1>10, <1>11, <1>13, KeepSteps

-----------------------------------------------------------------------------
(* Waiting rooms: taking and granting.                                     *)

\* The front of lane l leaves it; its registration keeps the slot.
LEMMA FrontLeaves ==
  ASSUME RoomInv, NEW l \in Lanes, NEW rotate \in BOOLEAN, NEW n \in Slots \cup {END},
         NEW i, i = Front(t, l), i # END, NEW x, x = FrontRemoved(t, l, rotate),
         t' = Rewritten(x, i, n),
         NEW v \in Regs \cup Grants \cup {None}, Fill(i, v), UNCHANGED <<free, reg>>
  PROVE  /\ Kept(t, Slots, InLanes, InTurn)' /\ Kepts /\ Vacancies' /\ OneLease' /\ Waiters'
         /\ reg' \in [Regs -> [slot : Slots, lane : Lanes] \cup {None}]
         /\ payload' \in [Slots -> Regs \cup Grants \cup {None}]
         /\ i \in Slots /\ payload'[i] = v /\ \A j \in Slots : j # i => payload'[j] = payload[j]
         /\ i \notin Parking /\ Parking' \ {i} = Parking /\ (i \in Parking' <=> n = i)
<1>1. Kept(t, Slots, InLanes, InTurn)
  BY RoomFacts
<1>2. /\ Kept(t, Slots, InLanes, InTurn)' /\ Promise!Next
      /\ i \in Slots /\ Stands(InLanes[l], i) /\ Gone(InLanes, InLanes', i)
      /\ t'.hook.next[i] = n /\ SameElsewhere(t, t', InLanes, InLanes', {i})
  BY <1>1, FrontWritten
<1>3. i \in Held /\ i \notin Parking
  BY <1>2, WaiterHas
<1>4. Held' = Held /\ OneLease' /\ reg' \in [Regs -> [slot : Slots, lane : Lanes] \cup {None}]
  BY SameLeases
<1>5. /\ payload' \in [Slots -> Regs \cup Grants \cup {None}]
      /\ payload'[i] = v /\ \A j \in Slots : j # i => payload'[j] = payload[j]
  BY <1>2, Filled
<1>6. Vacancies'
  BY <1>2, <1>3, <1>4, VacantSame
<1>7. Waiters'
  <2>1. \A m \in Lanes : \A j : Stands(InLanes'[m], j) => Stands(InLanes[m], j) /\ j \notin {i}
    BY <1>2 DEF Gone
  <2> QED BY <1>5, <2>1, WaitersLeave
<1>8. Parking' \ {i} = Parking
  <2>1. Held' \subseteq Slots /\ Held' \ {i} = Held \ {i}
    BY <1>4, HeldIn
  <2>2. Parking' \ {i} = Parking \ {i}
    BY <1>2, <2>1, ParkingAfter
  <2> QED BY <1>3, <2>2
<1>9. i \in Parking' <=> n = i
  <2>1. ~ Waits(InLanes', i)
    BY <1>2 DEF Gone, Waits
  <2>2. ParkedAt(i)' <=> n = i
    BY <1>2, <2>1, ParkedNow
  <2> QED BY <1>3, <1>4, <2>2 DEF Parking
<1> QED BY <1>2, <1>3, <1>4, <1>5, <1>6, <1>7, <1>8, <1>9 DEF Kepts

\* The front of a lane is one of its slots.
LEMMA FrontIn ==
  ASSUME NEW u, Table(u, Slots, InLanes, InTurn), NEW l \in Lanes, Front(u, l) # END
  PROVE  Front(u, l) \in Slots /\ Stands(InLanes[l], Front(u, l))
<1>1. InLanes[l] \in Seq(Slots) /\ InLanes[l] # <<>> /\ Front(u, l) = InLanes[l][1]
  BY TableFacts, SlotsAreNodes DEF Front
<1> QED BY <1>1 DEF Stands

\* A front is taken, by any of take_one, take_next and drain_next.
LEMMA TakeSteps ==
  ASSUME RoomInv, NEW l \in Lanes, Front(t, l) # END, NEW rotate \in BOOLEAN, Take(l, rotate),
         UNCHANGED <<kind, free, reg, held>>, draining' \in BOOLEAN
  PROVE  RoomInv' /\ Kepts
<1>1. PICK i : i = Front(t, l)
  OBVIOUS
<1>2. PICK x : x = FrontRemoved(t, l, rotate)
  OBVIOUS
<1>3. PICK n \in Slots \cup {END} : n = END
  OBVIOUS
<1>4. PICK v \in Regs \cup Grants \cup {None} : v = None
  OBVIOUS
<1>5. t' = Rewritten(x, i, n) /\ Fill(i, v)
  BY <1>1, <1>2, <1>3, <1>4 DEF Take, Idle, Idled, Rewritten
<1>6. /\ Kept(t, Slots, InLanes, InTurn)' /\ Kepts /\ Vacancies' /\ OneLease' /\ Waiters'
      /\ reg' \in [Regs -> [slot : Slots, lane : Lanes] \cup {None}]
      /\ payload' \in [Slots -> Regs \cup Grants \cup {None}]
      /\ i \in Slots /\ \A j \in Slots : j # i => payload'[j] = payload[j]
      /\ i \notin Parking /\ Parking' \ {i} = Parking /\ (i \in Parking' <=> n = i)
  BY <1>1, <1>2, <1>5, FrontLeaves
<1>7. RoomTyped'
  BY <1>6, RoomFacts DEF RoomTyped
<1>8. GrantsParked'
  <2>1. Parking' = Parking
    BY <1>3, <1>6, RoomFacts
  <2>2. \A j \in Parking : payload'[j] = payload[j]
    BY <1>6, HeldIn DEF Parking
  <2> QED BY <2>1, <2>2, GrantsSame
<1> QED BY <1>6, <1>7, <1>8 DEF RoomInv

\* offer_one parks the front with the grant it was offered.
LEMMA OfferSteps ==
  ASSUME RoomInv, NEW l \in Lanes, NEW g \in held, OfferOne(l, g)
  PROVE  RoomInv' /\ Kepts
<1>1. PICK i : i = Front(t, l)
  OBVIOUS
<1>2. PICK rotate \in BOOLEAN : rotate = FALSE
  OBVIOUS
<1>3. PICK x : x = FrontRemoved(t, l, rotate)
  OBVIOUS
<1>4. i # END /\ i \in Slots
  <2>1. i # END
    BY <1>1 DEF OfferOne
  <2> QED BY <1>1, <2>1, RoomFacts, FrontIn
<1>5. PICK n \in Slots \cup {END} : n = i
  BY <1>4
<1>6. PICK v \in Regs \cup Grants \cup {None} : v = g
  BY RoomFacts
<1>7. /\ t' = Rewritten(x, i, n) /\ Fill(i, v)
      /\ UNCHANGED <<kind, free, reg, draining>> /\ kind # "fifo" /\ held' = held \ {g}
  BY <1>1, <1>2, <1>3, <1>5, <1>6 DEF OfferOne, Park, Parked, Rewritten
<1>8. /\ Kept(t, Slots, InLanes, InTurn)' /\ Kepts /\ Vacancies' /\ OneLease' /\ Waiters'
      /\ reg' \in [Regs -> [slot : Slots, lane : Lanes] \cup {None}]
      /\ payload' \in [Slots -> Regs \cup Grants \cup {None}]
      /\ payload'[i] = v /\ \A j \in Slots : j # i => payload'[j] = payload[j]
      /\ i \notin Parking /\ Parking' \ {i} = Parking /\ (i \in Parking' <=> n = i)
  BY <1>1, <1>3, <1>4, <1>7, FrontLeaves
<1>9. RoomTyped'
  BY <1>7, <1>8, RoomFacts DEF RoomTyped
<1>10. GrantsParked'
  <2>1. Parking' = Parking \cup {i} /\ i \notin Parking /\ payload'[i] = g
    BY <1>5, <1>6, <1>8
  <2>2. \A j \in Parking : payload'[j] = payload[j]
    BY <1>8, HeldIn DEF Parking
  <2> QED BY <1>7, <2>1, <2>2, GrantsAdded
<1> QED BY <1>8, <1>9, <1>10 DEF RoomInv

-----------------------------------------------------------------------------
(* Waiting rooms: cancelling and dropping.                                 *)

\* The slot of r goes back to the free list; of those in M nobody waits.
LEMMA SlotReturned ==
  ASSUME RoomInv, NEW r \in Regs, Active(r), NEW i, i = reg[r].slot,
         NEW M, M \subseteq Held, i \in M, Kepts, SameElsewhere(t, t', InLanes, InLanes', M),
         t'.hook.next[i] = free, free' = i, reg' = [reg EXCEPT ![r] = None],
         \A l \in Lanes : \A j : Stands(InLanes'[l], j) => Stands(InLanes[l], j) /\ j \notin M,
         \A j \in Slots \ M : payload'[j] = payload[j]
  PROVE  /\ Kept(t, Slots, InLanes, InTurn)' /\ Vacancies' /\ OneLease' /\ Waiters'
         /\ reg' \in [Regs -> [slot : Slots, lane : Lanes] \cup {None}]
         /\ Parking' \ M = Parking \ M /\ i \notin Parking' /\ Held' = Held \ {i}
<1>1. /\ reg' \in [Regs -> [slot : Slots, lane : Lanes] \cup {None}]
      /\ \A q \in Regs : q # r => reg'[q] = reg[q]
      /\ Held' = Held \ {i} /\ OneLease'
  BY RegEnded
<1>2. i \in Slots /\ i \in Held /\ Held \subseteq Slots
  BY Leased, HeldIn
<1>3. Kept(t, Slots, InLanes, InTurn)'
  BY DEF Kepts
<1>4. Vacancies'
  BY <1>1, <1>2, <1>3, VacantPushed
<1>5. Waiters'
  <2>1. \A q \in Regs : Active(q) /\ reg[q].slot \notin M => reg'[q] = reg[q]
    BY <1>1
  <2> QED BY <2>1, WaitersLeave
<1>6. Parking' \ M = Parking \ M
  <2>1. Held' \subseteq Slots /\ Held' \ M = Held \ M
    BY <1>1, <1>2
  <2> QED BY <1>3, <2>1, ParkingAfter
<1>7. i \notin Parking'
  BY <1>1 DEF Parking
<1> QED BY <1>1, <1>3, <1>4, <1>5, <1>6, <1>7

\* SlotWritten and SpareStep, as SlotRetired uses them.
LEMMA LinkedRetired ==
  ASSUME Kept(t, Slots, InLanes, InTurn), NEW l \in Lanes, NEW i, Stands(InLanes[l], i),
         NEW n \in Slots \cup {END}, NEW x, x = Removed(t, l, i),
         t' = Rewritten(x, i, n)
  PROVE  /\ Kepts /\ t'.hook.next[i] = n /\ SameElsewhere(t, t', InLanes, InLanes', {i})
         /\ \A m \in Lanes : \A j : Stands(InLanes'[m], j) => Stands(InLanes[m], j) /\ j \notin {i}
<1>1. /\ Kept(t, Slots, InLanes, InTurn)' /\ Promise!Next
      /\ Gone(InLanes, InLanes', i) /\ t'.hook.next[i] = n
      /\ SameElsewhere(t, t', InLanes, InLanes', {i})
  BY SlotWritten
<1> QED BY <1>1 DEF Gone, Kepts

\* A slot out of the lanes is retired.
LEMMA SpareRetired ==
  ASSUME Kept(t, Slots, InLanes, InTurn), NEW i \in Slots, ~ Waits(InLanes, i),
         NEW n \in Slots \cup {END}, t' = Rewritten(t, i, n)
  PROVE  /\ Kepts /\ t'.hook.next[i] = n /\ SameElsewhere(t, t', InLanes, InLanes', {i})
         /\ \A m \in Lanes : \A j : Stands(InLanes'[m], j) => Stands(InLanes[m], j) /\ j \notin {i}
<1>1. /\ Kept(t, Slots, InLanes, InTurn)' /\ InLanes' = InLanes /\ InTurn' = InTurn
      /\ t'.hook.next[i] = n /\ SameElsewhere(t, t', InLanes, InLanes', {i})
  BY SpareStep
<1> QED BY <1>1 DEF Kepts, Waits

\* The hook of a slot out of the lanes is written, then the front of a lane taken.
LEMMA PassTable ==
  ASSUME Kept(t, Slots, InLanes, InTurn), NEW i \in Slots, ~ Waits(InLanes, i),
         NEW n \in Slots \cup {END}, NEW l \in Lanes, Front(t, l) # END,
         t' = Rewritten(FrontRemoved(Rewritten(t, i, n), l, FALSE), Front(t, l), END)
  PROVE  /\ Kepts /\ t'.hook.next[i] = n /\ t'.hook.next[Front(t, l)] = END
         /\ Gone(InLanes, InLanes', Front(t, l)) /\ SameElsewhere(t, t', InLanes, InLanes', {i, Front(t, l)})
<1> DEFINE f == Front(t, l)
<1>1. PICK rotate \in BOOLEAN : rotate = FALSE
  OBVIOUS
<1>2. PICK u : u = Rewritten(t, i, n)
  OBVIOUS
<1>3. /\ Kept(u, Slots, InLanes, InTurn) /\ u.chain = t.chain /\ u.hook.next[i] = n
      /\ SameElsewhere(t, u, InLanes, InLanes, {i})
  BY <1>2, SpareWritten
<1>4. PICK x : x = FrontRemoved(u, l, rotate)
  OBVIOUS
<1>5. PICK m \in Slots \cup {END} : m = END
  OBVIOUS
<1>6. Front(u, l) = f
  BY <1>3 DEF Front
<1>7. /\ Promise!Next /\ Kept(t, Slots, InLanes, InTurn)' /\ Gone(InLanes, InLanes', f)
      /\ t'.hook.next[f] = m /\ SameElsewhere(u, t', InLanes, InLanes', {f}) /\ Stands(InLanes[l], f)
  <2>1. t' = Rewritten(x, Front(u, l), m)
    BY <1>1, <1>2, <1>4, <1>5, <1>6
  <2> QED BY <1>3, <1>4, <1>6, <2>1, FrontWritten
<1> HIDE DEF f
<1>8. f # i
  BY <1>7 DEF Waits
<1>9. SameElsewhere(t, t', InLanes, InLanes', {i, f}) /\ t'.hook.next[i] = n
  BY <1>3, <1>7, <1>8 DEF SameElsewhere
<1> QED BY <1>5, <1>7, <1>9 DEF Kepts, f

\* Retiring the slot of r, in a lane or out of them, with its value left behind.
LEMMA SlotRetired ==
  ASSUME RoomInv, NEW r \in Regs, Active(r), NEW i, i = reg[r].slot,
         NEW h, h = (IF Linked(i) THEN Removed(t, reg[r].lane, i) ELSE t),
         t' = Rewritten(h, i, free), free' = i, reg' = [reg EXCEPT ![r] = None],
         \A j \in Slots : j # i => payload'[j] = payload[j]
  PROVE  /\ Kept(t, Slots, InLanes, InTurn)' /\ Kepts /\ Vacancies' /\ OneLease' /\ Waiters'
         /\ reg' \in [Regs -> [slot : Slots, lane : Lanes] \cup {None}]
         /\ Parking' = Parking \ {i} /\ i \in Slots
<1>1. i \in Slots /\ i \in Held /\ reg[r].lane \in Lanes
  BY Leased
<1>2. Kept(t, Slots, InLanes, InTurn) /\ free \in Slots \cup {END}
  BY RoomFacts
<1>3. Linked(i) <=> Waits(InLanes, i)
  BY <1>1, RoomLinked
<1>4. PICK n \in Slots \cup {END} : n = free
  BY <1>2
<1>5. /\ Kepts /\ t'.hook.next[i] = free /\ SameElsewhere(t, t', InLanes, InLanes', {i})
      /\ \A l \in Lanes : \A j : Stands(InLanes'[l], j) => Stands(InLanes[l], j) /\ j \notin {i}
  <2>1. CASE Linked(i)
    <3>1. PICK l \in Lanes : l = reg[r].lane
      BY <1>1
    <3>2. Stands(InLanes[l], i)
      BY <1>3, <2>1, <3>1, WaitsWhere
    <3>3. t' = Rewritten(h, i, n) /\ h = Removed(t, l, i)
      BY <1>4, <2>1, <3>1
    <3> QED BY ONLY <1>2, <1>4, <3>2, <3>3, LinkedRetired
  <2>2. CASE ~ Linked(i)
    <3>1. ~ Waits(InLanes, i) /\ t' = Rewritten(t, i, n)
      BY <1>3, <1>4, <2>2
    <3> QED BY <1>1, <1>2, <1>4, <3>1, SpareRetired
  <2> QED BY <2>1, <2>2
<1>6. PICK M : M = {i}
  OBVIOUS
<1>7. \A j \in Slots \ M : payload'[j] = payload[j]
  BY <1>6
<1>8. /\ Kept(t, Slots, InLanes, InTurn)' /\ Vacancies' /\ OneLease' /\ Waiters'
      /\ reg' \in [Regs -> [slot : Slots, lane : Lanes] \cup {None}]
      /\ Parking' \ M = Parking \ M /\ i \notin Parking'
  <2>1. M \subseteq Held /\ i \in M
    BY <1>1, <1>6
  <2> QED BY <1>5, <1>6, <1>7, <2>1, SlotReturned
<1> QED BY <1>1, <1>5, <1>6, <1>8

\* A waiter is cancelled or dropped.
LEMMA LinkedSteps ==
  ASSUME RoomInv, NEW r \in Regs, Active(r), RemoveLinked(r),
         reg' = [reg EXCEPT ![r] = None], UNCHANGED <<kind, draining>>
  PROVE  RoomInv' /\ Kepts
<1>1. PICK i, h : i = reg[r].slot /\ h = (IF Linked(i) THEN Removed(t, reg[r].lane, i) ELSE t)
  OBVIOUS
<1>2. /\ Linked(i) /\ h = Removed(t, reg[r].lane, i) /\ UNCHANGED <<payload, held>>
      /\ t' = Rewritten(h, i, free) /\ free' = i
  BY <1>1 DEF RemoveLinked, Recycle, Recycled, Rewritten
<1>3. /\ Kept(t, Slots, InLanes, InTurn)' /\ Kepts /\ Vacancies' /\ OneLease' /\ Waiters'
      /\ reg' \in [Regs -> [slot : Slots, lane : Lanes] \cup {None}]
      /\ Parking' = Parking \ {i} /\ i \in Slots
  BY <1>1, <1>2, SlotRetired
<1>4. RoomTyped'
  BY <1>2, <1>3, RoomFacts DEF RoomTyped
<1>5. GrantsParked'
  <2>1. i \notin Parking
    BY <1>2, <1>3, RoomLinked DEF Parking
  <2>2. Parking' = Parking
    BY <1>3, <2>1
  <2> QED BY <1>2, <2>2, GrantsSame
<1> QED BY <1>3, <1>4, <1>5 DEF RoomInv

\* A registration whose value was taken is cancelled or dropped.
LEMMA EmptySteps ==
  ASSUME RoomInv, NEW r \in Regs, Active(r), RemoveEmpty(r),
         reg' = [reg EXCEPT ![r] = None], UNCHANGED <<kind, draining>>
  PROVE  RoomInv' /\ Kepts
<1>1. PICK i, h : i = reg[r].slot /\ h = (IF Linked(i) THEN Removed(t, reg[r].lane, i) ELSE t)
  OBVIOUS
<1>2. /\ ~ Linked(i) /\ ~ ParkedAt(i) /\ h = t /\ UNCHANGED <<payload, held>>
      /\ t' = Rewritten(h, i, free) /\ free' = i
  BY <1>1 DEF RemoveEmpty, Recycle, Recycled, Rewritten
<1>3. /\ Kept(t, Slots, InLanes, InTurn)' /\ Kepts /\ Vacancies' /\ OneLease' /\ Waiters'
      /\ reg' \in [Regs -> [slot : Slots, lane : Lanes] \cup {None}]
      /\ Parking' = Parking \ {i} /\ i \in Slots
  BY <1>1, <1>2, SlotRetired
<1>4. RoomTyped'
  BY <1>2, <1>3, RoomFacts DEF RoomTyped
<1>5. GrantsParked'
  <2>1. Parking' = Parking
    BY <1>2, <1>3 DEF Parking
  <2> QED BY <1>2, <2>1, GrantsSame
<1> QED BY <1>3, <1>4, <1>5 DEF RoomInv

\* A parked slot is given up, and its grant goes to the caller.
LEMMA ParkedSteps ==
  ASSUME RoomInv, NEW r \in Regs, Active(r), NEW i, i = reg[r].slot, ParkedAt(i), Recycle(t, i),
         held' = held \cup {payload[i]}, Fill(i, None),
         reg' = [reg EXCEPT ![r] = None], UNCHANGED <<kind, draining>>
  PROVE  RoomInv' /\ Kepts
<1>1. PICK h : h = (IF Linked(i) THEN Removed(t, reg[r].lane, i) ELSE t)
  OBVIOUS
<1>2. i \in Slots /\ i \in Held /\ i \in Parking /\ ~ Linked(i)
  BY Leased, RoomLinked DEF Parking
<1>3. h = t /\ t' = Rewritten(h, i, free) /\ free' = i
  BY <1>1, <1>2 DEF Recycle, Recycled, Rewritten
<1>4. PICK v \in Regs \cup Grants \cup {None} : v = None
  OBVIOUS
<1>5. /\ payload' \in [Slots -> Regs \cup Grants \cup {None}]
      /\ \A j \in Slots : j # i => payload'[j] = payload[j]
  BY <1>2, <1>4, Filled
<1>6. /\ Kept(t, Slots, InLanes, InTurn)' /\ Kepts /\ Vacancies' /\ OneLease' /\ Waiters'
      /\ reg' \in [Regs -> [slot : Slots, lane : Lanes] \cup {None}]
      /\ Parking' = Parking \ {i}
  BY <1>1, <1>3, <1>5, SlotRetired
<1>7. GrantsParked' /\ held' \subseteq Grants
  <2>1. \A j \in Parking : j # i => payload'[j] = payload[j]
    BY <1>5, HeldIn DEF Parking
  <2> QED BY <1>2, <1>6, <2>1, GrantsReturned
<1>8. RoomTyped'
  BY <1>5, <1>6, <1>7, RoomFacts DEF RoomTyped
<1> QED BY <1>6, <1>7, <1>8 DEF RoomInv

\* The slot of r is given up, and the front of its lane taken in its place.
LEMMA PassSteps ==
  ASSUME RoomInv, NEW r \in Regs, Active(r), RemoveAndPass(r),
         reg' = [reg EXCEPT ![r] = None], UNCHANGED <<kind, draining>>
  PROVE  RoomInv' /\ Kepts
<1>0. Kept(t, Slots, InLanes, InTurn) /\ Table(t, Slots, InLanes, InTurn) /\ END \notin Slots
  BY RoomFacts
<1>1. PICK i \in Slots : i = reg[r].slot /\ i \in Held
  BY Leased
<1>2. PICK l \in Lanes : l = reg[r].lane
  BY Leased
<1>3. PICK n \in Slots \cup {END} : n = free
  BY RoomFacts
<1>4. PICK f : f = Front(t, l)
  OBVIOUS
<1>5. /\ kind = "fifo" /\ ~ Linked(i) /\ f # END /\ free' = i /\ held' = held
      /\ t' = Rewritten(FrontRemoved(Rewritten(t, i, n), l, FALSE), f, END) /\ Fill(f, None)
  BY <1>1, <1>2, <1>3, <1>4 DEF RemoveAndPass, Recycled, Idle, Idled, Rewritten
<1>6. ~ Waits(InLanes, i)
  BY <1>1, <1>5, RoomLinked
<1>7. f \in Slots /\ Stands(InLanes[l], f) /\ f \in Held /\ f # i
  BY <1>0, <1>4, <1>5, <1>6, FrontIn, WaiterHas DEF Waits
<1>8. /\ Kepts /\ t'.hook.next[i] = n /\ t'.hook.next[f] = END
       /\ Gone(InLanes, InLanes', f) /\ SameElsewhere(t, t', InLanes, InLanes', {i, f})
  <2>1. Kept(t, Slots, InLanes, InTurn)
    BY <1>0
  <2>2. Front(t, l) # END /\ t' = Rewritten(FrontRemoved(Rewritten(t, i, n), l, FALSE), Front(t, l), END)
    BY <1>4, <1>5
  <2>3. /\ Kepts /\ t'.hook.next[i] = n /\ t'.hook.next[Front(t, l)] = END
        /\ Gone(InLanes, InLanes', Front(t, l)) /\ SameElsewhere(t, t', InLanes, InLanes', {i, Front(t, l)})
    BY ONLY <2>1, <2>2, <1>6, PassTable
  <2> QED BY <1>4, <2>3
<1>9. PICK M : M = {i, f}
  OBVIOUS
<1>10. SameElsewhere(t, t', InLanes, InLanes', M)
  BY <1>8, <1>9
<1>11. \A k \in Lanes : \A j : Stands(InLanes'[k], j) => Stands(InLanes[k], j) /\ j \notin M
  BY <1>6, <1>8, <1>9 DEF Gone, Waits
<1>12. PICK v \in Regs \cup Grants \cup {None} : v = None
  OBVIOUS
<1>13. /\ payload' \in [Slots -> Regs \cup Grants \cup {None}]
       /\ \A j \in Slots : j # f => payload'[j] = payload[j]
  BY <1>5, <1>7, <1>12, Filled
<1>14. /\ Kept(t, Slots, InLanes, InTurn)' /\ Vacancies' /\ OneLease' /\ Waiters'
       /\ reg' \in [Regs -> [slot : Slots, lane : Lanes] \cup {None}]
       /\ Parking' \ M = Parking \ M /\ i \notin Parking'
  <2>1. \A j \in Slots \ M : payload'[j] = payload[j]
    BY <1>9, <1>13
  <2>2. M \subseteq Held /\ i \in M
    BY <1>1, <1>7, <1>9
  <2> QED BY <1>1, <1>3, <1>5, <1>10, <1>8, <1>11, <2>1, <2>2, SlotReturned
<1>15. RoomTyped'
  BY <1>5, <1>13, <1>14, RoomFacts DEF RoomTyped
<1>16. GrantsParked'
  <2>1. Parking = {}
    BY <1>5, RoomFacts
  <2>2. ~ ParkedAt(f)'
    BY <1>0, <1>7, <1>8, <1>14, ParkedNow
  <2>3. Parking' = Parking
    BY <1>9, <1>14, <2>1, <2>2 DEF Parking
  <2> QED BY <1>5, <2>1, <2>3, GrantsSame
<1> QED BY <1>8, <1>14, <1>15, <1>16 DEF RoomInv

-----------------------------------------------------------------------------
(* Waiting rooms: the steps.                                               *)

\* Everything stays but whether the owner drains.
LEMMA RoomSame ==
  ASSUME RoomInv, UNCHANGED <<kind, t, free, payload, reg, held>>, draining' \in BOOLEAN
  PROVE  RoomInv' /\ Kepts
<1>1. Kepts /\ InLanes' = InLanes
  BY SameTable, RoomFacts
<1>2. Held' = Held /\ OneLease' /\ reg' \in [Regs -> [slot : Slots, lane : Lanes] \cup {None}]
  BY SameLeases
<1>3. RoomTyped'
  BY <1>2, RoomFacts DEF RoomTyped
<1>4. Vacancies'
  <2>1. FreeOrder' = FreeOrder
    BY DEF FreeOrder
  <2> QED BY <1>2, <2>1 DEF RoomInv, Vacancies
<1>5. Waiters'
  BY <1>1 DEF RoomInv, Waiters, Lease
<1>6. GrantsParked'
  <2>1. \A i : ParkedAt(i)' <=> ParkedAt(i)
    BY DEF ParkedAt
  <2>2. Parking' = Parking
    BY <1>2, <2>1 DEF Parking
  <2> QED BY <2>2, GrantsSame
<1> QED BY <1>1, <1>2, <1>3, <1>4, <1>5, <1>6 DEF RoomInv, Kepts

\* The front of the lane whose turn it is is taken.
LEMMA TakeTurnSteps ==
  ASSUME RoomInv, t.ring[0] # END, NEW rotate \in BOOLEAN, Take(t.ring[0], rotate),
         UNCHANGED <<kind, free, reg, held>>, draining' \in BOOLEAN
  PROVE  RoomInv' /\ Kepts
<1>1. 0 \in Groups
  BY LanesAreIndices DEF Groups
<1>2. t.ring[0] \in Lanes /\ Front(t, t.ring[0]) # END
  BY <1>1, RoomFacts, TurnFront
<1> QED BY <1>2, TakeSteps

\* Every step of Resident keeps the invariant and the promise.
LEMMA RoomStep ==
  ASSUME RoomInv, RoomNext
  PROVE  RoomInv' /\ Kepts
<1>0. draining \in BOOLEAN
  BY RoomFacts
<1>1. ASSUME NEW r \in Regs, NEW l \in Lanes, TryKeep(r, l) PROVE RoomInv' /\ Kepts
  BY <1>1, RelinkSteps, RegisterSteps DEF TryKeep
<1>2. ASSUME NEW r \in Regs, Active(r), RemoveParked(r), reg' = [reg EXCEPT ![r] = None], UNCHANGED <<kind, draining>>
      PROVE  RoomInv' /\ Kepts
  <2>1. PICK i : i = reg[r].slot
    OBVIOUS
  <2>2. ParkedAt(i) /\ Recycle(t, i) /\ held' = held \cup {payload[i]} /\ Fill(i, None)
    BY <1>2, <2>1 DEF RemoveParked
  <2> QED BY <1>2, <2>1, <2>2, ParkedSteps
<1>3. ASSUME NEW r \in Regs, TakeGrant(r) PROVE RoomInv' /\ Kepts
  <2>1. PICK i : i = reg[r].slot
    OBVIOUS
  <2>2. ParkedAt(i) /\ Recycle(t, i) /\ held' = held \cup {payload[i]} /\ Fill(i, None)
    BY <1>3, <2>1 DEF TakeGrant
  <2>3. Active(r) /\ reg' = [reg EXCEPT ![r] = None] /\ UNCHANGED <<kind, draining>>
    BY <1>3 DEF TakeGrant
  <2> QED BY <2>1, <2>2, <2>3, ParkedSteps
<1>4. ASSUME NEW r \in Regs, Cancel(r) \/ Drop(r) PROVE RoomInv' /\ Kepts
  <2>1. /\ Active(r) /\ reg' = [reg EXCEPT ![r] = None] /\ UNCHANGED <<kind, draining>>
        /\ RemoveLinked(r) \/ RemoveParked(r) \/ RemoveEmpty(r) \/ RemoveAndPass(r)
    BY <1>4 DEF Cancel, Drop
  <2> QED BY <1>2, <2>1, LinkedSteps, EmptySteps, PassSteps
<1>5. ASSUME NEW l \in Lanes, TakeOne(l) PROVE RoomInv' /\ Kepts
  <2>1. PICK rotate \in BOOLEAN : rotate = FALSE
    OBVIOUS
  <2>2. Front(t, l) # END /\ Take(l, rotate) /\ UNCHANGED <<kind, free, reg, held>> /\ draining' = draining
    BY <1>5, <2>1 DEF TakeOne
  <2> QED BY <1>0, <2>2, TakeSteps
<1>6. ASSUME NEW l \in Lanes, NEW g \in held, OfferOne(l, g) PROVE RoomInv' /\ Kepts
  BY <1>6, OfferSteps
<1>7. ASSUME TakeNext PROVE RoomInv' /\ Kepts
  <2>1. PICK rotate \in BOOLEAN : rotate = TRUE
    OBVIOUS
  <2>2. /\ t.ring[0] # END /\ Take(t.ring[0], rotate) /\ UNCHANGED <<kind, free, reg, held>> /\ draining' = draining
    BY <1>7, <2>1 DEF TakeNext
  <2> QED BY <1>0, <2>2, TakeTurnSteps
<1>8. ASSUME BeginDrain PROVE RoomInv' /\ Kepts
  BY <1>8, RoomSame DEF BeginDrain
<1>9. ASSUME DrainNext PROVE RoomInv' /\ Kepts
  <2>1. CASE t.ring[0] = END
    BY <1>9, <2>1, RoomSame DEF DrainNext
  <2>2. CASE t.ring[0] # END
    <3>1. PICK rotate \in BOOLEAN : rotate = FALSE
      OBVIOUS
    <3>2. Take(t.ring[0], rotate) /\ UNCHANGED <<kind, free, reg, held>> /\ draining' = draining
      BY <1>9, <2>2, <3>1 DEF DrainNext
    <3> QED BY <1>0, <2>2, <3>2, TakeTurnSteps
  <2> QED BY <2>1, <2>2
<1> QED BY <1>1, <1>3, <1>4, <1>5, <1>6, <1>7, <1>8, <1>9 DEF RoomNext

\* A stuttering step keeps both.
LEMMA RoomStutter == ASSUME RoomInv, UNCHANGED RoomVars PROVE RoomInv' /\ Kepts
<1>1. UNCHANGED <<kind, t, free, payload, reg, held>> /\ draining' = draining
  BY DEF RoomVars
<1> QED BY <1>1, RoomFacts, RoomSame

-----------------------------------------------------------------------------
(* Waiting rooms: the first state.                                         *)

\* The free list is seeded with every slot, in the order of their indices.
LEMMA SeededStacked ==
  LET s == [k \in 1..Cardinality(Slots) |-> k - 1]
  IN /\ Seeded \in Plane(Slots) /\ \A i \in Slots : Seeded.previous[i] = i
     /\ Stacked(Seeded, IF 0 \in Slots THEN 0 ELSE END, s, Slots)
     /\ \A i : Stands(s, i) <=> i \in Slots
<1> DEFINE N == Cardinality(Slots)
<1>1. N \in Nat
  BY SlotsAreNodes, FS_CardinalityType
<1>2. Slots = 0..(N - 1)
  BY SlotsAreCounted
<1> HIDE DEF N
<1>3. PICK s : s = [k \in 1..N |-> k - 1]
  OBVIOUS
<1>4. s \in Seq(Slots) /\ Len(s) = N
  BY <1>1, <1>2, <1>3
<1>5. \A k \in 1..N : s[k] = k - 1 /\ s[k] \in Slots
  BY <1>1, <1>2, <1>3
<1>6. OneEach(s)
  BY <1>1, <1>4, <1>5 DEF OneEach
<1>7. \A i : Stands(s, i) <=> i \in Slots
  <2>1. ASSUME NEW i \in Slots PROVE i + 1 \in 1..N /\ s[i + 1] = i
    BY <1>1, <1>2, <1>5
  <2> QED BY <1>4, <1>5, <2>1 DEF Stands
<1>8. \A k \in 1..N : Seeded.next[s[k]] = IF k = N THEN END ELSE s[k + 1]
  <2> SUFFICES ASSUME NEW k \in 1..N PROVE Seeded.next[k - 1] = IF k = N THEN END ELSE s[k + 1]
    BY <1>5
  <2>1. k - 1 \in Slots /\ (k - 1) + 1 = k /\ (k \in Slots <=> k # N)
    BY <1>1, <1>2
  <2>2. Seeded.next[k - 1] = IF k \in Slots THEN k ELSE END
    BY <2>1 DEF Seeded
  <2>3. k # N => s[k + 1] = k
    BY <1>1, <1>5
  <2> QED BY <2>1, <2>2, <2>3
<1>9. (IF 0 \in Slots THEN 0 ELSE END) = IF s = <<>> THEN END ELSE s[1]
  <2>1. CASE N = 0
    <3>1. s = <<>> /\ 0 \notin Slots
      BY <1>2, <1>4, <2>1
    <3> QED BY <3>1
  <2>2. CASE N # 0
    <3>1. s # <<>> /\ 0 \in Slots /\ s[1] = 0
      BY <1>1, <1>2, <1>4, <1>5, <2>2
    <3> QED BY <3>1
  <2> QED BY <2>1, <2>2
<1>10. Stacked(Seeded, IF 0 \in Slots THEN 0 ELSE END, s, Slots)
  BY <1>4, <1>6, <1>8, <1>9 DEF Stacked
<1>11. Seeded \in Plane(Slots) /\ \A i \in Slots : Seeded.previous[i] = i
  BY DEF Seeded, Plane
<1> QED BY <1>3, <1>7, <1>10, <1>11 DEF N

\* The first states satisfy the invariant and the promise's.
LEMMA RoomStarts == RoomInit => RoomInv /\ Promise!Init
<1> SUFFICES ASSUME RoomInit PROVE RoomInv /\ Promise!Init
  OBVIOUS
<1>1. PICK s : s = [k \in 1..Cardinality(Slots) |-> k - 1]
  OBVIOUS
<1>2. PICK h : h = Seeded
  OBVIOUS
<1>3. /\ h \in Plane(Slots) /\ \A i \in Slots : h.previous[i] = i
      /\ Stacked(h, IF 0 \in Slots THEN 0 ELSE END, s, Slots)
      /\ \A i : Stands(s, i) <=> i \in Slots
  BY <1>1, <1>2, SeededStacked
<1>4. /\ t = Empty(h) /\ free = (IF 0 \in Slots THEN 0 ELSE END) /\ t.hook = h
  BY <1>2 DEF RoomInit, Empty
<1>5. Kept(t, Slots, NoLane, NoTurn) /\ \A i : ~ Waits(NoLane, i)
  BY <1>3, <1>4, KeptEmpty, SlotsAreNodes
<1>6. LaneOrder(t) = NoLane /\ TurnOrder(t) = NoTurn
  BY <1>5, OrdersAre, SlotsAreNodes DEF Kept
<1>7. InLanes = NoLane /\ InTurn = NoTurn
  BY <1>6 DEF InLanes, InTurn
<1>8. Held = {}
  BY DEF RoomInit, Held, Active
<1>9. FreeOrder = s
  BY <1>3, <1>4, StackIs, SlotsAreNodes DEF FreeOrder
<1>10. Vacancies
  BY <1>3, <1>4, <1>8, <1>9 DEF Vacancies
<1>11. RoomTyped /\ OneLease
  BY DEF RoomInit, RoomTyped, OneLease, Active
<1>12. Waiters
  BY <1>5, <1>7 DEF Waiters, Waits
<1>13. GrantsParked
  BY <1>8 DEF RoomInit, GrantsParked, Parking
<1>14. Promise!Init
  BY <1>6 DEF Promise!Init, NoLane, NoTurn
<1> QED BY <1>5, <1>7, <1>10, <1>11, <1>12, <1>13, <1>14 DEF RoomInv

-----------------------------------------------------------------------------
(* Waiting rooms: the theorems.                                            *)

\* The lanes, the free list, the leases and the parked grants of a waiting room
\* account for one another in every reachable state.
THEOREM RoomInvariant == RoomSpec => []RoomInv
<1>1. RoomInit => RoomInv
  BY RoomStarts
<1>2. RoomInv /\ [RoomNext]_RoomVars => RoomInv'
  BY RoomStep, RoomStutter
<1> QED BY <1>1, <1>2, PTL DEF RoomSpec

\* The invariant implies PayloadFollowsTopology.
LEMMA InvFollows == RoomInv => PayloadFollowsTopology
<1> SUFFICES ASSUME RoomInv PROVE PayloadFollowsTopology
  OBVIOUS
<1>1. \A r, q \in Regs : Active(r) /\ Active(q) /\ reg[r].slot = reg[q].slot => r = q
  BY RoomFacts DEF OneLease
<1>2. Stacked(t.hook, free, FreeOrder, Slots) /\ \A i : Stands(FreeOrder, i) <=> i \in Slots \ Held
  BY DEF RoomInv, Vacancies
<1>3. FreeSlots = Slots \ Held
  <2>1. FreeOrder \in Seq(Slots)
    BY <1>2 DEF Stacked
  <2>2. FreeSlots = {FreeOrder[k] : k \in DOMAIN FreeOrder}
    BY DEF FreeSlots, FreeOrder
  <2> QED BY <1>2, <2>1, <2>2 DEF Stands
<1>4. ASSUME NEW r \in Regs, Active(r)
      PROVE  /\ \A l \in Lanes : StandsIn(reg[r].slot, l) <=> Linked(reg[r].slot) /\ reg[r].lane = l
             /\ Linked(reg[r].slot) => payload[reg[r].slot] = r
             /\ ParkedAt(reg[r].slot) => payload[reg[r].slot] \in Grants
  <2>1. PICK i \in Slots : i = reg[r].slot /\ i \in Held /\ reg[r].lane \in Lanes
    BY <1>4, Leased
  <2>2. Linked(i) <=> Waits(InLanes, i)
    BY RoomLinked
  <2>3. ASSUME NEW l \in Lanes PROVE StandsIn(i, l) <=> Stands(InLanes[l], i)
    <3>1. InLanes[l] \in Seq(Slots)
      BY RoomFacts DEF Table, Chained
    <3> QED BY <3>1 DEF StandsIn, Stands, InLanes
  <2>4. ASSUME NEW l \in Lanes, Stands(InLanes[l], i) PROVE reg[r].lane = l
    <3>1. PICK q \in Regs : Active(q) /\ reg[q] = Lease(i, l)
      BY <2>4, WaiterHas
    <3>2. reg[q].slot = i /\ reg[q].lane = l
      BY <3>1 DEF Lease
    <3> QED BY <1>1, <1>4, <2>1, <3>1, <3>2
  <2>5. Waits(InLanes, i) => Stands(InLanes[reg[r].lane], i) /\ payload[i] = r
    BY <1>4, <2>1, WaitsWhere
  <2>6. ParkedAt(i) => payload[i] \in Grants
    BY <2>1 DEF RoomInv, GrantsParked, Parking
  <2>7. \A l \in Lanes : StandsIn(i, l) <=> Linked(i) /\ reg[r].lane = l
    BY <2>2, <2>3, <2>4, <2>5 DEF Waits
  <2> QED BY <2>1, <2>2, <2>5, <2>6, <2>7
<1>5. \A g \in Grants \ held : \E i \in Held : ParkedAt(i) /\ payload[i] = g
  BY DEF RoomInv, GrantsParked, Parking
<1>6. ASSUME NEW i \in Slots, ParkedAt(i) PROVE payload[i] \notin held
  <2>1. t.hook.next[i] = i
    BY <1>6 DEF ParkedAt, IsParked
  <2>2. i \in Held
    <3> SUFFICES ASSUME Stands(FreeOrder, i) PROVE FALSE
      BY <1>2
    <3>1. PICK k \in 1..Len(FreeOrder) : FreeOrder[k] = i
      BY DEF Stands
    <3>2. i = IF k = Len(FreeOrder) THEN END ELSE FreeOrder[k + 1]
      BY <1>2, <2>1, <3>1 DEF Stacked
    <3>3. k # Len(FreeOrder) /\ FreeOrder[k + 1] = FreeOrder[k]
      BY <3>1, <3>2, SlotsAreNodes
    <3>4. k + 1 \in 1..Len(FreeOrder) /\ k + 1 # k
      <4>1. Len(FreeOrder) \in Nat
        BY <1>2 DEF Stacked
      <4> QED BY <3>3, <4>1
    <3> QED BY <1>2, <3>3, <3>4 DEF Stacked, OneEach
  <2> QED BY <1>6, <2>2 DEF RoomInv, GrantsParked, Parking
<1> QED BY <1>1, <1>3, <1>4, <1>5, <1>6 DEF PayloadFollowsTopology

\* Every slot and every grant has one owner, and what a slot's untagged union
\* holds is what its hook says: the registration
\* that waits, the grant that is parked, or nothing.
THEOREM RoomsFollow == RoomSpec => []PayloadFollowsTopology
BY RoomInvariant, InvFollows, PTL

\* A waiting room keeps the round's promise, whoever cancels, is dropped, parked,
\* moved or drained.
THEOREM RoomsFair == RoomSpec => ImplementsFairLanes
<1>1. RoomInit => Promise!Init
  BY RoomStarts
<1>2. RoomInv /\ [RoomNext]_RoomVars => [Promise!Next]_(Promise!vars)
  BY RoomStep, RoomStutter DEF Kepts, Promise!vars, InLanes, InTurn
<1> QED BY <1>1, <1>2, RoomInvariant, PTL DEF RoomSpec, ImplementsFairLanes, Promise!Spec
=============================================================================
