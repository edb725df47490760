---------------------------- MODULE LinksProofs ----------------------------
(***************************************************************************)
(* Reciprocity and order of every list on one plane of hooks, for every    *)
(* capacity and every number of chains, cycles and lists.                  *)
(*                                                                         *)
(* The lists are disjoint sets of hooks, so each operation is first shown  *)
(* to keep the list it works on well formed as a statement about Hooks     *)
(* alone (ChainOK, RingOK, ListOK, FreeOK over a set M of members), and    *)
(* a frame lemma keeps the others.  Reciprocal is not inductive: an edge   *)
(* written on both sides does not exclude a hook that names itself, which  *)
(* try_unpark would take for a parked one.  Chains and lists are therefore *)
(* also ordered: some rank grows along next.                               *)
(*                                                                         *)
(* The orders are proved apart, over the same invariant: there is for each *)
(* list a sequence that its words spell (Told), what an operation does to  *)
(* the sequences is what Orders promises, and the sequences are what Walk  *)
(* reads.                                                                  *)
(***************************************************************************)
EXTENDS Links, HooksProofs, Integers, FiniteSetTheorems, TLAPS

AnsweredIn(M, h, i) ==
  /\ h.previous[i] # END => h.previous[i] \in M /\ h.next[h.previous[i]] = i
  /\ h.next[i] # END => h.next[i] \in M /\ h.previous[h.next[i]] = i

Ordered(h, M) ==
  \E rank \in [Nodes -> Int] :
    \A i \in M : h.next[i] # END => rank[i] < rank[h.next[i]]

ChainOK(h, k, M) ==
  /\ k.first = END <=> k.last = END
  /\ k.first # END => k.first \in M /\ h.previous[k.first] = END
  /\ k.last # END => k.last \in M /\ h.next[k.last] = END
  /\ \A i \in M : /\ AnsweredIn(M, h, i)
                  /\ h.previous[i] = END => k.first = i
                  /\ h.next[i] = END => k.last = i
  /\ Ordered(h, M)

ListOK(h, head, M) ==
  /\ head # END => head \in M /\ h.previous[head] = END
  /\ \A i \in M : AnsweredIn(M, h, i) /\ (h.previous[i] = END => head = i)
  /\ Ordered(h, M)

RingOK(h, ring_, M) ==
  /\ ring_ # END => ring_ \in M
  /\ \A i \in M : /\ AnsweredIn(M, h, i)
                  /\ h.previous[i] = END <=> h.next[i] = END
                  /\ h.next[i] # i

\* A free list is threaded through next alone, and no hook is threaded twice.
FreeOK(h, head, M) ==
  /\ head # END => head \in M
  /\ \A i \in M : h.next[i] # END =>
       /\ h.next[i] \in M /\ h.next[i] # head
       /\ \A j \in M : h.next[j] = h.next[i] => j = i

SameWords(g, h, M) == \A i \in M : g.previous[i] = h.previous[i] /\ g.next[i] = h.next[i]

-----------------------------------------------------------------------------
(* One list. *)

LEMMA PlaneTypes ==
  ASSUME NEW h \in Plane(Nodes)
  PROVE  /\ DOMAIN h.previous = Nodes /\ DOMAIN h.next = Nodes
         /\ h.previous \in [Nodes -> Words] /\ h.next \in [Nodes -> Words]
         /\ END \notin Nodes
BY CapacityAssumption DEF Plane, Words

\* g is h after at most one next word and one previous word were written.
Wrote(g, h, i, n, j, p) ==
  /\ g \in Plane(Nodes)
  /\ \A m \in Nodes : /\ g.next[m] = IF m = i THEN n ELSE h.next[m]
                      /\ g.previous[m] = IF m = j THEN p ELSE h.previous[m]

LEMMA SetHookWrites ==
  ASSUME NEW h \in Plane(Nodes), NEW i \in Nodes, NEW p \in Words, NEW n \in Words
  PROVE  Wrote(SetHook(h, i, p, n), h, i, n, i, p)
BY DEF Wrote, SetHook, Plane, Words

LEMMA PutNextWrites ==
  ASSUME NEW h \in Plane(Nodes), NEW i \in Words, NEW n \in Words
  PROVE  Wrote(PutNext(h, i, n), h, i, n, END, END)
BY CapacityAssumption DEF Wrote, PutNext, Plane, Words

LEMMA PutPreviousWrites ==
  ASSUME NEW h \in Plane(Nodes), NEW j \in Words, NEW p \in Words
  PROVE  Wrote(PutPrevious(h, j, p), h, END, END, j, p)
BY CapacityAssumption DEF Wrote, PutPrevious, Plane, Words

\* Joining two hooks, on both sides.
LEMMA JoinWrites ==
  ASSUME NEW h \in Plane(Nodes), NEW i \in Words, NEW n \in Words, NEW j \in Words, NEW p \in Words
  PROVE  Wrote(PutPrevious(PutNext(h, i, n), j, p), h, i, n, j, p)
<1> DEFINE o == PutNext(h, i, n)
<1>1. Wrote(o, h, i, n, END, END)
  BY PutNextWrites
<1> HIDE DEF o
<1>2. o \in Plane(Nodes)
  BY <1>1 DEF Wrote
<1>3. Wrote(PutPrevious(o, j, p), o, END, END, j, p)
  BY <1>2, PutPreviousWrites
<1> QED
  BY <1>1, <1>3, CapacityAssumption DEF Wrote, o

\* What a list needs of its plane are the words of its members.
LEMMA OrderedKept ==
  ASSUME NEW g, NEW h, NEW M, SameWords(g, h, M), Ordered(h, M)
  PROVE  Ordered(g, M)
BY DEF SameWords, Ordered

LEMMA ChainKept ==
  ASSUME NEW g, NEW h, NEW k, NEW M, SameWords(g, h, M), ChainOK(h, k, M)
  PROVE  ChainOK(g, k, M)
<1>1. Ordered(g, M)
  BY OrderedKept DEF ChainOK
<1> QED
  BY <1>1 DEF SameWords, ChainOK, AnsweredIn

LEMMA ListKept ==
  ASSUME NEW g, NEW h, NEW f, NEW M, SameWords(g, h, M), ListOK(h, f, M)
  PROVE  ListOK(g, f, M)
<1>1. Ordered(g, M)
  BY OrderedKept DEF ListOK
<1> QED
  BY <1>1 DEF SameWords, ListOK, AnsweredIn

LEMMA RingKept ==
  ASSUME NEW g, NEW h, NEW f, NEW M, SameWords(g, h, M), RingOK(h, f, M)
  PROVE  RingOK(g, f, M)
BY DEF SameWords, RingOK, AnsweredIn

LEMMA FreeKept ==
  ASSUME NEW g, NEW h, NEW f, NEW M, SameWords(g, h, M), FreeOK(h, f, M)
  PROVE  FreeOK(g, f, M)
BY DEF SameWords, FreeOK

\* No member of an ordered list names itself.
LEMMA NoSelf ==
  ASSUME NEW h \in Plane(Nodes), NEW M \in SUBSET Nodes, Ordered(h, M), NEW i \in M, AnsweredIn(M, h, i)
  PROVE  h.next[i] # i /\ h.previous[i] # i
<1>1. PICK rank \in [Nodes -> Int] : \A j \in M : h.next[j] # END => rank[j] < rank[h.next[j]]
  BY DEF Ordered
<1>2. h.next[i] # i
  BY <1>1, CapacityAssumption
<1> QED
  BY <1>2, CapacityAssumption DEF AnsweredIn

-----------------------------------------------------------------------------
(* Chains. *)

\* What Insert::commit writes.
LEMMA PushedWrites ==
  ASSUME NEW h \in Plane(Nodes), NEW k \in Ends, NEW i \in Nodes, k.last # i
  PROVE  /\ Pushed(h, k, i).hook \in Plane(Nodes)
         /\ Pushed(h, k, i).chain \in Ends
         /\ Pushed(h, k, i).chain.last = i
         /\ Pushed(h, k, i).chain.first = IF k.last = END THEN i ELSE k.first
         /\ Pushed(h, k, i).hook.previous[i] = k.last
         /\ Pushed(h, k, i).hook.next[i] = END
         /\ \A j \in Nodes \ {i} :
              /\ Pushed(h, k, i).hook.previous[j] = h.previous[j]
              /\ Pushed(h, k, i).hook.next[j] = IF j = k.last THEN i ELSE h.next[j]
<1>0. i \in Words /\ END \in Words /\ k.first \in Words /\ k.last \in Words
  BY DEF Words, Ends
<1> DEFINE g == PutNext(h, k.last, i)
<1>1. Wrote(g, h, k.last, i, END, END)
  BY <1>0, PutNextWrites
<1>2. /\ Pushed(h, k, i).hook = SetHook(g, i, k.last, END)
      /\ Pushed(h, k, i).chain = [first |-> IF k.last = END THEN i ELSE k.first, last |-> i]
  BY DEF Pushed
<1> HIDE DEF g
<1>3. g \in Plane(Nodes)
  BY <1>1 DEF Wrote
<1>4. Wrote(Pushed(h, k, i).hook, g, i, END, i, k.last)
  BY <1>0, <1>2, <1>3, SetHookWrites
<1> QED
  BY <1>0, <1>1, <1>2, <1>4, CapacityAssumption DEF Ends, Wrote

LEMMA PushedOK ==
  ASSUME NEW h \in Plane(Nodes), NEW k \in Ends, NEW M \in SUBSET Nodes,
         NEW i \in Nodes \ M, ChainOK(h, k, M)
  PROVE  /\ Pushed(h, k, i).hook \in Plane(Nodes)
         /\ Pushed(h, k, i).chain \in Ends
         /\ ChainOK(Pushed(h, k, i).hook, Pushed(h, k, i).chain, M \cup {i})
         /\ SameWords(Pushed(h, k, i).hook, h, Nodes \ (M \cup {i}))
<1>0. k.last # i /\ END \notin Nodes /\ k.last \in Words /\ k.first \in Words
  BY CapacityAssumption DEF ChainOK, Ends
<1> DEFINE g == Pushed(h, k, i).hook
           c == Pushed(h, k, i).chain
<1>1. /\ g \in Plane(Nodes) /\ c \in Ends
      /\ c.last = i /\ c.first = IF k.last = END THEN i ELSE k.first
      /\ g.previous[i] = k.last /\ g.next[i] = END
      /\ \A j \in Nodes \ {i} : /\ g.previous[j] = h.previous[j]
                                /\ g.next[j] = IF j = k.last THEN i ELSE h.next[j]
  BY <1>0, PushedWrites
<1> HIDE DEF g, c
<1>2. SameWords(g, h, Nodes \ (M \cup {i}))
  BY <1>0, <1>1 DEF SameWords, ChainOK
<1>3. Ordered(g, M \cup {i})
  <2>1. PICK rank \in [Nodes -> Int] :
          \A j \in M : h.next[j] # END => rank[j] < rank[h.next[j]]
    BY DEF ChainOK, Ordered
  <2> DEFINE r == [rank EXCEPT ![i] = IF k.last = END THEN 0 ELSE rank[k.last] + 1]
  <2>2. r \in [Nodes -> Int]
    BY <1>0 DEF Words
  <2>3. ASSUME NEW j \in M \cup {i}, g.next[j] # END
        PROVE  r[j] < r[g.next[j]]
    <3>1. j \in M /\ j # i
      BY <1>1, <2>3
    <3>2. CASE j = k.last
      BY <1>0, <1>1, <3>1, <3>2
    <3>3. CASE j # k.last
      <4>1. g.next[j] = h.next[j] /\ h.next[j] \in M
        BY <1>1, <2>3, <3>1, <3>3 DEF ChainOK, AnsweredIn
      <4> QED
        BY <2>1, <2>3, <3>1, <4>1
    <3> QED
      BY <3>2, <3>3
  <2> HIDE DEF r
  <2> QED
    BY <2>2, <2>3 DEF Ordered
<1>4. ASSUME NEW j \in M \cup {i}
      PROVE  /\ AnsweredIn(M \cup {i}, g, j)
             /\ g.previous[j] = END => c.first = j
             /\ g.next[j] = END => c.last = j
  <2>1. CASE j = i
    BY <1>0, <1>1, <2>1 DEF ChainOK, AnsweredIn
  <2>2. CASE j \in M
    BY <1>0, <1>1, <2>2 DEF ChainOK, AnsweredIn
  <2> QED
    BY <2>1, <2>2
<1>5. /\ c.first = END <=> c.last = END
      /\ c.first # END => c.first \in M \cup {i} /\ g.previous[c.first] = END
      /\ c.last # END => c.last \in M \cup {i} /\ g.next[c.last] = END
  BY <1>0, <1>1 DEF ChainOK
<1>6. ChainOK(g, c, M \cup {i})
  BY <1>3, <1>4, <1>5 DEF ChainOK
<1> QED
  BY <1>1, <1>2, <1>6 DEF g, c

\* What Detach writes.
LEMMA UnlinkedWrites ==
  ASSUME NEW h \in Plane(Nodes), NEW k \in Ends, NEW i \in Nodes
  PROVE  /\ Wrote(Unlinked(h, k, i).hook, h, h.previous[i], h.next[i], h.next[i], h.previous[i])
         /\ Unlinked(h, k, i).chain \in Ends
         /\ Unlinked(h, k, i).chain.first = IF h.previous[i] = END THEN h.next[i] ELSE k.first
         /\ Unlinked(h, k, i).chain.last = IF h.next[i] = END THEN h.previous[i] ELSE k.last
<1>0. h.previous[i] \in Words /\ h.next[i] \in Words
  BY PlaneTypes
<1>1. /\ Unlinked(h, k, i).hook = PutPrevious(PutNext(h, h.previous[i], h.next[i]),
                                             h.next[i], h.previous[i])
      /\ Unlinked(h, k, i).chain = [first |-> IF h.previous[i] = END THEN h.next[i] ELSE k.first,
                                    last  |-> IF h.next[i] = END THEN h.previous[i] ELSE k.last]
  BY DEF Unlinked
<1>2. Wrote(Unlinked(h, k, i).hook, h, h.previous[i], h.next[i], h.next[i], h.previous[i])
  BY <1>0, <1>1, JoinWrites
<1> QED
  BY <1>0, <1>1, <1>2 DEF Ends

LEMMA UnlinkedOK ==
  ASSUME NEW h \in Plane(Nodes), NEW k \in Ends, NEW M \in SUBSET Nodes,
         NEW i \in M, ChainOK(h, k, M)
  PROVE  /\ Unlinked(h, k, i).hook \in Plane(Nodes)
         /\ Unlinked(h, k, i).chain \in Ends
         /\ ChainOK(Unlinked(h, k, i).hook, Unlinked(h, k, i).chain, M \ {i})
         /\ SameWords(Unlinked(h, k, i).hook, h, Nodes \ (M \ {i}))
<1> DEFINE g == Unlinked(h, k, i).hook
           c == Unlinked(h, k, i).chain
           p == h.previous[i]
           n == h.next[i]
<1>1. /\ g \in Plane(Nodes) /\ c \in Ends
      /\ c.first = IF p = END THEN n ELSE k.first
      /\ c.last = IF n = END THEN p ELSE k.last
      /\ \A j \in Nodes : /\ g.previous[j] = IF j = n THEN p ELSE h.previous[j]
                          /\ g.next[j] = IF j = p THEN n ELSE h.next[j]
  BY UnlinkedWrites DEF Wrote
<1>2. /\ p # END => p \in M /\ h.next[p] = i
      /\ n # END => n \in M /\ h.previous[n] = i
      /\ p = END => k.first = i
      /\ n = END => k.last = i
      /\ END \notin Nodes
  BY CapacityAssumption DEF ChainOK, AnsweredIn
<1>3. p # i /\ n # i
  BY NoSelf DEF ChainOK
<1> HIDE DEF g, c
<1>4. SameWords(g, h, Nodes \ (M \ {i}))
  BY <1>1, <1>2, <1>3 DEF SameWords
<1>5. Ordered(g, M \ {i})
  <2>1. PICK rank \in [Nodes -> Int] :
          \A j \in M : h.next[j] # END => rank[j] < rank[h.next[j]]
    BY DEF ChainOK, Ordered
  <2>2. ASSUME NEW j \in M \ {i}, g.next[j] # END
        PROVE  rank[j] < rank[g.next[j]]
    <3>1. CASE j = p
      <4>1. g.next[j] = n /\ n # END /\ h.next[j] = i
        BY <1>1, <1>2, <2>2, <3>1
      <4>2. rank[j] < rank[i] /\ rank[i] < rank[n]
        BY <2>1, <1>2, <4>1
      <4> QED
        BY <1>2, <4>1, <4>2
    <3>2. CASE j # p
      BY <1>1, <2>1, <2>2, <3>2
    <3> QED
      BY <3>1, <3>2
  <2> QED
    BY <2>2 DEF Ordered
<1>6. ASSUME NEW j \in M \ {i}
      PROVE  /\ AnsweredIn(M \ {i}, g, j)
             /\ g.previous[j] = END => c.first = j
             /\ g.next[j] = END => c.last = j
  <2>1. AnsweredIn(M, h, j) /\ (h.previous[j] = END => k.first = j) /\ (h.next[j] = END => k.last = j)
    BY DEF ChainOK
  <2> QED
    BY <1>1, <1>2, <1>3, <2>1 DEF AnsweredIn
<1>7. /\ c.first = END <=> c.last = END
      /\ c.first # END => c.first \in M \ {i} /\ g.previous[c.first] = END
      /\ c.last # END => c.last \in M \ {i} /\ g.next[c.last] = END
  BY <1>1, <1>2, <1>3 DEF ChainOK
<1>8. ChainOK(g, c, M \ {i})
  BY <1>5, <1>6, <1>7 DEF ChainOK
<1> QED
  BY <1>1, <1>4, <1>8 DEF g, c

\* Pop::apply removes the first hook as Detach would.
LEMMA PoppedIsUnlinked ==
  ASSUME NEW h \in Plane(Nodes), NEW k \in Ends, NEW M \in SUBSET Nodes,
         ChainOK(h, k, M), k.first # END
  PROVE  Popped(h, k) = Unlinked(h, k, k.first)
<1>1. h.previous[k.first] = END
  BY DEF ChainOK
<1> QED
  BY <1>1 DEF Popped, Unlinked, PutNext

\* Restoring what was just detached puts every word back.
LEMMA RestoredOK ==
  ASSUME NEW h \in Plane(Nodes), NEW k \in Ends, NEW M \in SUBSET Nodes,
         NEW i \in M, ChainOK(h, k, M),
         NEW g, g = Unlinked(h, k, i).hook, NEW c, c = Unlinked(h, k, i).chain,
         NEW p, p = h.previous[i], NEW n, n = h.next[i]
  PROVE  /\ Restored(g, c, i).hook \in Plane(Nodes)
         /\ Restored(g, c, i).chain \in Ends
         /\ ChainOK(Restored(g, c, i).hook, Restored(g, c, i).chain, M)
         /\ SameWords(Restored(g, c, i).hook, h, Nodes)
<1>1. /\ g \in Plane(Nodes) /\ c \in Ends
      /\ c.first = IF p = END THEN n ELSE k.first
      /\ c.last = IF n = END THEN p ELSE k.last
      /\ \A j \in Nodes : /\ g.previous[j] = IF j = n THEN p ELSE h.previous[j]
                          /\ g.next[j] = IF j = p THEN n ELSE h.next[j]
  BY UnlinkedWrites DEF Wrote
<1>2. /\ p # END => p \in M /\ h.next[p] = i
      /\ n # END => n \in M /\ h.previous[n] = i
      /\ p = END => k.first = i
      /\ n = END => k.last = i
  BY DEF ChainOK, AnsweredIn
<1>3. p # i /\ n # i /\ p \in Words /\ n \in Words /\ i \in Words /\ END \notin Nodes
  BY NoSelf, PlaneTypes DEF ChainOK, Words
<1>4. g.previous[i] = p /\ g.next[i] = n
  BY <1>1, <1>3
<1>6. /\ Restored(g, c, i).hook = PutPrevious(PutNext(g, p, i), n, i)
      /\ Restored(g, c, i).chain = [first |-> IF p = END THEN i ELSE c.first,
                                    last  |-> IF n = END THEN i ELSE c.last]
  BY <1>4 DEF Restored
<1>7. PICK q : q = PutPrevious(PutNext(g, p, i), n, i)
  OBVIOUS
<1>8. q \in Plane(Nodes) /\ SameWords(q, h, Nodes)
  <2>1. Wrote(q, g, p, i, n, i)
    BY <1>1, <1>3, <1>7, JoinWrites
  <2> QED
    BY <1>1, <1>2, <1>3, <2>1 DEF SameWords, Wrote
<1>9. [first |-> IF p = END THEN i ELSE c.first, last |-> IF n = END THEN i ELSE c.last] = k
  BY <1>1, <1>2 DEF Ends
<1>10. ChainOK(q, k, M)
  <2>1. SameWords(q, h, M)
    BY <1>8 DEF SameWords
  <2> QED
    BY <2>1, ChainKept
<1> QED
  BY <1>6, <1>7, <1>8, <1>9, <1>10

LEMMA SplicedOK ==
  ASSUME NEW h \in Plane(Nodes), NEW t \in Ends, NEW s \in Ends,
         NEW T \in SUBSET Nodes, NEW S \in SUBSET Nodes, T \cap S = {},
         ChainOK(h, t, T), ChainOK(h, s, S), s.first # END
  PROVE  /\ Spliced(h, t, s).hook \in Plane(Nodes)
         /\ Spliced(h, t, s).chain \in Ends
         /\ ChainOK(Spliced(h, t, s).hook, Spliced(h, t, s).chain, T \cup S)
         /\ SameWords(Spliced(h, t, s).hook, h, Nodes \ (T \cup S))
<1>0. /\ END \notin Nodes
      /\ t.first \in Words /\ t.last \in Words /\ s.first \in S /\ s.last \in S
      /\ s.first \in Words /\ s.last \in Words /\ h.previous[s.first] = END
      /\ t.last # END => t.last \in T /\ h.next[t.last] = END
  BY CapacityAssumption DEF ChainOK, Ends, Words
<1>1. PICK rt \in [Nodes -> Int] : \A j \in T : h.next[j] # END => rt[j] < rt[h.next[j]]
  BY DEF ChainOK, Ordered
<1>2. PICK rs \in [Nodes -> Int] : \A j \in S : h.next[j] # END => rs[j] < rs[h.next[j]]
  BY DEF ChainOK, Ordered
<1> DEFINE g == Spliced(h, t, s).hook
           c == Spliced(h, t, s).chain
<1>3. /\ g \in Plane(Nodes) /\ c \in Ends
      /\ c.last = s.last /\ c.first = IF t.last = END THEN s.first ELSE t.first
      /\ \A j \in Nodes :
           /\ g.previous[j] = IF j = s.first /\ t.last # END THEN t.last ELSE h.previous[j]
           /\ g.next[j] = IF j = t.last THEN s.first ELSE h.next[j]
  <2>2. c = [first |-> IF t.last = END THEN s.first ELSE t.first, last |-> s.last]
    BY DEF Spliced
  <2>3. c \in Ends
    BY <1>0, <2>2 DEF Ends
  <2>4. CASE t.last = END
    BY <1>0, <2>2, <2>3, <2>4 DEF Spliced
  <2>5. CASE t.last # END
    <3>1. g = PutPrevious(PutNext(h, t.last, s.first), s.first, t.last)
      BY <2>5 DEF Spliced
    <3>2. Wrote(g, h, t.last, s.first, s.first, t.last)
      BY <1>0, <3>1, JoinWrites
    <3> QED
      BY <2>2, <2>3, <2>5, <3>2 DEF Wrote
  <2> QED
    BY <2>4, <2>5
<1> HIDE DEF g, c
<1>4. SameWords(g, h, Nodes \ (T \cup S))
  BY <1>0, <1>3 DEF SameWords
<1>5. Ordered(g, T \cup S)
  <2> DEFINE shift == IF t.last = END THEN 0 ELSE rt[t.last] - rs[s.first] + 1
             r == [j \in Nodes |-> IF j \in S THEN rs[j] + shift ELSE rt[j]]
  <2>1. shift \in Int
    BY <1>0
  <2>2. t.last # END => rs[s.first] + shift = rt[t.last] + 1
    BY <1>0
  <2> HIDE DEF shift
  <2>3. r \in [Nodes -> Int] /\ \A j \in Nodes : r[j] = IF j \in S THEN rs[j] + shift ELSE rt[j]
    BY <2>1
  <2> HIDE DEF r
  <2>4. ASSUME NEW j \in T \cup S, g.next[j] # END
        PROVE  r[j] < r[g.next[j]]
    <3>1. CASE j = t.last
      <4>1. g.next[j] = s.first /\ j \in T /\ j \notin S
        BY <1>0, <1>3, <3>1
      <4>2. r[j] = rt[t.last] /\ r[s.first] = rs[s.first] + shift /\ rt[t.last] \in Int
        BY <1>0, <2>3, <3>1, <4>1
      <4> QED
        BY <1>0, <2>2, <3>1, <4>1, <4>2
    <3>2. CASE j # t.last /\ j \in T
      <4>1. g.next[j] = h.next[j] /\ h.next[j] \in T
        BY <1>3, <2>4, <3>2 DEF ChainOK, AnsweredIn
      <4> QED
        BY <1>1, <2>3, <2>4, <3>2, <4>1
    <3>3. CASE j # t.last /\ j \in S
      <4>1. g.next[j] = h.next[j] /\ h.next[j] \in S
        BY <1>3, <2>4, <3>3 DEF ChainOK, AnsweredIn
      <4>2. rs[j] < rs[h.next[j]] /\ rs[j] \in Int /\ rs[h.next[j]] \in Int
        BY <1>2, <2>4, <3>3, <4>1
      <4> QED
        BY <2>1, <2>3, <3>3, <4>1, <4>2
    <3> QED
      BY <3>1, <3>2, <3>3
  <2> QED
    BY <2>3, <2>4 DEF Ordered
<1>6. ASSUME NEW j \in T \cup S
      PROVE  /\ AnsweredIn(T \cup S, g, j)
             /\ g.previous[j] = END => c.first = j
             /\ g.next[j] = END => c.last = j
  <2>1. CASE j \in T
    <3>1. /\ AnsweredIn(T, h, j)
          /\ h.previous[j] = END => t.first = j
          /\ h.next[j] = END => t.last = j
          /\ t.first = END <=> t.last = END
      BY <2>1 DEF ChainOK
    <3> QED
      BY <1>0, <1>3, <2>1, <3>1 DEF AnsweredIn
  <2>2. CASE j \in S
    <3>1. /\ AnsweredIn(S, h, j)
          /\ h.previous[j] = END => s.first = j
          /\ h.next[j] = END => s.last = j
      BY <2>2 DEF ChainOK
    <3> QED
      BY <1>0, <1>3, <2>2, <3>1 DEF AnsweredIn
  <2> QED
    BY <2>1, <2>2
<1>7. /\ c.first # END /\ c.last # END
      /\ c.first \in T \cup S /\ g.previous[c.first] = END
      /\ c.last \in T \cup S /\ g.next[c.last] = END
  BY <1>0, <1>3 DEF ChainOK
<1>8. ChainOK(g, c, T \cup S)
  BY <1>5, <1>6, <1>7 DEF ChainOK
<1> QED
  BY <1>3, <1>4, <1>8 DEF g, c

-----------------------------------------------------------------------------
(* Lists, cycles and the free list. *)

LEMMA ListedOK ==
  ASSUME NEW h \in Plane(Nodes), NEW f \in Words, NEW M \in SUBSET Nodes,
         NEW i \in Nodes \ M, ListOK(h, f, M)
  PROVE  /\ Listed(h, f, i).hook \in Plane(Nodes)
         /\ Listed(h, f, i).list = i
         /\ ListOK(Listed(h, f, i).hook, i, M \cup {i})
         /\ SameWords(Listed(h, f, i).hook, h, Nodes \ (M \cup {i}))
<1>0. i \in Words /\ END \in Words /\ END \notin Nodes /\ f # i /\ (f # END => f \in M)
  BY CapacityAssumption DEF Words, ListOK
<1> DEFINE q == PutPrevious(h, f, i)
           g == Listed(h, f, i).hook
<1>1. Wrote(q, h, END, END, f, i)
  BY <1>0, PutPreviousWrites
<1>2. q \in Plane(Nodes)
  BY <1>1 DEF Wrote
<1>3. g = SetHook(q, i, END, f) /\ Listed(h, f, i).list = i
  BY DEF Listed
<1> HIDE DEF q
<1>4. Wrote(g, q, i, f, i, END)
  BY <1>0, <1>2, <1>3, SetHookWrites
<1> HIDE DEF g
<1>5. /\ g \in Plane(Nodes) /\ g.previous[i] = END /\ g.next[i] = f
      /\ \A j \in Nodes \ {i} : /\ g.next[j] = h.next[j]
                                /\ g.previous[j] = IF j = f THEN i ELSE h.previous[j]
  BY <1>0, <1>1, <1>4 DEF Wrote
<1>6. Ordered(g, M \cup {i})
  <2>1. PICK rank \in [Nodes -> Int] :
          \A j \in M : h.next[j] # END => rank[j] < rank[h.next[j]]
    BY DEF ListOK, Ordered
  <2> DEFINE r == [rank EXCEPT ![i] = IF f = END THEN 0 ELSE rank[f] - 1]
  <2>2. r \in [Nodes -> Int] /\ (f # END => r[i] = rank[f] - 1)
        /\ \A j \in Nodes \ {i} : r[j] = rank[j]
    BY <1>0
  <2> HIDE DEF r
  <2>3. ASSUME NEW j \in M \cup {i}, g.next[j] # END
        PROVE  r[j] < r[g.next[j]]
    <3>1. CASE j = i
      BY <1>0, <1>5, <2>2, <2>3, <3>1
    <3>2. CASE j # i
      <4>1. g.next[j] = h.next[j] /\ h.next[j] \in M
        BY <1>5, <2>3, <3>2 DEF ListOK, AnsweredIn
      <4> QED
        BY <2>1, <2>2, <2>3, <3>2, <4>1
    <3> QED
      BY <3>1, <3>2
  <2> QED
    BY <2>2, <2>3 DEF Ordered
<1>7. ASSUME NEW j \in M \cup {i}
      PROVE  AnsweredIn(M \cup {i}, g, j) /\ (g.previous[j] = END => i = j)
  <2>1. CASE j = i
    BY <1>0, <1>5, <2>1 DEF ListOK, AnsweredIn
  <2>2. CASE j # i
    <3>1. AnsweredIn(M, h, j) /\ (h.previous[j] = END => f = j)
      BY <2>2 DEF ListOK
    <3>2. f # END => h.previous[f] = END
      BY DEF ListOK
    <3> QED
      BY <1>0, <1>5, <2>2, <3>1, <3>2 DEF AnsweredIn
  <2> QED
    BY <2>1, <2>2
<1>8. ListOK(g, i, M \cup {i})
  BY <1>5, <1>6, <1>7 DEF ListOK
<1>9. SameWords(g, h, Nodes \ (M \cup {i}))
  BY <1>0, <1>5 DEF SameWords
<1> QED
  BY <1>3, <1>5, <1>8, <1>9 DEF g

\* What unlink_raw and Cycle::remove share: the neighbours p and n of i are
\* written, then i is left vacant.
Withdrew(g, h, i, p, b, n, a) ==
  /\ g \in Plane(Nodes) /\ g.previous[i] = i /\ g.next[i] = END
  /\ \A j \in Nodes \ {i} : /\ g.next[j] = IF j = p THEN b ELSE h.next[j]
                            /\ g.previous[j] = IF j = n THEN a ELSE h.previous[j]

LEMMA IdledWithdraws ==
  ASSUME NEW h \in Plane(Nodes), NEW i \in Nodes, NEW p \in Words, NEW n \in Words,
         NEW a \in Words, NEW b \in Words
  PROVE  Withdrew(Idled(PutPrevious(PutNext(h, p, b), n, a), i), h, i, p, b, n, a)
<1> DEFINE q == PutPrevious(PutNext(h, p, b), n, a)
<1>1. Wrote(q, h, p, b, n, a)
  BY JoinWrites
<1> HIDE DEF q
<1>2. q \in Plane(Nodes) /\ i \in Words /\ END \in Words
  BY <1>1 DEF Wrote, Words
<1>3. Wrote(SetHook(q, i, i, END), q, i, END, i, i)
  BY <1>2, SetHookWrites
<1> QED
  BY <1>1, <1>3 DEF Wrote, Withdrew, Idled, q

LEMMA UnlistedOK ==
  ASSUME NEW h \in Plane(Nodes), NEW f \in Words, NEW M \in SUBSET Nodes,
         NEW i \in M, ListOK(h, f, M)
  PROVE  LET out == Unlisted(h, f, i)
         IN /\ out.hook \in Plane(Nodes) /\ out.list \in Words
            /\ ListOK(out.hook, out.list, M \ {i})
            /\ SameWords(out.hook, h, Nodes \ M)
            /\ out.hook.previous[i] = i /\ out.hook.next[i] = END
<1> DEFINE p == h.previous[i]
           n == h.next[i]
           g == Unlisted(h, f, i).hook
           e == Unlisted(h, f, i).list
<1>1. /\ p # END => p \in M /\ h.next[p] = i
      /\ n # END => n \in M /\ h.previous[n] = i
      /\ p = END => f = i
      /\ END \notin Nodes
  BY CapacityAssumption DEF ListOK, AnsweredIn
<1>2. p # i /\ n # i /\ p \in Words /\ n \in Words
  BY NoSelf, PlaneTypes DEF ListOK
<1>3. g = Idled(PutPrevious(PutNext(h, p, n), n, p), i) /\ e = IF p = END THEN n ELSE f
  BY DEF Unlisted
<1>4. /\ g \in Plane(Nodes) /\ g.previous[i] = i /\ g.next[i] = END
      /\ \A j \in Nodes \ {i} : /\ g.next[j] = IF j = p THEN n ELSE h.next[j]
                                /\ g.previous[j] = IF j = n THEN p ELSE h.previous[j]
  <2>1. Withdrew(g, h, i, p, n, n, p)
    BY <1>2, <1>3, IdledWithdraws
  <2> QED
    BY <2>1 DEF Withdrew
<1> HIDE DEF g, e
<1>5. Ordered(g, M \ {i})
  <2>1. PICK rank \in [Nodes -> Int] :
          \A j \in M : h.next[j] # END => rank[j] < rank[h.next[j]]
    BY DEF ListOK, Ordered
  <2>2. ASSUME NEW j \in M \ {i}, g.next[j] # END
        PROVE  rank[j] < rank[g.next[j]]
    <3>1. CASE j = p
      <4>1. g.next[j] = n /\ n # END /\ h.next[j] = i
        BY <1>1, <1>4, <2>2, <3>1
      <4>2. rank[j] < rank[i] /\ rank[i] < rank[n]
        BY <2>1, <1>1, <4>1
      <4> QED
        BY <1>1, <4>1, <4>2
    <3>2. CASE j # p
      BY <1>4, <2>1, <2>2, <3>2
    <3> QED
      BY <3>1, <3>2
  <2> QED
    BY <2>2 DEF Ordered
<1>6. ASSUME NEW j \in M \ {i}
      PROVE  AnsweredIn(M \ {i}, g, j) /\ (g.previous[j] = END => e = j)
  <2>1. AnsweredIn(M, h, j) /\ (h.previous[j] = END => f = j)
    BY DEF ListOK
  <2>2. j \in Nodes \ {i} /\ g.next[j] = (IF j = p THEN n ELSE h.next[j])
        /\ g.previous[j] = IF j = n THEN p ELSE h.previous[j]
    BY <1>4
  <2>3. g.previous[j] # END => g.previous[j] \in M \ {i} /\ g.next[g.previous[j]] = j
    <3>1. CASE j = n
      BY <1>1, <1>2, <1>4, <2>2, <3>1
    <3>2. CASE j # n
      BY <1>1, <1>2, <1>4, <2>1, <2>2, <3>2 DEF AnsweredIn
    <3> QED
      BY <3>1, <3>2
  <2>4. g.next[j] # END => g.next[j] \in M \ {i} /\ g.previous[g.next[j]] = j
    <3>1. CASE j = p
      BY <1>1, <1>2, <1>4, <2>2, <3>1
    <3>2. CASE j # p
      BY <1>1, <1>2, <1>4, <2>1, <2>2, <3>2 DEF AnsweredIn
    <3> QED
      BY <3>1, <3>2
  <2>5. g.previous[j] = END => e = j
    BY <1>1, <1>2, <1>3, <2>1, <2>2
  <2> QED
    BY <2>3, <2>4, <2>5 DEF AnsweredIn
<1>7. e # END => e \in M \ {i} /\ g.previous[e] = END
  <2>1. CASE p = END
    BY <1>1, <1>2, <1>3, <1>4, <2>1
  <2>2. CASE p # END
    <3>1. e = f /\ (f # END => f \in M /\ h.previous[f] = END)
      BY <1>3, <2>2 DEF ListOK
    <3> QED
      BY <1>1, <1>2, <1>4, <2>2, <3>1
  <2> QED
    BY <2>1, <2>2
<1>8. ListOK(g, e, M \ {i}) /\ e \in Words
  BY <1>2, <1>3, <1>5, <1>6, <1>7 DEF ListOK
<1>9. SameWords(g, h, Nodes \ M)
  BY <1>1, <1>4 DEF SameWords
<1> QED
  BY <1>4, <1>8, <1>9 DEF g, e

LEMMA JoinedOK ==
  ASSUME NEW h \in Plane(Nodes), NEW f \in Words, NEW M \in SUBSET Nodes,
         NEW i \in Nodes \ M, RingOK(h, f, M)
  PROVE  LET out == Joined(h, f, i)
         IN /\ out.hook \in Plane(Nodes) /\ out.ring \in M \cup {i}
            /\ RingOK(out.hook, out.ring, M \cup {i})
            /\ SameWords(out.hook, h, Nodes \ (M \cup {i}))
<1> DEFINE g == Joined(h, f, i).hook
           e == Joined(h, f, i).ring
<1>0. i \in Words /\ END \in Words /\ END \notin Nodes
  BY CapacityAssumption DEF Words
<1>1. CASE f = END
  <2>1. g = SetHook(h, i, END, END) /\ e = i
    BY <1>1 DEF Joined
  <2>2. Wrote(g, h, i, END, i, END)
    BY <1>0, <2>1, SetHookWrites
  <2> HIDE DEF g, e
  <2>3. SameWords(g, h, Nodes \ {i})
    BY <2>2 DEF Wrote, SameWords
  <2>4. RingOK(g, f, M)
    <3>1. SameWords(g, h, M)
      BY <2>3 DEF SameWords
    <3> QED
      BY <3>1, RingKept
  <2>5. RingOK(g, e, M \cup {i})
    BY <1>0, <2>1, <2>2, <2>4 DEF RingOK, AnsweredIn, Wrote
  <2>6. SameWords(g, h, Nodes \ (M \cup {i})) /\ g \in Plane(Nodes)
    BY <2>2, <2>3 DEF SameWords, Wrote
  <2> QED
    BY <2>1, <2>5, <2>6 DEF g, e
<1>2. CASE f # END
  <2> DEFINE b == Back(h, f)
             q == SetHook(h, i, b, f)
  <2>1. /\ f \in M /\ b \in M
        /\ h.previous[f] = END => b = f /\ h.next[f] = END
        /\ h.previous[f] # END => b = h.previous[f] /\ h.next[b] = f /\ b # f
    BY <1>0, <1>2 DEF Back, RingOK, AnsweredIn
  <2>2. b \in Words /\ f \in Words /\ b # i /\ f # i
    BY <2>1 DEF Words
  <2>3. g = PutPrevious(PutNext(q, b, i), f, i) /\ e = f
    BY <1>2 DEF Joined
  <2> HIDE DEF b
  <2>4. Wrote(q, h, i, f, i, b)
    BY <2>2, SetHookWrites
  <2> HIDE DEF q
  <2>5. q \in Plane(Nodes)
    BY <2>4 DEF Wrote
  <2>6. Wrote(g, q, b, i, f, i)
    BY <1>0, <2>2, <2>3, <2>5, JoinWrites
  <2> HIDE DEF g, e
  <2>7. /\ g \in Plane(Nodes) /\ g.previous[i] = b /\ g.next[i] = f
        /\ \A j \in Nodes \ {i} : /\ g.next[j] = IF j = b THEN i ELSE h.next[j]
                                  /\ g.previous[j] = IF j = f THEN i ELSE h.previous[j]
    BY <2>2, <2>4, <2>6 DEF Wrote
  <2>8. ASSUME NEW j \in M \cup {i}
        PROVE  /\ AnsweredIn(M \cup {i}, g, j)
               /\ g.previous[j] = END <=> g.next[j] = END
               /\ g.next[j] # j
    <3>1. CASE j = i
      BY <1>0, <2>1, <2>2, <2>7, <3>1 DEF AnsweredIn
    <3>2. CASE j # i
      <4>1. /\ AnsweredIn(M, h, j)
            /\ h.previous[j] = END <=> h.next[j] = END
            /\ h.next[j] # j
        BY <3>2 DEF RingOK
      <4> QED
        BY <1>0, <2>1, <2>2, <2>7, <3>2, <4>1 DEF AnsweredIn
    <3> QED
      BY <3>1, <3>2
  <2>9. RingOK(g, e, M \cup {i})
    BY <2>1, <2>3, <2>8 DEF RingOK
  <2>10. SameWords(g, h, Nodes \ (M \cup {i}))
    BY <2>1, <2>7 DEF SameWords
  <2> QED
    BY <2>1, <2>3, <2>7, <2>9, <2>10 DEF g, e
<1> QED
  BY <1>1, <1>2

LEMMA LeftOK ==
  ASSUME NEW h \in Plane(Nodes), NEW f \in Words, NEW M \in SUBSET Nodes,
         NEW i \in M, RingOK(h, f, M)
  PROVE  LET out == Left(h, f, i)
         IN /\ out.hook \in Plane(Nodes) /\ out.ring \in Words
            /\ RingOK(out.hook, out.ring, M \ {i})
            /\ SameWords(out.hook, h, Nodes \ M)
            /\ out.hook.previous[i] = i /\ out.hook.next[i] = END
<1> DEFINE p == h.previous[i]
           n == h.next[i]
           g == Left(h, f, i).hook
           e == Left(h, f, i).ring
<1>0. i \in Words /\ END \in Words /\ END \notin Nodes /\ p \in Words /\ n \in Words
  BY CapacityAssumption, PlaneTypes DEF Words
<1>1. /\ p # END => p \in M /\ h.next[p] = i
      /\ n # END => n \in M /\ h.previous[n] = i
      /\ p = END <=> n = END
      /\ n # i /\ p # i
      /\ f # END => f \in M
  BY <1>0 DEF RingOK, AnsweredIn
<1>2. CASE n = END
  <2>1. g = SetHook(h, i, i, END) /\ e = END
    BY <1>2 DEF Left, Idled
  <2>2. Wrote(g, h, i, END, i, i)
    BY <1>0, <2>1, SetHookWrites
  <2> HIDE DEF g, e
  <2>3. /\ g \in Plane(Nodes) /\ g.previous[i] = i /\ g.next[i] = END
        /\ SameWords(g, h, Nodes \ {i})
    BY <2>2 DEF Wrote, SameWords
  <2>4. ASSUME NEW j \in M \ {i}
        PROVE  /\ AnsweredIn(M \ {i}, g, j)
               /\ g.previous[j] = END <=> g.next[j] = END
               /\ g.next[j] # j
    <3>1. /\ AnsweredIn(M, h, j)
          /\ h.previous[j] = END <=> h.next[j] = END
          /\ h.next[j] # j
      BY DEF RingOK
    <3> QED
      BY <1>0, <1>1, <1>2, <2>3, <3>1 DEF SameWords, AnsweredIn
  <2>5. RingOK(g, e, M \ {i})
    BY <2>1, <2>4, Zenon DEF RingOK
  <2>6. SameWords(g, h, Nodes \ M)
    BY <2>3 DEF SameWords
  <2> QED
    BY <1>0, <2>1, <2>3, <2>5, <2>6 DEF g, e
<1>3. CASE n # END
  <2> DEFINE a == IF p = n THEN END ELSE p
             b == IF p = n THEN END ELSE n
  <2>1. /\ g = Idled(PutPrevious(PutNext(h, p, b), n, a), i)
        /\ e = IF f = i THEN n ELSE f
    BY <1>3 DEF Left
  <2>2. a \in Words /\ b \in Words
    BY <1>0
  <2>3. Withdrew(g, h, i, p, b, n, a)
    BY <1>0, <2>1, <2>2, IdledWithdraws
  <2> HIDE DEF g, e
  <2>4. /\ g \in Plane(Nodes) /\ g.previous[i] = i /\ g.next[i] = END
        /\ \A j \in Nodes \ {i} :
             /\ g.next[j] = IF j = p THEN b ELSE h.next[j]
             /\ g.previous[j] = IF j = n THEN a ELSE h.previous[j]
    BY <2>3 DEF Withdrew
  <2>5. ASSUME NEW j \in M \ {i}
        PROVE  /\ AnsweredIn(M \ {i}, g, j)
               /\ g.previous[j] = END <=> g.next[j] = END
               /\ g.next[j] # j
    <3>1. /\ AnsweredIn(M, h, j)
          /\ h.previous[j] = END <=> h.next[j] = END
          /\ h.next[j] # j
      BY DEF RingOK
    <3>2. CASE p = n
      BY <1>0, <1>1, <1>3, <2>4, <3>1, <3>2 DEF AnsweredIn
    <3>3. CASE p # n
      BY <1>0, <1>1, <1>3, <2>4, <3>1, <3>3, SMTT(60) DEF AnsweredIn
    <3> QED
      BY <3>2, <3>3
  <2>6. RingOK(g, e, M \ {i})
    BY <1>1, <1>3, <2>1, <2>5, Zenon DEF RingOK
  <2>7. SameWords(g, h, Nodes \ M) /\ e \in Words
    BY <1>0, <1>1, <1>3, <2>1, <2>4 DEF SameWords
  <2> QED
    BY <2>1, <2>4, <2>6, <2>7 DEF g, e
<1> QED
  BY <1>2, <1>3

LEMMA SteppedOK ==
  ASSUME NEW h \in Plane(Nodes), NEW f \in Nodes, NEW M \in SUBSET Nodes, RingOK(h, f, M)
  PROVE  Stepped(h, f) \in M /\ RingOK(h, Stepped(h, f), M)
<1>1. f \in M /\ Stepped(h, f) \in M
  BY CapacityAssumption DEF Stepped, RingOK, AnsweredIn
<1> QED
  BY <1>1 DEF RingOK

LEMMA CycledOK ==
  ASSUME NEW h \in Plane(Nodes), NEW f \in Words, NEW M \in SUBSET Nodes,
         NEW i \in M, RingOK(h, f, M)
  PROVE  LET out == CycledBack(h, f, i)
         IN /\ out.hook \in Plane(Nodes) /\ out.ring \in Words
            /\ RingOK(out.hook, out.ring, M)
            /\ SameWords(out.hook, h, Nodes \ M)
<1>0. END \notin Nodes
  BY CapacityAssumption
<1>1. CASE f = i
  <2>1. CycledBack(h, f, i) = [hook |-> h, ring |-> Stepped(h, f)]
    BY <1>1 DEF CycledBack
  <2>2. f \in Nodes /\ Stepped(h, f) \in M /\ RingOK(h, Stepped(h, f), M)
    BY <1>1, SteppedOK
  <2> QED
    BY <2>1, <2>2 DEF SameWords, Words
<1>2. CASE f # i /\ h.previous[f] = i
  BY <1>2 DEF CycledBack, SameWords
<1>3. CASE f # i /\ h.previous[f] # i
  <2> DEFINE out == Left(h, f, i)
             in == Joined(out.hook, out.ring, i)
  <2>1. /\ out.hook \in Plane(Nodes) /\ out.ring \in Words
        /\ RingOK(out.hook, out.ring, M \ {i})
        /\ SameWords(out.hook, h, Nodes \ M)
    BY LeftOK
  <2>2. CycledBack(h, f, i) = in
    BY <1>3 DEF CycledBack
  <2> HIDE DEF out
  <2>3. i \in Nodes \ (M \ {i}) /\ (M \ {i}) \cup {i} = M /\ M \ {i} \in SUBSET Nodes
    OBVIOUS
  <2>4. /\ in.hook \in Plane(Nodes) /\ in.ring \in (M \ {i}) \cup {i}
        /\ RingOK(in.hook, in.ring, (M \ {i}) \cup {i})
        /\ SameWords(in.hook, out.hook, Nodes \ ((M \ {i}) \cup {i}))
    BY <2>1, <2>3, JoinedOK
  <2> HIDE DEF in
  <2>5. SameWords(in.hook, h, Nodes \ M)
    BY <2>1, <2>3, <2>4 DEF SameWords
  <2> QED
    BY <2>2, <2>3, <2>4, <2>5 DEF Words
<1> QED
  BY <1>1, <1>2, <1>3

LEMMA AcquiredOK ==
  ASSUME NEW h \in Plane(Nodes), NEW f \in Words, NEW M \in SUBSET Nodes,
         f # END, FreeOK(h, f, M)
  PROVE  LET out == Acquired(h, f)
         IN /\ out.hook \in Plane(Nodes) /\ out.free \in Words /\ f \in M
            /\ FreeOK(out.hook, out.free, M \ {f})
            /\ SameWords(out.hook, h, Nodes \ {f})
            /\ out.hook.previous[f] = h.previous[f] /\ out.hook.next[f] = END
<1> DEFINE g == Acquired(h, f).hook
           e == Acquired(h, f).free
<1>1. f \in M /\ END \notin Nodes
  BY CapacityAssumption DEF FreeOK
<1>2. /\ g \in Plane(Nodes) /\ g.previous = h.previous /\ g.next[f] = END
      /\ \A j \in Nodes \ {f} : g.next[j] = h.next[j]
      /\ e = h.next[f] /\ e \in Words
  BY <1>1, PlaneTypes DEF Acquired, Plane, Words
<1> HIDE DEF g, e
<1>3. FreeOK(g, e, M \ {f})
  BY <1>1, <1>2 DEF FreeOK
<1>4. SameWords(g, h, Nodes \ {f})
  BY <1>2 DEF SameWords
<1> QED
  BY <1>1, <1>2, <1>3, <1>4 DEF g, e

\* i became the head of the free list.
Freed(out, h, i, M) ==
  /\ out.hook \in Plane(Nodes) /\ out.free = i
  /\ FreeOK(out.hook, i, M \cup {i})
  /\ SameWords(out.hook, h, Nodes \ {i})
  /\ out.hook.previous[i] = i /\ out.hook.next[i] # i

LEMMA RecycledOK ==
  ASSUME NEW h \in Plane(Nodes), NEW f \in Words, NEW M \in SUBSET Nodes,
         NEW i \in Nodes \ M, FreeOK(h, f, M)
  PROVE  Freed(Recycled(h, f, i), h, i, M)
<1> DEFINE g == Recycled(h, f, i).hook
<1>0. i \in Words /\ END \notin Nodes
  BY CapacityAssumption DEF Words
<1>1. g = SetHook(h, i, i, f) /\ Recycled(h, f, i).free = i
  BY DEF Recycled
<1>2. Wrote(g, h, i, f, i, i)
  BY <1>0, <1>1, SetHookWrites
<1> HIDE DEF g
<1>3. /\ g \in Plane(Nodes) /\ g.previous[i] = i /\ g.next[i] = f
      /\ SameWords(g, h, Nodes \ {i})
  BY <1>2 DEF Wrote, SameWords
<1>4. f # i
  BY <1>0 DEF FreeOK
<1>5. FreeOK(g, i, M \cup {i})
  BY <1>0, <1>3, <1>4 DEF FreeOK, SameWords
<1> QED
  BY <1>1, <1>3, <1>4, <1>5 DEF g, Freed

-----------------------------------------------------------------------------
(* The inductive invariant. *)

Members(l) == {i \in Nodes : at[i] = l}

ListsOK ==
  /\ \A c \in Chains : ChainOK(hook, chain[c], Members(c))
  /\ \A l \in Lists : ListOK(hook, list[l], Members(l))
  /\ \A r \in Rings : RingOK(hook, ring[r], Members(r))
  /\ FreeOK(hook, free, Members(Free))

MarksOK ==
  \A i \in Nodes :
    /\ at[i] \in {"vacant", Free} => hook.previous[i] = i /\ hook.next[i] # i
    /\ at[i] = "parked" => hook.previous[i] = i /\ hook.next[i] = i

\* While a removal can be undone, undoing it gives a well formed chain.
UndoOK ==
  undo # NoUndo =>
    LET out == Restored(hook, chain[undo.list], undo.node)
        all == Members(undo.list) \cup {undo.node}
    IN /\ undo.list \in Plain /\ undo.node \in Nodes /\ at[undo.node] = "stale"
       /\ out.hook \in Plane(Nodes) /\ out.chain \in Ends
       /\ ChainOK(out.hook, out.chain, all)
       /\ SameWords(out.hook, hook, Nodes \ all)

CountsOK == \A c \in Counted : count[c] = Cardinality(Members(c))

Shape == TypeOK /\ ListsOK /\ MarksOK /\ UndoOK
IInv == Shape /\ CountsOK

LEMMA PlacesApart ==
  /\ Chains \subseteq Places /\ Rings \subseteq Places /\ Lists \subseteq Places
  /\ Plain \subseteq Chains /\ Counted \subseteq Chains /\ Plain \cap Counted = {}
  /\ Chains \cap Rings = {} /\ Chains \cap Lists = {} /\ Rings \cap Lists = {}
  /\ Free \notin Places /\ \A s \in States : s \notin Places /\ s # Free
  /\ "vacant" \in States /\ "stale" \in States /\ "parked" \in States
BY PlaceAssumption DEF Places, Chains, States

\* A step that touches the places in T and no member of another place keeps
\* those others well formed.
LEMMA Frame ==
  ASSUME ListsOK, NEW T \in SUBSET (Places \cup {Free}),
         \A j \in Nodes : at[j] \in (Places \cup {Free}) \ T =>
           /\ at'[j] = at[j]
           /\ hook'.previous[j] = hook.previous[j] /\ hook'.next[j] = hook.next[j],
         \A j \in Nodes : at'[j] \in (Places \cup {Free}) \ T => at'[j] = at[j],
         \A c \in Chains \ T : chain'[c] = chain[c],
         \A l \in Lists \ T : list'[l] = list[l],
         \A r \in Rings \ T : ring'[r] = ring[r],
         Free \notin T => free' = free
  PROVE  /\ \A c \in Chains \ T : ChainOK(hook', chain'[c], Members(c)')
         /\ \A l \in Lists \ T : ListOK(hook', list'[l], Members(l)')
         /\ \A r \in Rings \ T : RingOK(hook', ring'[r], Members(r)')
         /\ Free \notin T => FreeOK(hook', free', Members(Free)')
<1>1. ASSUME NEW x \in (Places \cup {Free}) \ T
      PROVE  Members(x)' = Members(x) /\ SameWords(hook', hook, Members(x))
  <2>1. Members(x)' = Members(x)
    BY DEF Members
  <2>2. SameWords(hook', hook, Members(x))
    BY DEF Members, SameWords
  <2> QED
    BY <2>1, <2>2
<1>2. ASSUME NEW c \in Chains \ T
      PROVE  ChainOK(hook', chain'[c], Members(c)')
  <2>1. c \in (Places \cup {Free}) \ T
    BY PlacesApart
  <2>2. ChainOK(hook, chain[c], Members(c)) /\ chain'[c] = chain[c]
    BY DEF ListsOK
  <2>3. Members(c)' = Members(c) /\ SameWords(hook', hook, Members(c))
    BY <1>1, <2>1
  <2>4. ChainOK(hook', chain[c], Members(c))
    BY <2>2, <2>3, ChainKept
  <2> QED
    BY <2>2, <2>3, <2>4
<1>3. ASSUME NEW l \in Lists \ T
      PROVE  ListOK(hook', list'[l], Members(l)')
  <2>1. l \in (Places \cup {Free}) \ T
    BY PlacesApart
  <2>2. ListOK(hook, list[l], Members(l)) /\ list'[l] = list[l]
    BY DEF ListsOK
  <2>3. Members(l)' = Members(l) /\ SameWords(hook', hook, Members(l))
    BY <1>1, <2>1
  <2>4. ListOK(hook', list[l], Members(l))
    BY <2>2, <2>3, ListKept
  <2> QED
    BY <2>2, <2>3, <2>4
<1>4. ASSUME NEW r \in Rings \ T
      PROVE  RingOK(hook', ring'[r], Members(r)')
  <2>1. r \in (Places \cup {Free}) \ T
    BY PlacesApart
  <2>2. RingOK(hook, ring[r], Members(r)) /\ ring'[r] = ring[r]
    BY DEF ListsOK
  <2>3. Members(r)' = Members(r) /\ SameWords(hook', hook, Members(r))
    BY <1>1, <2>1
  <2>4. RingOK(hook', ring[r], Members(r))
    BY <2>2, <2>3, RingKept
  <2> QED
    BY <2>2, <2>3, <2>4
<1>5. ASSUME Free \notin T
      PROVE  FreeOK(hook', free', Members(Free)')
  <2>1. Free \in (Places \cup {Free}) \ T
    BY <1>5
  <2>2. FreeOK(hook, free, Members(Free)) /\ free' = free
    BY <1>5 DEF ListsOK
  <2>3. Members(Free)' = Members(Free) /\ SameWords(hook', hook, Members(Free))
    BY <1>1, <2>1
  <2>4. FreeOK(hook', free, Members(Free))
    BY <2>2, <2>3, FreeKept
  <2> QED
    BY <2>2, <2>3, <2>4
<1> QED
  BY <1>2, <1>3, <1>4, <1>5

\* try_unpark finds no hook that is linked or free.
LEMMA ParkedIsApart ==
  ASSUME Shape, NEW i \in Nodes, IsParked(hook, i)
  PROVE  at[i] \in States
<1>0. hook \in Plane(Nodes) /\ at[i] \in Places \cup States \cup {Free}
  BY DEF Shape, TypeOK
<1>1. at[i] # Free
  BY DEF Shape, MarksOK, IsParked
<1>2. ASSUME at[i] \in Chains PROVE FALSE
  <2>1. ChainOK(hook, chain[at[i]], Members(at[i])) /\ i \in Members(at[i]) /\ Members(at[i]) \in SUBSET Nodes
    BY <1>2 DEF Shape, ListsOK, Members
  <2>2. Ordered(hook, Members(at[i])) /\ AnsweredIn(Members(at[i]), hook, i)
    BY <2>1 DEF ChainOK
  <2> QED
    BY <1>0, <2>1, <2>2, NoSelf DEF IsParked
<1>3. ASSUME at[i] \in Lists PROVE FALSE
  <2>1. ListOK(hook, list[at[i]], Members(at[i])) /\ i \in Members(at[i]) /\ Members(at[i]) \in SUBSET Nodes
    BY <1>3 DEF Shape, ListsOK, Members
  <2>2. Ordered(hook, Members(at[i])) /\ AnsweredIn(Members(at[i]), hook, i)
    BY <2>1 DEF ListOK
  <2> QED
    BY <1>0, <2>1, <2>2, NoSelf DEF IsParked
<1>4. ASSUME at[i] \in Rings PROVE FALSE
  <2>1. RingOK(hook, ring[at[i]], Members(at[i])) /\ i \in Members(at[i])
    BY <1>4 DEF Shape, ListsOK, Members
  <2> QED
    BY <2>1 DEF RingOK, IsParked
<1> QED
  BY <1>0, <1>1, <1>2, <1>3, <1>4 DEF Places

-----------------------------------------------------------------------------
(* The free list and the marks. *)

LEMMA MarkStep ==
  ASSUME Shape, NEW i \in Nodes, at[i] \in States,
         \/ Mark(i, Idled(hook, i), "vacant")
         \/ Mark(i, Parked(hook, i), "parked")
  PROVE  Shape' /\ \A c \in Counted : Members(c)' = Members(c)
<1>0. TypeOK /\ ListsOK /\ MarksOK /\ i \in Words /\ END \in Words /\ END \notin Nodes
  BY CapacityAssumption DEF Shape, Words
<1>1. hook \in Plane(Nodes) /\ at \in [Nodes -> Places \cup States \cup {Free}]
  BY <1>0 DEF TypeOK
<1>2. PICK n \in {i, END}, s \in {"vacant", "parked"} :
        /\ hook' = SetHook(hook, i, i, n) /\ at' = [at EXCEPT ![i] = s]
        /\ (s = "parked") <=> (n = i)
  BY <1>0 DEF Mark, Idled, Parked, Place
<1>3. Wrote(hook', hook, i, n, i, i)
  BY <1>0, <1>1, <1>2, SetHookWrites
<1>4. /\ undo' = NoUndo /\ chain' = chain /\ count' = count /\ ring' = ring
      /\ list' = list /\ free' = free
  BY DEF Mark
<1>5. s \in States /\ at'[i] = s /\ \A j \in Nodes \ {i} : at'[j] = at[j]
  BY <1>1, <1>2 DEF States
<1>6. TypeOK'
  BY <1>0, <1>2, <1>3, <1>4, <1>5 DEF TypeOK, Wrote
<1>7. ListsOK'
  <2>1. {} \in SUBSET (Places \cup {Free})
    OBVIOUS
  <2>2. \A j \in Nodes : at[j] \in (Places \cup {Free}) \ {} =>
          /\ at'[j] = at[j]
          /\ hook'.previous[j] = hook.previous[j] /\ hook'.next[j] = hook.next[j]
    BY <1>3, <1>5, PlacesApart DEF Wrote
  <2>3. \A j \in Nodes : at'[j] \in (Places \cup {Free}) \ {} => at'[j] = at[j]
    BY <1>5, PlacesApart
  <2>4. /\ \A c \in Chains \ {} : ChainOK(hook', chain'[c], Members(c)')
        /\ \A l \in Lists \ {} : ListOK(hook', list'[l], Members(l)')
        /\ \A r \in Rings \ {} : RingOK(hook', ring'[r], Members(r)')
        /\ Free \notin {} => FreeOK(hook', free', Members(Free)')
    BY <1>0, <1>4, <2>1, <2>2, <2>3, Frame
  <2> QED
    BY <2>4 DEF ListsOK
<1>8. MarksOK'
  BY <1>0, <1>2, <1>3, <1>5, PlacesApart DEF MarksOK, Wrote
<1>9. UndoOK'
  BY <1>4 DEF UndoOK
<1>10. \A c \in Counted : Members(c)' = Members(c)
  BY <1>5, PlacesApart DEF Members
<1> QED
  BY <1>6, <1>7, <1>8, <1>9, <1>10 DEF Shape

LEMMA AcquireStep ==
  ASSUME Shape, Acquire
  PROVE  Shape' /\ \A c \in Counted : Members(c)' = Members(c)
<1>0. TypeOK /\ ListsOK /\ MarksOK /\ END \notin Nodes
  BY CapacityAssumption DEF Shape
<1>1. /\ hook \in Plane(Nodes) /\ free \in Words
      /\ at \in [Nodes -> Places \cup States \cup {Free}]
  BY <1>0 DEF TypeOK
<1>2. FreeOK(hook, free, Members(Free)) /\ Members(Free) \in SUBSET Nodes
  BY <1>0 DEF ListsOK, Members
<1>3. /\ free # END /\ hook' = Acquired(hook, free).hook /\ free' = Acquired(hook, free).free
      /\ at' = [at EXCEPT ![free] = "vacant"]
      /\ undo' = NoUndo /\ chain' = chain /\ count' = count /\ ring' = ring /\ list' = list
  BY DEF Acquire, Place
<1>4. /\ hook' \in Plane(Nodes) /\ free' \in Words /\ free \in Members(Free)
      /\ FreeOK(hook', free', Members(Free) \ {free})
      /\ SameWords(hook', hook, Nodes \ {free})
      /\ hook'.previous[free] = hook.previous[free] /\ hook'.next[free] = END
  BY <1>1, <1>2, <1>3, AcquiredOK
<1>5. free \in Nodes /\ at[free] = Free /\ at'[free] = "vacant"
      /\ \A j \in Nodes \ {free} : at'[j] = at[j]
  BY <1>1, <1>3, <1>4 DEF Members
<1>6. TypeOK'
  BY <1>0, <1>1, <1>3, <1>4, PlacesApart DEF TypeOK
<1>7. Members(Free)' = Members(Free) \ {free}
  BY <1>5, PlacesApart DEF Members
<1>8. ListsOK'
  <2>1. {Free} \in SUBSET (Places \cup {Free})
    OBVIOUS
  <2>2. \A j \in Nodes : at[j] \in (Places \cup {Free}) \ {Free} =>
          /\ at'[j] = at[j]
          /\ hook'.previous[j] = hook.previous[j] /\ hook'.next[j] = hook.next[j]
    BY <1>4, <1>5 DEF SameWords
  <2>3. \A j \in Nodes : at'[j] \in (Places \cup {Free}) \ {Free} => at'[j] = at[j]
    BY <1>5, PlacesApart
  <2>4. /\ \A c \in Chains \ {Free} : ChainOK(hook', chain'[c], Members(c)')
        /\ \A l \in Lists \ {Free} : ListOK(hook', list'[l], Members(l)')
        /\ \A r \in Rings \ {Free} : RingOK(hook', ring'[r], Members(r)')
    BY <1>0, <1>3, <2>1, <2>2, <2>3, Frame
  <2>5. FreeOK(hook', free', Members(Free)')
    BY <1>4, <1>7
  <2> QED
    BY <2>4, <2>5, PlacesApart DEF ListsOK
<1>9. MarksOK'
  BY <1>0, <1>4, <1>5, PlacesApart DEF MarksOK, SameWords
<1>10. UndoOK'
  BY <1>3 DEF UndoOK
<1>11. \A c \in Counted : Members(c)' = Members(c)
  BY <1>5, PlacesApart DEF Members
<1> QED
  BY <1>6, <1>8, <1>9, <1>10, <1>11 DEF Shape

LEMMA RecycleStep ==
  ASSUME Shape, NEW i \in Loose, Recycle(i)
  PROVE  Shape' /\ \A c \in Counted : Members(c)' = Members(c)
<1>0. TypeOK /\ ListsOK /\ MarksOK /\ i \in Nodes /\ at[i] \in States
  BY DEF Shape, Loose, States
<1>1. /\ hook \in Plane(Nodes) /\ free \in Words
      /\ at \in [Nodes -> Places \cup States \cup {Free}]
  BY <1>0 DEF TypeOK
<1>2. /\ FreeOK(hook, free, Members(Free)) /\ Members(Free) \in SUBSET Nodes
      /\ i \in Nodes \ Members(Free)
  BY <1>0, PlacesApart DEF ListsOK, Members
<1> DEFINE out == Recycled(hook, free, i)
<1>3. /\ hook' = out.hook /\ free' = out.free
      /\ at' = [at EXCEPT ![i] = Free]
      /\ undo' = NoUndo /\ chain' = chain /\ count' = count /\ ring' = ring /\ list' = list
  BY DEF Recycle, Place
<1>3a. Freed(out, hook, i, Members(Free))
  BY <1>1, <1>2, RecycledOK
<1> HIDE DEF out
<1>4. /\ hook' \in Plane(Nodes) /\ free' = i
      /\ FreeOK(hook', i, Members(Free) \cup {i})
      /\ SameWords(hook', hook, Nodes \ {i})
      /\ hook'.previous[i] = i /\ hook'.next[i] # i
  BY <1>3, <1>3a DEF Freed
<1>5. at'[i] = Free /\ \A j \in Nodes \ {i} : at'[j] = at[j]
  BY <1>0, <1>1, <1>3
<1>6. TypeOK'
  BY <1>0, <1>1, <1>3, <1>4 DEF TypeOK, Words
<1>7. Members(Free)' = Members(Free) \cup {i}
  BY <1>0, <1>5 DEF Members
<1>8. ListsOK'
  <2>1. {Free} \in SUBSET (Places \cup {Free})
    OBVIOUS
  <2>2. \A j \in Nodes : at[j] \in (Places \cup {Free}) \ {Free} =>
          /\ at'[j] = at[j]
          /\ hook'.previous[j] = hook.previous[j] /\ hook'.next[j] = hook.next[j]
    BY <1>0, <1>4, <1>5, PlacesApart DEF SameWords
  <2>3. \A j \in Nodes : at'[j] \in (Places \cup {Free}) \ {Free} => at'[j] = at[j]
    BY <1>5
  <2>4. /\ \A c \in Chains \ {Free} : ChainOK(hook', chain'[c], Members(c)')
        /\ \A l \in Lists \ {Free} : ListOK(hook', list'[l], Members(l)')
        /\ \A r \in Rings \ {Free} : RingOK(hook', ring'[r], Members(r)')
    BY <1>0, <1>3, <2>1, <2>2, <2>3, Frame
  <2>5. FreeOK(hook', free', Members(Free)')
    BY <1>4, <1>7
  <2> QED
    BY <2>4, <2>5, PlacesApart DEF ListsOK
<1>9. MarksOK'
  BY <1>0, <1>4, <1>5, PlacesApart DEF MarksOK, SameWords
<1>10. UndoOK'
  BY <1>3 DEF UndoOK
<1>11. \A c \in Counted : Members(c)' = Members(c)
  BY <1>0, <1>5, PlacesApart DEF Members
<1> QED
  BY <1>6, <1>8, <1>9, <1>10, <1>11 DEF Shape

-----------------------------------------------------------------------------
(* Chains. *)

\* A chain whose members and ends change, while only members are written.
LEMMA ChainStep ==
  ASSUME Shape, NEW c \in Chains, NEW i \in Nodes,
         at[i] \in {c} \cup States, NEW to \in {c, "stale"},
         at' = [at EXCEPT ![i] = to],
         NEW h \in Plane(Nodes), NEW k \in Ends,
         hook' = h, chain' = [chain EXCEPT ![c] = k],
         ChainOK(h, k, IF to = c THEN Members(c) \cup {i} ELSE Members(c) \ {i}),
         SameWords(h, hook, Nodes \ (Members(c) \cup {i})),
         ring' = ring, list' = list, free' = free
  PROVE  /\ hook' \in Plane(Nodes) /\ chain' \in [Chains -> Ends]
         /\ at' \in [Nodes -> Places \cup States \cup {Free}]
         /\ ListsOK' /\ MarksOK'
         /\ Members(c)' = IF to = c THEN Members(c) \cup {i} ELSE Members(c) \ {i}
         /\ \A d \in Chains \ {c} : Members(d)' = Members(d)
<1>0. TypeOK /\ ListsOK /\ MarksOK
  BY DEF Shape
<1>1. /\ hook \in Plane(Nodes) /\ chain \in [Chains -> Ends]
      /\ at \in [Nodes -> Places \cup States \cup {Free}]
  BY <1>0 DEF TypeOK
<1>2. at'[i] = to /\ \A j \in Nodes \ {i} : at'[j] = at[j]
  BY <1>1
<1>3. chain'[c] = k /\ \A d \in Chains \ {c} : chain'[d] = chain[d]
  BY <1>1
<1>4. c # "stale" /\ c \notin States /\ c # Free /\ c \in Places
  BY PlacesApart
<1>5. Members(c)' = IF to = c THEN Members(c) \cup {i} ELSE Members(c) \ {i}
  BY <1>2, <1>4 DEF Members
<1>6. \A d \in Chains \ {c} : Members(d)' = Members(d)
  BY <1>2, <1>4, PlacesApart DEF Members
<1>7. ListsOK'
  <2>1. {c} \in SUBSET (Places \cup {Free})
    BY <1>4
  <2>2. ASSUME NEW j \in Nodes, at[j] \in (Places \cup {Free}) \ {c}
        PROVE  /\ at'[j] = at[j]
               /\ hook'.previous[j] = hook.previous[j] /\ hook'.next[j] = hook.next[j]
    <3>1. j # i
      BY <2>2, PlacesApart
    <3>2. j \notin Members(c)
      BY <2>2 DEF Members
    <3> QED
      BY <1>2, <3>1, <3>2 DEF SameWords
  <2>3. \A j \in Nodes : at'[j] \in (Places \cup {Free}) \ {c} => at'[j] = at[j]
    BY <1>2, <1>4, PlacesApart
  <2>4. /\ \A d \in Chains \ {c} : ChainOK(hook', chain'[d], Members(d)')
        /\ \A l \in Lists \ {c} : ListOK(hook', list'[l], Members(l)')
        /\ \A r \in Rings \ {c} : RingOK(hook', ring'[r], Members(r)')
        /\ Free \notin {c} => FreeOK(hook', free', Members(Free)')
    BY <1>0, <1>3, <2>1, <2>2, <2>3, Frame
  <2>5. ChainOK(hook', chain'[c], Members(c)')
    BY <1>3, <1>5
  <2> QED
    BY <1>4, <2>4, <2>5, PlacesApart DEF ListsOK
<1>8. MarksOK'
  <2>1. ASSUME NEW j \in Nodes, at'[j] \in {"vacant", "parked", Free}
        PROVE  at'[j] = at[j] /\ hook'.previous[j] = hook.previous[j] /\ hook'.next[j] = hook.next[j]
    <3>1. j # i
      BY <1>2, <1>4, <2>1, PlacesApart DEF States
    <3>2. j \notin Members(c)
      BY <1>2, <1>4, <2>1, <3>1 DEF Members, States
    <3> QED
      BY <1>2, <3>1, <3>2 DEF SameWords
  <2> QED
    BY <1>0, <2>1 DEF MarksOK
<1>9. chain' \in [Chains -> Ends] /\ at' \in [Nodes -> Places \cup States \cup {Free}]
  BY <1>1, <1>4, PlacesApart
<1> QED
  BY <1>5, <1>6, <1>7, <1>8, <1>9

LEMMA ChainPushStep ==
  ASSUME Shape, NEW c \in Chains, NEW i \in Loose, ChainPush(c, i), count' \in [Counted -> Nat]
  PROVE  /\ Shape'
         /\ Members(c)' = Members(c) \cup {i} /\ i \notin Members(c)
         /\ \A d \in Chains \ {c} : Members(d)' = Members(d)
<1>0. TypeOK /\ ListsOK /\ i \in Nodes /\ at[i] \in States
  BY DEF Shape, Loose, States
<1>1. /\ hook \in Plane(Nodes) /\ chain[c] \in Ends /\ ChainOK(hook, chain[c], Members(c))
      /\ Members(c) \in SUBSET Nodes /\ i \in Nodes \ Members(c)
  BY <1>0, PlacesApart DEF TypeOK, ListsOK, Members
<1> DEFINE h == Pushed(hook, chain[c], i).hook
           k == Pushed(hook, chain[c], i).chain
<1>2. /\ hook' = h /\ chain' = [chain EXCEPT ![c] = k] /\ at' = [at EXCEPT ![i] = c]
      /\ undo' = NoUndo /\ ring' = ring /\ list' = list /\ free' = free
  BY DEF ChainPush, Place
<1>3. /\ h \in Plane(Nodes) /\ k \in Ends /\ ChainOK(h, k, Members(c) \cup {i})
      /\ SameWords(h, hook, Nodes \ (Members(c) \cup {i}))
  BY <1>1, PushedOK
<1> HIDE DEF h, k
<1>4. ChainOK(h, k, IF c = c THEN Members(c) \cup {i} ELSE Members(c) \ {i})
  BY <1>3
<1>5. /\ hook' \in Plane(Nodes) /\ chain' \in [Chains -> Ends]
      /\ at' \in [Nodes -> Places \cup States \cup {Free}]
      /\ ListsOK' /\ MarksOK'
      /\ Members(c)' = IF c = c THEN Members(c) \cup {i} ELSE Members(c) \ {i}
      /\ \A d \in Chains \ {c} : Members(d)' = Members(d)
  BY <1>0, <1>2, <1>3, <1>4, ChainStep
<1>6. TypeOK'
  BY <1>0, <1>2, <1>5 DEF TypeOK
<1>7. UndoOK'
  BY <1>2 DEF UndoOK
<1> QED
  BY <1>1, <1>5, <1>6, <1>7 DEF Shape

\* A member is detached, by unlink_key or by pop_front.
LEMMA DetachStep ==
  ASSUME Shape, NEW c \in Chains, NEW i \in Members(c), count' \in [Counted -> Nat],
         hook' = Unlinked(hook, chain[c], i).hook,
         chain' = [chain EXCEPT ![c] = Unlinked(hook, chain[c], i).chain],
         at' = [at EXCEPT ![i] = "stale"], ring' = ring, list' = list, free' = free,
         \/ undo' = NoUndo
         \/ c \in Plain /\ undo'.list = c /\ undo'.node = i
  PROVE  /\ Shape'
         /\ Members(c)' = Members(c) \ {i}
         /\ \A d \in Chains \ {c} : Members(d)' = Members(d)
<1>0. TypeOK /\ ListsOK /\ i \in Nodes /\ at[i] = c
  BY DEF Shape, Members
<1>1. /\ hook \in Plane(Nodes) /\ chain \in [Chains -> Ends] /\ chain[c] \in Ends
      /\ ChainOK(hook, chain[c], Members(c)) /\ Members(c) \in SUBSET Nodes
  BY <1>0, PlacesApart DEF TypeOK, ListsOK, Members
<1> DEFINE h == Unlinked(hook, chain[c], i).hook
           k == Unlinked(hook, chain[c], i).chain
<1>2. /\ h \in Plane(Nodes) /\ k \in Ends /\ ChainOK(h, k, Members(c) \ {i})
      /\ SameWords(h, hook, Nodes \ (Members(c) \ {i}))
  BY <1>1, UnlinkedOK
<1>3. /\ Restored(h, k, i).hook \in Plane(Nodes)
      /\ Restored(h, k, i).chain \in Ends
      /\ ChainOK(Restored(h, k, i).hook, Restored(h, k, i).chain, Members(c))
      /\ SameWords(Restored(h, k, i).hook, hook, Nodes)
  BY <1>1, RestoredOK
<1>4. hook' = h /\ chain' = [chain EXCEPT ![c] = k]
  OBVIOUS
<1> HIDE DEF h, k
<1>5. /\ ChainOK(h, k, IF "stale" = c THEN Members(c) \cup {i} ELSE Members(c) \ {i})
      /\ SameWords(h, hook, Nodes \ (Members(c) \cup {i}))
      /\ "stale" # c
  BY <1>2, PlacesApart DEF SameWords
<1>6. /\ hook' \in Plane(Nodes) /\ chain' \in [Chains -> Ends]
      /\ at' \in [Nodes -> Places \cup States \cup {Free}]
      /\ ListsOK' /\ MarksOK'
      /\ Members(c)' = IF "stale" = c THEN Members(c) \cup {i} ELSE Members(c) \ {i}
      /\ \A d \in Chains \ {c} : Members(d)' = Members(d)
  BY <1>0, <1>2, <1>4, <1>5, ChainStep
<1>7. TypeOK'
  BY <1>0, <1>6 DEF TypeOK
<1>8. Members(c)' = Members(c) \ {i}
  BY <1>5, <1>6
<1>9. UndoOK'
  <2>1. CASE undo' = NoUndo
    BY <2>1 DEF UndoOK
  <2>2. CASE c \in Plain /\ undo'.list = c /\ undo'.node = i
    <3>1. Members(c)' \cup {i} = Members(c) /\ at'[i] = "stale" /\ chain'[c] = k
      BY <1>0, <1>1, <1>4, <1>8 DEF TypeOK
    <3>2. SameWords(Restored(h, k, i).hook, h, Nodes \ Members(c))
      BY <1>2, <1>3 DEF SameWords
    <3> QED
      BY <1>0, <1>3, <1>4, <2>2, <3>1, <3>2 DEF UndoOK
  <2> QED
    BY <2>1, <2>2
<1> QED
  BY <1>6, <1>7, <1>8, <1>9 DEF Shape

LEMMA ChainPopStep ==
  ASSUME Shape, NEW c \in Chains, ChainPop(c), count' \in [Counted -> Nat]
  PROVE  /\ Shape' /\ chain[c].first \in Members(c)
         /\ Members(c)' = Members(c) \ {chain[c].first}
         /\ \A d \in Chains \ {c} : Members(d)' = Members(d)
<1>1. /\ hook \in Plane(Nodes) /\ chain[c] \in Ends /\ Members(c) \in SUBSET Nodes
      /\ ChainOK(hook, chain[c], Members(c)) /\ chain[c].first # END
  BY DEF Shape, TypeOK, ListsOK, Members, ChainPop
<1>2. chain[c].first \in Members(c)
  BY <1>1 DEF ChainOK
<1>3. Popped(hook, chain[c]) = Unlinked(hook, chain[c], chain[c].first)
  BY <1>1, PoppedIsUnlinked
<1>4. /\ hook' = Unlinked(hook, chain[c], chain[c].first).hook
      /\ chain' = [chain EXCEPT ![c] = Unlinked(hook, chain[c], chain[c].first).chain]
      /\ at' = [at EXCEPT ![chain[c].first] = "stale"]
      /\ ring' = ring /\ list' = list /\ free' = free /\ undo' = NoUndo
  BY <1>3 DEF ChainPop, Place
<1> QED
  BY <1>2, <1>4, DetachStep

LEMMA ChainUnlinkStep ==
  ASSUME Shape, NEW c \in Chains, NEW i \in Nodes, ChainUnlink(c, i), count' \in [Counted -> Nat]
  PROVE  /\ Shape' /\ i \in Members(c)
         /\ Members(c)' = Members(c) \ {i}
         /\ \A d \in Chains \ {c} : Members(d)' = Members(d)
<1>1. i \in Members(c)
  BY DEF ChainUnlink, Members
<1>2. /\ hook' = Unlinked(hook, chain[c], i).hook
      /\ chain' = [chain EXCEPT ![c] = Unlinked(hook, chain[c], i).chain]
      /\ at' = [at EXCEPT ![i] = "stale"]
      /\ ring' = ring /\ list' = list /\ free' = free
      /\ undo' = NoUndo \/ (c \in Plain /\ undo'.list = c /\ undo'.node = i)
  BY DEF ChainUnlink, Place
<1> QED
  BY <1>1, <1>2, DetachStep

LEMMA ChainRestoreStep ==
  ASSUME Shape, ChainRestore
  PROVE  Shape' /\ \A c \in Counted : Members(c)' = Members(c)
<1> DEFINE c == undo.list
           i == undo.node
           h == Restored(hook, chain[c], i).hook
           k == Restored(hook, chain[c], i).chain
<1>1. /\ undo # NoUndo /\ hook' = h /\ chain' = [chain EXCEPT ![c] = k]
      /\ at' = [at EXCEPT ![i] = c] /\ undo' = NoUndo
      /\ count' = count /\ ring' = ring /\ list' = list /\ free' = free
  BY DEF ChainRestore, Place
<1>2. /\ c \in Plain /\ i \in Nodes /\ at[i] = "stale"
      /\ h \in Plane(Nodes) /\ k \in Ends
      /\ ChainOK(h, k, Members(c) \cup {i})
      /\ SameWords(h, hook, Nodes \ (Members(c) \cup {i}))
  BY <1>1 DEF Shape, UndoOK
<1> HIDE DEF c, i, h, k
<1>3. c \in Chains /\ at[i] \in States
  BY <1>2, PlacesApart
<1>4. ChainOK(h, k, IF c = c THEN Members(c) \cup {i} ELSE Members(c) \ {i})
  BY <1>2
<1>5. /\ hook' \in Plane(Nodes) /\ chain' \in [Chains -> Ends]
      /\ at' \in [Nodes -> Places \cup States \cup {Free}]
      /\ ListsOK' /\ MarksOK'
      /\ \A d \in Chains \ {c} : Members(d)' = Members(d)
  BY <1>1, <1>2, <1>3, <1>4, ChainStep
<1>6. TypeOK'
  BY <1>1, <1>5 DEF Shape, TypeOK
<1>7. UndoOK'
  BY <1>1 DEF UndoOK
<1> QED
  BY <1>2, <1>5, <1>6, <1>7, PlacesApart DEF Shape

\* Two chains exchange members, and only members are written.
LEMMA TwoChainsStep ==
  ASSUME Shape, NEW s \in Chains, NEW t \in Chains, s # t,
         \A j \in Nodes : IF at[j] \in {s, t} THEN at'[j] \in {s, t} ELSE at'[j] = at[j],
         at' \in [Nodes -> Places \cup States \cup {Free}],
         hook' \in Plane(Nodes), NEW ks \in Ends, NEW kt \in Ends,
         chain' = [chain EXCEPT ![s] = ks, ![t] = kt],
         ChainOK(hook', ks, Members(s)'), ChainOK(hook', kt, Members(t)'),
         SameWords(hook', hook, Nodes \ (Members(s) \cup Members(t))),
         undo' = NoUndo, count' = count, ring' = ring, list' = list, free' = free
  PROVE  Shape' /\ \A d \in Chains \ {s, t} : Members(d)' = Members(d)
<1>0. TypeOK /\ ListsOK /\ MarksOK
  BY DEF Shape
<1>1. /\ chain' \in [Chains -> Ends] /\ chain'[s] = ks /\ chain'[t] = kt
      /\ \A d \in Chains \ {s, t} : chain'[d] = chain[d]
  BY <1>0 DEF TypeOK
<1>2. TypeOK'
  BY <1>0, <1>1 DEF TypeOK
<1>3. ASSUME NEW j \in Nodes, at[j] \notin {s, t} \/ at'[j] \notin {s, t}
      PROVE  /\ at'[j] = at[j]
             /\ hook'.previous[j] = hook.previous[j] /\ hook'.next[j] = hook.next[j]
  <2>1. at[j] \notin {s, t} /\ at'[j] = at[j]
    BY <1>3
  <2>2. j \notin Members(s) \cup Members(t)
    BY <2>1 DEF Members
  <2> QED
    BY <2>1, <2>2 DEF SameWords
<1>4. \A d \in Chains \ {s, t} : Members(d)' = Members(d)
  BY DEF Members
<1>5. ListsOK'
  <2>1. {s, t} \in SUBSET (Places \cup {Free})
    BY PlacesApart
  <2>2. \A j \in Nodes : at[j] \in (Places \cup {Free}) \ {s, t} =>
          /\ at'[j] = at[j]
          /\ hook'.previous[j] = hook.previous[j] /\ hook'.next[j] = hook.next[j]
    BY <1>3
  <2>3. \A j \in Nodes : at'[j] \in (Places \cup {Free}) \ {s, t} => at'[j] = at[j]
    BY <1>3
  <2>4. /\ \A d \in Chains \ {s, t} : ChainOK(hook', chain'[d], Members(d)')
        /\ \A l \in Lists \ {s, t} : ListOK(hook', list'[l], Members(l)')
        /\ \A r \in Rings \ {s, t} : RingOK(hook', ring'[r], Members(r)')
        /\ Free \notin {s, t} => FreeOK(hook', free', Members(Free)')
    BY <1>0, <1>1, <2>1, <2>2, <2>3, Frame
  <2> QED
    BY <1>1, <2>4, PlacesApart DEF ListsOK
<1>6. MarksOK'
  <2>1. s \notin {"vacant", "parked", Free} /\ t \notin {"vacant", "parked", Free}
    BY PlacesApart
  <2> QED
    BY <1>0, <1>3, <2>1 DEF MarksOK
<1>7. UndoOK'
  BY DEF UndoOK
<1> QED
  BY <1>2, <1>4, <1>5, <1>6, <1>7 DEF Shape

LEMMA EmptyChainOK ==
  ASSUME NEW h
  PROVE  ChainOK(h, EmptyChain, {}) /\ EmptyChain \in Ends
<1>1. [j \in Nodes |-> 0] \in [Nodes -> Int]
  OBVIOUS
<1>2. Ordered(h, {})
  BY <1>1 DEF Ordered
<1> QED
  BY <1>2 DEF ChainOK, EmptyChain, Ends, Words

LEMMA ChainAppendStep ==
  ASSUME Shape, NEW t \in Plain, NEW s \in Plain, ChainAppend(t, s)
  PROVE  Shape' /\ \A d \in Counted : Members(d)' = Members(d)
<1>0. TypeOK /\ ListsOK /\ s \in Chains /\ t \in Chains /\ s # t /\ chain[s].first # END
  BY PlacesApart DEF Shape, ChainAppend
<1>1. /\ hook \in Plane(Nodes) /\ chain[s] \in Ends /\ chain[t] \in Ends
      /\ at \in [Nodes -> Places \cup States \cup {Free}]
      /\ ChainOK(hook, chain[s], Members(s)) /\ ChainOK(hook, chain[t], Members(t))
  BY <1>0 DEF TypeOK, ListsOK
<1>2. Members(s) \in SUBSET Nodes /\ Members(t) \in SUBSET Nodes /\ Members(t) \cap Members(s) = {}
  BY <1>0 DEF Members
<1> DEFINE h == Spliced(hook, chain[t], chain[s]).hook
           k == Spliced(hook, chain[t], chain[s]).chain
<1>3. /\ h \in Plane(Nodes) /\ k \in Ends /\ ChainOK(h, k, Members(t) \cup Members(s))
      /\ SameWords(h, hook, Nodes \ (Members(t) \cup Members(s)))
  BY <1>0, <1>1, <1>2, SplicedOK
<1>4. /\ hook' = h /\ chain' = [chain EXCEPT ![t] = k, ![s] = EmptyChain]
      /\ at' = [j \in Nodes |-> IF at[j] = s THEN t ELSE at[j]]
      /\ undo' = NoUndo /\ count' = count /\ ring' = ring /\ list' = list /\ free' = free
  BY DEF ChainAppend
<1> HIDE DEF h, k
<1>5. Members(t)' = Members(t) \cup Members(s) /\ Members(s)' = {}
  BY <1>0, <1>4 DEF Members
<1>6. /\ chain' = [chain EXCEPT ![s] = EmptyChain, ![t] = k]
      /\ at' \in [Nodes -> Places \cup States \cup {Free}]
      /\ \A j \in Nodes : IF at[j] \in {s, t} THEN at'[j] \in {s, t} ELSE at'[j] = at[j]
  BY <1>0, <1>1, <1>4, PlacesApart DEF TypeOK
<1>7. /\ EmptyChain \in Ends /\ ChainOK(hook', EmptyChain, Members(s)')
      /\ ChainOK(hook', k, Members(t)') /\ hook' \in Plane(Nodes)
      /\ SameWords(hook', hook, Nodes \ (Members(s) \cup Members(t)))
  BY <1>3, <1>4, <1>5, EmptyChainOK DEF SameWords
<1>8. Shape' /\ \A d \in Chains \ {s, t} : Members(d)' = Members(d)
  BY <1>0, <1>3, <1>4, <1>6, <1>7, TwoChainsStep
<1> QED
  BY <1>8, PlacesApart

LEMMA ChainMoveBackStep ==
  ASSUME Shape, NEW s \in Plain, NEW t \in Plain, NEW i \in Nodes, ChainMoveBack(s, t, i)
  PROVE  Shape' /\ \A d \in Counted : Members(d)' = Members(d)
<1>0. TypeOK /\ ListsOK /\ s \in Chains /\ t \in Chains /\ i \in Members(s) /\ at[i] = s
  BY PlacesApart DEF Shape, ChainMoveBack, Members
<1>1. /\ hook \in Plane(Nodes) /\ chain \in [Chains -> Ends] /\ chain[s] \in Ends /\ chain[t] \in Ends
      /\ at \in [Nodes -> Places \cup States \cup {Free}]
      /\ ChainOK(hook, chain[s], Members(s)) /\ ChainOK(hook, chain[t], Members(t))
      /\ Members(s) \in SUBSET Nodes /\ Members(t) \in SUBSET Nodes
  BY <1>0 DEF TypeOK, ListsOK, Members
<1> DEFINE h == Unlinked(hook, chain[s], i).hook
           k == Unlinked(hook, chain[s], i).chain
           rest == [chain EXCEPT ![s] = k]
           into == Pushed(h, rest[t], i)
<1>2. /\ h \in Plane(Nodes) /\ k \in Ends /\ ChainOK(h, k, Members(s) \ {i})
      /\ SameWords(h, hook, Nodes \ (Members(s) \ {i}))
  BY <1>0, <1>1, UnlinkedOK
<1>3. /\ hook' = into.hook /\ chain' = [rest EXCEPT ![t] = into.chain]
      /\ at' = [at EXCEPT ![i] = t]
      /\ undo' = NoUndo /\ count' = count /\ ring' = ring /\ list' = list /\ free' = free
  BY DEF ChainMoveBack, Place
<1> HIDE DEF h, k
<1>4. at' \in [Nodes -> Places \cup States \cup {Free}]
  BY <1>0, <1>1, <1>3, PlacesApart
<1>5. CASE s = t
  <2>1. rest[t] = k /\ Members(s) \ {i} \in SUBSET Nodes /\ i \in Nodes \ (Members(s) \ {i})
    BY <1>0, <1>1, <1>5
  <2>2. /\ into.hook \in Plane(Nodes) /\ into.chain \in Ends
        /\ ChainOK(into.hook, into.chain, (Members(s) \ {i}) \cup {i})
        /\ SameWords(into.hook, h, Nodes \ ((Members(s) \ {i}) \cup {i}))
    BY <1>2, <2>1, PushedOK
  <2> HIDE DEF into
  <2>3. (Members(s) \ {i}) \cup {i} = Members(s) \cup {i}
    BY <1>0
  <2>4. /\ ChainOK(into.hook, into.chain, IF t = s THEN Members(s) \cup {i} ELSE Members(s) \ {i})
        /\ SameWords(into.hook, hook, Nodes \ (Members(s) \cup {i}))
    BY <1>2, <1>5, <2>2, <2>3 DEF SameWords
  <2>5. chain' = [chain EXCEPT ![s] = into.chain] /\ at' = [at EXCEPT ![i] = s]
    BY <1>1, <1>3, <1>5
  <2>6. /\ hook' \in Plane(Nodes) /\ chain' \in [Chains -> Ends] /\ ListsOK' /\ MarksOK'
        /\ \A d \in Chains \ {s} : Members(d)' = Members(d)
    BY <1>0, <1>3, <1>5, <2>2, <2>4, <2>5, ChainStep
  <2>7. TypeOK' /\ UndoOK'
    BY <1>0, <1>3, <1>4, <2>6 DEF TypeOK, UndoOK
  <2> QED
    BY <2>6, <2>7, PlacesApart DEF Shape
<1>6. CASE s # t
  <2>1. rest[t] = chain[t] /\ i \in Nodes \ Members(t)
    BY <1>0, <1>1, <1>6 DEF Members
  <2>2. Members(t) \cap Members(s) = {}
    BY <1>6 DEF Members
  <2>3. ChainOK(h, chain[t], Members(t))
    <3>1. SameWords(h, hook, Members(t))
      BY <1>1, <1>2, <2>2 DEF SameWords
    <3> QED
      BY <1>1, <3>1, ChainKept
  <2>4. /\ into.hook \in Plane(Nodes) /\ into.chain \in Ends
        /\ ChainOK(into.hook, into.chain, Members(t) \cup {i})
        /\ SameWords(into.hook, h, Nodes \ (Members(t) \cup {i}))
    BY <1>1, <1>2, <2>1, <2>3, PushedOK
  <2> HIDE DEF into
  <2>5. chain' = [chain EXCEPT ![s] = k, ![t] = into.chain]
    BY <1>1, <1>3
  <2>6. Members(t)' = Members(t) \cup {i} /\ Members(s)' = Members(s) \ {i}
    BY <1>0, <1>1, <1>3, <1>6 DEF Members
  <2>7. ChainOK(into.hook, k, Members(s) \ {i})
    <3>1. SameWords(into.hook, h, Members(s) \ {i})
      BY <1>1, <2>2, <2>4 DEF SameWords
    <3> QED
      BY <1>2, <3>1, ChainKept
  <2>8. SameWords(into.hook, hook, Nodes \ (Members(s) \cup Members(t)))
    BY <1>0, <1>2, <2>4 DEF SameWords
  <2>9. \A j \in Nodes : IF at[j] \in {s, t} THEN at'[j] \in {s, t} ELSE at'[j] = at[j]
    BY <1>0, <1>1, <1>3
  <2>10. /\ hook' \in Plane(Nodes)
         /\ ChainOK(hook', k, Members(s)') /\ ChainOK(hook', into.chain, Members(t)')
         /\ SameWords(hook', hook, Nodes \ (Members(s) \cup Members(t)))
    BY <1>3, <2>4, <2>6, <2>7, <2>8
  <2>11. PICK kt \in Ends : kt = into.chain
    BY <2>4
  <2>12. Shape' /\ \A d \in Chains \ {s, t} : Members(d)' = Members(d)
    BY <1>0, <1>2, <1>3, <1>4, <1>6, <2>5, <2>9, <2>10, <2>11, TwoChainsStep
  <2> QED
    BY <2>12, PlacesApart
<1> QED
  BY <1>5, <1>6

-----------------------------------------------------------------------------
(* Cycles and lists. *)

\* One cycle or list changes, or one hook enters or leaves it.
LEMMA OtherStep ==
  ASSUME Shape, NEW l \in Rings \cup Lists, NEW i \in Nodes,
         at[i] \in {l} \cup States, NEW to \in {l, "vacant"},
         at' = [at EXCEPT ![i] = to], hook' \in Plane(Nodes),
         to = "vacant" => hook'.previous[i] = i /\ hook'.next[i] = END,
         SameWords(hook', hook, Nodes \ (Members(l) \cup {i})),
         ring' \in [Rings -> Words], list' \in [Lists -> Words],
         \A r \in Rings \ {l} : ring'[r] = ring[r],
         \A m \in Lists \ {l} : list'[m] = list[m],
         l \in Rings => RingOK(hook', ring'[l], IF to = l THEN Members(l) \cup {i} ELSE Members(l) \ {i}),
         l \in Lists => ListOK(hook', list'[l], IF to = l THEN Members(l) \cup {i} ELSE Members(l) \ {i}),
         undo' = NoUndo, chain' = chain, count' = count, free' = free
  PROVE  Shape' /\ \A c \in Counted : Members(c)' = Members(c)
<1>0. TypeOK /\ ListsOK /\ MarksOK /\ END \notin Nodes
  BY CapacityAssumption DEF Shape
<1>1. at \in [Nodes -> Places \cup States \cup {Free}]
  BY <1>0 DEF TypeOK
<1>2. at'[i] = to /\ \A j \in Nodes \ {i} : at'[j] = at[j]
  BY <1>1
<1>3. l \in Places /\ l \notin States /\ l # Free /\ l \notin Chains /\ l # "vacant" /\ "vacant" \in States
  BY PlacesApart
<1>4. TypeOK'
  BY <1>0, <1>1, <1>3 DEF TypeOK
<1>5. Members(l)' = IF to = l THEN Members(l) \cup {i} ELSE Members(l) \ {i}
  BY <1>2, <1>3 DEF Members
<1>6. ASSUME NEW j \in Nodes \ {i}, at[j] # l
      PROVE  hook'.previous[j] = hook.previous[j] /\ hook'.next[j] = hook.next[j]
  <2>1. j \notin Members(l)
    BY <1>6 DEF Members
  <2> QED
    BY <2>1 DEF SameWords
<1>7. ListsOK'
  <2>1. {l} \in SUBSET (Places \cup {Free})
    BY <1>3
  <2>2. ASSUME NEW j \in Nodes, at[j] \in (Places \cup {Free}) \ {l}
        PROVE  /\ at'[j] = at[j]
               /\ hook'.previous[j] = hook.previous[j] /\ hook'.next[j] = hook.next[j]
    <3>1. j # i
      BY <2>2, PlacesApart
    <3> QED
      BY <1>2, <1>6, <2>2, <3>1
  <2>3. \A j \in Nodes : at'[j] \in (Places \cup {Free}) \ {l} => at'[j] = at[j]
    BY <1>2, <1>3, PlacesApart
  <2>4. /\ \A c \in Chains \ {l} : ChainOK(hook', chain'[c], Members(c)')
        /\ \A m \in Lists \ {l} : ListOK(hook', list'[m], Members(m)')
        /\ \A r \in Rings \ {l} : RingOK(hook', ring'[r], Members(r)')
        /\ Free \notin {l} => FreeOK(hook', free', Members(Free)')
    BY <1>0, <2>1, <2>2, <2>3, Frame
  <2>5. /\ l \in Rings => RingOK(hook', ring'[l], Members(l)')
        /\ l \in Lists => ListOK(hook', list'[l], Members(l)')
    BY <1>5
  <2>6. /\ \A m \in Lists : ListOK(hook', list'[m], Members(m)')
        /\ \A r \in Rings : RingOK(hook', ring'[r], Members(r)')
    BY <2>4, <2>5
  <2> QED
    BY <1>3, <2>4, <2>6, PlacesApart DEF ListsOK
<1>8. MarksOK'
  <2>1. ASSUME NEW j \in Nodes \ {i}, at'[j] \in {"vacant", "parked", Free}
        PROVE  at'[j] = at[j] /\ hook'.previous[j] = hook.previous[j] /\ hook'.next[j] = hook.next[j]
    <3>1. at'[j] = at[j] /\ at[j] # l
      BY <1>2, <1>3, <2>1, PlacesApart
    <3> QED
      BY <1>6, <3>1
  <2>2. ASSUME at'[i] \in {"vacant", "parked", Free}
        PROVE  at'[i] = "vacant" /\ hook'.previous[i] = i /\ hook'.next[i] # i
    BY <1>0, <1>2, <1>3, <2>2, PlacesApart
  <2>3. "vacant" # "parked" /\ Free # "parked"
    BY PlacesApart
  <2> QED
    BY <1>0, <2>1, <2>2, <2>3 DEF MarksOK
<1>9. UndoOK'
  BY DEF UndoOK
<1>10. \A c \in Counted : Members(c)' = Members(c)
  BY <1>2, <1>3, PlacesApart DEF Members
<1> QED
  BY <1>4, <1>7, <1>8, <1>9, <1>10 DEF Shape

LEMMA RingStepsOK ==
  ASSUME Shape, NEW r \in Rings, NEW i \in Nodes,
         \/ i \in Loose /\ RingPush(r, i)
         \/ RingUnlink(r, i)
         \/ RingMoveBack(r, i)
  PROVE  Shape' /\ \A c \in Counted : Members(c)' = Members(c)
<1>0. TypeOK /\ ListsOK /\ r \notin Lists
  BY PlacesApart DEF Shape
<1>1. /\ hook \in Plane(Nodes) /\ ring \in [Rings -> Words] /\ list \in [Lists -> Words]
      /\ ring[r] \in Words /\ RingOK(hook, ring[r], Members(r)) /\ Members(r) \in SUBSET Nodes
  BY <1>0 DEF TypeOK, ListsOK, Members
<1>2. CASE i \in Loose /\ RingPush(r, i)
  <2>1. at[i] \in States /\ i \in Nodes \ Members(r)
    BY <1>2, PlacesApart DEF Loose, States, Members
  <2> DEFINE out == Joined(hook, ring[r], i)
  <2>2. /\ out.hook \in Plane(Nodes) /\ out.ring \in Members(r) \cup {i}
        /\ RingOK(out.hook, out.ring, Members(r) \cup {i})
        /\ SameWords(out.hook, hook, Nodes \ (Members(r) \cup {i}))
    BY <1>1, <2>1, JoinedOK
  <2>3. /\ hook' = out.hook /\ ring' = [ring EXCEPT ![r] = out.ring] /\ at' = [at EXCEPT ![i] = r]
        /\ undo' = NoUndo /\ chain' = chain /\ count' = count /\ list' = list /\ free' = free
    BY <1>2 DEF RingPush, Ringed, Place
  <2> HIDE DEF out
  <2>4. ring' \in [Rings -> Words] /\ ring'[r] = out.ring /\ \A q \in Rings \ {r} : ring'[q] = ring[q]
    BY <1>1, <2>2, <2>3 DEF Words
  <2>5. RingOK(hook', ring'[r], IF r = r THEN Members(r) \cup {i} ELSE Members(r) \ {i})
    BY <2>2, <2>3, <2>4
  <2>6. r # "vacant" /\ list' \in [Lists -> Words] /\ (\A m \in Lists \ {r} : list'[m] = list[m])
        /\ hook' \in Plane(Nodes) /\ SameWords(hook', hook, Nodes \ (Members(r) \cup {i}))
        /\ at[i] \in {r} \cup States
    BY <1>1, <2>1, <2>2, <2>3, PlacesApart
  <2> QED
    BY <1>0, <2>3, <2>4, <2>5, <2>6, OtherStep
<1>3. CASE RingUnlink(r, i)
  <2>1. at[i] = r /\ i \in Members(r)
    BY <1>3 DEF RingUnlink, Members
  <2> DEFINE out == Left(hook, ring[r], i)
  <2>2. /\ out.hook \in Plane(Nodes) /\ out.ring \in Words
        /\ RingOK(out.hook, out.ring, Members(r) \ {i})
        /\ SameWords(out.hook, hook, Nodes \ Members(r))
        /\ out.hook.previous[i] = i /\ out.hook.next[i] = END
    BY <1>1, <2>1, LeftOK
  <2>3. /\ hook' = out.hook /\ ring' = [ring EXCEPT ![r] = out.ring] /\ at' = [at EXCEPT ![i] = "vacant"]
        /\ undo' = NoUndo /\ chain' = chain /\ count' = count /\ list' = list /\ free' = free
    BY <1>3 DEF RingUnlink, Ringed, Place
  <2> HIDE DEF out
  <2>4. ring' \in [Rings -> Words] /\ ring'[r] = out.ring /\ \A q \in Rings \ {r} : ring'[q] = ring[q]
    BY <1>1, <2>2, <2>3
  <2>5. r # "vacant"
    BY PlacesApart
  <2>6. RingOK(hook', ring'[r], IF "vacant" = r THEN Members(r) \cup {i} ELSE Members(r) \ {i})
    BY <2>2, <2>3, <2>4, <2>5
  <2>7. list' \in [Lists -> Words] /\ (\A m \in Lists \ {r} : list'[m] = list[m])
        /\ hook' \in Plane(Nodes) /\ SameWords(hook', hook, Nodes \ (Members(r) \cup {i}))
        /\ hook'.previous[i] = i /\ hook'.next[i] = END
    BY <1>1, <2>2, <2>3 DEF SameWords
  <2> QED
    BY <1>0, <2>1, <2>3, <2>4, <2>6, <2>7, OtherStep
<1>4. CASE RingMoveBack(r, i)
  <2>1. at[i] = r /\ i \in Members(r)
    BY <1>4 DEF RingMoveBack, Members
  <2> DEFINE out == CycledBack(hook, ring[r], i)
  <2>2. /\ out.hook \in Plane(Nodes) /\ out.ring \in Words
        /\ RingOK(out.hook, out.ring, Members(r))
        /\ SameWords(out.hook, hook, Nodes \ Members(r))
    BY <1>1, <2>1, CycledOK
  <2>3. /\ hook' = out.hook /\ ring' = [ring EXCEPT ![r] = out.ring] /\ at' = [at EXCEPT ![i] = r]
        /\ undo' = NoUndo /\ chain' = chain /\ count' = count /\ list' = list /\ free' = free
    BY <1>4 DEF RingMoveBack, Ringed, Place
  <2> HIDE DEF out
  <2>4. ring' \in [Rings -> Words] /\ ring'[r] = out.ring /\ \A q \in Rings \ {r} : ring'[q] = ring[q]
    BY <1>1, <2>2, <2>3
  <2>5. RingOK(hook', ring'[r], IF r = r THEN Members(r) \cup {i} ELSE Members(r) \ {i})
    <3>1. Members(r) \cup {i} = Members(r)
      BY <2>1
    <3> QED
      BY <2>2, <2>3, <2>4, <3>1
  <2>6. r # "vacant" /\ list' \in [Lists -> Words] /\ (\A m \in Lists \ {r} : list'[m] = list[m])
        /\ hook' \in Plane(Nodes) /\ SameWords(hook', hook, Nodes \ (Members(r) \cup {i}))
    BY <1>1, <2>2, <2>3, PlacesApart DEF SameWords
  <2> QED
    BY <1>0, <2>1, <2>3, <2>4, <2>5, <2>6, OtherStep
<1> QED
  BY <1>2, <1>3, <1>4

LEMMA ListStepsOK ==
  ASSUME Shape, NEW l \in Lists, NEW i \in Nodes,
         \/ i \in Loose /\ ListPush(l, i)
         \/ ListUnlink(l, i)
  PROVE  Shape' /\ \A c \in Counted : Members(c)' = Members(c)
<1>0. TypeOK /\ ListsOK /\ l \notin Rings
  BY PlacesApart DEF Shape
<1>1. /\ hook \in Plane(Nodes) /\ ring \in [Rings -> Words] /\ list \in [Lists -> Words]
      /\ list[l] \in Words /\ ListOK(hook, list[l], Members(l)) /\ Members(l) \in SUBSET Nodes
  BY <1>0 DEF TypeOK, ListsOK, Members
<1>2. CASE i \in Loose /\ ListPush(l, i)
  <2>1. at[i] \in States /\ i \in Nodes \ Members(l)
    BY <1>2, PlacesApart DEF Loose, States, Members
  <2> DEFINE out == Listed(hook, list[l], i)
  <2>2. /\ out.hook \in Plane(Nodes) /\ out.list = i
        /\ ListOK(out.hook, i, Members(l) \cup {i})
        /\ SameWords(out.hook, hook, Nodes \ (Members(l) \cup {i}))
    BY <1>1, <2>1, ListedOK
  <2>3. /\ hook' = out.hook /\ list' = [list EXCEPT ![l] = out.list] /\ at' = [at EXCEPT ![i] = l]
        /\ undo' = NoUndo /\ chain' = chain /\ count' = count /\ ring' = ring /\ free' = free
    BY <1>2 DEF ListPush, Heads, Place
  <2> HIDE DEF out
  <2>4. list' \in [Lists -> Words] /\ list'[l] = i /\ \A m \in Lists \ {l} : list'[m] = list[m]
    BY <1>1, <2>2, <2>3 DEF Words
  <2>5. ListOK(hook', list'[l], IF l = l THEN Members(l) \cup {i} ELSE Members(l) \ {i})
    BY <2>2, <2>3, <2>4
  <2>6. l # "vacant" /\ ring' \in [Rings -> Words] /\ (\A r \in Rings \ {l} : ring'[r] = ring[r])
        /\ hook' \in Plane(Nodes) /\ SameWords(hook', hook, Nodes \ (Members(l) \cup {i}))
        /\ at[i] \in {l} \cup States
    BY <1>1, <2>1, <2>2, <2>3, PlacesApart
  <2> QED
    BY <1>0, <2>3, <2>4, <2>5, <2>6, OtherStep
<1>3. CASE ListUnlink(l, i)
  <2>1. at[i] = l /\ i \in Members(l)
    BY <1>3 DEF ListUnlink, Members
  <2> DEFINE out == Unlisted(hook, list[l], i)
  <2>2. /\ out.hook \in Plane(Nodes) /\ out.list \in Words
        /\ ListOK(out.hook, out.list, Members(l) \ {i})
        /\ SameWords(out.hook, hook, Nodes \ Members(l))
        /\ out.hook.previous[i] = i /\ out.hook.next[i] = END
    BY <1>1, <2>1, UnlistedOK
  <2>3. /\ hook' = out.hook /\ list' = [list EXCEPT ![l] = out.list] /\ at' = [at EXCEPT ![i] = "vacant"]
        /\ undo' = NoUndo /\ chain' = chain /\ count' = count /\ ring' = ring /\ free' = free
    BY <1>3 DEF ListUnlink, Heads, Place
  <2> HIDE DEF out
  <2>4. list' \in [Lists -> Words] /\ list'[l] = out.list /\ \A m \in Lists \ {l} : list'[m] = list[m]
    BY <1>1, <2>2, <2>3
  <2>5. l # "vacant"
    BY PlacesApart
  <2>6. ListOK(hook', list'[l], IF "vacant" = l THEN Members(l) \cup {i} ELSE Members(l) \ {i})
    BY <2>2, <2>3, <2>4, <2>5
  <2>7. ring' \in [Rings -> Words] /\ (\A r \in Rings \ {l} : ring'[r] = ring[r])
        /\ hook' \in Plane(Nodes) /\ SameWords(hook', hook, Nodes \ (Members(l) \cup {i}))
        /\ hook'.previous[i] = i /\ hook'.next[i] = END
    BY <1>1, <2>2, <2>3 DEF SameWords
  <2> QED
    BY <1>0, <2>1, <2>3, <2>4, <2>6, <2>7, OtherStep
<1> QED
  BY <1>2, <1>3

LEMMA RingStepStep ==
  ASSUME Shape, NEW r \in Rings, RingStep(r)
  PROVE  Shape' /\ \A c \in Counted : Members(c)' = Members(c)
<1>0. TypeOK /\ ListsOK /\ MarksOK
  BY DEF Shape
<1>1. /\ hook \in Plane(Nodes) /\ ring \in [Rings -> Words] /\ ring[r] \in Nodes
      /\ RingOK(hook, ring[r], Members(r)) /\ Members(r) \in SUBSET Nodes
  BY <1>0 DEF TypeOK, ListsOK, Members, Words, RingStep
<1>2. Stepped(hook, ring[r]) \in Members(r) /\ RingOK(hook, Stepped(hook, ring[r]), Members(r))
  BY <1>1, SteppedOK
<1>3. /\ ring' = [ring EXCEPT ![r] = Stepped(hook, ring[r])] /\ undo' = NoUndo
      /\ hook' = hook /\ chain' = chain /\ count' = count /\ list' = list /\ free' = free /\ at' = at
  BY DEF RingStep
<1>4. TypeOK'
  BY <1>0, <1>1, <1>2, <1>3 DEF TypeOK, Words
<1>5. \A x : Members(x)' = Members(x)
  BY <1>3 DEF Members
<1>6. ListsOK'
  BY <1>0, <1>1, <1>2, <1>3, <1>5 DEF ListsOK
<1>7. MarksOK' /\ UndoOK'
  BY <1>0, <1>3 DEF MarksOK, UndoOK
<1> QED
  BY <1>4, <1>5, <1>6, <1>7 DEF Shape

-----------------------------------------------------------------------------
(* Counts. *)

LEMMA MembersFinite ==
  ASSUME NEW c
  PROVE  IsFiniteSet(Members(c)) /\ Cardinality(Members(c)) \in Nat
<1>1. IsFiniteSet(Nodes)
  BY CapacityAssumption, FS_Interval DEF Nodes
<1>2. Members(c) \subseteq Nodes
  BY DEF Members
<1> QED
  BY <1>1, <1>2, FS_Subset, FS_CardinalityType

\* A counted chain gains or loses one member and its count follows.
LEMMA CountsFollow ==
  ASSUME CountsOK, count \in [Counted -> Nat], NEW c \in Chains, NEW i,
         \/ /\ i \notin Members(c) /\ Members(c)' = Members(c) \cup {i}
            /\ Counts(c, count[c] + 1)
         \/ /\ i \in Members(c) /\ Members(c)' = Members(c) \ {i}
            /\ Counts(c, count[c] - 1),
         \A d \in Chains \ {c} : Members(d)' = Members(d)
  PROVE  CountsOK' /\ count' \in [Counted -> Nat]
<1>1. CASE c \notin Counted
  BY <1>1, PlacesApart DEF Counts, CountsOK
<1>2. CASE c \in Counted
  <2>1. /\ IsFiniteSet(Members(c)) /\ Cardinality(Members(c)) \in Nat
        /\ count[c] = Cardinality(Members(c))
    BY <1>2, MembersFinite DEF CountsOK
  <2>2. count'[c] = Cardinality(Members(c)') /\ Cardinality(Members(c)') \in Nat
    <3>1. CASE i \notin Members(c) /\ Members(c)' = Members(c) \cup {i} /\ Counts(c, count[c] + 1)
      <4>1. Cardinality(Members(c) \cup {i}) = Cardinality(Members(c)) + 1
        BY <2>1, <3>1, FS_AddElement
      <4> QED
        BY <1>2, <2>1, <3>1, <4>1 DEF Counts
    <3>2. CASE i \in Members(c) /\ Members(c)' = Members(c) \ {i} /\ Counts(c, count[c] - 1)
      <4>1. Cardinality(Members(c) \ {i}) = Cardinality(Members(c)) - 1
        BY <2>1, <3>2, FS_RemoveElement
      <4>2. Cardinality(Members(c) \ {i}) \in Nat
        <5>1. IsFiniteSet(Members(c) \ {i})
          BY <2>1, FS_RemoveElement
        <5> QED
          BY <5>1, FS_CardinalityType
      <4> QED
        BY <1>2, <2>1, <3>2, <4>1, <4>2 DEF Counts
    <3> QED
      BY <3>1, <3>2
  <2>3. PICK n : count' = [count EXCEPT ![c] = n]
    BY <1>2 DEF Counts
  <2> QED
    BY <1>2, <2>2, <2>3, PlacesApart DEF CountsOK
<1> QED
  BY <1>1, <1>2

LEMMA CountsKept ==
  ASSUME CountsOK, count' = count, \A c \in Counted : Members(c)' = Members(c)
  PROVE  CountsOK'
BY DEF CountsOK

-----------------------------------------------------------------------------
(* The invariant is inductive. *)

\* A step on a counted chain changes its count with its members.
LEMMA ChainPushCounts ==
  ASSUME IInv, NEW c \in Chains, NEW i \in Loose, ChainPush(c, i)
  PROVE  IInv'
<1>1. Shape /\ CountsOK /\ count \in [Counted -> Nat] /\ i \in Nodes /\ at[i] \in States
      /\ at \in [Nodes -> Places \cup States \cup {Free}]
  BY DEF IInv, Shape, TypeOK, Loose, States
<1>2. at' = [at EXCEPT ![i] = c] /\ Counts(c, count[c] + 1)
  BY DEF ChainPush, Place
<1>3. /\ i \notin Members(c) /\ Members(c)' = Members(c) \cup {i}
      /\ \A d \in Chains \ {c} : Members(d)' = Members(d)
  BY <1>1, <1>2, PlacesApart DEF Members
<1>4. CountsOK' /\ count' \in [Counted -> Nat]
  BY <1>1, <1>2, <1>3, CountsFollow
<1>5. Shape'
  BY <1>1, <1>4, ChainPushStep
<1> QED
  BY <1>4, <1>5 DEF IInv

LEMMA ChainLeaveCounts ==
  ASSUME IInv, NEW c \in Chains, NEW i \in Nodes,
         ChainUnlink(c, i) \/ (ChainPop(c) /\ i = chain[c].first)
  PROVE  IInv'
<1>1. Shape /\ CountsOK /\ count \in [Counted -> Nat]
      /\ at \in [Nodes -> Places \cup States \cup {Free}]
  BY DEF IInv, Shape, TypeOK
<1>2. at' = [at EXCEPT ![i] = "stale"] /\ Counts(c, count[c] - 1)
  BY DEF ChainUnlink, ChainPop, Place
<1>3. i \in Members(c)
  <2>1. CASE ChainUnlink(c, i)
    BY <2>1 DEF ChainUnlink, Members
  <2>2. CASE ChainPop(c) /\ i = chain[c].first
    BY <1>1, <2>2 DEF Shape, ListsOK, ChainOK, ChainPop
  <2> QED
    BY <2>1, <2>2
<1>4. /\ Members(c)' = Members(c) \ {i}
      /\ \A d \in Chains \ {c} : Members(d)' = Members(d)
  BY <1>1, <1>2, <1>3, PlacesApart DEF Members
<1>5. CountsOK' /\ count' \in [Counted -> Nat]
  BY <1>1, <1>2, <1>3, <1>4, CountsFollow
<1>6. Shape'
  BY <1>1, <1>5, ChainUnlinkStep, ChainPopStep
<1> QED
  BY <1>5, <1>6 DEF IInv

LEMMA InitIInv == Init => IInv
<1> SUFFICES ASSUME Init PROVE IInv
  OBVIOUS
<1>0. END \notin Nodes /\ Capacity \in Nat
  BY CapacityAssumption
<1>1. /\ \A i \in Nodes : /\ hook.previous[i] = i
                          /\ hook.next[i] = IF i + 1 \in Nodes THEN i + 1 ELSE END
                          /\ at[i] = Free
      /\ hook \in Plane(Nodes)
  BY DEF Init, Seeded, Plane
<1>2. free \in Words /\ (free # END => free = 0 /\ 0 \in Nodes)
  BY <1>0 DEF Init, Words, Nodes
<1>3. Members(Free) = Nodes /\ \A x \in Places : Members(x) = {}
  BY <1>1, PlacesApart DEF Members
<1>4. TypeOK
  <2>1. EmptyChain \in Ends /\ END \in Words
    BY EmptyChainOK DEF Words
  <2> QED
    BY <1>1, <1>2, <2>1 DEF Init, TypeOK
<1>5. ListsOK
  <2>1. \A c \in Chains : ChainOK(hook, chain[c], Members(c))
    <3>1. \A c \in Chains : chain[c] = EmptyChain /\ Members(c) = {}
      BY <1>3, PlacesApart DEF Init
    <3> QED
      BY <3>1, EmptyChainOK
  <2>2. \A l \in Lists : ListOK(hook, list[l], Members(l))
    <3>1. \A l \in Lists : list[l] = END /\ Members(l) = {}
      BY <1>3, PlacesApart DEF Init
    <3>2. Ordered(hook, {})
      BY EmptyChainOK DEF ChainOK
    <3>3. ListOK(hook, END, {})
      BY <3>2 DEF ListOK
    <3> QED
      BY <3>1, <3>3
  <2>3. \A r \in Rings : RingOK(hook, ring[r], Members(r))
    <3>1. \A r \in Rings : ring[r] = END /\ Members(r) = {}
      BY <1>3, PlacesApart DEF Init
    <3>2. RingOK(hook, END, {})
      BY DEF RingOK
    <3> QED
      BY <3>1, <3>2
  <2>4. FreeOK(hook, free, Nodes)
    <3>1. ASSUME NEW i \in Nodes, hook.next[i] # END
          PROVE  /\ hook.next[i] \in Nodes /\ hook.next[i] = i + 1 /\ hook.next[i] # free
                 /\ \A j \in Nodes : hook.next[j] = hook.next[i] => j = i
      <4>1. hook.next[i] = i + 1 /\ i + 1 \in Nodes /\ i \in Nat
        BY <1>0, <1>1, <3>1 DEF Nodes
      <4>2. ASSUME NEW j \in Nodes, hook.next[j] = hook.next[i] PROVE j = i
        <5>1. hook.next[j] = j + 1 /\ j \in Nat
          BY <1>0, <1>1, <3>1, <4>2 DEF Nodes
        <5> QED
          BY <4>1, <4>2, <5>1
      <4> QED
        BY <1>0, <1>2, <4>1, <4>2
    <3> QED
      BY <1>2, <3>1 DEF FreeOK
  <2> QED
    BY <1>3, <2>1, <2>2, <2>3, <2>4 DEF ListsOK
<1>6. MarksOK
  <2>1. \A i \in Nodes : hook.next[i] # i
    BY <1>0, <1>1 DEF Nodes
  <2> QED
    BY <1>1, <2>1, PlacesApart DEF MarksOK
<1>7. UndoOK
  BY DEF Init, UndoOK
<1>8. CountsOK
  BY <1>3, FS_EmptySet, PlacesApart DEF Init, CountsOK
<1> QED
  BY <1>4, <1>5, <1>6, <1>7, <1>8 DEF IInv, Shape

LEMMA NextIInv == IInv /\ [Next]_vars => IInv'
<1> SUFFICES ASSUME IInv, [Next]_vars PROVE IInv'
  OBVIOUS
<1>0. Shape /\ CountsOK
  BY DEF IInv
<1> DEFINE Kept == Shape' /\ count' = count /\ \A c \in Counted : Members(c)' = Members(c)
<1>1. ASSUME Kept PROVE IInv'
  BY <1>0, <1>1, CountsKept DEF IInv
<1>2. ASSUME NEW i \in Loose, Enter(i) PROVE IInv'
  <2>0. i \in Nodes /\ at[i] \in States
    BY DEF Loose, States
  <2>1. CASE Recycle(i)
    BY <1>0, <1>1, <2>1, RecycleStep DEF Recycle
  <2>2. CASE Idle(i) \/ Park(i)
    <3>1. Mark(i, Idled(hook, i), "vacant") \/ Mark(i, Parked(hook, i), "parked")
      BY <2>2 DEF Idle, Park
    <3>2. count' = count
      BY <3>1 DEF Mark
    <3>3. Shape' /\ \A c \in Counted : Members(c)' = Members(c)
      BY <1>0, <2>0, <3>1, MarkStep
    <3> QED
      BY <1>1, <3>2, <3>3
  <2>3. ASSUME NEW c \in Chains, ChainPush(c, i) PROVE IInv'
    BY <2>3, ChainPushCounts
  <2>4. ASSUME NEW r \in Rings, RingPush(r, i) PROVE IInv'
    <3>1. count' = count
      BY <2>4 DEF RingPush, Ringed
    <3> QED
      BY <1>0, <1>1, <2>0, <2>4, <3>1, RingStepsOK
  <2>5. ASSUME NEW l \in Lists, ListPush(l, i) PROVE IInv'
    <3>1. count' = count
      BY <2>5 DEF ListPush, Heads
    <3> QED
      BY <1>0, <1>1, <2>0, <2>5, <3>1, ListStepsOK
  <2> QED
    BY <1>2, <2>1, <2>2, <2>3, <2>4, <2>5 DEF Enter
<1>3. ASSUME NEW i \in Nodes, Move(i) PROVE IInv'
  <2>1. CASE TryUnpark(i)
    <3>1. Mark(i, Idled(hook, i), "vacant") /\ IsParked(hook, i)
      BY <2>1 DEF TryUnpark
    <3>2. at[i] \in States
      BY <1>0, <3>1, ParkedIsApart
    <3>3. count' = count
      BY <3>1 DEF Mark
    <3>4. Shape' /\ \A c \in Counted : Members(c)' = Members(c)
      BY <1>0, <3>1, <3>2, MarkStep
    <3> QED
      BY <1>1, <3>3, <3>4
  <2>2. ASSUME NEW c \in Chains, ChainUnlink(c, i) PROVE IInv'
    BY <2>2, ChainLeaveCounts
  <2>3. ASSUME NEW source \in Plain, NEW target \in Plain, ChainMoveBack(source, target, i)
        PROVE  IInv'
    <3>1. count' = count
      BY <2>3 DEF ChainMoveBack
    <3> QED
      BY <1>0, <1>1, <2>3, <3>1, ChainMoveBackStep
  <2>4. ASSUME NEW r \in Rings, RingUnlink(r, i) \/ RingMoveBack(r, i) PROVE IInv'
    <3>1. count' = count
      BY <2>4 DEF RingUnlink, RingMoveBack, Ringed
    <3> QED
      BY <1>0, <1>1, <2>4, <3>1, RingStepsOK
  <2>5. ASSUME NEW l \in Lists, ListUnlink(l, i) PROVE IInv'
    <3>1. count' = count
      BY <2>5 DEF ListUnlink, Heads
    <3> QED
      BY <1>0, <1>1, <2>5, <3>1, ListStepsOK
  <2> QED
    BY <1>3, <2>1, <2>2, <2>3, <2>4, <2>5 DEF Move
<1>4. ASSUME NEW c \in Chains, ChainPop(c) PROVE IInv'
  <2>1. PICK i \in Nodes : i = chain[c].first
    BY <1>0, <1>4 DEF Shape, TypeOK, Ends, Words, ChainPop
  <2> QED
    BY <1>4, <2>1, ChainLeaveCounts
<1>5. ASSUME NEW target \in Plain, NEW source \in Plain, ChainAppend(target, source) PROVE IInv'
  <2>1. count' = count
    BY <1>5 DEF ChainAppend
  <2> QED
    BY <1>0, <1>1, <1>5, <2>1, ChainAppendStep
<1>6. ASSUME NEW r \in Rings, RingStep(r) PROVE IInv'
  <2>1. count' = count
    BY <1>6 DEF RingStep
  <2> QED
    BY <1>0, <1>1, <1>6, <2>1, RingStepStep
<1>7. CASE Acquire
  BY <1>0, <1>1, <1>7, AcquireStep DEF Acquire
<1>8. CASE ChainRestore
  BY <1>0, <1>1, <1>8, ChainRestoreStep DEF ChainRestore
<1>9. CASE UNCHANGED vars
  <2>1. /\ hook' = hook /\ chain' = chain /\ count' = count /\ ring' = ring
        /\ list' = list /\ free' = free /\ at' = at /\ undo' = undo
    BY <1>9 DEF vars
  <2>2. \A x : Members(x)' = Members(x)
    BY <2>1 DEF Members
  <2>3. TypeOK' /\ MarksOK'
    BY <1>0, <2>1 DEF Shape, TypeOK, MarksOK
  <2>4. ListsOK'
    BY <1>0, <2>1, <2>2 DEF Shape, ListsOK
  <2>5. UndoOK'
    BY <1>0, <2>1, <2>2 DEF Shape, UndoOK
  <2> QED
    BY <1>1, <2>1, <2>2, <2>3, <2>4, <2>5 DEF Shape
<1>10. CASE Next
  BY <1>2, <1>3, <1>4, <1>5, <1>6, <1>7, <1>8, <1>10 DEF Next
<1>11. Next \/ UNCHANGED vars
  OBVIOUS
<1> QED
  BY ONLY <1>9, <1>10, <1>11

\* The lists are well formed, the marks say what the words say, and whatever
\* was just removed can be put back, after any sequence of the operations of
\* queue/links and raw/hooks.
THEOREM LinksInductive == Spec => []IInv
BY InitIInv, NextIInv, PTL DEF Spec

LEMMA IInvReciprocal == IInv => Reciprocal
<1> SUFFICES ASSUME IInv PROVE Reciprocal
  OBVIOUS
<1>0. ListsOK /\ hook \in Plane(Nodes) /\ END \notin Nodes
  BY CapacityAssumption DEF IInv, Shape, TypeOK
<1>1. ASSUME NEW x, NEW i \in Nodes, at[i] = x, AnsweredIn(Members(x), hook, i) PROVE Answered(i)
  BY <1>1 DEF Members, AnsweredIn, Answered
<1>2. ASSUME NEW c \in Chains PROVE ChainReciprocal(c)
  <2>1. ChainOK(hook, chain[c], Members(c))
    BY <1>0 DEF ListsOK
  <2>2. ASSUME NEW i \in Nodes, at[i] = c
        PROVE  /\ Answered(i)
               /\ hook.previous[i] = END => chain[c].first = i
               /\ hook.next[i] = END => chain[c].last = i
    <3>1. i \in Members(c)
      BY <2>2 DEF Members
    <3>2. AnsweredIn(Members(c), hook, i)
      BY <2>1, <3>1 DEF ChainOK
    <3> QED
      BY <1>1, <2>1, <2>2, <3>1, <3>2 DEF ChainOK
  <2> QED
    BY <2>1, <2>2 DEF ChainOK, ChainReciprocal, Members
<1>3. ASSUME NEW l \in Lists PROVE ListReciprocal(l)
  <2>1. ListOK(hook, list[l], Members(l))
    BY <1>0 DEF ListsOK
  <2>2. ASSUME NEW i \in Nodes, at[i] = l
        PROVE  Answered(i) /\ (hook.previous[i] = END => list[l] = i)
    <3>1. i \in Members(l)
      BY <2>2 DEF Members
    <3>2. AnsweredIn(Members(l), hook, i)
      BY <2>1, <3>1 DEF ListOK
    <3> QED
      BY <1>1, <2>1, <2>2, <3>1, <3>2 DEF ListOK
  <2> QED
    BY <2>1, <2>2 DEF ListOK, ListReciprocal, Members
<1>4. ASSUME NEW r \in Rings PROVE RingReciprocal(r)
  <2>1. RingOK(hook, ring[r], Members(r))
    BY <1>0 DEF ListsOK
  <2>2. ASSUME NEW i \in Nodes, at[i] = r
        PROVE  /\ Answered(i)
               /\ hook.previous[i] = END <=> hook.next[i] = END
               /\ hook.next[i] # i
    <3>1. i \in Members(r)
      BY <2>2 DEF Members
    <3>2. AnsweredIn(Members(r), hook, i)
      BY <2>1, <3>1 DEF RingOK
    <3> QED
      BY <1>1, <2>1, <2>2, <3>1, <3>2 DEF RingOK
  <2> QED
    BY <2>1, <2>2 DEF RingOK, RingReciprocal, Members
<1> QED
  BY <1>2, <1>3, <1>4 DEF Reciprocal

\* Every edge of every chain, cycle and list is written on both sides, and
\* the ends are the ends.
THEOREM LinksAreReciprocal == Spec => []Reciprocal
BY LinksInductive, IInvReciprocal, PTL

LEMMA LinkedIsApart ==
  ASSUME Shape, NEW i \in Nodes, at[i] \in Places
  PROVE  IsLinked(hook, i)
<1>0. hook \in Plane(Nodes) /\ END \notin Nodes
  BY CapacityAssumption DEF Shape, TypeOK
<1>1. CASE at[i] \in Chains
  <2>1. ChainOK(hook, chain[at[i]], Members(at[i])) /\ i \in Members(at[i]) /\ Members(at[i]) \in SUBSET Nodes
    BY <1>1 DEF Shape, ListsOK, Members
  <2>2. Ordered(hook, Members(at[i])) /\ AnsweredIn(Members(at[i]), hook, i)
    BY <2>1 DEF ChainOK
  <2> QED
    BY <1>0, <2>1, <2>2, NoSelf DEF IsLinked
<1>2. CASE at[i] \in Lists
  <2>1. ListOK(hook, list[at[i]], Members(at[i])) /\ i \in Members(at[i]) /\ Members(at[i]) \in SUBSET Nodes
    BY <1>2 DEF Shape, ListsOK, Members
  <2>2. Ordered(hook, Members(at[i])) /\ AnsweredIn(Members(at[i]), hook, i)
    BY <2>1 DEF ListOK
  <2> QED
    BY <1>0, <2>1, <2>2, NoSelf DEF IsLinked
<1>3. CASE at[i] \in Rings
  <2>1. RingOK(hook, ring[at[i]], Members(at[i])) /\ i \in Members(at[i])
    BY <1>3 DEF Shape, ListsOK, Members
  <2> QED
    BY <1>0, <2>1 DEF RingOK, AnsweredIn, IsLinked
<1> QED
  BY <1>1, <1>2, <1>3 DEF Places

LEMMA IInvMarksAreTrue == IInv => MarksAreTrue
<1> SUFFICES ASSUME IInv PROVE MarksAreTrue
  OBVIOUS
<1>1. Shape /\ MarksOK /\ CountsOK /\ at \in [Nodes -> Places \cup States \cup {Free}]
  BY DEF IInv, Shape, TypeOK
<1>2. ASSUME NEW i \in Nodes, at[i] # "stale"
      PROVE  /\ IsLinked(hook, i) <=> at[i] \in Places
             /\ IsParked(hook, i) <=> at[i] = "parked"
  <2>1. CASE at[i] \in Places
    BY <1>1, <2>1, LinkedIsApart, PlacesApart DEF IsLinked, IsParked
  <2>2. CASE at[i] \in {"vacant", Free}
    BY <1>1, <2>2, PlacesApart DEF MarksOK, IsLinked, IsParked
  <2>3. CASE at[i] = "parked"
    BY <1>1, <2>3, PlacesApart DEF MarksOK, IsLinked, IsParked
  <2> QED
    BY <1>1, <1>2, <2>1, <2>2, <2>3 DEF States
<1>3. \A c \in Counted : count[c] = Cardinality({i \in Nodes : at[i] = c})
  BY <1>1 DEF CountsOK, Members
<1> QED
  BY <1>2, <1>3 DEF MarksAreTrue

\* is_linked and try_unpark answer for the hook, and a counted chain's len is
\* its membership, whatever lists and marks the hook went through.
THEOREM MarksStayTrue == Spec => []MarksAreTrue
BY LinksInductive, IInvMarksAreTrue, PTL

-----------------------------------------------------------------------------
(* The sequences that the lists spell.                                     *)

Where == Places \cup {Free}

\* List l spells s, in the way of its kind.
SpeltAs(l, s) ==
  IF l \in Chains THEN Spells(hook, chain[l], s, Nodes)
  ELSE IF l \in Rings THEN Circles(hook, ring[l], s, Nodes)
  ELSE IF l \in Lists THEN Piled(hook, list[l], s, Nodes)
  ELSE Stacked(hook, free, s, Nodes)

\* Every list spells its sequence in o, and just its members stand in it.
Told(o) ==
  /\ o \in [Where -> Seq(Nodes)]
  /\ \A l \in Where : SpeltAs(l, o[l]) /\ \A i \in Nodes : Stands(o[l], i) <=> at[i] = l

Order == [l \in Where |-> Walk(hook, HeadOf(l))]

\* What undoing the last removal gives spells what the list was before it.
UndoTold ==
  undo # NoUndo =>
    LET out == Restored(hook, chain[undo.list], undo.node)
    IN /\ Spells(out.hook, out.chain, undo.was, Nodes)
       /\ \A i \in Nodes : Stands(undo.was, i) <=> at[i] = undo.list \/ i = undo.node

OrderInv == Told(Order) /\ UndoTold

\* Each place is a list of one kind.
LEMMA Kinds ==
  ASSUME NEW l \in Where
  PROVE  /\ l \in Chains \/ l \in Rings \/ l \in Lists \/ l = Free
         /\ l \in Chains => l \notin Rings /\ l \notin Lists /\ l # Free
         /\ l \in Rings => l \notin Chains /\ l \notin Lists /\ l # Free
         /\ l \in Lists => l \notin Chains /\ l \notin Rings /\ l # Free
         /\ l = Free => l \notin Chains /\ l \notin Rings /\ l \notin Lists
BY PlacesApart DEF Where, Places

\* What a list spells is a sequence of nodes that repeats nothing.
LEMMA SpeltOnce ==
  ASSUME NEW l \in Where, NEW s, SpeltAs(l, s)
  PROVE  s \in Seq(Nodes) /\ OneEach(s) /\ Len(s) \in Nat
<1>1. s \in Seq(Nodes) /\ OneEach(s)
  BY DEF SpeltAs, Spells, Circles, Piled, Stacked
<1> QED BY <1>1

\* The plane is finite, and END is none of its nodes.
LEMMA NodesFinite == IsFiniteSet(Nodes) /\ END \notin Nodes
BY CapacityAssumption, FS_Interval DEF Nodes

\* What the lists spell is what Walk reads.
LEMMA ToldIs ==
  ASSUME NEW o, Told(o), hook \in Plane(Nodes)
  PROVE  Order = o
<1>1. ASSUME NEW l \in Where PROVE Walk(hook, HeadOf(l)) = o[l]
  <2>1. SpeltAs(l, o[l])
    BY DEF Told
  <2>2. CASE l \in Chains
    <3>1. Spells(hook, chain[l], o[l], Nodes) /\ HeadOf(l) = chain[l].first
      BY <2>1, <2>2 DEF SpeltAs, HeadOf
    <3> QED BY <3>1, NodesFinite, ChainIs
  <2>3. CASE l \in Rings
    <3>1. Circles(hook, ring[l], o[l], Nodes) /\ HeadOf(l) = ring[l]
      BY <2>1, <2>3, Kinds DEF SpeltAs, HeadOf
    <3> QED BY <3>1, NodesFinite, CycleIs
  <2>4. CASE l \in Lists
    <3>1. Piled(hook, list[l], o[l], Nodes) /\ HeadOf(l) = list[l]
      BY <2>1, <2>4, Kinds DEF SpeltAs, HeadOf
    <3> QED BY <3>1, NodesFinite, PileIs
  <2>5. CASE l = Free
    <3>1. Stacked(hook, free, o[l], Nodes) /\ HeadOf(l) = free
      BY <2>1, <2>5, Kinds DEF SpeltAs, HeadOf
    <3> QED BY <3>1, NodesFinite, StackIs
  <2> QED BY <2>2, <2>3, <2>4, <2>5, Kinds
<1>2. o = [l \in Where |-> o[l]]
  BY DEF Told
<1> QED BY <1>1, <1>2 DEF Order

\* The same after a step.
LEMMA ToldNext ==
  ASSUME NEW o, Told(o)', (hook \in Plane(Nodes))'
  PROVE  Order' = o /\ Told(Order)'
<1>1. ASSUME NEW l \in Where PROVE Walk(hook', HeadOf(l)') = o[l]
  <2>1. SpeltAs(l, o[l])'
    BY DEF Told
  <2>2. CASE l \in Chains
    <3>1. Spells(hook', chain'[l], o[l], Nodes) /\ HeadOf(l)' = chain'[l].first
      BY <2>1, <2>2 DEF SpeltAs, HeadOf
    <3> QED BY <3>1, NodesFinite, ChainIs
  <2>3. CASE l \in Rings
    <3>1. Circles(hook', ring'[l], o[l], Nodes) /\ HeadOf(l)' = ring'[l]
      BY <2>1, <2>3, Kinds DEF SpeltAs, HeadOf
    <3> QED BY <3>1, NodesFinite, CycleIs
  <2>4. CASE l \in Lists
    <3>1. Piled(hook', list'[l], o[l], Nodes) /\ HeadOf(l)' = list'[l]
      BY <2>1, <2>4, Kinds DEF SpeltAs, HeadOf
    <3> QED BY <3>1, NodesFinite, PileIs
  <2>5. CASE l = Free
    <3>1. Stacked(hook', free', o[l], Nodes) /\ HeadOf(l)' = free'
      BY <2>1, <2>5, Kinds DEF SpeltAs, HeadOf
    <3> QED BY <3>1, NodesFinite, StackIs
  <2> QED BY <2>2, <2>3, <2>4, <2>5, Kinds
<1>2. o = [l \in Where |-> o[l]]
  BY DEF Told
<1>3. Order' = o
  BY <1>1, <1>2 DEF Order
<1> QED BY <1>3 DEF Told, SpeltAs

\* A step that gives the places in T what e says, and touches no member of
\* another place.
Touches(o, e, T) ==
  /\ T \in SUBSET Where
  /\ e \in [Where -> Seq(Nodes)]
  /\ \A l \in Where \ T : e[l] = o[l]
  /\ \A l \in T : SpeltAs(l, e[l])' /\ \A i \in Nodes : Stands(e[l], i) <=> at'[i] = l
  /\ \A j \in Nodes : at[j] \in Where \ T =>
       /\ at'[j] = at[j]
       /\ hook'.previous[j] = hook.previous[j] /\ hook'.next[j] = hook.next[j]
  /\ \A j \in Nodes : at'[j] \in Where \ T => at'[j] = at[j]
  /\ \A c \in Chains \ T : chain'[c] = chain[c]
  /\ \A r \in Rings \ T : ring'[r] = ring[r]
  /\ \A l \in Lists \ T : list'[l] = list[l]
  /\ Free \notin T => free' = free

\* Such a step leaves the other places what they spell.
LEMMA ToldFrame ==
  ASSUME NEW o, Told(o), NEW e, NEW T, Touches(o, e, T)
  PROVE  Told(e)'
<1>1. ASSUME NEW l \in Where \ T
      PROVE  SpeltAs(l, e[l])' /\ \A i \in Nodes : Stands(e[l], i) <=> at'[i] = l
  <2>1. SpeltAs(l, o[l]) /\ e[l] = o[l] /\ \A i \in Nodes : Stands(o[l], i) <=> at[i] = l
    BY DEF Told, Touches
  <2>2. \A j \in Nodes : Stands(o[l], j) => hook'.previous[j] = hook.previous[j] /\ hook'.next[j] = hook.next[j]
    BY <2>1 DEF Touches
  <2>3. \A i \in Nodes : Stands(e[l], i) <=> at'[i] = l
    BY <2>1 DEF Touches
  <2>4. CASE l \in Chains
    <3>1. Spells(hook, chain[l], o[l], Nodes) /\ chain'[l] = chain[l]
      BY <2>1, <2>4 DEF SpeltAs, Touches
    <3>2. Spells(hook', chain[l], o[l], Nodes)
      BY <2>2, <3>1, SpellsFrame
    <3> QED BY <2>1, <2>3, <2>4, <3>1, <3>2 DEF SpeltAs
  <2>5. CASE l \in Rings
    <3>1. Circles(hook, ring[l], o[l], Nodes) /\ ring'[l] = ring[l]
      BY <2>1, <2>5, Kinds DEF SpeltAs, Touches
    <3>2. Circles(hook', ring[l], o[l], Nodes)
      BY <2>2, <3>1, CirclesFrame
    <3> QED BY <2>1, <2>3, <2>5, <3>1, <3>2, Kinds DEF SpeltAs
  <2>6. CASE l \in Lists
    <3>1. Piled(hook, list[l], o[l], Nodes) /\ list'[l] = list[l]
      BY <2>1, <2>6, Kinds DEF SpeltAs, Touches
    <3>2. Piled(hook', list[l], o[l], Nodes)
      BY <2>2, <3>1, PiledFrame
    <3> QED BY <2>1, <2>3, <2>6, <3>1, <3>2, Kinds DEF SpeltAs
  <2>7. CASE l = Free
    <3>1. Stacked(hook, free, o[l], Nodes) /\ free' = free
      BY <2>1, <2>7, Kinds DEF SpeltAs, Touches
    <3>2. \A j : Stands(o[l], j) => j \in Nodes
      BY <3>1, IsInside DEF Stacked
    <3>3. Stacked(hook', free, o[l], Nodes)
      BY <2>2, <3>1, <3>2, StackedSame
    <3> QED BY <2>1, <2>3, <2>7, <3>1, <3>3, Kinds DEF SpeltAs
  <2> QED BY <2>4, <2>5, <2>6, <2>7, Kinds
<1>2. ASSUME NEW l \in Where
      PROVE  SpeltAs(l, e[l])' /\ \A i \in Nodes : Stands(e[l], i) <=> at'[i] = l
  BY <1>1 DEF Touches
<1>3. e \in [Where -> Seq(Nodes)]
  BY DEF Touches
<1> QED BY <1>2, <1>3 DEF Told

\* Every list but l keeps the words that name its ends.
OthersKept(l) ==
  /\ \A c \in Chains : c # l => chain'[c] = chain[c]
  /\ \A r \in Rings : r # l => ring'[r] = ring[r]
  /\ \A m \in Lists : m # l => list'[m] = list[m]
  /\ Free # l => free' = free

\* List l comes to spell q, and one node enters it, leaves it or changes its
\* place in it.
Moves(o, l, q, i) ==
  /\ l \in Where /\ i \in Nodes
  /\ at[i] \in {l} \cup States /\ at'[i] \in {l} \cup States
  /\ \A j \in Nodes : j # i => at'[j] = at[j]
  /\ SpeltAs(l, q)' /\ OthersKept(l)
  /\ \A j \in Nodes : Stands(q, j) <=> IF j = i THEN at'[i] = l ELSE Stands(o[l], j)
  /\ \A j \in Nodes : ~ Stands(o[l], j) /\ j # i =>
       hook'.previous[j] = hook.previous[j] /\ hook'.next[j] = hook.next[j]

LEMMA ToldOne ==
  ASSUME NEW o, Told(o), NEW l, NEW q, NEW i, Moves(o, l, q, i)
  PROVE  Told([o EXCEPT ![l] = q])'
<1>1. q \in Seq(Nodes) /\ l \in Where /\ SpeltAs(l, q)'
  BY DEF Moves, SpeltAs, Spells, Circles, Piled, Stacked
<1>2. PICK e : e = [o EXCEPT ![l] = q]
  OBVIOUS
<1>3. PICK T : T = {l}
  OBVIOUS
<1>4. /\ e \in [Where -> Seq(Nodes)] /\ e[l] = q /\ \A m \in Where \ T : e[m] = o[m]
      /\ T \in SUBSET Where
  BY <1>1, <1>2, <1>3 DEF Told
<1>5. /\ \A j \in Nodes : Stands(o[l], j) <=> at[j] = l
      /\ \A m \in Where : m \notin States
  BY <1>1, PlacesApart DEF Told, Where
<1>6. \A j \in Nodes : Stands(q, j) <=> at'[j] = l
  BY <1>5 DEF Moves
<1>7. \A j \in Nodes : at[j] \in Where \ T =>
        /\ at'[j] = at[j]
        /\ hook'.previous[j] = hook.previous[j] /\ hook'.next[j] = hook.next[j]
  BY <1>3, <1>5 DEF Moves
<1>8. \A j \in Nodes : at'[j] \in Where \ T => at'[j] = at[j]
  BY <1>3, <1>5 DEF Moves
<1>9. /\ \A c \in Chains \ T : chain'[c] = chain[c]
      /\ \A r \in Rings \ T : ring'[r] = ring[r]
      /\ \A m \in Lists \ T : list'[m] = list[m]
      /\ Free \notin T => free' = free
  BY <1>3 DEF Moves, OthersKept
<1>10. \A m \in T : SpeltAs(m, e[m])' /\ \A j \in Nodes : Stands(e[m], j) <=> at'[j] = m
  BY <1>1, <1>3, <1>4, <1>6
<1>11. Touches(o, e, T)
  BY ONLY <1>4, <1>7, <1>8, <1>9, <1>10 DEF Touches
<1>12. Told(e)'
  BY <1>11, ToldFrame
<1> QED BY <1>2, <1>12

\* A node in no list stands in none, and a node of a list stands in it once.
LEMMA ToldFacts ==
  ASSUME NEW o, Told(o), NEW l \in Where
  PROVE  /\ o[l] \in Seq(Nodes) /\ OneEach(o[l]) /\ Len(o[l]) \in Nat /\ SpeltAs(l, o[l])
         /\ \A i \in Nodes : at[i] \in States => ~ Stands(o[l], i)
         /\ \A i \in Nodes : at[i] = l => \E p \in 1..Len(o[l]) : o[l][p] = i
         /\ \A p \in 1..Len(o[l]) : o[l][p] \in Nodes /\ at[o[l][p]] = l
<1>1. SpeltAs(l, o[l]) /\ o[l] \in Seq(Nodes) /\ \A i \in Nodes : Stands(o[l], i) <=> at[i] = l
  BY DEF Told
<1>2. OneEach(o[l]) /\ Len(o[l]) \in Nat
  BY <1>1, SpeltOnce
<1>3. l \notin States
  BY PlacesApart DEF Where
<1>4. \A p \in 1..Len(o[l]) : o[l][p] \in Nodes /\ Stands(o[l], o[l][p])
  BY <1>1, <1>2 DEF Stands
<1> QED BY <1>1, <1>2, <1>3, <1>4 DEF Stands

\* What an invariant state has of types.
LEMMA ShapeTypes ==
  ASSUME Shape
  PROVE  /\ hook \in Plane(Nodes) /\ at \in [Nodes -> Places \cup States \cup {Free}]
         /\ chain \in [Chains -> Ends] /\ ring \in [Rings -> Words] /\ list \in [Lists -> Words]
         /\ END \notin Nodes
BY CapacityAssumption DEF Shape, TypeOK

-----------------------------------------------------------------------------
(* What each operation does to the sequences.                              *)

\* A chain gains a node at its back.
LEMMA ChainPushTold ==
  ASSUME Shape, NEW o, Told(o), NEW c \in Chains, NEW i \in Loose, ChainPush(c, i)
  PROVE  hook' \in Plane(Nodes) /\ Told([o EXCEPT ![c] = Append(o[c], i)])'
<1> DEFINE out == Pushed(hook, chain[c], i)  q == Append(o[c], i)
<1>1. c \in Where /\ i \in Nodes /\ at[i] \in States
  BY PlacesApart DEF Where, Loose, States
<1>2. o[c] \in Seq(Nodes) /\ ~ Stands(o[c], i) /\ Spells(hook, chain[c], o[c], Nodes)
  BY <1>1, ToldFacts DEF SpeltAs
<1>3. /\ out.hook \in Plane(Nodes) /\ Spells(out.hook, out.chain, q, Nodes)
      /\ \A j \in Nodes : ~ Stands(o[c], j) /\ j # i =>
           out.hook.previous[j] = hook.previous[j] /\ out.hook.next[j] = hook.next[j]
  BY <1>1, <1>2, ShapeTypes, SpellsPushed
<1>4. \A j \in Nodes : Stands(q, j) <=> IF j = i THEN TRUE ELSE Stands(o[c], j)
  BY <1>1, <1>2, AppendFacts
<1>5. /\ hook' = out.hook /\ chain' = [chain EXCEPT ![c] = out.chain] /\ at' = [at EXCEPT ![i] = c]
      /\ ring' = ring /\ list' = list /\ free' = free
  BY DEF ChainPush, Place
<1> HIDE DEF out, q
<1>6. SpeltAs(c, q)' /\ OthersKept(c)
  BY <1>3, <1>5, ShapeTypes DEF SpeltAs, OthersKept
<1>7. Moves(o, c, q, i)
  BY <1>1, <1>3, <1>4, <1>5, <1>6, ShapeTypes DEF Moves
<1>8. Told([o EXCEPT ![c] = q])'
  BY <1>7, ToldOne
<1> QED BY <1>3, <1>5, <1>8 DEF q

\* A chain loses the node at p, which keeps its words.
LEMMA DetachTold ==
  ASSUME Shape, NEW o, Told(o), NEW c \in Chains, NEW p \in 1..Len(o[c]),
         NEW out, out.hook \in Plane(Nodes), Spells(out.hook, out.chain, Without(o[c], p), Nodes),
         \A j \in Nodes : ~ Stands(o[c], j) =>
           out.hook.previous[j] = hook.previous[j] /\ out.hook.next[j] = hook.next[j],
         hook' = out.hook, chain' = [chain EXCEPT ![c] = out.chain], at' = [at EXCEPT ![o[c][p]] = "stale"],
         ring' = ring, list' = list, free' = free
  PROVE  hook' \in Plane(Nodes) /\ Told([o EXCEPT ![c] = Without(o[c], p)])'
<1> DEFINE q == Without(o[c], p)  i == o[c][p]
<1>1. c \in Where /\ i \in Nodes /\ at[i] = c /\ o[c] \in Seq(Nodes) /\ OneEach(o[c])
  <2>1. c \in Where
    BY PlacesApart DEF Where
  <2> QED BY <2>1, ToldFacts
<1>2. "stale" \in States /\ c # "stale" /\ Stands(o[c], i)
  BY PlacesApart DEF Stands
<1>3. \A j \in Nodes : Stands(q, j) <=> IF j = i THEN "stale" = c ELSE Stands(o[c], j)
  BY <1>1, <1>2, WithoutFacts
<1> HIDE DEF q, i
<1>4. SpeltAs(c, q)' /\ OthersKept(c)
  BY ShapeTypes DEF SpeltAs, OthersKept, q
<1>5. \A j \in Nodes : ~ Stands(o[c], j) /\ j # i =>
        hook'.previous[j] = hook.previous[j] /\ hook'.next[j] = hook.next[j]
  OBVIOUS
<1>6. at'[i] = "stale" /\ \A j \in Nodes : j # i => at'[j] = at[j]
  BY <1>1, ShapeTypes DEF i
<1>7. Moves(o, c, q, i)
  BY <1>1, <1>2, <1>3, <1>4, <1>5, <1>6 DEF Moves
<1>8. Told([o EXCEPT ![c] = q])'
  BY <1>7, ToldOne
<1> QED BY <1>8 DEF q

\* unlink_key takes a node from wherever it stands.
LEMMA ChainUnlinkTold ==
  ASSUME Shape, NEW o, Told(o), NEW c \in Chains, NEW p \in 1..Len(o[c]), ChainUnlink(c, o[c][p])
  PROVE  hook' \in Plane(Nodes) /\ Told([o EXCEPT ![c] = Without(o[c], p)])'
<1> DEFINE out == Unlinked(hook, chain[c], o[c][p])
<1>1. c \in Where
  BY PlacesApart DEF Where
<1>2. Spells(hook, chain[c], o[c], Nodes)
  BY <1>1, ToldFacts DEF SpeltAs
<1>3. /\ out.hook \in Plane(Nodes) /\ Spells(out.hook, out.chain, Without(o[c], p), Nodes)
      /\ \A j \in Nodes : ~ Stands(o[c], j) =>
           out.hook.previous[j] = hook.previous[j] /\ out.hook.next[j] = hook.next[j]
  BY <1>2, ShapeTypes, SpellsUnlinked
<1>4. /\ hook' = out.hook /\ chain' = [chain EXCEPT ![c] = out.chain] /\ at' = [at EXCEPT ![o[c][p]] = "stale"]
      /\ ring' = ring /\ list' = list /\ free' = free
  BY DEF ChainUnlink, Place
<1> HIDE DEF out
<1> QED BY <1>3, <1>4, DetachTold

\* pop_front takes the first.
LEMMA ChainPopTold ==
  ASSUME Shape, NEW o, Told(o), NEW c \in Chains, ChainPop(c)
  PROVE  /\ hook' \in Plane(Nodes) /\ 1 \in 1..Len(o[c]) /\ at' = [at EXCEPT ![o[c][1]] = "stale"]
         /\ Told([o EXCEPT ![c] = Without(o[c], 1)])'
<1> DEFINE out == Popped(hook, chain[c])
<1>1. c \in Where
  BY PlacesApart DEF Where
<1>2. Spells(hook, chain[c], o[c], Nodes) /\ Len(o[c]) \in Nat /\ chain[c].first # END
  BY <1>1, ToldFacts DEF SpeltAs, ChainPop
<1>3. o[c] # <<>> /\ chain[c].first = o[c][1] /\ 1 \in 1..Len(o[c])
  BY <1>2 DEF Spells
<1>4. /\ out.hook \in Plane(Nodes) /\ Spells(out.hook, out.chain, Without(o[c], 1), Nodes)
      /\ \A j \in Nodes : ~ Stands(o[c], j) =>
           out.hook.previous[j] = hook.previous[j] /\ out.hook.next[j] = hook.next[j]
  BY <1>2, <1>3, ShapeTypes, SpellsPopped
<1>5. /\ hook' = out.hook /\ chain' = [chain EXCEPT ![c] = out.chain] /\ at' = [at EXCEPT ![o[c][1]] = "stale"]
      /\ ring' = ring /\ list' = list /\ free' = free
  BY <1>3 DEF ChainPop, Place
<1> HIDE DEF out
<1> QED BY <1>3, <1>4, <1>5, DetachTold

\* A removal that can be undone remembers what the chain was.
LEMMA ChainUnlinkUndo ==
  ASSUME Shape, NEW o, Told(o), Order = o, NEW c \in Chains, NEW p \in 1..Len(o[c]), ChainUnlink(c, o[c][p])
  PROVE  UndoTold' /\ undo' \in {NoUndo, [list |-> c, node |-> o[c][p], was |-> o[c]]}
<1> DEFINE i == o[c][p]  out == Unlinked(hook, chain[c], i)
<1>1. c \in Where
  BY PlacesApart DEF Where
<1>2. /\ Spells(hook, chain[c], o[c], Nodes) /\ i \in Nodes /\ at[i] = c
      /\ \A j \in Nodes : Stands(o[c], j) <=> at[j] = c
  BY <1>1, ToldFacts DEF SpeltAs, Told
<1>3. /\ hook' = out.hook /\ chain' = [chain EXCEPT ![c] = out.chain] /\ at' = [at EXCEPT ![i] = "stale"]
      /\ undo' = IF c \in Plain THEN [list |-> c, node |-> i, was |-> Walk(hook, chain[c].first)] ELSE NoUndo
  BY DEF ChainUnlink, Place
<1>4. Walk(hook, chain[c].first) = o[c]
  <2>1. Order[c] = Walk(hook, HeadOf(c)) /\ HeadOf(c) = chain[c].first
    BY <1>1 DEF Order, HeadOf
  <2> QED BY <2>1
<1>5. Spells(Restored(out.hook, out.chain, i).hook, Restored(out.hook, out.chain, i).chain, o[c], Nodes)
  BY <1>2, ShapeTypes, SpellsRestored
<1>6. chain'[c] = out.chain
  BY <1>3, ShapeTypes
<1>7. \A j \in Nodes : Stands(o[c], j) <=> at'[j] = c \/ j = i
  BY <1>2, <1>3, ShapeTypes, PlacesApart
<1> HIDE DEF out, i
<1>8. UndoTold'
  BY <1>3, <1>4, <1>5, <1>6, <1>7 DEF UndoTold
<1> QED BY <1>3, <1>4, <1>8 DEF i

\* restore gives the chain what it was.
LEMMA ChainRestoreTold ==
  ASSUME Shape, NEW o, Told(o), UndoTold, ChainRestore,
         NEW c, c = undo.list, NEW i, i = undo.node, NEW q, q = undo.was
  PROVE  /\ hook' \in Plane(Nodes) /\ c \in Plain /\ i \in Nodes /\ at[i] = "stale"
         /\ at' = [at EXCEPT ![i] = c]
         /\ Told([o EXCEPT ![c] = q])'
<1> DEFINE out == Restored(hook, chain[c], i)
<1>2. /\ c \in Plain /\ i \in Nodes /\ at[i] = "stale" /\ out.hook \in Plane(Nodes)
      /\ SameWords(out.hook, hook, Nodes \ (Members(c) \cup {i}))
  BY DEF Shape, UndoOK, ChainRestore
<1>3. /\ Spells(out.hook, out.chain, q, Nodes)
      /\ \A j \in Nodes : Stands(q, j) <=> at[j] = c \/ j = i
  BY DEF UndoTold, ChainRestore
<1>4. /\ hook' = out.hook /\ chain' = [chain EXCEPT ![c] = out.chain] /\ at' = [at EXCEPT ![i] = c]
      /\ ring' = ring /\ list' = list /\ free' = free
  BY DEF ChainRestore, Place
<1> HIDE DEF out
<1>5. c \in Chains /\ c \in Where /\ "stale" \in States
  BY <1>2, PlacesApart DEF Where
<1>6. \A j \in Nodes : Stands(o[c], j) <=> at[j] = c
  BY <1>5 DEF Told
<1>7. SpeltAs(c, q)' /\ OthersKept(c)
  BY <1>3, <1>4, <1>5, ShapeTypes DEF SpeltAs, OthersKept
<1>8. \A j \in Nodes : ~ Stands(o[c], j) /\ j # i =>
        hook'.previous[j] = hook.previous[j] /\ hook'.next[j] = hook.next[j]
  BY <1>2, <1>4, <1>6 DEF SameWords, Members
<1>9. \A j \in Nodes : Stands(q, j) <=> IF j = i THEN TRUE ELSE Stands(o[c], j)
  BY <1>3, <1>6
<1>10. Moves(o, c, q, i)
  BY <1>2, <1>4, <1>5, <1>7, <1>8, <1>9, ShapeTypes DEF Moves
<1>11. Told([o EXCEPT ![c] = q])'
  BY <1>10, ToldOne
<1> QED BY <1>2, <1>4, <1>11

\* recycle puts a node in front of the free list.
LEMMA RecycleTold ==
  ASSUME Shape, NEW o, Told(o), NEW i \in Loose, Recycle(i)
  PROVE  Told([o EXCEPT ![Free] = <<i>> \o o[Free]])'
<1> DEFINE q == <<i>> \o o[Free]
<1>1. Free \in Where /\ i \in Nodes /\ at[i] \in States
  BY PlacesApart DEF Where, Loose, States
<1>2. Stacked(hook, free, o[Free], Nodes) /\ ~ Stands(o[Free], i)
  BY <1>1, ToldFacts, Kinds DEF SpeltAs
<1>3. /\ hook' = SetHook(hook, i, i, free) /\ free' = i /\ at' = [at EXCEPT ![i] = Free]
      /\ chain' = chain /\ ring' = ring /\ list' = list
  BY DEF Recycle, Recycled, Place
<1>4. /\ hook'.next[i] = free
      /\ \A j \in Nodes : j # i => hook'.previous[j] = hook.previous[j] /\ hook'.next[j] = hook.next[j]
  BY <1>1, <1>3, ShapeTypes DEF SetHook, Plane
<1>5. \A j : Stands(o[Free], j) => hook'.next[j] = hook.next[j]
  BY <1>1, <1>2, <1>4, IsInside DEF Stacked
<1>6. Stacked(hook', i, q, Nodes) /\ \A j : Stands(q, j) <=> Stands(o[Free], j) \/ j = i
  BY <1>1, <1>2, <1>4, <1>5, StackedPushed
<1> HIDE DEF q
<1>7. SpeltAs(Free, q)' /\ OthersKept(Free)
  BY <1>1, <1>3, <1>6, Kinds DEF SpeltAs, OthersKept
<1>8. at'[i] = Free /\ \A j \in Nodes : j # i => at'[j] = at[j]
  BY <1>1, <1>3, ShapeTypes
<1>9. Moves(o, Free, q, i)
  BY <1>1, <1>4, <1>6, <1>7, <1>8 DEF Moves
<1>10. Told([o EXCEPT ![Free] = q])'
  BY <1>9, ToldOne
<1> QED BY <1>10 DEF q

\* acquire takes its front.
LEMMA AcquireTold ==
  ASSUME Shape, NEW o, Told(o), Acquire
  PROVE  /\ 1 \in 1..Len(o[Free]) /\ o[Free][1] = free /\ at' = [at EXCEPT ![o[Free][1]] = "vacant"]
         /\ Told([o EXCEPT ![Free] = Without(o[Free], 1)])'
<1> DEFINE q == Without(o[Free], 1)
<1>1. Free \in Where /\ "vacant" \in States /\ Free # "vacant"
  BY PlacesApart DEF Where
<1>2. Stacked(hook, free, o[Free], Nodes) /\ Len(o[Free]) \in Nat /\ free # END
  BY <1>1, ToldFacts, Kinds DEF SpeltAs, Acquire
<1>3. o[Free] # <<>> /\ o[Free][1] = free /\ 1 \in 1..Len(o[Free])
  BY <1>2 DEF Stacked
<1>4. free \in Nodes /\ at[free] = Free
  BY <1>1, <1>3, ToldFacts
<1>5. /\ hook' = [hook EXCEPT !.next[free] = END] /\ free' = hook.next[free] /\ at' = [at EXCEPT ![free] = "vacant"]
      /\ chain' = chain /\ ring' = ring /\ list' = list
  BY DEF Acquire, Acquired, Place
<1>6. \A j \in Nodes : j # free => hook'.previous[j] = hook.previous[j] /\ hook'.next[j] = hook.next[j]
  BY <1>4, <1>5, ShapeTypes, PlaneTypes DEF Plane
<1>7. \A j : Stands(o[Free], j) /\ j # free => hook'.next[j] = hook.next[j]
  BY <1>2, <1>6, IsInside DEF Stacked
<1>8. /\ Stacked(hook', hook.next[free], q, Nodes)
      /\ \A j : Stands(q, j) <=> Stands(o[Free], j) /\ j # free
  <2>1. PICK h, g, top, s : h = hook /\ g = hook' /\ top = free /\ s = o[Free]
    OBVIOUS
  <2>2. Stacked(h, top, s, Nodes) /\ s # <<>> /\ \A j : Stands(s, j) /\ j # top => g.next[j] = h.next[j]
    BY <1>2, <1>3, <1>7, <2>1
  <2>3. Stacked(g, h.next[top], Without(s, 1), Nodes) /\ \A j : Stands(Without(s, 1), j) <=> Stands(s, j) /\ j # top
    BY <2>2, StackedPopped
  <2> QED BY <2>1, <2>3
<1> HIDE DEF q
<1>9. SpeltAs(Free, q)' /\ OthersKept(Free)
  BY <1>1, <1>5, <1>8, Kinds DEF SpeltAs, OthersKept
<1>10. at'[free] = "vacant" /\ \A j \in Nodes : j # free => at'[j] = at[j]
  BY <1>4, <1>5, ShapeTypes
<1>11. Moves(o, Free, q, free)
  BY <1>1, <1>4, <1>6, <1>8, <1>9, <1>10 DEF Moves
<1>12. Told([o EXCEPT ![Free] = q])'
  BY <1>11, ToldOne
<1> QED BY <1>3, <1>5, <1>12 DEF q

\* What the operation of a cycle on node i does to it: it comes to spell q.
RingMoves(o, r, i, out, w, q) ==
  /\ r \in Rings /\ i \in Nodes /\ at[i] \in {r} \cup States /\ w \in {r} \cup States
  /\ Ringed(r, out, i, w)
  /\ Circles(out.hook, out.ring, q, Nodes)
  /\ \A j \in Nodes : Stands(q, j) <=> IF j = i THEN w = r ELSE Stands(o[r], j)
  /\ \A j \in Nodes : ~ Stands(o[r], j) /\ j # i =>
       out.hook.previous[j] = hook.previous[j] /\ out.hook.next[j] = hook.next[j]

\* It does nothing to another.
LEMMA RingTold ==
  ASSUME Shape, NEW o, Told(o), NEW r, NEW i, NEW out, NEW w, NEW q, RingMoves(o, r, i, out, w, q)
  PROVE  Told([o EXCEPT ![r] = q])'
<1>1. r \in Where
  BY DEF Where, Places, RingMoves
<1>2. /\ hook' = out.hook /\ ring' = [ring EXCEPT ![r] = out.ring] /\ at' = [at EXCEPT ![i] = w]
      /\ chain' = chain /\ list' = list /\ free' = free
  BY DEF Ringed, Place, RingMoves
<1>3. SpeltAs(r, q)' /\ OthersKept(r)
  BY <1>1, <1>2, Kinds, ShapeTypes DEF SpeltAs, OthersKept, RingMoves
<1>4. at'[i] = w /\ \A j \in Nodes : j # i => at'[j] = at[j]
  BY <1>2, ShapeTypes DEF RingMoves
<1>5. Moves(o, r, q, i)
  BY <1>1, <1>2, <1>3, <1>4 DEF Moves, RingMoves
<1> QED BY <1>5, ToldOne

\* A cycle gains a node at its back.
LEMMA RingPushTold ==
  ASSUME Shape, NEW o, Told(o), NEW r \in Rings, NEW i \in Loose, RingPush(r, i)
  PROVE  Told([o EXCEPT ![r] = Append(o[r], i)])'
<1> DEFINE out == Joined(hook, ring[r], i)  q == Append(o[r], i)
<1>1. r \in Where /\ i \in Nodes /\ at[i] \in States /\ at[i] \in {r} \cup States
  BY PlacesApart DEF Where, Loose, States, Places
<1>2. o[r] \in Seq(Nodes) /\ ~ Stands(o[r], i) /\ Circles(hook, ring[r], o[r], Nodes)
  BY <1>1, ToldFacts, Kinds DEF SpeltAs
<1>3. /\ Circles(out.hook, out.ring, q, Nodes)
      /\ \A j \in Nodes : ~ Stands(o[r], j) /\ j # i =>
           out.hook.previous[j] = hook.previous[j] /\ out.hook.next[j] = hook.next[j]
  BY <1>1, <1>2, ShapeTypes, CirclesJoined
<1>4. \A j \in Nodes : Stands(q, j) <=> IF j = i THEN TRUE ELSE Stands(o[r], j)
  BY <1>1, <1>2, AppendFacts
<1>5. Ringed(r, out, i, r) /\ r \in {r} \cup States
  BY DEF RingPush
<1> HIDE DEF out, q
<1>6. RingMoves(o, r, i, out, r, q)
  BY <1>1, <1>3, <1>4, <1>5 DEF RingMoves
<1>7. Told([o EXCEPT ![r] = q])'
  BY <1>6, RingTold
<1> QED BY <1>7 DEF q

\* A cycle loses a node wherever it stands.
LEMMA RingUnlinkTold ==
  ASSUME Shape, NEW o, Told(o), NEW r \in Rings, NEW p \in 1..Len(o[r]), RingUnlink(r, o[r][p])
  PROVE  /\ at' = [at EXCEPT ![o[r][p]] = "vacant"]
         /\ Told([o EXCEPT ![r] = Without(o[r], p)])'
<1> DEFINE i == o[r][p]  out == Left(hook, ring[r], i)  q == Without(o[r], p)
<1>1. r \in Where /\ "vacant" \in States /\ r # "vacant"
  BY PlacesApart DEF Where, Places
<1>2. /\ o[r] \in Seq(Nodes) /\ OneEach(o[r]) /\ Circles(hook, ring[r], o[r], Nodes)
      /\ i \in Nodes /\ at[i] = r /\ Stands(o[r], i)
  BY <1>1, ToldFacts, Kinds DEF SpeltAs, Stands
<1>3. /\ Circles(out.hook, out.ring, q, Nodes)
      /\ \A j \in Nodes : ~ Stands(o[r], j) =>
           out.hook.previous[j] = hook.previous[j] /\ out.hook.next[j] = hook.next[j]
  BY <1>2, ShapeTypes, CirclesLeft
<1>4. \A j \in Nodes : Stands(q, j) <=> IF j = i THEN FALSE ELSE Stands(o[r], j)
  BY <1>2, WithoutFacts
<1>5. PICK w \in {r} \cup States : w = "vacant"
  BY <1>1
<1>6. Ringed(r, out, i, w) /\ w # r
  BY <1>1, <1>5 DEF RingUnlink
<1> HIDE DEF i, out, q
<1>7. RingMoves(o, r, i, out, w, q)
  BY <1>2, <1>3, <1>4, <1>6 DEF RingMoves
<1>8. Told([o EXCEPT ![r] = q])'
  BY <1>7, RingTold
<1> QED BY <1>5, <1>6, <1>8 DEF q, i, Ringed, Place

\* move_back takes a node of a cycle to its back.
LEMMA RingMoveBackTold ==
  ASSUME Shape, NEW o, Told(o), NEW r \in Rings, NEW p \in 1..Len(o[r]), RingMoveBack(r, o[r][p])
  PROVE  /\ at' = [at EXCEPT ![o[r][p]] = r]
         /\ Told([o EXCEPT ![r] = Append(Without(o[r], p), o[r][p])])'
<1> DEFINE i == o[r][p]  out == CycledBack(hook, ring[r], i)  q == Append(Without(o[r], p), i)
<1>1. r \in Where
  BY PlacesApart DEF Where, Places
<1>2. /\ o[r] \in Seq(Nodes) /\ OneEach(o[r]) /\ Circles(hook, ring[r], o[r], Nodes)
      /\ i \in Nodes /\ at[i] = r /\ Stands(o[r], i)
  BY <1>1, ToldFacts, Kinds DEF SpeltAs, Stands
<1>3. /\ Circles(out.hook, out.ring, q, Nodes)
      /\ \A j \in Nodes : ~ Stands(o[r], j) =>
           out.hook.previous[j] = hook.previous[j] /\ out.hook.next[j] = hook.next[j]
  BY <1>2, ShapeTypes, CirclesCycledBack
<1>4. \A j \in Nodes : Stands(q, j) <=> IF j = i THEN TRUE ELSE Stands(o[r], j)
  BY <1>2, WithoutFacts, AppendFacts
<1>5. Ringed(r, out, i, r) /\ r \in {r} \cup States
  BY DEF RingMoveBack
<1> HIDE DEF i, out, q
<1>6. RingMoves(o, r, i, out, r, q)
  BY <1>2, <1>3, <1>4, <1>5 DEF RingMoves
<1>7. Told([o EXCEPT ![r] = q])'
  BY <1>6, RingTold
<1> QED BY <1>5, <1>7 DEF q, i, Ringed, Place

\* A step takes its front to its back.
LEMMA RingStepTold ==
  ASSUME Shape, NEW o, Told(o), NEW r \in Rings, RingStep(r)
  PROVE  /\ 1 \in 1..Len(o[r]) /\ at' = at
         /\ Told([o EXCEPT ![r] = Append(Without(o[r], 1), o[r][1])])'
<1> DEFINE i == o[r][1]  q == Append(Without(o[r], 1), i)
<1>1. r \in Where
  BY PlacesApart DEF Where, Places
<1>2. /\ o[r] \in Seq(Nodes) /\ OneEach(o[r]) /\ Circles(hook, ring[r], o[r], Nodes) /\ Len(o[r]) \in Nat
      /\ ring[r] # END
  BY <1>1, ToldFacts, Kinds DEF SpeltAs, RingStep
<1>3. o[r] # <<>> /\ 1 \in 1..Len(o[r])
  BY <1>2 DEF Circles
<1>4. i \in Nodes /\ at[i] = r /\ Stands(o[r], i)
  BY <1>1, <1>3, ToldFacts DEF Stands
<1>5. Circles(hook, Stepped(hook, ring[r]), q, Nodes)
  BY <1>2, <1>3, ShapeTypes, CirclesStepped
<1>6. \A j \in Nodes : Stands(q, j) <=> Stands(o[r], j)
  BY <1>2, <1>3, <1>4, WithoutFacts, AppendFacts
<1>7. /\ hook' = hook /\ ring' = [ring EXCEPT ![r] = Stepped(hook, ring[r])] /\ at' = at
      /\ chain' = chain /\ list' = list /\ free' = free
  BY DEF RingStep
<1> HIDE DEF i, q
<1>8. SpeltAs(r, q)' /\ OthersKept(r)
  BY <1>1, <1>5, <1>7, Kinds, ShapeTypes DEF SpeltAs, OthersKept
<1>9. Moves(o, r, q, i)
  BY <1>1, <1>4, <1>6, <1>7, <1>8 DEF Moves
<1>10. Told([o EXCEPT ![r] = q])'
  BY <1>9, ToldOne
<1> QED BY <1>3, <1>7, <1>10 DEF q, i

\* What the operation of a list on node i does to it: it comes to spell q.
HeadMoves(o, l, i, out, w, q) ==
  /\ l \in Lists /\ i \in Nodes /\ at[i] \in {l} \cup States /\ w \in {l} \cup States
  /\ Heads(l, out, i, w)
  /\ Piled(out.hook, out.list, q, Nodes)
  /\ \A j \in Nodes : Stands(q, j) <=> IF j = i THEN w = l ELSE Stands(o[l], j)
  /\ \A j \in Nodes : ~ Stands(o[l], j) /\ j # i =>
       out.hook.previous[j] = hook.previous[j] /\ out.hook.next[j] = hook.next[j]

\* It does nothing to another.
LEMMA HeadTold ==
  ASSUME Shape, NEW o, Told(o), NEW l, NEW i, NEW out, NEW w, NEW q, HeadMoves(o, l, i, out, w, q)
  PROVE  Told([o EXCEPT ![l] = q])'
<1>1. l \in Where
  BY DEF Where, Places, HeadMoves
<1>2. /\ hook' = out.hook /\ list' = [list EXCEPT ![l] = out.list] /\ at' = [at EXCEPT ![i] = w]
      /\ chain' = chain /\ ring' = ring /\ free' = free
  BY DEF Heads, Place, HeadMoves
<1>3. SpeltAs(l, q)' /\ OthersKept(l)
  BY <1>1, <1>2, Kinds, ShapeTypes DEF SpeltAs, OthersKept, HeadMoves
<1>4. at'[i] = w /\ \A j \in Nodes : j # i => at'[j] = at[j]
  BY <1>2, ShapeTypes DEF HeadMoves
<1>5. Moves(o, l, q, i)
  BY <1>1, <1>2, <1>3, <1>4 DEF Moves, HeadMoves
<1> QED BY <1>5, ToldOne

\* A list gains a node at its front.
LEMMA ListPushTold ==
  ASSUME Shape, NEW o, Told(o), NEW l \in Lists, NEW i \in Loose, ListPush(l, i)
  PROVE  Told([o EXCEPT ![l] = <<i>> \o o[l]])'
<1> DEFINE out == Listed(hook, list[l], i)  q == <<i>> \o o[l]
<1>1. l \in Where /\ i \in Nodes /\ at[i] \in States /\ at[i] \in {l} \cup States
  BY PlacesApart DEF Where, Loose, States, Places
<1>2. o[l] \in Seq(Nodes) /\ OneEach(o[l]) /\ ~ Stands(o[l], i) /\ Piled(hook, list[l], o[l], Nodes)
  BY <1>1, ToldFacts, Kinds DEF SpeltAs
<1>3. /\ Piled(out.hook, out.list, q, Nodes)
      /\ \A j \in Nodes : ~ Stands(o[l], j) /\ j # i =>
           out.hook.previous[j] = hook.previous[j] /\ out.hook.next[j] = hook.next[j]
  BY <1>1, <1>2, ShapeTypes, PiledListed
<1>4. \A j \in Nodes : Stands(q, j) <=> IF j = i THEN TRUE ELSE Stands(o[l], j)
  BY <1>1, <1>2, PrependFacts
<1>5. Heads(l, out, i, l) /\ l \in {l} \cup States
  BY DEF ListPush
<1> HIDE DEF out, q
<1>6. HeadMoves(o, l, i, out, l, q)
  BY <1>1, <1>3, <1>4, <1>5 DEF HeadMoves
<1>7. Told([o EXCEPT ![l] = q])'
  BY <1>6, HeadTold
<1> QED BY <1>7 DEF q

\* A list loses a node wherever it stands.
LEMMA ListUnlinkTold ==
  ASSUME Shape, NEW o, Told(o), NEW l \in Lists, NEW p \in 1..Len(o[l]), ListUnlink(l, o[l][p])
  PROVE  /\ at' = [at EXCEPT ![o[l][p]] = "vacant"]
         /\ Told([o EXCEPT ![l] = Without(o[l], p)])'
<1> DEFINE i == o[l][p]  out == Unlisted(hook, list[l], i)  q == Without(o[l], p)
<1>1. l \in Where /\ "vacant" \in States /\ l # "vacant"
  BY PlacesApart DEF Where, Places
<1>2. /\ o[l] \in Seq(Nodes) /\ OneEach(o[l]) /\ Piled(hook, list[l], o[l], Nodes)
      /\ i \in Nodes /\ at[i] = l /\ Stands(o[l], i)
  BY <1>1, ToldFacts, Kinds DEF SpeltAs, Stands
<1>3. /\ Piled(out.hook, out.list, q, Nodes)
      /\ \A j \in Nodes : ~ Stands(o[l], j) =>
           out.hook.previous[j] = hook.previous[j] /\ out.hook.next[j] = hook.next[j]
  BY <1>2, ShapeTypes, PiledUnlisted
<1>4. \A j \in Nodes : Stands(q, j) <=> IF j = i THEN FALSE ELSE Stands(o[l], j)
  BY <1>2, WithoutFacts
<1>5. PICK w \in {l} \cup States : w = "vacant"
  BY <1>1
<1>6. Heads(l, out, i, w) /\ w # l
  BY <1>1, <1>5 DEF ListUnlink
<1> HIDE DEF i, out, q
<1>7. HeadMoves(o, l, i, out, w, q)
  BY <1>2, <1>3, <1>4, <1>6 DEF HeadMoves
<1>8. Told([o EXCEPT ![l] = q])'
  BY <1>7, HeadTold
<1> QED BY <1>5, <1>6, <1>8 DEF q, i, Heads, Place

\* A mark moves no node.
LEMMA MarkTold ==
  ASSUME Shape, NEW o, Told(o), NEW i \in Nodes, at[i] \in States, NEW n, NEW w \in States,
         Mark(i, SetHook(hook, i, i, n), w)
  PROVE  Told(o)'
<1>1. PICK T \in SUBSET Where : T = {}
  OBVIOUS
<1>2. /\ hook' = SetHook(hook, i, i, n) /\ at' = [at EXCEPT ![i] = w]
      /\ chain' = chain /\ ring' = ring /\ list' = list /\ free' = free
  BY DEF Mark, Place
<1>3. \A j \in Nodes : j # i => /\ hook'.previous[j] = hook.previous[j] /\ hook'.next[j] = hook.next[j]
                                /\ at'[j] = at[j]
  BY <1>2, ShapeTypes DEF SetHook, Plane
<1>4. at'[i] = w /\ \A l \in Where : l \notin States
  BY <1>2, ShapeTypes, PlacesApart DEF Where
<1>5. o \in [Where -> Seq(Nodes)]
  BY DEF Told
<1>6. Touches(o, o, T)
  BY <1>1, <1>2, <1>3, <1>4, <1>5 DEF Touches
<1> QED BY <1>6, ToldFrame

\* append puts the whole source behind the target.
LEMMA ChainAppendTold ==
  ASSUME Shape, NEW o, Told(o), NEW t \in Plain, NEW s \in Plain, ChainAppend(t, s)
  PROVE  Told([o EXCEPT ![t] = o[t] \o o[s], ![s] = <<>>])'
<1> DEFINE out == Spliced(hook, chain[t], chain[s])  q == o[t] \o o[s]
<1>1. t \in Where /\ s \in Where /\ t \in Chains /\ s \in Chains /\ t # s /\ chain[s].first # END
  BY DEF Where, Places, Chains, ChainAppend
<1>2. /\ Spells(hook, chain[t], o[t], Nodes) /\ Spells(hook, chain[s], o[s], Nodes)
      /\ \A j \in Nodes : (Stands(o[t], j) <=> at[j] = t) /\ (Stands(o[s], j) <=> at[j] = s)
  BY <1>1 DEF Told, SpeltAs
<1>3. /\ o[s] # <<>> /\ o[t] \in Seq(Nodes) /\ o[s] \in Seq(Nodes) /\ OneEach(o[t]) /\ OneEach(o[s])
      /\ \A j : ~ (Stands(o[t], j) /\ Stands(o[s], j))
  <2>1. o[s] # <<>> /\ o[t] \in Seq(Nodes) /\ o[s] \in Seq(Nodes) /\ OneEach(o[t]) /\ OneEach(o[s])
    BY <1>1, <1>2 DEF Spells
  <2> QED BY <1>1, <1>2, <2>1, IsInside
<1>4. /\ Spells(out.hook, out.chain, q, Nodes)
      /\ \A j \in Nodes : ~ Stands(o[t], j) /\ ~ Stands(o[s], j) =>
           out.hook.previous[j] = hook.previous[j] /\ out.hook.next[j] = hook.next[j]
  <2>1. Separate(hook, chain[t], chain[s], o[t], o[s], Nodes)
    BY <1>2, <1>3 DEF Separate
  <2> QED BY <2>1, ShapeTypes, SpellsSpliced
<1>5. q \in Seq(Nodes) /\ \A j : Stands(q, j) <=> Stands(o[t], j) \/ Stands(o[s], j)
  BY <1>3, ConcatFacts
<1>6. /\ hook' = out.hook /\ chain' = [chain EXCEPT ![t] = out.chain, ![s] = EmptyChain]
      /\ at' = [j \in Nodes |-> IF at[j] = s THEN t ELSE at[j]]
      /\ ring' = ring /\ list' = list /\ free' = free
  BY DEF ChainAppend
<1> HIDE DEF out, q
<1>7. PICK e : e = [o EXCEPT ![t] = q, ![s] = <<>>]
  OBVIOUS
<1>8. PICK T : T = {t, s}
  OBVIOUS
<1>9. /\ e \in [Where -> Seq(Nodes)] /\ T \in SUBSET Where /\ e[t] = q /\ e[s] = <<>>
      /\ \A m \in Where \ T : e[m] = o[m]
  <2>1. o \in [Where -> Seq(Nodes)] /\ q \in Seq(Nodes) /\ <<>> \in Seq(Nodes)
    BY <1>5 DEF Told
  <2>2. [o EXCEPT ![t] = q] \in [Where -> Seq(Nodes)]
    BY <1>1, <2>1
  <2> QED BY <1>1, <1>7, <1>8, <2>1, <2>2
<1>10. chain'[t] = out.chain /\ chain'[s] = EmptyChain /\ \A c \in Chains \ T : chain'[c] = chain[c]
  BY <1>1, <1>6, <1>8, ShapeTypes
<1>11. Spells(hook', EmptyChain, <<>>, Nodes) /\ \A j : ~ Stands(<<>>, j)
  BY DEF Spells, EmptyChain, Stands, OneEach
<1>12. SpeltAs(t, q)' /\ SpeltAs(s, <<>>)'
  BY <1>1, <1>4, <1>6, <1>10, <1>11 DEF SpeltAs
<1>13. \A j \in Nodes : (Stands(q, j) <=> at'[j] = t) /\ (Stands(<<>>, j) <=> at'[j] = s)
  BY <1>1, <1>2, <1>5, <1>6, <1>11
<1>14. \A m \in T : SpeltAs(m, e[m])' /\ \A j \in Nodes : Stands(e[m], j) <=> at'[j] = m
  BY <1>8, <1>9, <1>12, <1>13
<1>15. \A j \in Nodes : at[j] \in Where \ T =>
         /\ at'[j] = at[j]
         /\ hook'.previous[j] = hook.previous[j] /\ hook'.next[j] = hook.next[j]
  BY <1>2, <1>4, <1>6, <1>8
<1>16. \A j \in Nodes : at'[j] \in Where \ T => at'[j] = at[j]
  BY <1>6, <1>8
<1>17. Touches(o, e, T)
  BY <1>6, <1>9, <1>10, <1>14, <1>15, <1>16 DEF Touches
<1>18. Told(e)'
  BY <1>17, ToldFrame
<1> QED BY <1>7, <1>18 DEF q

\* move_back within one chain.
LEMMA ChainTurnTold ==
  ASSUME Shape, NEW o, Told(o), NEW c \in Plain, NEW p \in 1..Len(o[c]), ChainMoveBack(c, c, o[c][p])
  PROVE  Told([o EXCEPT ![c] = Append(Without(o[c], p), o[c][p])])'
<1> DEFINE i == o[c][p]  w == Without(o[c], p)  q == Append(w, i)
           out == Unlinked(hook, chain[c], i)  into == Pushed(out.hook, out.chain, i)
<1>1. c \in Where /\ c \in Chains
  BY DEF Where, Places, Chains
<1>2. /\ o[c] \in Seq(Nodes) /\ OneEach(o[c]) /\ Spells(hook, chain[c], o[c], Nodes)
      /\ i \in Nodes /\ at[i] = c /\ Stands(o[c], i)
  BY <1>1, ToldFacts DEF SpeltAs, Stands
<1>3. /\ out.hook \in Plane(Nodes) /\ Spells(out.hook, out.chain, w, Nodes)
      /\ \A j \in Nodes : ~ Stands(o[c], j) =>
           out.hook.previous[j] = hook.previous[j] /\ out.hook.next[j] = hook.next[j]
  BY <1>2, ShapeTypes, SpellsUnlinked
<1>4. /\ w \in Seq(Nodes) /\ ~ Stands(w, i) /\ \A j : Stands(w, j) <=> Stands(o[c], j) /\ j # i
  BY <1>2, WithoutFacts
<1>5. \A j \in Nodes : Stands(q, j) <=> Stands(o[c], j)
  BY <1>2, <1>4, AppendFacts
<1>6. [chain EXCEPT ![c] = out.chain][c] = out.chain
  BY <1>1, ShapeTypes
<1>7. /\ hook' = into.hook /\ chain' = [[chain EXCEPT ![c] = out.chain] EXCEPT ![c] = into.chain]
      /\ at' = [at EXCEPT ![i] = c] /\ ring' = ring /\ list' = list /\ free' = free
  BY <1>6 DEF ChainMoveBack, Place
<1> HIDE DEF out, w
<1>8. /\ Spells(into.hook, into.chain, q, Nodes)
      /\ \A j \in Nodes : ~ Stands(w, j) /\ j # i =>
           into.hook.previous[j] = out.hook.previous[j] /\ into.hook.next[j] = out.hook.next[j]
  BY <1>2, <1>3, <1>4, ShapeTypes, SpellsPushed
<1> HIDE DEF into, q, i
<1>9. chain'[c] = into.chain /\ \A d \in Chains : d # c => chain'[d] = chain[d]
  BY <1>1, <1>7, ShapeTypes
<1>10. SpeltAs(c, q)' /\ OthersKept(c)
  BY <1>1, <1>7, <1>8, <1>9, PlacesApart DEF SpeltAs, OthersKept
<1>11. at'[i] = c /\ \A j \in Nodes : j # i => at'[j] = at[j]
  BY <1>2, <1>7, ShapeTypes
<1>12. \A j \in Nodes : ~ Stands(o[c], j) /\ j # i =>
         hook'.previous[j] = hook.previous[j] /\ hook'.next[j] = hook.next[j]
  BY <1>3, <1>4, <1>7, <1>8
<1>13. Moves(o, c, q, i)
  BY <1>1, <1>2, <1>5, <1>10, <1>11, <1>12 DEF Moves
<1>14. Told([o EXCEPT ![c] = q])'
  BY <1>13, ToldOne
<1> QED BY <1>14 DEF q, w, i

\* move_back from one chain to the back of another.
LEMMA ChainMoveTold ==
  ASSUME Shape, NEW o, Told(o), NEW s \in Plain, NEW t \in Plain, s # t,
         NEW p \in 1..Len(o[s]), ChainMoveBack(s, t, o[s][p])
  PROVE  Told([o EXCEPT ![s] = Without(o[s], p), ![t] = Append(o[t], o[s][p])])'
<1> DEFINE i == o[s][p]  w == Without(o[s], p)  q == Append(o[t], i)
           out == Unlinked(hook, chain[s], i)  into == Pushed(out.hook, chain[t], i)
<1>1. t \in Where /\ s \in Where /\ t \in Chains /\ s \in Chains
  BY DEF Where, Places, Chains
<1>2. /\ o[s] \in Seq(Nodes) /\ OneEach(o[s]) /\ Spells(hook, chain[s], o[s], Nodes)
      /\ i \in Nodes /\ at[i] = s /\ Stands(o[s], i)
      /\ o[t] \in Seq(Nodes) /\ Spells(hook, chain[t], o[t], Nodes)
  BY <1>1, ToldFacts DEF SpeltAs, Stands
<1>3. \A j \in Nodes : (Stands(o[t], j) <=> at[j] = t) /\ (Stands(o[s], j) <=> at[j] = s)
  BY <1>1 DEF Told
<1>4. /\ out.hook \in Plane(Nodes) /\ Spells(out.hook, out.chain, w, Nodes)
      /\ \A j \in Nodes : ~ Stands(o[s], j) =>
           out.hook.previous[j] = hook.previous[j] /\ out.hook.next[j] = hook.next[j]
  BY <1>2, ShapeTypes, SpellsUnlinked
<1>5. /\ w \in Seq(Nodes) /\ ~ Stands(w, i) /\ \A j : Stands(w, j) <=> Stands(o[s], j) /\ j # i
  BY <1>2, WithoutFacts
<1>6. [chain EXCEPT ![s] = out.chain][t] = chain[t]
  BY <1>1, ShapeTypes
<1>7. /\ hook' = into.hook /\ chain' = [[chain EXCEPT ![s] = out.chain] EXCEPT ![t] = into.chain]
      /\ at' = [at EXCEPT ![i] = t] /\ ring' = ring /\ list' = list /\ free' = free
  BY <1>6 DEF ChainMoveBack, Place
<1> HIDE DEF out, w
<1>8. Spells(out.hook, chain[t], o[t], Nodes) /\ ~ Stands(o[t], i)
  <2>1. \A j \in Nodes : Stands(o[t], j) =>
          out.hook.previous[j] = hook.previous[j] /\ out.hook.next[j] = hook.next[j]
    BY <1>3, <1>4
  <2> QED BY <1>2, <1>3, <2>1, SpellsFrame
<1>9. /\ Spells(into.hook, into.chain, q, Nodes)
      /\ \A j \in Nodes : ~ Stands(o[t], j) /\ j # i =>
           into.hook.previous[j] = out.hook.previous[j] /\ into.hook.next[j] = out.hook.next[j]
  BY <1>2, <1>4, <1>8, ShapeTypes, SpellsPushed
<1>10. q \in Seq(Nodes) /\ \A j : Stands(q, j) <=> Stands(o[t], j) \/ j = i
  BY <1>2, AppendFacts
<1> HIDE DEF into, q
<1>11. Spells(into.hook, out.chain, w, Nodes)
  <2>1. \A j \in Nodes : Stands(w, j) =>
          into.hook.previous[j] = out.hook.previous[j] /\ into.hook.next[j] = out.hook.next[j]
    BY <1>3, <1>5, <1>9
  <2> QED BY <1>4, <2>1, SpellsFrame
<1> HIDE DEF i
<1>12. PICK e : e = [o EXCEPT ![s] = w, ![t] = q]
  OBVIOUS
<1>13. PICK T : T = {s, t}
  OBVIOUS
<1>14. /\ e \in [Where -> Seq(Nodes)] /\ T \in SUBSET Where /\ e[t] = q /\ e[s] = w
       /\ \A m \in Where \ T : e[m] = o[m]
  BY <1>1, <1>5, <1>10, <1>12, <1>13 DEF Told
<1>15. chain'[t] = into.chain /\ chain'[s] = out.chain /\ \A c \in Chains \ T : chain'[c] = chain[c]
  BY <1>1, <1>7, <1>13, ShapeTypes
<1>16. SpeltAs(t, q)' /\ SpeltAs(s, w)'
  BY <1>1, <1>7, <1>9, <1>11, <1>15 DEF SpeltAs
<1>17. at'[i] = t /\ \A j \in Nodes : j # i => at'[j] = at[j]
  BY <1>2, <1>7, ShapeTypes
<1>18. \A j \in Nodes : (Stands(q, j) <=> at'[j] = t) /\ (Stands(w, j) <=> at'[j] = s)
  BY <1>2, <1>3, <1>5, <1>10, <1>17
<1>19. \A m \in T : SpeltAs(m, e[m])' /\ \A j \in Nodes : Stands(e[m], j) <=> at'[j] = m
  BY <1>13, <1>14, <1>16, <1>18
<1>20. \A j \in Nodes : at[j] \in Where \ T =>
         /\ at'[j] = at[j]
         /\ hook'.previous[j] = hook.previous[j] /\ hook'.next[j] = hook.next[j]
  BY <1>2, <1>3, <1>4, <1>7, <1>9, <1>13, <1>17
<1>21. \A j \in Nodes : at'[j] \in Where \ T => at'[j] = at[j]
  BY <1>13, <1>17
<1>22. Touches(o, e, T)
  BY <1>7, <1>14, <1>15, <1>19, <1>20, <1>21 DEF Touches
<1>23. Told(e)'
  BY <1>22, ToldFrame
<1> QED BY <1>12, <1>23 DEF q, w, i

-----------------------------------------------------------------------------
(* What each operation does is what Orders promises.                       *)

Unheld == {i \in Nodes : at[i] \in States}

\* What Orders reads of the lists.
LEMMA PromiseReads ==
  /\ [l \in Places \cup {Free} |-> Walk(hook, HeadOf(l))] = Order
  /\ [l \in Places \cup {Free} |-> Walk(hook, HeadOf(l))]' = Order'
  /\ (Chains \cup Rings) \cup (Lists \cup {Free}) = Where
BY DEF Order, Where, Places

\* Removing a node by name removes it at its one index.
LEMMA PromiseRemoves ==
  ASSUME NEW V, NEW s \in Seq(V), OneEach(s), NEW p \in 1..Len(s)
  PROVE  Promise!RemoveFirst(s, s[p]) = Without(s, p) /\ s[p] \in Promise!ToSet(s)
<1> DEFINE I == {k \in 1..Len(s) : s[k] = s[p]}
<1>1. I = {p}
  BY DEF OneEach
<1>2. Promise!Min(I) = p
  BY <1>1 DEF Promise!Min
<1>3. Promise!SelectInSeq(s, LAMBDA v : v = s[p]) = p
  BY <1>1, <1>2 DEF Promise!SelectInSeq
<1>4. Promise!RemoveFirst(s, s[p]) = Promise!RemoveAt(s, p)
  BY <1>3 DEF Promise!RemoveFirst
<1>5. Promise!RemoveAt(s, p) = Without(s, p)
  BY CutOut DEF Promise!RemoveAt
<1>6. s[p] \in Promise!ToSet(s)
  BY DEF Promise!ToSet
<1> QED BY <1>4, <1>5, <1>6

\* The lists spell o, and then e.
Retells(o, e) ==
  /\ Shape /\ Shape' /\ Told(o) /\ Told(e)' /\ UndoTold'

\* What such a step says of the orders.
LEMMA RetellsOrder ==
  ASSUME NEW o, NEW e, Retells(o, e)
  PROVE  /\ Order = o /\ Order' = e /\ OrderInv'
         /\ o \in [Where -> Seq(Nodes)] /\ e \in [Where -> Seq(Nodes)]
<1>1. Order = o
  BY ToldIs, ShapeTypes DEF Retells
<1>2. (hook \in Plane(Nodes))'
  BY DEF Retells, Shape, TypeOK
<1>3. Order' = e /\ Told(Order)'
  BY <1>2, ToldNext DEF Retells
<1>4. o \in [Where -> Seq(Nodes)] /\ e \in [Where -> Seq(Nodes)]
  BY DEF Retells, Told
<1> QED BY <1>1, <1>3, <1>4 DEF OrderInv, Retells

\* A node leaves its list.
LEMMA TakeOrder ==
  ASSUME NEW o, NEW l \in Where, NEW p \in 1..Len(o[l]), Retells(o, [o EXCEPT ![l] = Without(o[l], p)]),
         NEW w \in States, at' = [at EXCEPT ![o[l][p]] = w], l = Free => p = 1,
         undo' \in {NoUndo, [list |-> l, node |-> o[l][p], was |-> o[l]]}
  PROVE  OrderInv' /\ Promise!Next
<1> DEFINE i == o[l][p]  e == [o EXCEPT ![l] = Without(o[l], p)]
<1>1. Order = o /\ Order' = e /\ OrderInv'
  BY RetellsOrder
<1>2. Told(o) /\ Shape
  BY DEF Retells
<1>3. o[l] \in Seq(Nodes) /\ OneEach(o[l]) /\ i \in Nodes /\ at[i] = l /\ l \notin States
  BY <1>2, ToldFacts, PlacesApart DEF Where
<1>4. Promise!RemoveFirst(o[l], i) = Without(o[l], p) /\ i \in Promise!ToSet(o[l])
  BY <1>3, PromiseRemoves
<1>5. at'[i] = w /\ \A j \in Nodes : j # i => at'[j] = at[j]
  BY <1>2, <1>3, ShapeTypes
<1>6. Unheld' = Unheld \cup {i} /\ i \in Unheld' \ Unheld
  BY <1>3, <1>5 DEF Unheld
<1>7. l = Free => i = Head(o[l])
  BY <1>3
<1> HIDE DEF i
<1>8. Promise!Take(l, i)
  BY <1>1, <1>4, <1>6, <1>7, PromiseReads DEF Promise!Take, Unheld, i
<1>9. \E k \in Unheld' \ Unheld : \E m \in (Chains \cup Rings) \cup (Lists \cup {Free}) :
        k \in Promise!ToSet(Order[m]) /\ Promise!Take(m, k)
  BY <1>1, <1>4, <1>6, <1>8, PromiseReads
<1>10. Promise!Next
  BY <1>9, PromiseReads DEF Promise!Next, Unheld
<1> QED BY <1>1, <1>10

\* A loose node enters a chain or a cycle.
LEMMA BackOrder ==
  ASSUME NEW o, NEW l \in Chains \cup Rings, NEW i \in Loose, Retells(o, [o EXCEPT ![l] = Append(o[l], i)]),
         at' = [at EXCEPT ![i] = l], undo' = NoUndo
  PROVE  OrderInv' /\ Promise!Next
<1> DEFINE e == [o EXCEPT ![l] = Append(o[l], i)]
<1>1. Order = o /\ Order' = e /\ OrderInv' /\ Shape
  BY RetellsOrder DEF Retells
<1>2. i \in Nodes /\ at[i] \in States /\ l \notin States
  BY PlacesApart DEF Loose, States, Places
<1>3. at'[i] = l /\ \A j \in Nodes : j # i => at'[j] = at[j]
  BY <1>1, <1>2, ShapeTypes
<1>4. Unheld' = Unheld \ {i} /\ i \in Unheld \ Unheld'
  BY <1>2, <1>3 DEF Unheld
<1>5. Promise!PushBack(l, i)
  BY <1>1, <1>4, PromiseReads DEF Promise!PushBack, Unheld
<1>6. Promise!Next
  BY <1>4, <1>5 DEF Promise!Next, Unheld
<1> QED BY <1>1, <1>6

\* A loose node enters a list or the free list.
LEMMA FrontOrder ==
  ASSUME NEW o, NEW l \in Lists \cup {Free}, NEW i \in Loose, Retells(o, [o EXCEPT ![l] = <<i>> \o o[l]]),
         at' = [at EXCEPT ![i] = l], undo' = NoUndo
  PROVE  OrderInv' /\ Promise!Next
<1> DEFINE e == [o EXCEPT ![l] = <<i>> \o o[l]]
<1>1. Order = o /\ Order' = e /\ OrderInv' /\ Shape
  BY RetellsOrder DEF Retells
<1>2. i \in Nodes /\ at[i] \in States /\ l \notin States
  BY PlacesApart DEF Loose, States, Places
<1>3. at'[i] = l /\ \A j \in Nodes : j # i => at'[j] = at[j]
  BY <1>1, <1>2, ShapeTypes
<1>4. Unheld' = Unheld \ {i} /\ i \in Unheld \ Unheld'
  BY <1>2, <1>3 DEF Unheld
<1>5. Promise!PushFront(l, i)
  BY <1>1, <1>4, PromiseReads DEF Promise!PushFront, Unheld
<1>6. Promise!Next
  BY <1>4, <1>5 DEF Promise!Next, Unheld
<1> QED BY <1>1, <1>6

\* A node goes to the back of its own chain or cycle.
LEMMA TurnOrder ==
  ASSUME NEW o, NEW l \in Chains \cup Rings, NEW p \in 1..Len(o[l]),
         Retells(o, [o EXCEPT ![l] = Append(Without(o[l], p), o[l][p])]),
         at' \in {at, [at EXCEPT ![o[l][p]] = l]}, undo' = NoUndo
  PROVE  OrderInv' /\ Promise!Next
<1> DEFINE i == o[l][p]  e == [o EXCEPT ![l] = Append(Without(o[l], p), i)]
<1>1. Order = o /\ Order' = e /\ OrderInv' /\ Shape /\ Told(o) /\ o \in [Where -> Seq(Nodes)]
  BY RetellsOrder DEF Retells
<1>2. l \in Where
  BY DEF Where, Places
<1>3. o[l] \in Seq(Nodes) /\ OneEach(o[l]) /\ i \in Nodes /\ at[i] = l
  BY <1>1, <1>2, ToldFacts
<1>4. Promise!RemoveFirst(o[l], i) = Without(o[l], p) /\ i \in Promise!ToSet(o[l])
  BY <1>3, PromiseRemoves
<1>5. at' = at
  BY <1>1, <1>3, ShapeTypes
<1>6. Unheld' = Unheld
  BY <1>5 DEF Unheld
<1>7. Order' = [[Order EXCEPT ![l] = Promise!RemoveFirst(@, i)] EXCEPT ![l] = Append(@, i)]
  BY <1>1, <1>2, <1>4
<1> HIDE DEF i, e
<1>8. Promise!MoveBack(l, l, i)
  BY <1>6, <1>7, PromiseReads DEF Promise!MoveBack, Unheld
<1>9. \E from, to \in Chains \cup Rings : \E k \in Promise!ToSet(Order[from]) : Promise!MoveBack(from, to, k)
  BY <1>1, <1>4, <1>8
<1>10. Promise!Next
  BY <1>6, <1>9, PromiseReads DEF Promise!Next, Unheld
<1> QED BY <1>1, <1>10

\* A node goes to the back of another chain.
LEMMA MoveOrder ==
  ASSUME NEW o, NEW s \in Plain, NEW t \in Plain, s # t, NEW p \in 1..Len(o[s]),
         Retells(o, [o EXCEPT ![s] = Without(o[s], p), ![t] = Append(o[t], o[s][p])]),
         at' = [at EXCEPT ![o[s][p]] = t], undo' = NoUndo
  PROVE  OrderInv' /\ Promise!Next
<1> DEFINE i == o[s][p]  e == [o EXCEPT ![s] = Without(o[s], p), ![t] = Append(o[t], i)]
<1>1. Order = o /\ Order' = e /\ OrderInv' /\ Shape /\ Told(o) /\ o \in [Where -> Seq(Nodes)]
  BY RetellsOrder DEF Retells
<1>2. s \in Where /\ t \in Where /\ s \in Chains \cup Rings /\ t \in Chains \cup Rings
  BY DEF Where, Places, Chains
<1>3. o[s] \in Seq(Nodes) /\ OneEach(o[s]) /\ i \in Nodes /\ at[i] = s /\ s \notin States /\ t \notin States
  BY <1>1, <1>2, ToldFacts, PlacesApart DEF Where
<1>4. Promise!RemoveFirst(o[s], i) = Without(o[s], p) /\ i \in Promise!ToSet(o[s])
  BY <1>3, PromiseRemoves
<1>5. at'[i] = t /\ \A j \in Nodes : j # i => at'[j] = at[j]
  BY <1>1, <1>3, ShapeTypes
<1>6. Unheld' = Unheld
  BY <1>3, <1>5 DEF Unheld
<1>7. Order' = [[Order EXCEPT ![s] = Promise!RemoveFirst(@, i)] EXCEPT ![t] = Append(@, i)]
  BY <1>1, <1>2, <1>4
<1> HIDE DEF i, e
<1>8. Promise!MoveBack(s, t, i)
  BY <1>6, <1>7, PromiseReads DEF Promise!MoveBack, Unheld
<1>9. \E from, to \in Chains \cup Rings : \E k \in Promise!ToSet(Order[from]) : Promise!MoveBack(from, to, k)
  BY <1>1, <1>2, <1>4, <1>8
<1>10. Promise!Next
  BY <1>6, <1>9, PromiseReads DEF Promise!Next, Unheld
<1> QED BY <1>1, <1>10

\* A chain goes behind another.
LEMMA SpliceOrder ==
  ASSUME NEW o, NEW t \in Plain, NEW s \in Plain, t # s,
         Retells(o, [o EXCEPT ![t] = o[t] \o o[s], ![s] = <<>>]),
         at' = [i \in Nodes |-> IF at[i] = s THEN t ELSE at[i]], undo' = NoUndo
  PROVE  OrderInv' /\ Promise!Next
<1> DEFINE e == [o EXCEPT ![t] = o[t] \o o[s], ![s] = <<>>]
<1>1. Order = o /\ Order' = e /\ OrderInv'
  BY RetellsOrder
<1>2. s \notin States /\ t \notin States /\ s \in Chains \cup Rings /\ t \in Chains \cup Rings
  BY PlacesApart DEF Where, Places, Chains
<1>3. Unheld' = Unheld
  BY <1>2 DEF Unheld
<1>4. Order' = [Order EXCEPT ![t] = @ \o Order[s], ![s] = <<>>]
  BY <1>1
<1> HIDE DEF e
<1>5. Promise!Splice(t, s)
  BY <1>3, <1>4, PromiseReads DEF Promise!Splice, Unheld
<1>6. Promise!Next
  BY <1>2, <1>3, <1>5 DEF Promise!Next, Unheld
<1> QED BY <1>1, <1>6

\* A removal is undone.
LEMMA UndoOrder ==
  ASSUME NEW o, NEW c, c = undo.list, NEW i \in Nodes, i = undo.node, NEW q, q = undo.was,
         Retells(o, [o EXCEPT ![c] = q]), undo # NoUndo, undo' = NoUndo,
         at[i] \in States, at' = [at EXCEPT ![i] = c], c \in Where
  PROVE  OrderInv' /\ Promise!Next
<1>1. Order = o /\ Order' = [o EXCEPT ![c] = q] /\ OrderInv' /\ Shape
  BY RetellsOrder DEF Retells
<1>2. at'[i] = c /\ c \notin States /\ \A j \in Nodes : j # i => at'[j] = at[j]
  BY <1>1, ShapeTypes, PlacesApart DEF Where
<1>3. Unheld' = Unheld \ {i}
  BY <1>2 DEF Unheld
<1>4. Order' = [Order EXCEPT ![undo.list] = undo.was] /\ Unheld' = Unheld \ {undo.node}
  BY <1>1, <1>3
<1>5. Promise!Undo
  BY <1>4, PromiseReads DEF Promise!Undo, Unheld
<1>6. Promise!Next
  BY <1>5 DEF Promise!Next
<1> QED BY <1>1, <1>6

\* A loose node is marked.
LEMMA MarkOrder ==
  ASSUME NEW o, Retells(o, o), NEW i \in Nodes, at[i] \in States, NEW w \in States,
         at' = [at EXCEPT ![i] = w], undo' = NoUndo
  PROVE  OrderInv' /\ Promise!Next
<1>1. Order = o /\ Order' = o /\ OrderInv' /\ Shape
  BY RetellsOrder DEF Retells
<1>2. Unheld' = Unheld
  BY <1>1, ShapeTypes DEF Unheld
<1>3. Promise!Mark
  BY <1>1, <1>2, PromiseReads DEF Promise!Mark, Unheld
<1>4. Promise!Next
  BY <1>3 DEF Promise!Next
<1> QED BY <1>1, <1>4

\* Nothing to undo is nothing to restore.
LEMMA NothingToUndo == undo' = NoUndo => UndoTold'
BY DEF UndoTold

\* Every step keeps what the lists spell, and does to it what Orders promises.
LEMMA NextOrder ==
  ASSUME IInv, IInv', OrderInv, Next
  PROVE  OrderInv' /\ Promise!Next
<1>1. PICK o : o = Order
  OBVIOUS
<1>2. Shape /\ Shape' /\ Told(o) /\ UndoTold
  BY <1>1 DEF IInv, OrderInv
<1>3. \A e : Told(e)' /\ undo' = NoUndo => Retells(o, e)
  BY <1>2, NothingToUndo DEF Retells
<1>18. ASSUME NEW i \in Nodes, at[i] \in States, NEW w \in States, NEW n, Mark(i, SetHook(hook, i, i, n), w)
      PROVE  OrderInv' /\ Promise!Next
  <2>1. Told(o)' /\ undo' = NoUndo /\ at' = [at EXCEPT ![i] = w]
    BY <1>2, <1>18, MarkTold DEF Mark, Place
  <2>2. Retells(o, o)
    BY <1>3, <2>1
  <2> QED BY <1>18, <2>1, <2>2, MarkOrder
<1>19. "vacant" \in States /\ "parked" \in States
  BY DEF States
<1>4. ASSUME NEW i \in Loose, Enter(i) PROVE OrderInv' /\ Promise!Next
  <2>1. i \in Nodes /\ at[i] \in States
    BY DEF Loose, States
  <2>2. CASE Recycle(i)
    <3>1. Retells(o, [o EXCEPT ![Free] = <<i>> \o o[Free]]) /\ at' = [at EXCEPT ![i] = Free] /\ undo' = NoUndo
      BY <1>2, <1>3, <2>2, RecycleTold DEF Recycle, Place
    <3> QED BY <3>1, FrontOrder
  <2>3. ASSUME Idle(i) \/ Park(i) PROVE OrderInv' /\ Promise!Next
    <3>1. CASE Idle(i)
      <4>1. Mark(i, SetHook(hook, i, i, END), "vacant")
        BY <3>1 DEF Idle, Idled
      <4> QED BY <1>18, <1>19, <2>1, <4>1
    <3>2. CASE Park(i)
      <4>1. Mark(i, SetHook(hook, i, i, i), "parked")
        BY <3>2 DEF Park, Parked
      <4> QED BY <1>18, <1>19, <2>1, <4>1
    <3> QED BY <2>3, <3>1, <3>2
  <2>4. ASSUME NEW c \in Chains, ChainPush(c, i) PROVE OrderInv' /\ Promise!Next
    <3>1. Retells(o, [o EXCEPT ![c] = Append(o[c], i)]) /\ at' = [at EXCEPT ![i] = c] /\ undo' = NoUndo
      BY <1>2, <1>3, <2>4, ChainPushTold DEF ChainPush, Place
    <3> QED BY <3>1, BackOrder
  <2>5. ASSUME NEW r \in Rings, RingPush(r, i) PROVE OrderInv' /\ Promise!Next
    <3>1. Retells(o, [o EXCEPT ![r] = Append(o[r], i)]) /\ at' = [at EXCEPT ![i] = r] /\ undo' = NoUndo
      BY <1>2, <1>3, <2>5, RingPushTold DEF RingPush, Ringed, Place
    <3> QED BY <3>1, BackOrder
  <2>6. ASSUME NEW l \in Lists, ListPush(l, i) PROVE OrderInv' /\ Promise!Next
    <3>1. Retells(o, [o EXCEPT ![l] = <<i>> \o o[l]]) /\ at' = [at EXCEPT ![i] = l] /\ undo' = NoUndo
      BY <1>2, <1>3, <2>6, ListPushTold DEF ListPush, Heads, Place
    <3> QED BY <3>1, FrontOrder
  <2> QED BY <1>4, <2>2, <2>3, <2>4, <2>5, <2>6 DEF Enter
\* A member of a list stands in it at one index.
<1>5. ASSUME NEW l \in Where, NEW i \in Nodes, at[i] = l PROVE \E p \in 1..Len(o[l]) : o[l][p] = i
  BY <1>2, <1>5, ToldFacts
<1>6. ASSUME NEW i \in Nodes, TryUnpark(i) PROVE OrderInv' /\ Promise!Next
  <2>1. at[i] \in States
    BY <1>2, <1>6, ParkedIsApart DEF TryUnpark
  <2>2. Mark(i, SetHook(hook, i, i, END), "vacant")
    BY <1>6 DEF TryUnpark, Idled
  <2> QED BY <1>18, <1>19, <2>1, <2>2
<1>7. ASSUME NEW i \in Nodes, NEW c \in Chains, ChainUnlink(c, i) PROVE OrderInv' /\ Promise!Next
  <2>1. c \in Where /\ at[i] = c
    BY <1>7 DEF Where, Places, ChainUnlink
  <2>2. PICK p \in 1..Len(o[c]) : o[c][p] = i
    BY <1>5, <2>1
  <2>3. ChainUnlink(c, o[c][p])
    BY <1>7, <2>2
  <2>4. Told([o EXCEPT ![c] = Without(o[c], p)])'
    BY <1>2, <2>3, ChainUnlinkTold
  <2>5. UndoTold' /\ undo' \in {NoUndo, [list |-> c, node |-> o[c][p], was |-> o[c]]}
    BY <1>1, <1>2, <2>3, ChainUnlinkUndo
  <2>6. Retells(o, [o EXCEPT ![c] = Without(o[c], p)])
    BY <1>2, <2>4, <2>5 DEF Retells
  <2>7. PICK w \in States : at' = [at EXCEPT ![o[c][p]] = w]
    BY <2>3 DEF ChainUnlink, Place, States
  <2>8. c # Free
    BY PlacesApart DEF Places
  <2> QED BY <2>1, <2>5, <2>6, <2>7, <2>8, TakeOrder
<1>8. ASSUME NEW i \in Nodes, NEW s \in Plain, NEW t \in Plain, ChainMoveBack(s, t, i)
      PROVE  OrderInv' /\ Promise!Next
  <2>1. s \in Where /\ at[i] = s /\ s \in Chains
    BY <1>8 DEF Where, Places, Chains, ChainMoveBack
  <2>2. PICK p \in 1..Len(o[s]) : o[s][p] = i
    BY <1>5, <2>1
  <2>3. ChainMoveBack(s, t, o[s][p]) /\ at' = [at EXCEPT ![o[s][p]] = t] /\ undo' = NoUndo
    BY <1>8, <2>2 DEF ChainMoveBack, Place
  <2>4. CASE s = t
    <3>1. Told([o EXCEPT ![s] = Append(Without(o[s], p), o[s][p])])'
      BY <1>2, <2>3, <2>4, ChainTurnTold
    <3>2. Retells(o, [o EXCEPT ![s] = Append(Without(o[s], p), o[s][p])])
      BY <1>3, <2>3, <3>1
    <3> QED BY <2>1, <2>3, <2>4, <3>2, TurnOrder
  <2>5. CASE s # t
    <3>1. Told([o EXCEPT ![s] = Without(o[s], p), ![t] = Append(o[t], o[s][p])])'
      BY <1>2, <2>3, <2>5, ChainMoveTold
    <3>2. Retells(o, [o EXCEPT ![s] = Without(o[s], p), ![t] = Append(o[t], o[s][p])])
      BY <1>3, <2>3, <3>1
    <3> QED BY <2>3, <2>5, <3>2, MoveOrder
  <2> QED BY <2>4, <2>5
<1>9. ASSUME NEW i \in Nodes, NEW r \in Rings, RingUnlink(r, i) PROVE OrderInv' /\ Promise!Next
  <2>1. r \in Where /\ at[i] = r /\ r # Free
    BY <1>9, PlacesApart DEF Where, Places, RingUnlink
  <2>2. PICK p \in 1..Len(o[r]) : o[r][p] = i
    BY <1>5, <2>1
  <2>3. RingUnlink(r, o[r][p]) /\ undo' = NoUndo
    BY <1>9, <2>2 DEF RingUnlink, Ringed
  <2>4. Told([o EXCEPT ![r] = Without(o[r], p)])' /\ at' = [at EXCEPT ![o[r][p]] = "vacant"]
    BY <1>2, <2>3, RingUnlinkTold
  <2>5. Retells(o, [o EXCEPT ![r] = Without(o[r], p)])
    BY <1>3, <2>3, <2>4
  <2>6. PICK w \in States : at' = [at EXCEPT ![o[r][p]] = w]
    BY <2>4 DEF States
  <2> QED BY <2>1, <2>3, <2>5, <2>6, TakeOrder
<1>10. ASSUME NEW i \in Nodes, NEW r \in Rings, RingMoveBack(r, i) PROVE OrderInv' /\ Promise!Next
  <2>1. r \in Where /\ at[i] = r
    BY <1>10 DEF Where, Places, RingMoveBack
  <2>2. PICK p \in 1..Len(o[r]) : o[r][p] = i
    BY <1>5, <2>1
  <2>3. RingMoveBack(r, o[r][p]) /\ undo' = NoUndo
    BY <1>10, <2>2 DEF RingMoveBack, Ringed
  <2>4. Told([o EXCEPT ![r] = Append(Without(o[r], p), o[r][p])])' /\ at' = [at EXCEPT ![o[r][p]] = r]
    BY <1>2, <2>3, RingMoveBackTold
  <2>5. Retells(o, [o EXCEPT ![r] = Append(Without(o[r], p), o[r][p])])
    BY <1>3, <2>3, <2>4
  <2> QED BY <2>3, <2>4, <2>5, TurnOrder
<1>11. ASSUME NEW i \in Nodes, NEW l \in Lists, ListUnlink(l, i) PROVE OrderInv' /\ Promise!Next
  <2>1. l \in Where /\ at[i] = l /\ l # Free
    BY <1>11, PlacesApart DEF Where, Places, ListUnlink
  <2>2. PICK p \in 1..Len(o[l]) : o[l][p] = i
    BY <1>5, <2>1
  <2>3. ListUnlink(l, o[l][p]) /\ undo' = NoUndo
    BY <1>11, <2>2 DEF ListUnlink, Heads
  <2>4. Told([o EXCEPT ![l] = Without(o[l], p)])' /\ at' = [at EXCEPT ![o[l][p]] = "vacant"]
    BY <1>2, <2>3, ListUnlinkTold
  <2>5. Retells(o, [o EXCEPT ![l] = Without(o[l], p)])
    BY <1>3, <2>3, <2>4
  <2>6. PICK w \in States : at' = [at EXCEPT ![o[l][p]] = w]
    BY <2>4 DEF States
  <2> QED BY <2>1, <2>3, <2>5, <2>6, TakeOrder
<1>12. ASSUME NEW i \in Nodes, Move(i) PROVE OrderInv' /\ Promise!Next
  BY <1>6, <1>7, <1>8, <1>9, <1>10, <1>11, <1>12 DEF Move
<1>13. ASSUME NEW c \in Chains, ChainPop(c) PROVE OrderInv' /\ Promise!Next
  <2>1. c \in Where /\ c # Free /\ undo' = NoUndo
    BY <1>13, PlacesApart DEF Where, Places, ChainPop
  <2>2. /\ 1 \in 1..Len(o[c]) /\ at' = [at EXCEPT ![o[c][1]] = "stale"]
        /\ Told([o EXCEPT ![c] = Without(o[c], 1)])'
    BY <1>2, <1>13, ChainPopTold
  <2>3. PICK p \in 1..Len(o[c]) : p = 1
    BY <2>2
  <2>4. PICK w \in States : w = "stale"
    BY DEF States
  <2>5. Retells(o, [o EXCEPT ![c] = Without(o[c], p)]) /\ at' = [at EXCEPT ![o[c][p]] = w]
    BY <1>3, <2>1, <2>2, <2>3, <2>4
  <2> QED BY <2>1, <2>5, TakeOrder
<1>14. ASSUME NEW t \in Plain, NEW s \in Plain, ChainAppend(t, s) PROVE OrderInv' /\ Promise!Next
  <2>1. Told([o EXCEPT ![t] = o[t] \o o[s], ![s] = <<>>])'
    BY <1>2, <1>14, ChainAppendTold
  <2>2. t # s /\ undo' = NoUndo /\ at' = [i \in Nodes |-> IF at[i] = s THEN t ELSE at[i]]
    BY <1>14 DEF ChainAppend
  <2>3. Retells(o, [o EXCEPT ![t] = o[t] \o o[s], ![s] = <<>>])
    BY <1>3, <2>1, <2>2
  <2> QED BY <2>2, <2>3, SpliceOrder
<1>15. ASSUME NEW r \in Rings, RingStep(r) PROVE OrderInv' /\ Promise!Next
  <2>1. /\ 1 \in 1..Len(o[r]) /\ at' = at /\ undo' = NoUndo
        /\ Told([o EXCEPT ![r] = Append(Without(o[r], 1), o[r][1])])'
    BY <1>2, <1>15, RingStepTold DEF RingStep
  <2>2. PICK p \in 1..Len(o[r]) : p = 1
    BY <2>1
  <2>3. Retells(o, [o EXCEPT ![r] = Append(Without(o[r], p), o[r][p])])
    BY <1>3, <2>1, <2>2
  <2> QED BY <2>1, <2>3, TurnOrder
<1>16. CASE Acquire
  <2>1. PICK l \in Where : l = Free
    BY DEF Where
  <2>2. /\ 1 \in 1..Len(o[l]) /\ at' = [at EXCEPT ![o[l][1]] = "vacant"] /\ undo' = NoUndo
        /\ Told([o EXCEPT ![l] = Without(o[l], 1)])'
    BY <1>2, <1>16, <2>1, AcquireTold DEF Acquire
  <2>3. PICK p \in 1..Len(o[l]) : p = 1
    BY <2>2
  <2>4. PICK w \in States : w = "vacant"
    BY DEF States
  <2>5. Retells(o, [o EXCEPT ![l] = Without(o[l], p)]) /\ at' = [at EXCEPT ![o[l][p]] = w]
    BY <1>3, <2>2, <2>3, <2>4
  <2>6. undo' \in {NoUndo, [list |-> l, node |-> o[l][p], was |-> o[l]]} /\ (l = Free => p = 1)
    BY <2>2, <2>3
  <2> QED BY <2>5, <2>6, TakeOrder
<1>17. CASE ChainRestore
  <2>1. PICK c, i, q : c = undo.list /\ i = undo.node /\ q = undo.was
    OBVIOUS
  <2>2. /\ c \in Plain /\ i \in Nodes /\ at[i] = "stale" /\ at' = [at EXCEPT ![i] = c]
        /\ Told([o EXCEPT ![c] = q])'
    BY <1>2, <1>17, <2>1, ChainRestoreTold
  <2>3. undo # NoUndo /\ undo' = NoUndo /\ at[i] \in States /\ c \in Where
    BY <1>17, <2>2 DEF ChainRestore, States, Where, Places, Chains
  <2>4. Retells(o, [o EXCEPT ![c] = q])
    BY <1>3, <2>2, <2>3
  <2> QED BY <2>1, <2>2, <2>3, <2>4, UndoOrder
<1> QED BY <1>4, <1>12, <1>13, <1>14, <1>15, <1>16, <1>17 DEF Next

\* Before anything moves, every node is on the free list.
LEMMA InitOrder == Init => OrderInv /\ Promise!Init
<1> SUFFICES ASSUME Init PROVE OrderInv /\ Promise!Init
  OBVIOUS
<1>1. PICK s : s = [k \in 1..Capacity |-> k - 1]
  OBVIOUS
<1>2. PICK o : o = [l \in Where |-> IF l = Free THEN s ELSE <<>>]
  OBVIOUS
<1>3. Capacity \in Nat /\ END \notin Nodes /\ hook \in Plane(Nodes)
  BY CapacityAssumption DEF Init, Seeded, Plane, Nodes
<1>4. /\ s \in Seq(Nodes) /\ Len(s) = Capacity /\ OneEach(s)
      /\ \A k \in 1..Capacity : s[k] = k - 1
      /\ \A i \in Nodes : Stands(s, i)
  <2>1. s \in [1..Capacity -> Nodes]
    BY <1>1, <1>3 DEF Nodes
  <2>2. s \in Seq(Nodes) /\ Len(s) = Capacity
    BY <1>3, <2>1
  <2>3. \A k \in 1..Capacity : s[k] = k - 1
    BY <1>1
  <2>4. OneEach(s)
    BY <1>3, <2>2, <2>3 DEF OneEach
  <2>5. ASSUME NEW i \in Nodes PROVE Stands(s, i)
    <3>1. i + 1 \in 1..Len(s) /\ s[i + 1] = i
      BY <1>3, <2>2, <2>3 DEF Nodes
    <3> QED BY <3>1 DEF Stands
  <2> QED BY <2>2, <2>3, <2>4, <2>5
<1>5. Stacked(hook, free, s, Nodes)
  <2>1. free = IF s = <<>> THEN END ELSE s[1]
    BY <1>3, <1>4 DEF Init
  <2>2. ASSUME NEW k \in 1..Len(s) PROVE hook.next[s[k]] = IF k = Len(s) THEN END ELSE s[k + 1]
    <3>1. s[k] \in Nodes /\ s[k] + 1 = k /\ (k # Len(s) => s[k + 1] = k)
      BY <1>3, <1>4 DEF Nodes
    <3>2. hook.next[s[k]] = IF k \in Nodes THEN k ELSE END
      BY <3>1 DEF Init, Seeded
    <3>3. k \in Nodes <=> k # Len(s)
      BY <1>3, <1>4 DEF Nodes
    <3> QED BY <3>1, <3>2, <3>3
  <2> QED BY <1>4, <2>1, <2>2 DEF Stacked
<1>6. /\ <<>> \in Seq(Nodes) /\ \A i : ~ Stands(<<>>, i)
      /\ Spells(hook, EmptyChain, <<>>, Nodes) /\ Circles(hook, END, <<>>, Nodes)
      /\ Piled(hook, END, <<>>, Nodes)
  BY DEF Stands, Spells, Circles, Piled, EndsOf, OneEach, EmptyChain
<1>7. ASSUME NEW l \in Where PROVE SpeltAs(l, o[l]) /\ \A i \in Nodes : Stands(o[l], i) <=> at[i] = l
  <2>1. CASE l = Free
    BY <1>2, <1>4, <1>5, <2>1, Kinds DEF SpeltAs, Init
  <2>2. CASE l # Free
    <3>1. o[l] = <<>>
      BY <1>2, <2>2
    <3>2. SpeltAs(l, <<>>)
      BY <1>6, <2>2, Kinds DEF SpeltAs, Init
    <3> QED BY <1>6, <2>2, <3>1, <3>2 DEF Init
  <2> QED BY <2>1, <2>2
<1>8. o \in [Where -> Seq(Nodes)]
  BY <1>2, <1>4, <1>6
<1>9. Told(o)
  BY <1>7, <1>8 DEF Told
<1>10. Order = o
  BY <1>3, <1>9, ToldIs
<1>11. OrderInv
  BY <1>9, <1>10 DEF OrderInv, UndoTold, Init
<1>12. Unheld = {}
  BY PlacesApart DEF Unheld, Init
<1>13. Free \in Where /\ Promise!ToSet(Order[Free]) = Nodes
  BY <1>2, <1>4, <1>10 DEF Promise!ToSet, Stands, Where
<1>14. Unheld = Nodes \ UNION {Promise!ToSet(Order[l]) : l \in Where}
  BY <1>12, <1>13
<1>15. \A l \in Where \ {Free} : Order[l] = <<>>
  BY <1>2, <1>10
<1>16. Promise!Init
  <2> DEFINE lists == (Chains \cup Rings) \cup (Lists \cup {Free})
             reads == [l \in Places \cup {Free} |-> Walk(hook, HeadOf(l))]
  <2>1. reads = Order /\ lists = Where
    BY PromiseReads
  <2> HIDE DEF lists, reads
  <2>2. reads \in [lists -> Seq(Nodes)]
    BY <1>8, <1>10, <2>1
  <2>3. \A l \in lists \ {Free} : reads[l] = <<>>
    BY <1>15, <2>1
  <2>4. Unheld = Nodes \ UNION {Promise!ToSet(reads[l]) : l \in lists}
    BY <1>14, <2>1
  <2>5. undo = NoUndo
    BY DEF Init
  <2> QED BY ONLY <2>2, <2>3, <2>4, <2>5 DEF Promise!Init, Unheld, lists, reads
<1> QED BY <1>11, <1>16

\* A step of nothing moves nothing.
LEMMA StillOrder == OrderInv /\ UNCHANGED vars => OrderInv' /\ UNCHANGED Promise!vars
<1> SUFFICES ASSUME OrderInv, UNCHANGED vars PROVE OrderInv' /\ UNCHANGED Promise!vars
  OBVIOUS
<1>1. /\ hook' = hook /\ chain' = chain /\ ring' = ring /\ list' = list
      /\ free' = free /\ at' = at /\ undo' = undo
  BY DEF vars
<1>2. Order' = Order
  BY <1>1 DEF Order, HeadOf
<1>3. OrderInv'
  BY <1>1, <1>2 DEF OrderInv, Told, SpeltAs, UndoTold
<1>4. UNCHANGED Promise!vars
  BY <1>1, <1>2, PromiseReads DEF Promise!vars
<1> QED BY <1>3, <1>4

\* The walks of every chain, cycle, list and free list are the orders the
\* operations promise, for every capacity and every number of lists: first in,
\* first out for chains and cycles, last in, first out for lists and the free
\* list, a splice that keeps both orders, and a restored node back in its place.
THEOREM LinksOrders == Spec => ImplementsOrders
<1>1. Init => OrderInv /\ Promise!Init
  BY InitOrder
<1>2. IInv /\ IInv' /\ OrderInv /\ [Next]_vars => OrderInv' /\ [Promise!Next]_(Promise!vars)
  BY NextOrder, StillOrder
<1> QED BY <1>1, <1>2, LinksInductive, PTL DEF Spec, ImplementsOrders, Promise!Spec
=============================================================================
