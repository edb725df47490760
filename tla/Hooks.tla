------------------------------- MODULE Hooks -------------------------------
(***************************************************************************)
(* The compact links of src/depot/queue/links and depot/raw/hooks: what    *)
(* each primitive writes.  A plane is the previous and next words of every *)
(* hook; a chain is its first and last words; a cycle, a list and a free   *)
(* list are one word each.  END is u32::MAX.  A hook of no list names      *)
(* itself: vacant in previous alone, parked in both words.                 *)
(***************************************************************************)
EXTENDS Naturals, FiniteSets, Sequences

CONSTANT END

Plane(nodes) == [previous : [nodes -> nodes \cup {END}], next : [nodes -> nodes \cup {END}]]
EmptyChain == [first |-> END, last |-> END]

SetHook(h, i, p, n) == [previous |-> [h.previous EXCEPT ![i] = p],
                        next     |-> [h.next EXCEPT ![i] = n]]

\* Writing a neighbour's word, which is no hook's when the neighbour is END.
PutNext(h, i, n) == IF i = END THEN h ELSE [h EXCEPT !.next[i] = n]
PutPrevious(h, i, p) == IF i = END THEN h ELSE [h EXCEPT !.previous[i] = p]

\* Detached::idle and Detached::park.
Idled(h, i)  == SetHook(h, i, i, END)
Parked(h, i) == SetHook(h, i, i, i)
IsLinked(h, i) == h.previous[i] # i
IsParked(h, i) == h.previous[i] = i /\ h.next[i] = i

\* The nodes of a walk along next, up to the end or back to its start.
Walk(h, first) ==
  LET n == Cardinality(DOMAIN h.next)
      from[p \in (0..n) \X (DOMAIN h.next \cup {END})] ==
        IF p[1] = 0 \/ p[2] = END THEN <<>>
        ELSE <<p[2]>> \o from[<<p[1] - 1, IF h.next[p[2]] = first THEN END ELSE h.next[p[2]]>>]
  IN from[<<n, first>>]

-----------------------------------------------------------------------------
(* Chains.                                                                 *)

\* Insert::commit.
Pushed(h, c, i) ==
  [hook  |-> SetHook(PutNext(h, c.last, i), i, c.last, END),
   chain |-> [first |-> IF c.last = END THEN i ELSE c.first, last |-> i]]

\* Mutant: the endpoint is not told when its own node leaves.
UnlinkedKeepsLast(h, c, i) ==
  [hook  |-> PutPrevious(PutNext(h, h.previous[i], h.next[i]), h.next[i], h.previous[i]),
   chain |-> [c EXCEPT !.first = IF h.previous[i] = END THEN h.next[i] ELSE @]]

\* Detach: both neighbours are joined; the hook keeps its stale words.
Unlinked(h, c, i) ==
  [hook  |-> PutPrevious(PutNext(h, h.previous[i], h.next[i]), h.next[i], h.previous[i]),
   chain |-> [first |-> IF h.previous[i] = END THEN h.next[i] ELSE c.first,
              last  |-> IF h.next[i] = END THEN h.previous[i] ELSE c.last]]

\* Detach::restore: the stale words still bound the gap.
Restored(h, c, i) ==
  [hook  |-> PutPrevious(PutNext(h, h.previous[i], i), h.next[i], i),
   chain |-> [first |-> IF h.previous[i] = END THEN i ELSE c.first,
              last  |-> IF h.next[i] = END THEN i ELSE c.last]]

\* Pop::apply.
Popped(h, c) ==
  LET next == h.next[c.first]
  IN [hook  |-> PutPrevious(h, next, END),
      chain |-> [first |-> next, last |-> IF next = END THEN END ELSE c.last]]

\* Mutant: the joint is written on one side only.
SplicedOneWay(h, target, source) ==
  [hook  |-> PutNext(h, target.last, source.first),
   chain |-> [first |-> IF target.last = END THEN source.first ELSE target.first,
              last  |-> source.last]]

\* Splice::commit.
Spliced(h, target, source) ==
  [hook  |-> IF target.last = END THEN h
             ELSE PutPrevious(PutNext(h, target.last, source.first),
                              source.first, target.last),
   chain |-> [first |-> IF target.last = END THEN source.first ELSE target.first,
              last  |-> source.last]]

-----------------------------------------------------------------------------
(* Cycles: a singleton has END on both sides.                              *)

\* Cycle::next_live.
Stepped(h, ring) == IF h.next[ring] = END THEN ring ELSE h.next[ring]

\* The last hook: the first one's previous, which is END in a singleton.
Back(h, ring) == IF h.previous[ring] = END THEN ring ELSE h.previous[ring]

\* Cycle::push.
Joined(h, ring, i) ==
  IF ring = END THEN [hook |-> SetHook(h, i, END, END), ring |-> i]
  ELSE [hook |-> PutPrevious(PutNext(SetHook(h, i, Back(h, ring), ring),
                                     Back(h, ring), i), ring, i),
        ring |-> ring]

\* Mutant: two hooks that become one keep pointing at themselves.
LeftAlone(h, ring, i) ==
  LET p == h.previous[i]  n == h.next[i]
  IN IF n = END THEN [hook |-> Idled(h, i), ring |-> END]
     ELSE [hook |-> Idled(PutPrevious(PutNext(h, p, n), n, p), i),
           ring |-> IF ring = i THEN n ELSE ring]

\* Cycle::remove, by unlink_key and pop_front.
Left(h, ring, i) ==
  LET p == h.previous[i]  n == h.next[i]  single == p = n
  IN IF n = END THEN [hook |-> Idled(h, i), ring |-> END]
     ELSE [hook |-> Idled(PutPrevious(PutNext(h, p, IF single THEN END ELSE n),
                                      n, IF single THEN END ELSE p), i),
           ring |-> IF ring = i THEN n ELSE ring]

\* Mutant: move_back steps the cycle whoever is to move.
StepsBack(h, ring, i) == [hook |-> h, ring |-> Stepped(h, ring)]

\* Cycle::move_back: the front steps, the back stays, others leave and return.
CycledBack(h, ring, i) ==
  IF ring = i THEN [hook |-> h, ring |-> Stepped(h, ring)]
  ELSE IF h.previous[ring] = i THEN [hook |-> h, ring |-> ring]
  ELSE LET out == Left(h, ring, i) IN Joined(out.hook, out.ring, i)

-----------------------------------------------------------------------------
(* Lists and free lists.                                                   *)

\* Hooks::link_raw: at the front of a list that keeps no last.
Listed(h, list, i) ==
  [hook |-> SetHook(PutPrevious(h, list, i), i, END, list), list |-> i]

\* Hooks::unlink_raw, which leaves the hook vacant.
Unlisted(h, list, i) ==
  [hook |-> Idled(PutPrevious(PutNext(h, h.previous[i], h.next[i]),
                              h.next[i], h.previous[i]), i),
   list |-> IF h.previous[i] = END THEN h.next[i] ELSE list]

\* Free::acquire_at and Free::recycle: a stack through next alone.
Acquired(h, free) == [hook |-> [h EXCEPT !.next[free] = END], free |-> h.next[free]]
Recycled(h, free, i) == [hook |-> SetHook(h, i, i, free), free |-> i]

-----------------------------------------------------------------------------
(* Tagged lanes (src/depot/queue/tagged, raw/hooks/endpoint): a link word  *)
(* is a node when it is below the capacity and else a lane, counted down   *)
(* from END: the first node of a lane names the lane as its previous and   *)
(* the last one as its next, so a node is unlinked without being told its  *)
(* lane.  END is lane 0, no successor and no head all at once.  A block is *)
(* a record with at least the fields previous, next, first and last.       *)

\* Domain::build: no node has the word of a lane.
TagFits(capacity, lanes) == capacity + lanes <= END + 1

\* Link::endpoint.
Endpoint(l) == END - l
TagNodes(b) == DOMAIN b.next

TagPlane(capacity, lanes) ==
  [previous |-> [i \in 0..(capacity - 1) |-> i],
   next     |-> [i \in 0..(capacity - 1) |-> END],
   first    |-> [l \in 0..(lanes - 1) |-> END],
   last     |-> [l \in 0..(lanes - 1) |-> END]]

TagHooked(b, i, p, n) == [b EXCEPT !.previous[i] = p, !.next[i] = n]
\* Hook::new and EndpointHook::clear.
TagCleared(b, i) == TagHooked(b, i, i, END)
TagLinked(b, i) == b.previous[i] # i

\* EndpointHook::push, at the back.
TagPushed(b, l, i) ==
  LET end == Endpoint(l)  tail == b.last[l]
      h == TagHooked(b, i, IF tail = END THEN end ELSE tail, end)
  IN IF tail = END THEN [h EXCEPT !.first[l] = i, !.last[l] = i]
     ELSE [h EXCEPT !.next[tail] = i, !.last[l] = i]

\* EndpointHook::push, at the front.
TagPushedFront(b, l, i) ==
  LET end == Endpoint(l)  head == b.first[l]
      h == TagHooked(b, i, end, IF head = END THEN end ELSE head)
  IN IF head = END THEN [h EXCEPT !.first[l] = i, !.last[l] = i]
     ELSE [h EXCEPT !.previous[head] = i, !.first[l] = i]

\* Mutant: a hook that leaves keeps its words.
TagDetachedKeeps(b, i) ==
  LET p == b.previous[i]  n == b.next[i]
      h == IF p \in TagNodes(b) THEN [b EXCEPT !.next[p] = n]
           ELSE [b EXCEPT !.first[END - p] = IF n = p THEN END ELSE n]
  IN IF n \in TagNodes(b) THEN [h EXCEPT !.previous[n] = p]
     ELSE [h EXCEPT !.last[END - n] = IF n = p THEN END ELSE p]

\* Link::resolve and EndpointHook::detach.
TagDetached(b, i) ==
  LET p == b.previous[i]  n == b.next[i]
      h == IF p \in TagNodes(b) THEN [b EXCEPT !.next[p] = n]
           ELSE [b EXCEPT !.first[END - p] = IF n = p THEN END ELSE n]
      t == IF n \in TagNodes(b) THEN [h EXCEPT !.previous[n] = p]
           ELSE [h EXCEPT !.last[END - n] = IF n = p THEN END ELSE p]
  IN TagCleared(t, i)

\* A lane read along next from its first node, and along previous from its last.
TagWalked(b, start, word) ==
  LET from[left \in 0..Cardinality(TagNodes(b)), i \in 0..END] ==
        IF left = 0 \/ i \notin TagNodes(b) THEN <<>> ELSE <<i>> \o from[left - 1, word[i]]
  IN from[Cardinality(TagNodes(b)), start]
TagOrder(b, l) == TagWalked(b, b.first[l], b.next)
TagBackwards(b, l) == TagWalked(b, b.last[l], b.previous)

\* Both directions agree, end in the words of their own lane, and hold all
\* the nodes that are linked, each once.
TagsAreReciprocal(b) ==
  LET order == [l \in DOMAIN b.first |-> TagOrder(b, l)]
      nodes(l) == {order[l][n] : n \in DOMAIN order[l]}
  IN /\ \A l \in DOMAIN b.first :
          /\ TagBackwards(b, l)
               = [n \in DOMAIN order[l] |-> order[l][Len(order[l]) + 1 - n]]
          /\ b.first[l] # END =>
               b.previous[b.first[l]] = Endpoint(l) /\ b.next[b.last[l]] = Endpoint(l)
     /\ {i \in TagNodes(b) : TagLinked(b, i)} = UNION {nodes(l) : l \in DOMAIN b.first}
     /\ \A l, m \in DOMAIN b.first : l # m => nodes(l) \cap nodes(m) = {}
=============================================================================
