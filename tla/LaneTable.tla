------------------------------ MODULE LaneTable ------------------------------
(***************************************************************************)
(* A table of keys in which a value may wait in one of several lanes       *)
(* (src/depot/queue/indexed/lanes/table, entry and typed).  The node says  *)
(* which lane it is in; a typed value is control, data or idle, told by a  *)
(* tag, and only running ones may wait.  A value that is taken keeps its   *)
(* lane and its stale hook in the guard, which puts it back into the gap.  *)
(***************************************************************************)
EXTENDS Hooks, SequencesExt

CONSTANTS Capacity, Lanes, Generations, NoLane

VARIABLES key,     \* slot -> the generation that lives there, or 0
          tag,     \* slot -> control, data or idle
          lane,    \* slot -> the lane it waits in, or NoLane
          hook, chain,
          guard    \* what Withdrawn holds

vars == <<key, tag, lane, hook, chain, guard>>

Nodes == 0..(Capacity - 1)
Tags == {"control", "data", "idle"}
Running == {"control", "data"}
NoGuard == [slot |-> END]
Free == guard = NoGuard

Init ==
  /\ key = [i \in Nodes |-> 0]
  /\ tag = [i \in Nodes |-> "idle"]
  /\ lane = [i \in Nodes |-> NoLane]
  /\ hook = [previous |-> [i \in Nodes |-> i], next |-> [i \in Nodes |-> END]]
  /\ chain = [l \in Lanes |-> EmptyChain]
  /\ guard = NoGuard

Put(h, l, c) == hook' = h /\ chain' = [chain EXCEPT ![l] = c]

\* Vacancy::insert_with: Node::new.
Fresh(i, g, t) ==
  /\ key' = [key EXCEPT ![i] = g]
  /\ tag' = [tag EXCEPT ![i] = t]
  /\ lane' = [lane EXCEPT ![i] = NoLane]
  /\ hook' = Idled(hook, i)
  /\ UNCHANGED chain
\* Table::try_vacant and vacant.
Insert(i, g, t) == Free /\ key[i] = 0 /\ Fresh(i, g, t) /\ UNCHANGED guard

\* The entry of a key or the front of a lane; a slot with the methods that
\* link it is of a running phase.
Selected(i) == Free /\ key[i] # 0
Live(i) == Selected(i) /\ tag[i] \in Running

\* Slot::move_to_back: last in its own lane already, it stays.
MoveToBack(i, l) ==
  /\ Live(i)
  /\ IF lane[i] = l /\ chain[l].last = i THEN UNCHANGED <<hook, chain>>
     ELSE IF lane[i] = NoLane
     THEN LET in == Pushed(hook, chain[l], i) IN Put(in.hook, l, in.chain)
     ELSE LET out == Unlinked(hook, chain[lane[i]], i)
              in == Pushed(out.hook, IF lane[i] = l THEN out.chain ELSE chain[l], i)
          IN /\ hook' = in.hook
             /\ chain' = [[chain EXCEPT ![lane[i]] = out.chain] EXCEPT ![l] = in.chain]
  /\ lane' = [lane EXCEPT ![i] = l]
  /\ UNCHANGED <<key, tag, guard>>

\* Slot::unlink.
Unlink(i) ==
  /\ Live(i) /\ lane[i] # NoLane
  /\ LET out == Unlinked(hook, chain[lane[i]], i)
     IN Put(Idled(out.hook, i), lane[i], out.chain)
  /\ lane' = [lane EXCEPT ![i] = NoLane]
  /\ UNCHANGED <<key, tag, guard>>

\* Slot::detach, the hook and the node's lane left as they are.
Detach(i) ==
  IF lane[i] = NoLane THEN UNCHANGED <<hook, chain>>
  ELSE LET out == Unlinked(hook, chain[lane[i]], i) IN Put(out.hook, lane[i], out.chain)

\* Slot::take_owned, of take; Slot::remove and discard drop what it returns.
Take(i) ==
  /\ Selected(i)
  /\ Detach(i)
  /\ guard' = [slot |-> i, key |-> key[i], lane |-> lane[i], tag |-> tag[i],
               previous |-> hook.previous[i], next |-> hook.next[i]]
  /\ key' = [key EXCEPT ![i] = 0]
  /\ lane' = [lane EXCEPT ![i] = NoLane]
  /\ UNCHANGED tag
Discard(i) ==
  /\ Selected(i)
  /\ Detach(i)
  /\ key' = [key EXCEPT ![i] = 0]
  /\ lane' = [lane EXCEPT ![i] = NoLane]
  /\ UNCHANGED <<tag, guard>>

\* Withdrawn::restore: the same phase, the saved lane, the saved hook.
Restore ==
  /\ ~ Free
  /\ LET i == guard.slot  h == SetHook(hook, i, guard.previous, guard.next) IN
     /\ key' = [key EXCEPT ![i] = guard.key]
     /\ tag' = [tag EXCEPT ![i] = guard.tag]
     /\ lane' = [lane EXCEPT ![i] = guard.lane]
     /\ IF guard.lane = NoLane THEN hook' = h /\ UNCHANGED chain
        ELSE LET in == Restored(h, chain[guard.lane], i) IN Put(in.hook, guard.lane, in.chain)
  /\ guard' = NoGuard

\* Mutant: a value of another phase takes the lane of the one it replaces.
ReinsertInLane(t) ==
  /\ ~ Free
  /\ LET i == guard.slot  h == SetHook(hook, i, guard.previous, guard.next) IN
     /\ key' = [key EXCEPT ![i] = guard.key]
     /\ tag' = [tag EXCEPT ![i] = t]
     /\ lane' = [lane EXCEPT ![i] = guard.lane]
     /\ IF guard.lane = NoLane THEN hook' = h /\ UNCHANGED chain
        ELSE LET in == Restored(h, chain[guard.lane], i) IN Put(in.hook, guard.lane, in.chain)
  /\ guard' = NoGuard
\* Withdrawn::insert: any phase, out of every lane.
Reinsert(t) == ~ Free /\ Fresh(guard.slot, guard.key, t) /\ guard' = NoGuard
DropWithdrawn == ~ Free /\ guard' = NoGuard /\ UNCHANGED <<key, tag, lane, hook, chain>>

\* Mutant: the chain that moves is put before the one it joins.
MoveAllFront(source, target) ==
  /\ Free /\ source # target /\ chain[source].first # END
  /\ LET members == ToSet(Walk(hook, chain[source].first))
         out == Spliced(hook, chain[source], chain[target])
     IN /\ lane' = [i \in Nodes |-> IF i \in members THEN target ELSE lane[i]]
        /\ hook' = out.hook
        /\ chain' = [chain EXCEPT ![target] = out.chain, ![source] = EmptyChain]
  /\ UNCHANGED <<key, tag, guard>>
\* Table::move_all: each node is told its lane, then the chains are joined.
MoveAll(source, target) ==
  /\ Free /\ source # target /\ chain[source].first # END
  /\ LET members == ToSet(Walk(hook, chain[source].first))
         out == Spliced(hook, chain[target], chain[source])
     IN /\ lane' = [i \in Nodes |-> IF i \in members THEN target ELSE lane[i]]
        /\ hook' = out.hook
        /\ chain' = [chain EXCEPT ![target] = out.chain, ![source] = EmptyChain]
  /\ UNCHANGED <<key, tag, guard>>

\* Table::clear.
Clear ==
  /\ Free /\ \E i \in Nodes : key[i] # 0
  /\ key' = [i \in Nodes |-> 0]
  /\ lane' = [i \in Nodes |-> NoLane]
  /\ chain' = [l \in Lanes |-> EmptyChain]
  /\ UNCHANGED <<tag, hook, guard>>

Next ==
  \/ \E i \in Nodes :
       \/ \E g \in Generations, t \in Tags : Insert(i, g, t)
       \/ \E l \in Lanes : MoveToBack(i, l)
       \/ Unlink(i) \/ Take(i) \/ Discard(i)
  \/ Restore \/ (\E t \in Tags : Reinsert(t)) \/ DropWithdrawn
  \/ \E l, m \in Lanes : MoveAll(l, m)
  \/ Clear
Spec == Init /\ [][Next]_vars

-----------------------------------------------------------------------------
(* Properties.                                                             *)

Order(l) == Walk(hook, chain[l].first)
Backwards(l) ==
  LET from[left \in 0..Capacity, i \in Nodes \cup {END}] ==
        IF left = 0 \/ i = END THEN <<>> ELSE <<i>> \o from[left - 1, hook.previous[i]]
  IN from[Capacity, chain[l].last]

\* The lane a node names is the one it waits in, in one place of it, and the
\* front of a lane is never idle: typed/raw.rs:129 reads its field as data when
\* it is not control, without a third case.
LanesAreNamed ==
  /\ \A l \in Lanes :
       /\ Order(l) = Reverse(Backwards(l))
       /\ ToSet(Order(l)) = {i \in Nodes : key[i] # 0 /\ lane[i] = l}
       /\ \A i \in ToSet(Order(l)) : tag[i] \in Running
  /\ \A i \in Nodes : key[i] # 0 /\ lane[i] = NoLane => ~ IsLinked(hook, i)
=============================================================================
