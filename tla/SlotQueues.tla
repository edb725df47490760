----------------------------- MODULE SlotQueues -----------------------------
(***************************************************************************)
(* Queues over an array whose slots are named by index, in which a slot    *)
(* waits at most once (src/depot/queue/indexed/fifo, exact and shared).    *)
(* A list has one counted chain, an exact list schedules plain values, and *)
(* a shared one threads several chains through the same slots and is used  *)
(* through shared references.  A sweep takes a number of fronts without    *)
(* looking whether there is one, and calls back with each.                 *)
(***************************************************************************)
EXTENDS Hooks, SequencesExt

CONSTANTS Capacity, Queues, Values, NoValue,
          Kinds     \* of "list", "shared"

VARIABLES kind,
          hook,     \* queue -> the hooks of that queue
          chain,    \* queue -> first and last
          count,    \* a list's counter
          value,    \* queue -> slot -> what waits, or what is left of it
          sweep     \* the sweep under way: what it still takes and has visited

vars == <<kind, hook, chain, count, value, sweep>>

Nodes == 0..(Capacity - 1)
Used == IF kind = "list" THEN {CHOOSE q \in Queues : TRUE} ELSE Queues
\* Nothing compares the values of a shared queue: one stands for all.
Stored == IF kind = "list" THEN Values ELSE {CHOOSE v \in Values : TRUE}
NoSweep == [left |-> 0, entry |-> END, seen |-> {}]
Quiet == sweep = NoSweep

Init ==
  /\ kind \in Kinds
  /\ hook = [q \in Queues |-> [previous |-> [i \in Nodes |-> i], next |-> [i \in Nodes |-> END]]]
  /\ chain = [q \in Queues |-> EmptyChain]
  /\ count = 0
  /\ value = [q \in Queues |-> [i \in Nodes |-> NoValue]]
  /\ sweep = NoSweep

Waits(q, i) == IsLinked(hook[q], i)
Order(q) == Walk(hook[q], chain[q].first)
Counted(q, n) == count' = IF kind = "list" THEN n ELSE count
Put(q, out) == hook' = [hook EXCEPT ![q] = out.hook] /\ chain' = [chain EXCEPT ![q] = out.chain]

\* Unlinked, and its hook named vacant.
Idle(q, i) == LET out == Unlinked(hook[q], chain[q], i)
              IN [out EXCEPT !.hook = Idled(@, i)]

\* NodeEntry::replace and Slot::push: a slot that waits leaves and comes back.
Queued(q, i) ==
  LET out == IF Waits(q, i) THEN Unlinked(hook[q], chain[q], i)
             ELSE [hook |-> hook[q], chain |-> chain[q]]
  IN Pushed(out.hook, out.chain, i)

\* Mutant: a slot that waits is pushed a second time.
ReplaceTwice(q, i, v) ==
  /\ Put(q, Pushed(hook[q], chain[q], i))
  /\ Counted(q, count + 1)
  /\ value' = [value EXCEPT ![q][i] = v]
Replace(q, i, v) ==
  /\ Put(q, Queued(q, i))
  /\ Counted(q, IF Waits(q, i) THEN count ELSE count + 1)
  /\ value' = [value EXCEPT ![q][i] = v]

Keep == UNCHANGED <<hook, chain, count, value>>

\* KEEP_EQUAL: an equal value keeps its place.
Schedule(q, i, v) ==
  IF Waits(q, i) /\ value[q][i] = v THEN Keep ELSE Replace(q, i, v)
Requeue(q, i, v) == Replace(q, i, v)

Leave(q, i) ==
  /\ Put(q, Idle(q, i))
  /\ Counted(q, count - 1)
  /\ UNCHANGED value
\* NodeEntry::unlink: only the value it expects.
Unlink(q, i, v) == IF Waits(q, i) /\ value[q][i] = v THEN Leave(q, i) ELSE Keep

-----------------------------------------------------------------------------
(* Operations.                                                             *)

\* fifo::List::entry: the two phases of a slot.
PushBack(q, i, v) ==
  /\ Quiet /\ kind = "list" /\ ~ Waits(q, i)
  /\ Replace(q, i, v)
  /\ UNCHANGED <<kind, sweep>>
RemoveEntry(q, i) ==
  /\ Quiet /\ Waits(q, i)
  /\ Leave(q, i)
  /\ UNCHANGED <<kind, sweep>>

\* Front::take and Member::remove of a head: Pop, then idle.
First(q) == chain[q].first
TakeFront(q) ==
  LET out == Popped(hook[q], chain[q])
  IN /\ Put(q, [out EXCEPT !.hook = Idled(@, First(q))])
     /\ Counted(q, count - 1)
     /\ UNCHANGED value
PopFront(q) == Quiet /\ First(q) # END /\ TakeFront(q) /\ UNCHANGED <<kind, sweep>>

\* exact::Entry, and shared::Slot::push, which never keeps the place.
ScheduleEntry(q, i, v) ==
  Quiet /\ kind = "list" /\ Schedule(q, i, v) /\ UNCHANGED <<kind, sweep>>
RequeueEntry(q, i, v) == Quiet /\ Requeue(q, i, v) /\ UNCHANGED <<kind, sweep>>
UnlinkEntry(q, i, v) ==
  Quiet /\ kind = "list" /\ Unlink(q, i, v) /\ UNCHANGED <<kind, sweep>>

\* Mutant: the sweep takes as many as it may, not as many as there are.
StartSweepPast(q, limit) ==
  /\ Quiet /\ kind = "list" /\ limit > 0 /\ count > 0
  /\ sweep' = [left |-> limit, entry |-> END, seen |-> {}]
  /\ Keep /\ UNCHANGED kind
\* List::try_sweep: the number is fixed before the first visit.
StartSweep(q, limit) ==
  LET n == IF limit < count THEN limit ELSE count
  IN /\ Quiet /\ kind = "list" /\ n > 0
     /\ sweep' = [left |-> n, entry |-> END, seen |-> {}]
     /\ Keep /\ UNCHANGED kind

\* front_from: the chain is taken for non-empty.
SweepNext(q) ==
  /\ sweep.left > 0 /\ sweep.entry = END
  /\ TakeFront(q)
  /\ sweep' = [left |-> sweep.left - 1, entry |-> First(q), seen |-> sweep.seen \cup {First(q)}]
  /\ UNCHANGED kind

\* The visitor holds the entry it was given and that one alone.
Visit(q, v) ==
  /\ sweep.entry # END
  /\ Schedule(q, sweep.entry, v) \/ Requeue(q, sweep.entry, v) \/ Unlink(q, sweep.entry, v)
  /\ UNCHANGED <<kind, sweep>>
EndVisit(break) ==
  /\ sweep.entry # END
  /\ sweep' = IF break \/ sweep.left = 0 THEN NoSweep ELSE [sweep EXCEPT !.entry = END]
  /\ Keep /\ UNCHANGED kind

Next ==
  \E q \in Used :
    \/ \E i \in Nodes :
         \/ RemoveEntry(q, i)
         \/ \E v \in Stored : \/ PushBack(q, i, v) \/ ScheduleEntry(q, i, v)
                              \/ RequeueEntry(q, i, v) \/ UnlinkEntry(q, i, v)
    \/ PopFront(q) \/ SweepNext(q)
    \/ \E n \in 1..Capacity : StartSweep(q, n)
    \/ \E v \in Stored : Visit(q, v)
    \/ \E break \in BOOLEAN : EndVisit(break)
Spec == Init /\ [][Next]_vars

-----------------------------------------------------------------------------
(* Properties.                                                             *)

Backwards(q) ==
  LET from[left \in 0..Capacity, i \in Nodes \cup {END}] ==
        IF left = 0 \/ i = END THEN <<>> ELSE <<i>> \o from[left - 1, hook[q].previous[i]]
  IN from[Capacity, chain[q].last]

\* A slot waits once or not at all, what waits has a value, and a list's
\* counter counts it (nodes.rs).  A sweep finds as many fronts as it has left,
\* which it does not check (exact/mod.rs:33), and visits no slot twice.
SlotsWaitOnce ==
  /\ \A q \in Used :
       /\ Order(q) = Reverse(Backwards(q))
       /\ ToSet(Order(q)) = {i \in Nodes : Waits(q, i)}
       /\ \A i \in ToSet(Order(q)) : value[q][i] # NoValue
       /\ kind = "list" => count = Len(Order(q))
  /\ kind = "list" =>
       \A q \in Used : /\ sweep.left <= Len(Order(q))
                       /\ \A n \in 1..sweep.left : Order(q)[n] \notin sweep.seen
=============================================================================
