------------------------------- MODULE Orders -------------------------------
(***************************************************************************)
(* What the compact links promise: every list is a sequence of distinct    *)
(* nodes, every node is in at most one list, and each operation moves just *)
(* the nodes it names.  A fifo grows at its back and a stack at its front; *)
(* the pool is a stack taken from its front alone.  undo remembers the     *)
(* removal that may still be restored.                                     *)
(***************************************************************************)
EXTENDS Naturals, Sequences, SequencesExt

CONSTANTS Nodes, Fifos, Stacks, Pool, NoUndo,
          Bulk   \* whether one call may take several nodes

VARIABLES order, loose, undo
vars == <<order, loose, undo>>

Init ==
  /\ order \in [Fifos \cup Stacks -> Seq(Nodes)]
  /\ \A l \in (Fifos \cup Stacks) \ {Pool} : order[l] = <<>>
  /\ loose = Nodes \ UNION {ToSet(order[l]) : l \in Fifos \cup Stacks}
  /\ undo = NoUndo

PushBack(l, i) ==
  /\ loose' = loose \ {i}
  /\ order' = [order EXCEPT ![l] = Append(@, i)]
  /\ undo' = NoUndo

PushFront(l, i) ==
  /\ loose' = loose \ {i}
  /\ order' = [order EXCEPT ![l] = <<i>> \o @]
  /\ undo' = NoUndo

Take(l, i) ==
  /\ loose' = loose \cup {i}
  /\ l = Pool => i = Head(order[l])
  /\ order' = [order EXCEPT ![l] = RemoveFirst(@, i)]
  /\ undo' \in {NoUndo, [list |-> l, node |-> i, was |-> order[l]]}

\* One call takes several nodes, wherever they are.
TakeAll(nodes) ==
  /\ Bulk
  /\ loose' = loose \cup nodes
  /\ order' = [l \in DOMAIN order |-> SelectSeq(order[l], LAMBDA i : i \notin nodes)]
  /\ undo' = NoUndo

\* The node returns to the place it had, and the list is what it was.
Undo ==
  /\ undo # NoUndo
  /\ order' = [order EXCEPT ![undo.list] = undo.was]
  /\ loose' = loose \ {undo.node}
  /\ undo' = NoUndo

Splice(to, from) ==
  /\ UNCHANGED loose
  /\ to # from
  /\ order' = [order EXCEPT ![to] = @ \o order[from], ![from] = <<>>]
  /\ undo' = NoUndo

\* A node goes to the back of its own list or of another one, or to the front.
MoveBack(from, to, i) ==
  /\ UNCHANGED loose
  /\ order' = [[order EXCEPT ![from] = RemoveFirst(@, i)] EXCEPT ![to] = Append(@, i)]
  /\ undo' = NoUndo

MoveFront(from, to, i) ==
  /\ UNCHANGED loose
  /\ order' = [[order EXCEPT ![from] = RemoveFirst(@, i)] EXCEPT ![to] = <<i>> \o @]
  /\ undo' = NoUndo

\* A loose node is marked idle or parked, which no list can tell.
Mark == undo' = NoUndo /\ UNCHANGED <<order, loose>>

\* The nodes that leave the loose ones and those that join them are known from
\* the step.
Next ==
  \/ Mark
  \/ \E i \in loose \ loose' : \/ \E l \in Fifos : PushBack(l, i)
                              \/ \E l \in Stacks : PushFront(l, i)
  \/ \E i \in loose' \ loose : \E l \in Fifos \cup Stacks : i \in ToSet(order[l]) /\ Take(l, i)
  \/ TakeAll(loose' \ loose)
  \/ UNCHANGED loose /\ \E from \in Fifos :
       \/ \E to \in Fifos : Splice(to, from) \/ \E i \in ToSet(order[from]) : MoveBack(from, to, i)
       \/ \E to \in Stacks : \E i \in ToSet(order[from]) : MoveFront(from, to, i)
  \/ Undo

Spec == Init /\ [][Next]_vars
=============================================================================
