------------------------------ MODULE FairLanes ------------------------------
(***************************************************************************)
(* What the resident and round queues promise: each lane is a sequence of  *)
(* waiting slots, and each group takes its nonempty lanes in turn.  A lane *)
(* takes its turn when its first slot arrives, gives it up when its last   *)
(* slot leaves, and goes to the back of the turn when it is served.        *)
(***************************************************************************)
EXTENDS Naturals, Sequences, SequencesExt

CONSTANTS Slots, Lanes, Groups, Group(_)

VARIABLES lane, turn
vars == <<lane, turn>>
now == [lane |-> lane, turn |-> turn]

Entered(s, l, i) ==
  [lane |-> [s.lane EXCEPT ![l] = Append(@, i)],
   turn |-> IF s.lane[l] = <<>> THEN [s.turn EXCEPT ![Group(l)] = Append(@, l)] ELSE s.turn]

Departed(s, l, i) ==
  LET rest == RemoveFirst(s.lane[l], i)
  IN [lane |-> [s.lane EXCEPT ![l] = rest],
      turn |-> IF rest = <<>> THEN [s.turn EXCEPT ![Group(l)] = RemoveFirst(@, l)] ELSE s.turn]

Served(s, l) ==
  LET left == Departed(s, l, Head(s.lane[l]))
  IN IF left.lane[l] = <<>> THEN left
     ELSE [left EXCEPT !.turn[Group(l)] = Append(RemoveFirst(@, l), l)]

Init ==
  /\ lane = [l \in Lanes |-> <<>>]
  /\ turn = [g \in Groups |-> <<>>]

Waiting == UNION { ToSet(lane[l]) : l \in Lanes }

Enter(l, i)       == now' = Entered(now, l, i)
Leave(l, i)       == now' = Departed(now, l, i)
Transfer(l, m, i) == now' = Entered(Departed(now, l, i), m, i)
Serve(l)          == lane[l] # <<>> /\ now' = Served(now, l)
Rotate(l)         == lane[l] # <<>> /\ now' = Entered(Served(now, l), l, Head(lane[l]))

Next ==
  \E l \in Lanes :
     \/ \E i \in Slots \ Waiting : Enter(l, i)
     \/ \E i \in ToSet(lane[l]) : Leave(l, i) \/ \E m \in Lanes : Transfer(l, m, i)
     \/ Serve(l)
     \/ Rotate(l)

Spec == Init /\ [][Next]_vars
=============================================================================
