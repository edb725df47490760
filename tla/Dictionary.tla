----------------------------- MODULE Dictionary -----------------------------
(* What a bounded map promises, with no directory at all: a function on the   *)
(* present keys, and the answer its last operation gave.                      *)
EXTENDS Integers, FiniteSets, Functions, TLC

CONSTANTS Keys, Values

VARIABLES capacity, content, reply

vars == <<capacity, content, reply>>

Init == capacity \in Nat /\ content = <<>> /\ reply = <<"none">>

Answers(r) == reply' = r /\ UNCHANGED capacity

Put(k, v) == /\ k \notin DOMAIN content /\ Cardinality(DOMAIN content) < capacity
             /\ content' = content @@ (k :> v) /\ Answers(<<"ok">>)

\* A refusal says why, and only for that reason.
RefuseTwin(k) == k \in DOMAIN content /\ Answers(<<"occupied">>) /\ UNCHANGED content
RefuseFull(k) == /\ k \notin DOMAIN content /\ Cardinality(DOMAIN content) = capacity
                 /\ Answers(<<"full">>) /\ UNCHANGED content

\* The caller named a place too, and is refused for that, or before its key is
\* looked for; or it is told nothing of a key.
RefuseEarly == Cardinality(DOMAIN content) = capacity /\ Answers(<<"no room">>)
               /\ UNCHANGED content
RefusePlace == Answers(<<"place">>) /\ UNCHANGED content

Set(k, v) == /\ k \in DOMAIN content
             /\ content' = [content EXCEPT ![k] = v] /\ Answers(<<"ok">>)

Take(k) == /\ k \in DOMAIN content /\ Answers(<<"value", content[k]>>)
           /\ content' = Restrict(content, DOMAIN content \ {k})

\* The entry is taken and its place is worn out: it never returns.
Wear(k) == /\ k \in DOMAIN content /\ content' = Restrict(content, DOMAIN content \ {k})
           /\ reply' = <<"value", content[k]>> /\ capacity' = capacity - 1

Miss(k) == k \notin DOMAIN content /\ Answers(<<"absent">>) /\ UNCHANGED content

Read(k) == k \in DOMAIN content /\ Answers(<<"value", content[k]>>) /\ UNCHANGED content

Wipe == content' = <<>> /\ Answers(<<"ok">>)

Next == \/ \E k \in Keys, v \in Values : Put(k, v) \/ Set(k, v)
        \/ \E k \in Keys : RefuseTwin(k) \/ RefuseFull(k) \/ Take(k) \/ Wear(k)
                         \/ Miss(k) \/ Read(k)
        \/ RefuseEarly \/ RefusePlace \/ Wipe

Spec == Init /\ [][Next]_vars
=============================================================================
