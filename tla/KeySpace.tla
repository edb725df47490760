------------------------------ MODULE KeySpace ------------------------------
(* What a generational slab promises about its keys, with no storage at all: *)
(* a key is a slot and a generation, at most one key of a slot is live, and  *)
(* a key that has ended is never live again.                                 *)
EXTENDS Integers

CONSTANTS Slots, Generations

VARIABLES live,    \* the keys a lookup may still accept, or a reservation holds
          spent,   \* the keys that have ended
         open     \* the owner still exists

vars == <<live, spent, open>>

Keys == Slots \X Generations

TypeOK == live \subseteq Keys /\ spent \subseteq Keys /\ open \in BOOLEAN

\* No key of the slot is live, and every key of it that ended is older.
Fresh(k) == /\ \A l \in live : l[1] # k[1]
            /\ \A s \in spent : s[1] = k[1] => s[2] < k[2]

Init == live = {} /\ spent = {} /\ open = TRUE

\* A key is handed out.
Issue(k) == Fresh(k) /\ live' = live \cup {k} /\ UNCHANGED <<spent, open>>

\* The identity of a live key ends.
End(k) == /\ k \in live /\ live' = live \ {k} /\ spent' = spent \cup {k}
          /\ UNCHANGED open

\* A key nobody was given is thrown away.
Burn(k) == Fresh(k) /\ spent' = spent \cup {k} /\ UNCHANGED <<live, open>>

\* The slot's value is exchanged: its key ends and the next one begins.
Renew(k, g) == /\ k \in live /\ k[2] < g
               /\ live' = (live \ {k}) \cup {<<k[1], g>>}
               /\ spent' = spent \cup {k} /\ UNCHANGED open

\* The owner is destroyed.
Close == open' = FALSE /\ live' = {} /\ UNCHANGED spent

\* Told by the keys a step adds or takes away: a fresh key is neither live nor
\* spent, and one that ends or is renewed is live no longer.
Next == /\ open
        /\ \/ \E k \in live \ live' : End(k) \/ \E g \in Generations : Renew(k, g)
           \/ \E k \in Keys \cap (live' \ live) : Issue(k)
           \/ \E k \in Keys \cap (spent' \ spent) : Burn(k)
           \/ Close

Spec == Init /\ [][Next]_vars
=============================================================================
