----------------------------- MODULE DirectTable -----------------------------
(* depot/map/direct: one slot for each index, holding the complete key whose  *)
(* value it has or none. An entry or a vacancy is kept across calls.          *)
EXTENDS Integers, FiniteSets

CONSTANTS Capacity, Generations, NONE

VARIABLES keys,          \* slot -> its key or NONE
          values,        \* the slots whose storage holds a value
          len,
          held           \* the entry or vacancy in hand

vars == <<keys, values, len, held>>

Indices == 0 .. Capacity - 1
Keys    == (0 .. Capacity) \X Generations   \* one index is outside
Idle    == [kind |-> "none", key |-> NONE]
Occupied(k) == [kind |-> "occupied", key |-> k]
Vacant(k)   == [kind |-> "vacant", key |-> k]

Init == /\ keys = [i \in Indices |-> NONE] /\ values = {} /\ len = 0 /\ held = Idle

Entry(k) == /\ held = Idle /\ k[1] \in Indices /\ keys[k[1]] = k
            /\ held' = Occupied(k) /\ UNCHANGED <<keys, values, len>>

\* from_live: a proof of occupancy, whose key is the one the slot stores.
FromLive(i) == /\ held = Idle /\ keys[i] # NONE
               /\ held' = Occupied(keys[i]) /\ UNCHANGED <<keys, values, len>>

\* try_vacant and vacant refuse an index that any generation occupies.
TryVacant(k) == /\ held = Idle /\ k[1] \in Indices /\ keys[k[1]] = NONE
                /\ held' = Vacant(k) /\ UNCHANGED <<keys, values, len>>

Insert == /\ held.kind = "vacant"
          /\ keys' = [keys EXCEPT ![held.key[1]] = held.key]
          /\ values' = values \cup {held.key[1]} /\ len' = len + 1
          /\ held' = Occupied(held.key)

Vacate(i) == /\ keys' = [keys EXCEPT ![i] = NONE]
             /\ len' = len - 1 /\ values' = values \ {i}

\* take keeps the vacancy of the same key; remove and discard do not.
Take(keep) == /\ held.kind = "occupied" /\ Vacate(held.key[1])
              /\ held' = IF keep THEN Vacant(held.key) ELSE Idle

Release == held # Idle /\ held' = Idle /\ UNCHANGED <<keys, values, len>>

\* clear: vacates each slot that is not vacant, unless len says none is.
Clear == /\ held = Idle /\ UNCHANGED held
         /\ IF len = 0 THEN UNCHANGED <<keys, values, len>>
            ELSE LET live == {i \in Indices : keys[i] # NONE} IN
                 /\ keys' = [i \in Indices |-> NONE]
                 /\ len' = len - Cardinality(live) /\ values' = values \ live

Next == \/ \E k \in Keys : Entry(k) \/ TryVacant(k)
        \/ \E i \in Indices : FromLive(i)
        \/ \E keep \in BOOLEAN : Take(keep)
        \/ Insert \/ Release \/ Clear

Spec == Init /\ [][Next]_vars

(* Properties *)

\* A slot's key tells whether its storage holds a value, names the slot it is
\* in, and the count is of such slots; what is in hand is what the slot says,
\* also after an entry was taken and its vacancy filled again.
SlotsTellValues ==
  /\ values = {i \in Indices : keys[i] # NONE} /\ len = Cardinality(values)
  /\ \A i \in values : keys[i][1] = i
  /\ held.kind = "occupied" => keys[held.key[1]] = held.key
  /\ held.kind = "vacant" => keys[held.key[1]] = NONE
=============================================================================
