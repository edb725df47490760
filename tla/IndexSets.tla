------------------------------ MODULE IndexSets ------------------------------
(* depot/index: sets of indices below one bound, each a bitmap of words whose *)
(* upper levels have a bit for every word below that is not empty, all levels *)
(* in one row of words. A plane is taken from where its cursor stands. A      *)
(* planar set is changed plane by plane; in a disjoint one every index is in  *)
(* one plane, or in the hand of who took it.                                  *)
EXTENDS Integers, FiniteSets, FiniteSetsExt, Functions

CONSTANTS Radix,            \* W::BITS, a power of two
          Sizes,            \* [mode -> the bounds it is checked with]
          Planes, NONE,
          MaxHand           \* [size -> the entries that can be in hand]

VARIABLES mode,             \* "planar" or "disjoint"
          size,             \* the number of indices
          words,            \* plane -> word -> the bits set in it
          cursor,           \* plane -> where the next front is looked for
          hand              \* the entries taken and not put back: <<index, plane>>

vars == <<mode, size, words, cursor, hand>>

Bits == 0 .. Radix - 1
CeilDiv(a, b) == (a + b - 1) \div b

\* The bits of each level, its words, and where its words begin in the row.
Count(k)   == CeilDiv(size, Radix ^ k)
WordsOf(k) == Count(k + 1)
Top        == CHOOSE k \in 0 .. size : WordsOf(k) <= 1 /\ (k = 0 \/ WordsOf(k - 1) > 1)
Offset[k \in Nat] == IF k = 0 THEN 0 ELSE Offset[k - 1] + WordsOf(k - 1)

\* Shape::new: the words of all levels, none for an empty bound.
Words == IF size = 0 THEN 0 ELSE Offset[Top] + 1
LevelOf(w) == CHOOSE k \in 0 .. Top : w \in Offset[k] .. Offset[k] + WordsOf(k) - 1

\* Shape::fill: a full word has as many bits as the level has left.
Fill(full) ==
  [w \in 0 .. Words - 1 |->
     IF full THEN {b \in Bits : (w - Offset[LevelOf(w)]) * Radix + b < Count(LevelOf(w))}
     ELSE {}]

(* Level: one plane's row of words *)

WordAt(k, i) == Offset[k] + i \div Radix ^ (k + 1)
BitAt(k, i)  == (i \div Radix ^ k) % Radix
Contains(row, i) == BitAt(0, i) \in row[WordAt(0, i)]

\* The way down takes the least bit of each word; the row is walked backwards
\* by the words of the level below, computed from the bound.
Down(row, level, bit) ==
  LET at[k \in 0 .. level] ==
        IF k = level THEN [bit |-> bit, offset |-> Offset[level]]
        ELSE LET offset == at[k + 1].offset - ((size - 1) \div Radix ^ (k + 1) + 1)
             IN [bit |-> at[k + 1].bit * Radix + Min(row[offset + at[k + 1].bit]),
                 offset |-> offset]
  IN at[0].bit

\* The way up starts, on each level, after the word it leaves, and ends where
\* the word has a bit from there on or the level has no such word.
Find(row, start) ==
  LET from[k \in 0 .. Top] == IF k = 0 THEN start ELSE from[k - 1] \div Radix + 1
      Rest(k) == {b \in row[Offset[k] + from[k] \div Radix] : b >= from[k] % Radix}
      Ends(k) == from[k] >= Count(k) \/ Rest(k) # {}
      ends    == {k \in 0 .. Top : Ends(k)}
      level   == Min(ends)
  IN IF size = 0 \/ ends = {} THEN NONE
     ELSE IF from[level] >= Count(level) THEN NONE
     ELSE Down(row, level, (from[level] \div Radix) * Radix + Min(Rest(level)))

\* A level is written while the word below it changed between empty and not.
Write(row, set, i) ==
  LET Next(k)    == IF set THEN row[WordAt(k, i)] \cup {BitAt(k, i)}
                    ELSE row[WordAt(k, i)] \ {BitAt(k, i)}
      Stable(k)  == IF set THEN row[WordAt(k, i)] # {} ELSE Next(k) # {}
      Reached(k) == \A j \in 0 .. k - 1 : ~ Stable(j)
  IN [w \in DOMAIN row |->
        IF \E k \in 0 .. Top : w = WordAt(k, i) /\ Reached(k)
        THEN Next(LevelOf(w)) ELSE row[w]]

\* pop_from: the first from the start on, or from the beginning.
First(row, start) ==
  IF size = 0 THEN NONE
  ELSE LET ahead == Find(row, start)
       IN IF ahead = NONE /\ start # 0 THEN Find(row, 0) ELSE ahead

\* Access::is_empty reads the last word of the row alone.
IsEmpty(row) == Words = 0 \/ row[Words - 1] = {}

(* The set *)

Init ==
  /\ mode \in DOMAIN Sizes /\ size \in Sizes[mode]
  /\ \E full \in IF mode = "planar" THEN SUBSET Planes ELSE {{p} : p \in Planes} :
       words = [p \in Planes |-> Fill(p \in full)]
  /\ cursor = [p \in Planes |-> 0] /\ hand = {}

Keep == UNCHANGED <<mode, size>>
Update(p, set, i) == words' = [words EXCEPT ![p] = Write(@, set, i)]

\* set and clear of an entry, and State::clear, which rewinds the cursors too.
SetIn(p, i)   == /\ mode = "planar" /\ Update(p, TRUE, i) /\ Keep /\ UNCHANGED <<cursor, hand>>
ClearIn(p, i) == /\ mode = "planar" /\ Update(p, FALSE, i) /\ Keep /\ UNCHANGED <<cursor, hand>>
Clear == /\ mode = "planar" /\ Keep /\ UNCHANGED hand
         /\ words' = [p \in Planes |-> Fill(FALSE)] /\ cursor' = [p \in Planes |-> 0]

\* Entry::new: the cursor goes past what was taken.
Advance(p, i) == cursor' = [cursor EXCEPT ![p] = IF i + 1 = size THEN 0 ELSE i + 1]
Taken(p, i) == \/ i = NONE /\ UNCHANGED vars
               \/ /\ i # NONE /\ Update(p, FALSE, i) /\ Advance(p, i)
                  /\ hand' = hand \cup {<<i, p>>} /\ Keep

TakeFront(p)      == Cardinality(hand) < MaxHand[size] /\ Taken(p, First(words[p], cursor[p]))
TakeFrom(p, from) == /\ mode = "disjoint" /\ Cardinality(hand) < MaxHand[size] /\ size # 0
                     /\ Taken(p, First(words[p], from % size))

Restore(e) == /\ e \in hand /\ hand' = hand \ {e}
              /\ Update(e[2], TRUE, e[1]) /\ Keep /\ UNCHANGED cursor
Insert(e, p) == /\ mode = "disjoint" /\ e \in hand /\ hand' = hand \ {e}
                /\ Update(p, TRUE, e[1]) /\ Keep /\ UNCHANGED cursor
\* An entry that is dropped puts nothing back.
Drop(e) == e \in hand /\ hand' = hand \ {e} /\ Keep /\ UNCHANGED <<words, cursor>>

Next == \/ \E p \in Planes : \/ TakeFront(p)
                             \/ \E i \in 0 .. size - 1 : SetIn(p, i) \/ ClearIn(p, i)
                             \/ \E from \in 0 .. size : TakeFrom(p, from)
        \/ \E e \in hand : Restore(e) \/ Drop(e) \/ \E p \in Planes : Insert(e, p)
        \/ Clear
Spec == Init /\ [][Next]_vars

(* Properties *)

Members(p) == {i \in 0 .. size - 1 : Contains(words[p], i)}

\* The upper levels say of every word below whether it is empty and have no
\* other bit, so that every search from anywhere ends at the least member from
\* there on and emptiness can be read off the last word; a cursor stands below
\* the bound, and an index of a disjoint set is in one plane or in one hand.
SetsAreSearched ==
  /\ \A p \in Planes : LET m == Members(p) IN
       /\ \A w \in DOMAIN words[p] : LET k == LevelOf(w) IN
            words[p][w] = {b \in Bits : \E i \in m : WordAt(k, i) = w /\ BitAt(k, i) = b}
       /\ \A start \in 0 .. size :
            Find(words[p], start) = IF \E i \in m : i >= start
                                    THEN Min({i \in m : i >= start}) ELSE NONE
       /\ IsEmpty(words[p]) <=> m = {}
       /\ cursor[p] \in {0} \cup 0 .. size - 1
  /\ mode = "disjoint" =>
       /\ \A p, q \in Planes : p # q => Members(p) \cap Members(q) = {}
       /\ \A e \in hand : /\ \A p \in Planes : e[1] \notin Members(p)
                          /\ \A f \in hand : e[1] = f[1] => e = f
=============================================================================
