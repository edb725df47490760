------------------------------- MODULE Probing -------------------------------
(* Linear probing in a directory of a power of two of buckets, as the tables *)
(* of depot/map/raw scan it. A directory is a function on its occupied        *)
(* buckets (every other control byte is EMPTY); what a bucket holds is the    *)
(* caller's, who says which hash each has and which buckets a query matches.  *)
EXTENDS Integers, FiniteSets, FiniteSetsExt, Functions, TLC

CONSTANT Buckets   \* zero, or a power of two

NextPowerOfTwo(n) == Min({2 ^ k : k \in {j \in 0..n : 2 ^ j >= n}})

\* Mutant of Distance: the mask is missing, so that no step goes past the end.
DistanceUnmasked(a, b) == b - a

\* The masked index, and the number of masked steps between two buckets.
Index(i)       == i % Buckets
Distance(a, b) == (b - a) % Buckets

Occupied(b) == [kind |-> "Occupied", bucket |-> b]
Vacant(b)   == [kind |-> "Vacant", bucket |-> b]
Full        == [kind |-> "Full", bucket |-> 0]

\* The first n in S at whose bucket, n steps after the home, a search ends.
Step(h, S) == Index(h + Min(S))

\* Visits the buckets from the hash's home on, until one is vacant or is a hit:
\* a candidate by what the directory holds that the matcher also accepts.
Scan(dir, hash, hits) ==
  LET ends == {n \in 0 .. Buckets - 1 : LET b == Index(hash + n)
                                        IN b \notin DOMAIN dir \/ b \in hits}
  IN IF ends = {} THEN Full
     ELSE LET b == Step(hash, ends)
          IN IF b \in DOMAIN dir THEN Occupied(b) ELSE Vacant(b)

\* The caller knows the entry is there: vacancies do not end this search.
MemberOf(dir, hash, hits) ==
  Step(hash, {n \in 0 .. Buckets - 1 : Index(hash + n) \in hits \cap DOMAIN dir})

\* The caller knows there is no such entry: only a vacancy ends this search.
SpareOf(dir, hash) ==
  Step(hash, {n \in 0 .. Buckets - 1 : Index(hash + n) \notin DOMAIN dir})

\* One entry moves back into the hole and leaves its own bucket empty.
Shift(dir, hole, next) == Restrict(dir, DOMAIN dir \ {next}) @@ (hole :> dir[next])

\* The next entry after the hole that the hole does not cut off from its home
\* stays; the first that it does is moved, up to the next empty bucket. hashes
\* gives the hash of whatever a bucket holds.
MayFill(dir, hole, next, hashes) ==
  LET home == Index(hashes[dir[next]])
  IN Distance(home, next) > Distance(home, hole)

Close(dir, vacated, hashes) ==
  LET Next(d, hole) ==
        Step(hole, {n \in 1 .. Buckets : \/ Index(hole + n) \notin DOMAIN d
                                         \/ MayFill(d, hole, Index(hole + n), hashes)})
      moved[n \in 0 .. Buckets] ==
        IF n = 0 THEN [dir |-> dir, hole |-> vacated]
        ELSE LET at == moved[n - 1]
                 next == Next(at.dir, at.hole)
             IN IF next \in DOMAIN at.dir
                THEN [dir |-> Shift(at.dir, at.hole, next), hole |-> next]
                ELSE at
  IN moved[Buckets].dir

\* Hole::remove: the control is EMPTY before anything moves.
Vacated(dir, b, hashes) == Close(Restrict(dir, DOMAIN dir \ {b}), b, hashes)

\* No vacancy stands between an entry and its home, or a query would miss it.
Connected(dir, hashes) ==
  \A b \in DOMAIN dir : LET home == Index(hashes[dir[b]])
    IN \E n \in 0 .. Buckets - 1 :
         Index(home + n) = b /\ \A m \in 0 .. n : Index(home + m) \in DOMAIN dir
=============================================================================
