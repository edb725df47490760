---------------------------- MODULE CompactTable ----------------------------
(* depot/map/compact: a Robin Hood directory in the tail of its owner's       *)
(* memory. One control byte per bucket, the first Width of them repeated      *)
(* after the last so that a group read never wraps, and a plane of record     *)
(* indices as narrow as the owner's record domain allows.                     *)
EXTENDS Integers, FiniteSets, Functions, TLC

CONSTANTS Width,     \* bytes in a group (32 in the code), a power of two
          Byte,      \* values of a byte (256 in the code)
          Domains,   \* the record counts a layout may be planned for
          Hashes

VARIABLES domain, buckets, hashOf,
          controls,   \* buckets + Width control bytes
          payloads,   \* one record index per bucket
          indexed     \* the owner's records that are in the directory

vars == <<domain, buckets, hashOf, controls, payloads, indexed>>

INSTANCE Probing WITH Buckets <- buckets

EMPTY == -1
CeilDiv(a, b) == (a + b - 1) \div b
PlanBuckets(n) == NextPowerOfTwo(Max({CeilDiv(n * 8, 7), Width}))

\* Indices of a domain are stored in one, two or four bytes.
Span(n) == CASE n - 1 < Byte -> Byte
             [] n - 1 >= Byte /\ n - 1 < Byte * Byte -> Byte * Byte
             [] OTHER -> Byte ^ 4

Records   == 0 .. domain - 1
Tag(hash) == hash \div buckets
Home(r)   == Index(hashOf[r])
Used(b)   == controls[b] # EMPTY

Mark(c, b, tag) == [i \in DOMAIN c |-> IF i = b \/ (b < Width /\ i = b + buckets)
                                       THEN tag ELSE c[i]]
Write(d, b, tag, r) == [controls |-> Mark(d.controls, b, tag),
                        payloads |-> [d.payloads EXCEPT ![b] = r % Span(domain)]]
Planes == [controls |-> controls, payloads |-> payloads]

Blank(b) == [i \in 0 .. b + Width - 1 |-> EMPTY]

Init == /\ domain \in Domains /\ buckets = PlanBuckets(domain)
        /\ hashOf \in [Records -> Hashes]
        /\ controls = Blank(buckets)
        /\ payloads = [b \in 0 .. buckets - 1 |-> 0]
        /\ indexed = {}

Keep == UNCHANGED <<domain, buckets, hashOf>>

\* Carries a record along the buckets and exchanges it with any record that is
\* nearer to its home than the carried one is to its own.
Inserted(r) ==
  LET carry(d, b, tag, rec, done) ==
        [planes |-> d, bucket |-> b, tag |-> tag, rec |-> rec, done |-> done]
      walk[n \in 0 .. buckets] ==
        IF n = 0 THEN carry(Planes, Home(r), Tag(hashOf[r]), r, FALSE)
        ELSE LET s == walk[n - 1]
                 b == s.bucket
                 stored == s.planes.payloads[b]
                 next == Index(b + 1)
             IN IF s.done THEN s
                ELSE IF s.planes.controls[b] = EMPTY
                THEN carry(Write(s.planes, b, s.tag, s.rec), b, s.tag, s.rec, TRUE)
                ELSE IF Distance(Home(s.rec), b) > Distance(Home(stored), b)
                THEN carry(Write(s.planes, b, s.tag, s.rec), next,
                           s.planes.controls[b], stored, FALSE)
                ELSE carry(s.planes, next, s.tag, s.rec, FALSE)
  IN walk[buckets].planes

\* Every record after the hole moves back one bucket, up to an empty bucket or
\* a record in its home.
Erased(hole) ==
  LET ends == {n \in 1 .. buckets : LET b == Index(hole + n) IN
                 \/ n = buckets \/ ~Used(b) \/ Home(payloads[b]) = b}
      run  == Min(ends) - 1
      moved[n \in 0 .. run] ==
        IF n = 0 THEN Planes
        ELSE LET b == Index(hole + n)
             IN Write(moved[n - 1], Index(hole + n - 1), controls[b], payloads[b])
      d == moved[run]
  IN [d EXCEPT !.controls = Mark(@, Index(hole + run), EMPTY)]

\* Where the owner's own record stands; the owner knows that it is there.
Locate(r) ==
  Index(Home(r) + Min({n \in 0 .. buckets - 1 : LET b == Index(Home(r) + n) IN
                         controls[b] = Tag(hashOf[r]) /\ payloads[b] = r}))

\* Bucket by bucket, up to the first empty one.
FindAt(r) ==
  LET hit(n) == LET b == Index(Home(r) + n) IN
        controls[b] = Tag(hashOf[r]) /\ hashOf[payloads[b]] = hashOf[r] /\ payloads[b] = r
      ends == {n \in 0 .. buckets - 1 : ~Used(Index(Home(r) + n)) \/ hit(n)}
  IN IF ends # {} /\ hit(Min(ends)) THEN {Index(Home(r) + Min(ends))} ELSE {}

\* Group by group, each read from its first bucket without wrapping: the lanes
\* with the tag before the first empty lane, until a group has an empty lane.
Lane(hash, n) == controls[Index(hash + (n \div Width) * Width) + (n % Width)]
MatchesOf(hash) ==
  LET empty == {n \in 0 .. buckets - 1 : Lane(hash, n) = EMPTY}
      before == IF empty = {} THEN buckets ELSE Min(empty)
      lanes == {n \in 0 .. before - 1 : Lane(hash, n) = Tag(hash)}
      found == {Index(Index(hash + (n \div Width) * Width) + (n % Width)) : n \in lanes}
  IN {b \in found : hashOf[payloads[b]] = hash}
EntryOf(r) == {b \in MatchesOf(hashOf[r]) : payloads[b] = r}

\* The owner indexes one more of its records and keeps a bucket spare.
Insert(r) == /\ r \notin indexed /\ Cardinality(indexed) < domain /\ Keep
             /\ indexed' = indexed \cup {r}
             /\ controls' = Inserted(r).controls /\ payloads' = Inserted(r).payloads

Drop(r, b) == /\ Keep /\ indexed' = indexed \ {r}
              /\ controls' = Erased(b).controls /\ payloads' = Erased(b).payloads

\* The owner removes a record it holds, or one a query found.
RemoveMember(r) == r \in indexed /\ Drop(r, Locate(r))
RemoveFound(r)  == \E b \in FindAt(r) : Drop(payloads[b], b)

Clear == /\ controls' = Blank(buckets) /\ indexed' = {} /\ Keep /\ UNCHANGED payloads

Next == Clear \/ \E r \in Records : Insert(r) \/ RemoveMember(r) \/ RemoveFound(r)

Spec == Init /\ [][Next]_vars

(* Properties *)

\* The repeated control bytes are the first ones, each indexed record has one
\* bucket, and no record is nearer its home than Robin Hood order allows.
Ordered ==
  /\ \A i \in 0 .. Width - 1 : controls[buckets + i] = controls[i]
  /\ Cardinality({b \in 0 .. buckets - 1 : Used(b)}) = Cardinality(indexed)
  /\ \A r \in indexed : \E b \in 0 .. buckets - 1 : Used(b) /\ payloads[b] = r
  /\ \A b \in 0 .. buckets - 1 : LET next == Index(b + 1) IN
       Used(next) /\ Home(payloads[next]) # next
         => Used(b) /\ Distance(Home(payloads[next]), next)
                         <= Distance(Home(payloads[b]), b) + 1

\* The scalar search, the group search and the owner's own search agree: each
\* finds the indexed records and no other, and a scan visits a hash's records.
QueriesAreExact ==
  /\ \A r \in Records : /\ (FindAt(r) # {}) = (r \in indexed)
                        /\ EntryOf(r) = FindAt(r)
                        /\ r \in indexed => FindAt(r) = {Locate(r)}
  /\ \A h \in Hashes : {payloads[b] : b \in MatchesOf(h)} = {r \in indexed : hashOf[r] = h}
=============================================================================
