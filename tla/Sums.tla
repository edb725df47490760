-------------------------------- MODULE Sums --------------------------------
(***************************************************************************)
(* Lemmas for proofs about data.                                           *)
(*                                                                         *)
(* The sum of a function from a finite set to 0..Bound, written as the     *)
(* number of pairs <<x, i>> with 1 <= i <= f[x].  A sum written as a fold  *)
(* would have to be unfolded by induction in every proof about it; a       *)
(* cardinality is moved by the finite-set theorems.                        *)
(*                                                                         *)
(* And walks: what the links of a list come to when they are followed.     *)
(***************************************************************************)
EXTENDS Integers, FiniteSetsExt, FiniteSetTheorems, WellFoundedInduction, TLAPS

\* The units that f counts: f[x] of them at each x.
Units(f, Bound) == {u \in (DOMAIN f) \X (1..Bound) : u[2] <= f[u[1]]}

SumOf(f, Bound) == Cardinality(Units(f, Bound))

-----------------------------------------------------------------------------
(* What a proof needs to know about SumOf: it is a natural number, zero    *)
(* when every value is zero, at least each of its values, and it moves by  *)
(* exactly the change when the function changes at one point.              *)

\* The counted units are a finite set, so a sum is a natural number.
LEMMA UnitsFinite ==
  ASSUME NEW S, IsFiniteSet(S), NEW B \in Nat, NEW f \in [S -> 0..B]
  PROVE  /\ IsFiniteSet(Units(f, B))
         /\ SumOf(f, B) \in Nat
<1>1. IsFiniteSet(S \X (1..B))
  BY FS_Interval, FS_Product, 1 \in Int, B \in Int
<1>2. Units(f, B) \in SUBSET (S \X (1..B))
  BY DEF Units
<1>3. IsFiniteSet(Units(f, B))
  BY <1>1, <1>2, FS_Subset
<1> QED
  BY <1>3, FS_CardinalityType DEF SumOf

\* A function that is zero everywhere sums to zero.
LEMMA SumOfZero ==
  ASSUME NEW S, NEW B \in Nat, NEW f \in [S -> 0..B],
         \A x \in S : f[x] = 0
  PROVE  SumOf(f, B) = 0
<1>1. Units(f, B) = {}
  BY DEF Units
<1> QED
  BY <1>1, FS_EmptySet DEF SumOf

\* The units at one point number f[x].
LEMMA UnitsAt ==
  ASSUME NEW x, NEW n \in Nat
  PROVE  /\ IsFiniteSet({x} \X (1..n))
         /\ Cardinality({x} \X (1..n)) = n
<1>1. IsFiniteSet({x}) /\ Cardinality({x}) = 1
  BY FS_Singleton
<1>2. IsFiniteSet(1..n) /\ Cardinality(1..n) = n
  BY FS_Interval
<1>3. /\ IsFiniteSet({x} \X (1..n))
      /\ Cardinality({x} \X (1..n)) = Cardinality({x}) * Cardinality(1..n)
  BY <1>1, <1>2, FS_Product
<1> QED
  BY <1>1, <1>2, <1>3

\* The units that f counts at points other than x.
Elsewhere(f, B, x) == {u \in Units(f, B) : u[1] # x}

\* A sum is the value at x plus the number of units elsewhere.
LEMMA SumSplit ==
  ASSUME NEW S, IsFiniteSet(S), NEW B \in Nat, NEW f \in [S -> 0..B], NEW x \in S
  PROVE  /\ Cardinality(Elsewhere(f, B, x)) \in Nat
         /\ SumOf(f, B) = Cardinality(Elsewhere(f, B, x)) + f[x]
<1> DEFINE rest == Elsewhere(f, B, x)
           here == {x} \X (1..f[x])
<1>1. f[x] \in Nat /\ f[x] <= B
  OBVIOUS
<1>2. IsFiniteSet(rest)
  <2>1. rest \in SUBSET Units(f, B)
    BY DEF Elsewhere
  <2> QED
    BY <2>1, UnitsFinite, FS_Subset
<1>3. IsFiniteSet(here) /\ Cardinality(here) = f[x]
  BY <1>1, UnitsAt
<1>4. Units(f, B) = rest \cup here
  BY <1>1 DEF Units, Elsewhere
<1>5. rest \cap here = {}
  BY DEF Elsewhere
<1>6. Cardinality(rest \cap here) = 0
  BY <1>5, FS_EmptySet
<1>7. Cardinality(rest) \in Nat
  BY <1>2, FS_CardinalityType
<1>8. Cardinality(rest \cup here)
        = Cardinality(rest) + Cardinality(here) - Cardinality(rest \cap here)
  BY <1>2, <1>3, FS_Union
<1> HIDE DEF rest, here
<1>9. Cardinality(Units(f, B)) = Cardinality(rest) + f[x]
  BY <1>1, <1>3, <1>4, <1>6, <1>7, <1>8
<1> QED
  BY <1>7, <1>9 DEF SumOf, rest

\* Every value is at most the sum.
LEMMA SumOfBounds ==
  ASSUME NEW S, IsFiniteSet(S), NEW B \in Nat, NEW f \in [S -> 0..B], NEW x \in S
  PROVE  f[x] <= SumOf(f, B)
<1>1. f[x] \in Int
  OBVIOUS
<1> QED
  BY <1>1, SumSplit

\* Changing the function at one point moves the sum by the change.
LEMMA SumOfUpdate ==
  ASSUME NEW S, IsFiniteSet(S), NEW B \in Nat,
         NEW f \in [S -> 0..B], NEW g \in [S -> 0..B], NEW x \in S,
         \A y \in S \ {x} : g[y] = f[y]
  PROVE  SumOf(g, B) = SumOf(f, B) + g[x] - f[x]
<1>1. Elsewhere(g, B, x) = Elsewhere(f, B, x)
  BY DEF Units, Elsewhere
<1>2. /\ Cardinality(Elsewhere(f, B, x)) \in Nat
      /\ SumOf(f, B) = Cardinality(Elsewhere(f, B, x)) + f[x]
  BY SumSplit
<1>3. SumOf(g, B) = Cardinality(Elsewhere(g, B, x)) + g[x]
  BY SumSplit
<1>4. f[x] \in Int /\ g[x] \in Int
  OBVIOUS
<1> QED
  BY <1>1, <1>2, <1>3, <1>4

\* Changing the function at two points moves the sum by both changes.
LEMMA SumOfUpdate2 ==
  ASSUME NEW S, IsFiniteSet(S), NEW B \in Nat,
         NEW f \in [S -> 0..B], NEW g \in [S -> 0..B], NEW x \in S, NEW y \in S,
         x # y, \A z \in S \ {x, y} : g[z] = f[z]
  PROVE  SumOf(g, B) = SumOf(f, B) + (g[x] - f[x]) + (g[y] - f[y])
<1> DEFINE m == [f EXCEPT ![x] = g[x]]
<1>1. m \in [S -> 0..B] /\ m[x] = g[x] /\ m[y] = f[y]
  OBVIOUS
<1>2. \A z \in S \ {x} : m[z] = f[z]
  OBVIOUS
<1>3. \A z \in S \ {y} : g[z] = m[z]
  OBVIOUS
<1> HIDE DEF m
<1>4. SumOf(m, B) = SumOf(f, B) + m[x] - f[x]
  BY <1>1, <1>2, SumOfUpdate
<1>5. SumOf(g, B) = SumOf(m, B) + g[y] - m[y]
  BY <1>1, <1>3, SumOfUpdate
<1>6. SumOf(f, B) \in Nat /\ SumOf(m, B) \in Nat /\ SumOf(g, B) \in Nat
  BY <1>1, UnitsFinite
<1>7. f[x] \in Int /\ f[y] \in Int /\ g[x] \in Int /\ g[y] \in Int
  OBVIOUS
<1> QED
  BY <1>1, <1>4, <1>5, <1>6, <1>7
-----------------------------------------------------------------------------
(* Walks.  What a recursive function computes is proved by looking at the  *)
(* first number at which it would not: LeastOf stands for induction.       *)

\* A set of natural numbers that is not empty has a least one.
LEMMA LeastOf ==
  ASSUME NEW T \in SUBSET Nat, T # {}
  PROVE  \E i \in T : \A j \in T : i <= j
<1> DEFINE R == OpToRel(<, Nat)
<1>1. IsWellFoundedOn(R, Nat)
  BY NatLessThanWellFounded
<1>2. \A x, y \in Nat : <<x, y>> \in R <=> x < y
  BY DEF OpToRel
<1> HIDE DEF R
<1>3. PICK i \in T : \A j \in T : ~ (<<j, i>> \in R)
  BY <1>1, WFMin
<1>4. ASSUME NEW j \in T PROVE i <= j
  <2>1. i \in Nat /\ j \in Nat
    OBVIOUS
  <2>2. ~ (j < i)
    BY <1>2, <1>3, <2>1
  <2> QED BY <2>1, <2>2
<1> QED BY <1>4

\* Steps along next from head, of at most N steps.
Steps(f, head, next, N) ==
  /\ f[0] = head
  /\ \A n \in 1..N : f[n] = IF f[n - 1] \in DOMAIN next THEN next[f[n - 1]] ELSE f[n - 1]

\* There are such steps, however many are asked for.
LEMMA StepsExist ==
  ASSUME NEW D, NEW T, D \subseteq T, NEW next \in [D -> T], NEW head \in T, NEW N \in Nat
  PROVE  \E f \in [0..N -> T] : Steps(f, head, next, N)
<1> DEFINE Exists(n) == \E f \in [0..n -> T] : Steps(f, head, next, n)
           Bad == {n \in Nat : ~ Exists(n)}
<1>1. SUFFICES ASSUME Bad # {} PROVE FALSE
  OBVIOUS
<1>2. PICK n \in Bad : \A m \in Bad : n <= m
  <2>1. Bad \in SUBSET Nat
    OBVIOUS
  <2> HIDE DEF Bad
  <2> QED BY <1>1, <2>1, LeastOf
<1>3. n # 0
  <2>1. [i \in 0..0 |-> head] \in [0..0 -> T] /\ Steps([i \in 0..0 |-> head], head, next, 0)
    BY DEF Steps
  <2> QED BY <2>1
<1>4. n - 1 \in Nat /\ ~ (n <= n - 1)
  BY <1>3
<1>5. PICK f \in [0..(n - 1) -> T] : Steps(f, head, next, n - 1)
  BY <1>2, <1>4
<1> DEFINE y == IF f[n - 1] \in D THEN next[f[n - 1]] ELSE f[n - 1]
           g == [i \in 0..n |-> IF i = n THEN y ELSE f[i]]
<1>6. f[n - 1] \in T /\ y \in T
  BY <1>4, <1>5
<1>7. g \in [0..n -> T]
  BY <1>6
<1>8. g[0] = head
  BY <1>3, <1>5 DEF Steps
<1>9. ASSUME NEW m \in 1..n
      PROVE  g[m] = IF g[m - 1] \in D THEN next[g[m - 1]] ELSE g[m - 1]
  <2>1. g[m - 1] = f[m - 1]
    BY <1>4
  <2>2. CASE m = n
    BY <2>1, <2>2
  <2>3. CASE m # n
    <3>1. m \in 1..(n - 1) /\ g[m] = f[m]
      BY <2>3
    <3>2. f[m] = IF f[m - 1] \in D THEN next[f[m - 1]] ELSE f[m - 1]
      BY <1>5, <3>1 DEF Steps
    <3> QED BY <2>1, <3>1, <3>2
  <2> QED BY <2>2, <2>3
<1> HIDE DEF g
<1>10. Steps(g, head, next, n)
  BY <1>8, <1>9, DOMAIN next = D DEF Steps
<1> QED BY <1>2, <1>7, <1>10

\* A table links the nodes S once each, from head to END: every node is the
\* head or follows a node of lower rank, and none follows two.
Threads(head, next, S, END) ==
  /\ head \in S \cup {END} /\ next \in [S -> S \cup {END}]
  /\ \A i \in S : next[i] = END \/ next[i] # head
  /\ \A i, j \in S : next[i] = next[j] /\ next[i] # END => i = j
  /\ \E r \in [S -> Nat] : \A i \in S :
       i = head \/ \E j \in S : next[j] = i /\ r[j] < r[i]

\* Such steps come to every node, in as many steps as there are nodes.
LEMMA StepsCover ==
  ASSUME NEW S, IsFiniteSet(S), NEW END, END \notin S, NEW head, NEW next,
         Threads(head, next, S, END),
         NEW N \in Nat, Cardinality(S) <= N,
         NEW f \in [0..N -> S \cup {END}], Steps(f, head, next, N)
  PROVE  /\ f[N] = END
         /\ {f[n] : n \in 0..N} \ {END} = S
         /\ \A m, n \in 0..N : f[m] = f[n] /\ f[m] # END => m = n
         /\ \A m, n \in 0..N : m <= n /\ f[n] # END => f[m] # END
<1>0. DOMAIN next = S
  BY DEF Threads
<1>1. \A n \in 0..N : f[n] \in S \cup {END}
  OBVIOUS
<1>2. \A n \in 1..N : /\ n - 1 \in 0..N
                      /\ f[n - 1] \in S => f[n] = next[f[n - 1]]
                      /\ f[n - 1] = END => f[n] = END
  BY <1>0 DEF Steps
\* The steps that go on have not met END before.
<1>3. ASSUME NEW m \in 0..N, NEW n \in 0..N, m <= n, f[n] # END PROVE f[m] # END
  <2> DEFINE Late == {k \in Nat : k <= N /\ m <= k /\ f[k] # END}
  <2>1. SUFFICES ASSUME f[m] = END PROVE FALSE
    OBVIOUS
  <2>2. PICK k \in Late : \A l \in Late : k <= l
    <3>1. n \in Late /\ Late \in SUBSET Nat
      BY <1>3
    <3> HIDE DEF Late
    <3> QED BY <3>1, LeastOf
  <2>3. k # m /\ k \in 1..N
    BY <2>1, <2>2
  <2>4. k - 1 \in Nat /\ k - 1 <= N /\ m <= k - 1 /\ ~ (k <= k - 1)
    BY <2>2, <2>3
  <2>5. f[k - 1] = END
    BY <2>2, <2>4
  <2> QED BY <1>2, <2>2, <2>3, <2>5
\* They meet no node twice.
<1>4. ASSUME NEW m \in 0..N, NEW n \in 0..N, f[m] = f[n], f[m] # END, m < n PROVE FALSE
  <2> DEFINE Twice == {k \in Nat : k <= N /\ \E l \in 0..N : k < l /\ f[k] = f[l] /\ f[k] # END}
  <2>1. PICK k \in Twice : \A l \in Twice : k <= l
    <3>1. m \in Twice /\ Twice \in SUBSET Nat
      BY <1>4
    <3> HIDE DEF Twice
    <3> QED BY <3>1, LeastOf
  <2>2. PICK l \in 0..N : k < l /\ f[k] = f[l] /\ f[k] # END
    BY <2>1
  <2>3. k \in 0..N /\ l \in 1..N
    BY <2>1, <2>2
  <2>4. f[l - 1] \in S /\ f[l] = next[f[l - 1]]
    BY <1>1, <1>2, <2>2, <2>3
  <2>5. CASE k = 0
    BY <2>2, <2>4, <2>5 DEF Steps, Threads
  <2>6. CASE k # 0
    <3>1. k \in 1..N
      BY <2>3, <2>6
    <3>2. f[k - 1] \in S /\ f[k] = next[f[k - 1]]
      BY <1>1, <1>2, <2>2, <3>1
    <3>3. f[k - 1] = f[l - 1]
      BY <2>2, <2>4, <3>2 DEF Threads
    <3>4. k - 1 \in Nat /\ k - 1 <= N /\ l - 1 \in 0..N /\ k - 1 < l - 1 /\ ~ (k <= k - 1)
      BY <2>2, <2>3, <3>1
    <3>5. f[k - 1] # END
      BY <3>2
    <3>6. k - 1 \in Twice
      BY <3>3, <3>4, <3>5
    <3> QED BY <2>1, <3>4, <3>6
  <2> QED BY <2>5, <2>6
<1>5. \A m, n \in 0..N : f[m] = f[n] /\ f[m] # END => m = n
  <2> SUFFICES ASSUME NEW m \in 0..N, NEW n \in 0..N, f[m] = f[n], f[m] # END PROVE m = n
    OBVIOUS
  <2>1. m < n \/ n < m \/ m = n
    OBVIOUS
  <2> QED BY <1>4, <2>1
\* There are more steps than nodes, so they come to the end.
<1>6. f[N] = END
  <2>1. SUFFICES ASSUME f[N] # END PROVE FALSE
    OBVIOUS
  <2>2. \A m \in 0..N : f[m] \in S
    BY <1>1, <1>3, <2>1
  <2>3. f \in Injection(0..N, S)
    BY <1>5, <2>2 DEF Injection, IsInjective
  <2>4. Cardinality(0..N) = N + 1
    BY FS_Interval, 0 \in Int
  <2>5. Cardinality(0..N) <= Cardinality(S)
    BY <2>3, FS_Injection
  <2>6. Cardinality(S) \in Nat
    BY FS_CardinalityType
  <2> QED BY <2>4, <2>5, <2>6
\* No node is left out: one of least rank would follow one that is not.
<1>7. S \subseteq {f[n] : n \in 0..N}
  <2>1. PICK r \in [S -> Nat] : \A i \in S : i = head \/ \E j \in S : next[j] = i /\ r[j] < r[i]
    BY DEF Threads
  <2> DEFINE Out == {i \in S : i \notin {f[n] : n \in 0..N}}
             Low == {r[i] : i \in Out}
  <2>2. SUFFICES ASSUME Out # {} PROVE FALSE
    OBVIOUS
  <2>3. PICK low \in Low : \A l \in Low : low <= l
    <3>1. Low # {} /\ Low \in SUBSET Nat
      BY <2>2
    <3> HIDE DEF Low
    <3> QED BY <3>1, LeastOf
  <2>4. PICK i \in Out : r[i] = low
    BY <2>3
  <2>5. i # head
    BY <2>4 DEF Steps
  <2>6. PICK j \in S : next[j] = i /\ r[j] < r[i]
    BY <2>1, <2>4, <2>5
  <2>7. j \notin Out
    <3>1. r[j] \in Nat /\ r[i] \in Nat
      OBVIOUS
    <3>2. j \in Out => r[j] \in Low
      OBVIOUS
    <3> HIDE DEF Out, Low
    <3>3. j \in Out => low <= r[j]
      BY <2>3, <3>2
    <3> QED BY <2>4, <2>6, <3>1, <3>3
  <2>8. PICK n \in 0..N : f[n] = j
    BY <2>6, <2>7
  <2>9. n # N
    BY <1>6, <2>6, <2>8
  <2>10. n + 1 \in 1..N /\ (n + 1) - 1 = n
    BY <2>9
  <2>11. f[n + 1] = i
    BY <1>2, <2>6, <2>8, <2>10
  <2> QED BY <2>4, <2>10, <2>11
<1>8. {f[n] : n \in 0..N} \ {END} = S
  BY <1>1, <1>7
<1> QED BY <1>3, <1>5, <1>6, <1>8
\* They come to the end no sooner than that.
LEMMA StepsFill ==
  ASSUME NEW S, IsFiniteSet(S), NEW END, END \notin S, NEW head, NEW next,
         Threads(head, next, S, END),
         NEW N \in Nat, Cardinality(S) = N,
         NEW f \in [0..N -> S \cup {END}], Steps(f, head, next, N)
  PROVE  f[N] = END /\ {f[n] : n \in 0..(N - 1)} = S
<1>1. /\ f[N] = END /\ {f[n] : n \in 0..N} \ {END} = S
      /\ \A m, n \in 0..N : m <= n /\ f[n] # END => f[m] # END
  <2>1. Cardinality(S) <= N
    OBVIOUS
  <2> QED BY <2>1, StepsCover
<1>2. ASSUME NEW j \in 0..(N - 1) PROVE f[j] # END
  <2>1. SUFFICES ASSUME f[j] = END PROVE FALSE
    OBVIOUS
  <2>2. \A n \in 0..N : f[n] # END => n \in 0..(j - 1)
    BY <1>1, <2>1
  <2> DEFINE g == [n \in {m \in 0..(j - 1) : f[m] # END} |-> f[n]]
             D == {m \in 0..(j - 1) : f[m] # END}
  <2>3. g \in Surjection(D, S)
    <3>1. \A n \in D : f[n] \in S
      OBVIOUS
    <3>2. \A x \in S : \E n \in D : f[n] = x
      BY <1>1, <2>2
    <3> QED BY <3>1, <3>2 DEF Surjection
  <2>4. IsFiniteSet(0..(j - 1)) /\ Cardinality(0..(j - 1)) = j
    <3>1. 0 \in Int /\ j - 1 \in Int /\ j \in Nat
      OBVIOUS
    <3>2. /\ IsFiniteSet(0..(j - 1))
          /\ Cardinality(0..(j - 1)) = IF 0 > j - 1 THEN 0 ELSE (j - 1) - 0 + 1
      BY <3>1, FS_Interval
    <3> QED BY <3>1, <3>2
  <2>5. IsFiniteSet(D) /\ Cardinality(D) <= j
    <3>1. D \in SUBSET (0..(j - 1))
      OBVIOUS
    <3> HIDE DEF D
    <3> QED BY <2>4, <3>1, FS_Subset
  <2> HIDE DEF D, g
  <2>6. Cardinality(S) <= Cardinality(D)
    BY <2>3, <2>5, FS_Surjection
  <2>7. Cardinality(D) \in Nat
    BY <2>5, FS_CardinalityType
  <2> QED BY <2>5, <2>6, <2>7
<1>3. ASSUME NEW x \in S PROVE \E n \in 0..(N - 1) : f[n] = x
  <2>1. PICK n \in 0..N : f[n] = x
    BY <1>1
  <2>2. n # N
    BY <1>1, <2>1
  <2> QED BY <2>1, <2>2
<1>4. \A n \in 0..(N - 1) : f[n] \in S
  BY <1>2
<1> QED BY <1>1, <1>3, <1>4

\* The head leaves the list,
LEMMA ThreadsPop ==
  ASSUME NEW S, NEW END, END \notin S, NEW head \in S, NEW next, Threads(head, next, S, END)
  PROVE  Threads(next[head], [i \in S \ {head} |-> next[i]], S \ {head}, END)
<1> DEFINE T == S \ {head} rest == [i \in T |-> next[i]]
<1>1. next[head] \in T \cup {END} /\ rest \in [T -> T \cup {END}]
  BY DEF Threads
<1>2. /\ \A i \in T : rest[i] = END \/ rest[i] # next[head]
      /\ \A i, j \in T : rest[i] = rest[j] /\ rest[i] # END => i = j
  BY DEF Threads
<1>3. PICK r \in [S -> Nat] : \A i \in S : i = head \/ \E j \in S : next[j] = i /\ r[j] < r[i]
  BY DEF Threads
<1>4. [i \in T |-> r[i]] \in [T -> Nat]
  OBVIOUS
<1>5. ASSUME NEW i \in T PROVE i = next[head] \/ \E j \in T : rest[j] = i /\ [l \in T |-> r[l]][j] < [l \in T |-> r[l]][i]
  BY <1>3
<1> HIDE DEF T, rest
<1>6. Threads(next[head], rest, T, END)
  BY <1>1, <1>2, <1>4, <1>5 DEF Threads
<1> QED BY <1>6 DEF T, rest

\* and a new one joins it.
LEMMA ThreadsPush ==
  ASSUME NEW S, NEW END, NEW s, s \notin S, s # END, END \notin S, NEW head, NEW next,
         Threads(head, next, S, END), NEW more,
         more \in [S \cup {s} -> S \cup {s} \cup {END}],
         more[s] = head, \A i \in S : more[i] = next[i]
  PROVE  Threads(s, more, S \cup {s}, END)
<1> DEFINE T == S \cup {s}
<1>1. head \in S \cup {END} /\ \A i \in S : next[i] \in S \cup {END}
  BY DEF Threads
<1>2. \A i \in T : more[i] = END \/ more[i] # s
  BY <1>1
<1>3. \A i, j \in T : more[i] = more[j] /\ more[i] # END => i = j
  BY <1>1 DEF Threads
<1>4. PICK r \in [S -> Nat] : \A i \in S : i = head \/ \E j \in S : next[j] = i /\ r[j] < r[i]
  BY DEF Threads
<1> DEFINE q == [i \in T |-> IF i = s THEN 0 ELSE r[i] + 1]
<1>5. q \in [T -> Nat] /\ q[s] = 0 /\ \A i \in S : q[i] = r[i] + 1
  OBVIOUS
<1>6. ASSUME NEW i \in T, i # s PROVE \E j \in T : more[j] = i /\ q[j] < q[i]
  <2>1. i \in S /\ r[i] \in Nat
    BY <1>6
  <2>2. CASE i = head
    BY <1>5, <2>1, <2>2
  <2>3. CASE i # head
    <3>1. PICK j \in S : next[j] = i /\ r[j] < r[i]
      BY <1>4, <2>1, <2>3
    <3>2. q[j] < q[i] /\ more[j] = i
      <4>1. r[j] \in Nat
        OBVIOUS
      <4> QED BY <1>5, <2>1, <3>1, <4>1
    <3> QED BY <3>2
  <2> QED BY <2>2, <2>3
<1> HIDE DEF q
<1> QED BY <1>2, <1>3, <1>5, <1>6 DEF Threads

\* Steps are what a recursive function of the links computes.
LEMMA StepsAre ==
  ASSUME NEW T, NEW next, NEW head \in T, NEW N \in Nat, NEW w, NEW f \in [0..N -> T],
         DOMAIN w = 0..N, w = [n \in 0..N |-> w[n]],
         w[0] = f[0], \A n \in 1..N : w[n - 1] = f[n - 1] => w[n] = f[n]
  PROVE  w = f
<1> DEFINE Bad == {n \in Nat : n <= N /\ w[n] # f[n]}
<1>1. ASSUME Bad # {} PROVE FALSE
  <2>1. PICK n \in Bad : \A m \in Bad : n <= m
    <3>1. Bad \in SUBSET Nat
      OBVIOUS
    <3> HIDE DEF Bad
    <3> QED BY <1>1, <3>1, LeastOf
  <2>2. n \in 1..N
    BY <2>1
  <2>3. n - 1 \in Nat /\ n - 1 <= N /\ ~ (n <= n - 1)
    BY <2>2
  <2>4. w[n - 1] = f[n - 1]
    BY <2>1, <2>3
  <2> QED BY <2>1, <2>2, <2>4
<1>2. \A n \in 0..N : w[n] = f[n]
  BY <1>1
<1> QED BY <1>2

-----------------------------------------------------------------------------
(* The sum of the community modules, SumFunctionOnSet, which adds one      *)
(* member after the other.  It does not depend on the order, so it splits  *)
(* at any member.                                                          *)

Pick(s) == CHOOSE x \in s : TRUE

\* g[s] is the sum of f over s, for each of the sets D.
Adds(g, f, D) == \A s \in D : g[s] = IF s = {} THEN 0 ELSE f[Pick(s)] + g[s \ {Pick(s)}]

\* Members leave a finite set one by one.
LEMMA SmallerSet ==
  ASSUME NEW S, IsFiniteSet(S), NEW s \in SUBSET S, NEW x \in s
  PROVE  /\ s \ {x} \in SUBSET S /\ IsFiniteSet(s) /\ Cardinality(s) \in Nat
         /\ Cardinality(s \ {x}) = Cardinality(s) - 1 /\ Cardinality(s \ {x}) \in Nat
<1>1. IsFiniteSet(s) /\ Cardinality(s) \in Nat
  BY FS_Subset, FS_CardinalityType
<1>2. IsFiniteSet(s \ {x}) /\ Cardinality(s \ {x}) = Cardinality(s) - 1
  BY <1>1, FS_RemoveElement
<1>3. Cardinality(s \ {x}) \in Nat
  BY <1>2, FS_CardinalityType
<1> QED BY <1>1, <1>2, <1>3

\* Of the subsets in a set of them, one is smallest.
LEMMA SmallestSet ==
  ASSUME NEW S, IsFiniteSet(S), NEW T \in SUBSET (SUBSET S), T # {}
  PROVE  \E s \in T : Cardinality(s) \in Nat /\ \A r \in T : Cardinality(s) <= Cardinality(r)
<1> DEFINE Measures == {Cardinality(s) : s \in T}
<1>1. \A s \in T : Cardinality(s) \in Nat
  BY FS_Subset, FS_CardinalityType
<1>2. Measures \in SUBSET Nat /\ Measures # {}
  BY <1>1
<1>3. PICK n \in Measures : \A m \in Measures : n <= m
  <2> HIDE DEF Measures
  <2> QED BY <1>2, LeastOf
<1>4. PICK s \in T : Cardinality(s) = n
  BY <1>3
<1> QED BY <1>1, <1>3, <1>4

LEMMA PickIsMember == ASSUME NEW s, s # {} PROVE Pick(s) \in s
BY DEF Pick

Small(S, n) == {s \in SUBSET S : Cardinality(s) <= n}

LEMMA SumsUpTo ==
  ASSUME NEW S, IsFiniteSet(S), NEW f \in [S -> Int], NEW n \in Nat
  PROVE  \E g \in [Small(S, n) -> Int] : Adds(g, f, Small(S, n))
<1> DEFINE Exists(k) == \E g \in [Small(S, k) -> Int] : Adds(g, f, Small(S, k))
           Bad == {k \in Nat : ~ Exists(k)}
<1>1. SUFFICES ASSUME Bad # {} PROVE FALSE
  OBVIOUS
<1>2. PICK k \in Bad : \A m \in Bad : k <= m
  <2>1. Bad \in SUBSET Nat
    OBVIOUS
  <2> HIDE DEF Bad
  <2> QED BY <1>1, <2>1, LeastOf
<1>3. k # 0
  <2>1. ASSUME NEW s \in Small(S, 0) PROVE s = {}
    <3>1. s # {} => Pick(s) \in s
      BY PickIsMember
    <3>2. ASSUME s # {} PROVE Cardinality(s) - 1 \in Nat /\ Cardinality(s) \in Nat
      <4>1. s \in SUBSET S /\ Pick(s) \in s
        BY <3>1, <3>2 DEF Small
      <4>2. Cardinality(s) \in Nat /\ Cardinality(s \ {Pick(s)}) = Cardinality(s) - 1
            /\ Cardinality(s \ {Pick(s)}) \in Nat
        BY <4>1, SmallerSet, SMTT(60)
      <4> QED BY <4>2
    <3>3. Cardinality(s) <= 0
      BY DEF Small
    <3> QED BY <3>2, <3>3
  <2>2. [s \in Small(S, 0) |-> 0] \in [Small(S, 0) -> Int] /\ Adds([s \in Small(S, 0) |-> 0], f, Small(S, 0))
    BY <2>1 DEF Adds
  <2> QED BY <2>2
<1>4. k - 1 \in Nat /\ ~ (k <= k - 1)
  BY <1>3
<1>5. PICK g \in [Small(S, k - 1) -> Int] : Adds(g, f, Small(S, k - 1))
  BY <1>2, <1>4
<1> DEFINE h == [s \in Small(S, k) |-> IF s = {} THEN 0 ELSE f[Pick(s)] + g[s \ {Pick(s)}]]
<1>6. ASSUME NEW s \in Small(S, k), s # {}
      PROVE  Pick(s) \in S /\ s \ {Pick(s)} \in Small(S, k - 1) /\ s \ {Pick(s)} \in Small(S, k)
  <2>1. Pick(s) \in s /\ s \in SUBSET S
    BY <1>6, PickIsMember DEF Small
  <2>2. /\ s \ {Pick(s)} \in SUBSET S /\ Cardinality(s) \in Nat
        /\ Cardinality(s \ {Pick(s)}) = Cardinality(s) - 1
    BY <2>1, SmallerSet
  <2>3. Cardinality(s) <= k
    BY DEF Small
  <2> QED BY <2>1, <2>2, <2>3 DEF Small
<1>7. h \in [Small(S, k) -> Int]
  <2> SUFFICES ASSUME NEW s \in Small(S, k)
               PROVE  (IF s = {} THEN 0 ELSE f[Pick(s)] + g[s \ {Pick(s)}]) \in Int
    OBVIOUS
  <2>1. CASE s = {}
    BY <2>1
  <2>2. CASE s # {}
    <3>1. f[Pick(s)] \in Int /\ g[s \ {Pick(s)}] \in Int
      BY <1>6, <2>2
    <3> QED BY <2>2, <3>1
  <2> QED BY <2>1, <2>2
<1>8. ASSUME NEW s \in Small(S, k - 1) PROVE s \in Small(S, k) /\ h[s] = g[s]
  <2>1. IsFiniteSet(s) /\ Cardinality(s) \in Nat /\ s \in SUBSET S
    BY FS_Subset, FS_CardinalityType DEF Small
  <2>2. s \in Small(S, k)
    BY <2>1 DEF Small
  <2>3. g[s] = IF s = {} THEN 0 ELSE f[Pick(s)] + g[s \ {Pick(s)}]
    BY <1>5 DEF Adds
  <2> QED BY <2>2, <2>3
<1>9. Adds(h, f, Small(S, k))
  <2> SUFFICES ASSUME NEW s \in Small(S, k)
               PROVE  h[s] = IF s = {} THEN 0 ELSE f[Pick(s)] + h[s \ {Pick(s)}]
    BY DEF Adds
  <2>1. CASE s = {}
    BY <2>1
  <2>2. CASE s # {}
    <3>1. h[s \ {Pick(s)}] = g[s \ {Pick(s)}]
      BY <1>6, <1>8, <2>2
    <3> QED BY <2>2, <3>1
  <2> QED BY <2>1, <2>2
<1> QED BY <1>2, <1>7, <1>9

\* Such a function exists on all subsets,
LEMMA SumsExist ==
  ASSUME NEW S, IsFiniteSet(S), NEW f \in [S -> Int]
  PROVE  \E g \in [SUBSET S -> Int] : Adds(g, f, SUBSET S)
<1>1. Cardinality(S) \in Nat
  BY FS_CardinalityType
<1>2. Small(S, Cardinality(S)) = SUBSET S
  BY FS_Subset DEF Small
<1>3. \E g \in [Small(S, Cardinality(S)) -> Int] : Adds(g, f, Small(S, Cardinality(S)))
  BY <1>1, SumsUpTo
<1> QED BY <1>2, <1>3

Alike(f, h, T) == \A x \in T : f[x] = h[x]

\* there is no other, whatever f is elsewhere,
LEMMA SumsAgree ==
  ASSUME NEW S, IsFiniteSet(S), NEW T \in SUBSET S, NEW f, NEW h, NEW g, NEW e,
         Alike(f, h, T), Adds(g, f, SUBSET S), Adds(e, h, SUBSET T)
  PROVE  e[T] = g[T]
<1> DEFINE Bad == {s \in SUBSET T : e[s] # g[s]}
<1>1. SUFFICES ASSUME Bad # {} PROVE FALSE
  OBVIOUS
<1>2. PICK s \in Bad : \A r \in Bad : Cardinality(s) <= Cardinality(r)
  <2>1. Bad \in SUBSET (SUBSET T) /\ IsFiniteSet(T)
    BY FS_Subset
  <2> HIDE DEF Bad
  <2> QED BY <1>1, <2>1, SmallestSet
<1>3. s # {}
  BY <1>2 DEF Adds
<1>4. Pick(s) \in s
  BY <1>3, PickIsMember
<1>5. /\ s \ {Pick(s)} \in SUBSET T /\ Cardinality(s) \in Nat
      /\ Cardinality(s \ {Pick(s)}) = Cardinality(s) - 1
  BY <1>4, SmallerSet
<1>6. e[s \ {Pick(s)}] = g[s \ {Pick(s)}]
  <2>1. ~ (Cardinality(s) <= Cardinality(s \ {Pick(s)}))
    BY <1>5
  <2> QED BY <1>2, <1>5, <2>1
<1>7. e[s] = h[Pick(s)] + e[s \ {Pick(s)}] /\ g[s] = f[Pick(s)] + g[s \ {Pick(s)}]
  BY <1>3 DEF Adds
<1> QED BY <1>2, <1>4, <1>6, <1>7 DEF Alike

Splits(g, f, S) == \A s \in SUBSET S : \A x \in s : g[s] = f[x] + g[s \ {x}]

\* and it does not depend on what is picked.
LEMMA SumsSplit ==
  ASSUME NEW S, IsFiniteSet(S), NEW f \in [S -> Int],
         NEW g \in [SUBSET S -> Int], Adds(g, f, SUBSET S)
  PROVE  Splits(g, f, S)
<1> DEFINE Bad == {s \in SUBSET S : ~ \A x \in s : g[s] = f[x] + g[s \ {x}]}
<1>1. SUFFICES ASSUME Bad # {} PROVE FALSE
  BY DEF Splits
<1>2. PICK s \in Bad : \A r \in Bad : Cardinality(s) <= Cardinality(r)
  <2>1. Bad \in SUBSET (SUBSET S)
    OBVIOUS
  <2> HIDE DEF Bad
  <2> QED BY <1>1, <2>1, SmallestSet
<1>3. PICK x \in s : g[s] # f[x] + g[s \ {x}]
  BY <1>2
<1> DEFINE p == Pick(s)
<1>4. p \in s /\ g[s] = f[p] + g[s \ {p}]
  BY <1>3, PickIsMember DEF Adds
<1>5. p # x
  BY <1>3, <1>4
<1> HIDE DEF p
<1>6. ASSUME NEW y \in s, NEW z \in s \ {y}
      PROVE  g[s \ {y}] = f[z] + g[(s \ {y}) \ {z}]
  <2>1. s \ {y} \in SUBSET S /\ Cardinality(s) \in Nat /\ Cardinality(s \ {y}) = Cardinality(s) - 1
    BY SmallerSet
  <2>2. s \ {y} \notin Bad
    <3>1. ~ (Cardinality(s) <= Cardinality(s \ {y}))
      BY <2>1
    <3> QED BY <1>2, <3>1
  <2> QED BY <2>1, <2>2
<1>7. g[s \ {p}] = f[x] + g[(s \ {p}) \ {x}] /\ g[s \ {x}] = f[p] + g[(s \ {x}) \ {p}]
  BY <1>4, <1>5, <1>6
<1>8. (s \ {p}) \ {x} = (s \ {x}) \ {p}
  OBVIOUS
<1>9. f[x] \in Int /\ f[p] \in Int /\ g[(s \ {x}) \ {p}] \in Int
  BY <1>4
<1>10. g[s] = f[p] + (f[x] + g[(s \ {x}) \ {p}]) /\ f[x] + g[s \ {x}] = f[x] + (f[p] + g[(s \ {x}) \ {p}])
  BY <1>4, <1>7, <1>8
<1> QED BY <1>3, <1>9, <1>10

\* The library's sum is that one.
LEMMA SumIsSum ==
  ASSUME NEW S, IsFiniteSet(S), NEW T \in SUBSET S, NEW f \in [S -> Int],
         NEW g \in [SUBSET S -> Int], Adds(g, f, SUBSET S), NEW h,
         \A x \in T : h[x] = f[x]
  PROVE  SumFunctionOnSet(h, T) = g[T]
<1> DEFINE Turn(e) == [s \in SUBSET T |-> IF s = {} THEN 0 ELSE h[Pick(s)] + e[s \ {Pick(s)}]]
           iter == CHOOSE e : e = Turn(e)
<1>1. SumFunctionOnSet(h, T) = iter[T]
  BY DEF SumFunctionOnSet, FoldFunctionOnSet, MapThenFoldSet, Pick
<1> DEFINE e == [s \in SUBSET T |-> g[s]]
<1>2. e = Turn(e)
  <2>1. ASSUME NEW s \in SUBSET T PROVE e[s] = IF s = {} THEN 0 ELSE h[Pick(s)] + e[s \ {Pick(s)}]
    <3>1. CASE s = {}
      BY <3>1 DEF Adds
    <3>2. CASE s # {}
      <4>1. Pick(s) \in s
        BY <3>2, PickIsMember
      <4>2. s \in SUBSET S /\ s \ {Pick(s)} \in SUBSET T /\ h[Pick(s)] = f[Pick(s)]
        BY <4>1
      <4>3. g[s] = f[Pick(s)] + g[s \ {Pick(s)}]
        BY <3>2, <4>2 DEF Adds
      <4> QED BY <3>2, <4>2, <4>3
    <3> QED BY <3>1, <3>2
  <2>2. e \in [SUBSET T -> Int]
    OBVIOUS
  <2> QED BY <2>1
<1>3. iter = Turn(iter)
  <2> HIDE DEF e, Turn
  <2> QED BY <1>2
<1>4. Adds(iter, h, SUBSET T)
  <2> HIDE DEF iter
  <2> QED BY <1>3 DEF Adds
<1> HIDE DEF iter
<1>5. Alike(f, h, T)
  BY DEF Alike
<1>6. iter[T] = g[T]
  BY <1>4, <1>5, SumsAgree
<1> QED BY <1>1, <1>6

\* A sum is the value at one member and the sum over the others.
LEMMA SumAt ==
  ASSUME NEW S, IsFiniteSet(S), NEW f \in [S -> Int], NEW x \in S
  PROVE  /\ SumFunction(f) \in Int /\ SumFunctionOnSet(f, S \ {x}) \in Int
         /\ SumFunction(f) = f[x] + SumFunctionOnSet(f, S \ {x})
<1>1. PICK g \in [SUBSET S -> Int] : Adds(g, f, SUBSET S)
  BY SumsExist
<1>2. SumFunctionOnSet(f, S) = g[S] /\ SumFunctionOnSet(f, S \ {x}) = g[S \ {x}]
  BY <1>1, SumIsSum
<1>3. g[S] = f[x] + g[S \ {x}]
  <2>1. Splits(g, f, S)
    BY <1>1, SumsSplit
  <2> QED BY <2>1 DEF Splits
<1> QED BY <1>1, <1>2, <1>3 DEF SumFunction

\* When a function changes at one point, its sum moves by the change.
LEMMA SumChanges ==
  ASSUME NEW S, IsFiniteSet(S), NEW f \in [S -> Int], NEW h \in [S -> Int], NEW x \in S,
         \A y \in S \ {x} : h[y] = f[y]
  PROVE  SumFunction(h) = SumFunction(f) + h[x] - f[x]
<1>1. PICK g \in [SUBSET S -> Int] : Adds(g, f, SUBSET S)
  BY SumsExist
<1>2. SumFunctionOnSet(h, S \ {x}) = g[S \ {x}] /\ SumFunctionOnSet(f, S \ {x}) = g[S \ {x}]
  BY <1>1, SumIsSum
<1>3. f[x] \in Int /\ h[x] \in Int
  OBVIOUS
<1> QED BY <1>2, <1>3, SumAt

\* A sum of natural numbers is one, and at least each of them.
LEMMA SumBounds ==
  ASSUME NEW S, IsFiniteSet(S), NEW f \in [S -> Nat]
  PROVE  SumFunction(f) \in Nat /\ \A x \in S : f[x] <= SumFunction(f)
<1>0. f \in [S -> Int]
  OBVIOUS
<1>1. PICK g \in [SUBSET S -> Int] : Adds(g, f, SUBSET S)
  BY <1>0, SumsExist
<1>2. \A s \in SUBSET S : g[s] \in Nat
  <2> DEFINE Bad == {s \in SUBSET S : g[s] \notin Nat}
  <2>1. SUFFICES ASSUME Bad # {} PROVE FALSE
    OBVIOUS
  <2>2. PICK s \in Bad : \A r \in Bad : Cardinality(s) <= Cardinality(r)
    <3>1. Bad \in SUBSET (SUBSET S)
      OBVIOUS
    <3> HIDE DEF Bad
    <3> QED BY <2>1, <3>1, SmallestSet
  <2>3. s # {} /\ Pick(s) \in s
    BY <1>1, <2>2, PickIsMember DEF Adds
  <2>4. /\ s \ {Pick(s)} \in SUBSET S /\ Cardinality(s) \in Nat
        /\ Cardinality(s \ {Pick(s)}) = Cardinality(s) - 1
    BY <2>3, SmallerSet
  <2>5. g[s \ {Pick(s)}] \in Nat
    <3>1. ~ (Cardinality(s) <= Cardinality(s \ {Pick(s)}))
      BY <2>4
    <3> QED BY <2>2, <2>4, <3>1
  <2>6. g[s] = f[Pick(s)] + g[s \ {Pick(s)}] /\ f[Pick(s)] \in Nat
    BY <1>1, <2>3 DEF Adds
  <2> QED BY <2>2, <2>5, <2>6
<1>3. SumFunction(f) = g[S]
  BY <1>0, <1>1, SumIsSum DEF SumFunction
<1>4. ASSUME NEW x \in S PROVE f[x] <= g[S]
  <2>1. Splits(g, f, S)
    BY <1>0, <1>1, SumsSplit
  <2>2. g[S] = f[x] + g[S \ {x}] /\ g[S \ {x}] \in Nat /\ g[S] \in Nat
    BY <1>2, <2>1 DEF Splits
  <2> QED BY <2>2
<1> QED BY <1>2, <1>3, <1>4

\* A function that is zero everywhere sums to zero.
LEMMA SumZero ==
  ASSUME NEW S, IsFiniteSet(S)
  PROVE  SumFunction([x \in S |-> 0]) = 0
<1> DEFINE f == [x \in S |-> 0] g == [s \in SUBSET S |-> 0]
<1>1. f \in [S -> Int] /\ g \in [SUBSET S -> Int]
  OBVIOUS
<1>2. Adds(g, f, SUBSET S)
  <2> SUFFICES ASSUME NEW s \in SUBSET S, s # {} PROVE g[s] = f[Pick(s)] + g[s \ {Pick(s)}]
    BY DEF Adds
  <2>1. Pick(s) \in S /\ s \ {Pick(s)} \in SUBSET S
    BY PickIsMember
  <2> QED BY <2>1
<1>3. g[S] = 0 /\ DOMAIN f = S
  OBVIOUS
<1> HIDE DEF f, g
<1>4. SumFunctionOnSet(f, S) = g[S]
  BY <1>1, <1>2, SumIsSum
<1> QED BY <1>3, <1>4 DEF SumFunction, f

LEMMA MoreTimes ==
  ASSUME NEW m \in Nat, NEW C \in Nat
  PROVE  m * C \in Nat /\ (m + 1) * C = m * C + C
OBVIOUS

LEMMA FewerTimes ==
  ASSUME NEW m \in Nat, NEW n \in Nat, NEW C \in Nat, m <= n
  PROVE  m * C \in Nat /\ n * C \in Nat /\ m * C <= n * C
<1>1. PICK d \in Nat : n = m + d
  <2>1. n - m \in Nat /\ n = m + (n - m)
    OBVIOUS
  <2> QED BY <2>1
<1>2. n * C = m * C + d * C /\ d * C \in Nat /\ m * C \in Nat
  BY <1>1
<1> QED BY <1>2

\* A sum exceeds another by no more than its members do.
LEMMA SumExceeds ==
  ASSUME NEW S, IsFiniteSet(S), NEW f \in [S -> Nat], NEW h \in [S -> Nat], NEW U \in SUBSET S, NEW C \in Nat,
         \A x \in S : f[x] <= h[x] + (IF x \in U THEN C ELSE 0)
  PROVE  SumFunction(f) <= SumFunction(h) + Cardinality(U) * C
<1>1. f \in [S -> Int] /\ h \in [S -> Int]
  OBVIOUS
<1>2. PICK g \in [SUBSET S -> Int] : Adds(g, f, SUBSET S)
  BY <1>1, SumsExist
<1>3. PICK e \in [SUBSET S -> Int] : Adds(e, h, SUBSET S)
  BY <1>1, SumsExist
<1>4. ASSUME NEW s \in SUBSET S
      PROVE  IsFiniteSet(s \cap U) /\ Cardinality(s \cap U) \in Nat /\ Cardinality(s \cap U) * C \in Nat
  <2>1. s \cap U \in SUBSET S
    OBVIOUS
  <2>2. IsFiniteSet(s \cap U) /\ Cardinality(s \cap U) \in Nat
    BY <2>1, FS_Subset, FS_CardinalityType
  <2> QED BY <2>2, MoreTimes
<1> DEFINE Bad == {s \in SUBSET S : ~ (g[s] <= e[s] + Cardinality(s \cap U) * C)}
<1>5. ASSUME Bad # {} PROVE FALSE
  <2>1. PICK s \in Bad : \A r \in Bad : Cardinality(s) <= Cardinality(r)
    <3>1. Bad \in SUBSET (SUBSET S)
      OBVIOUS
    <3> HIDE DEF Bad
    <3> QED BY <1>5, <3>1, SmallestSet
  <2>2. s # {}
    <3>1. CASE s = {}
      <4>1. g[s] = 0 /\ e[s] = 0
        BY <1>2, <1>3, <3>1 DEF Adds
      <4>2. Cardinality(s \cap U) * C \in Nat
        BY <1>4, <2>1
      <4>3. g[s] <= e[s] + Cardinality(s \cap U) * C
        BY <4>1, <4>2
      <4> QED BY <2>1, <4>3
    <3> QED BY <3>1
  <2> DEFINE p == Pick(s)
             r == s \ {p}
  <2>3. p \in s /\ p \in S
    BY <2>1, <2>2, PickIsMember
  <2>4. g[s] = f[p] + g[r] /\ e[s] = h[p] + e[r]
    BY <1>2, <1>3, <2>1, <2>2 DEF Adds
  <2>5. r \in SUBSET S /\ Cardinality(s) \in Nat /\ Cardinality(r) = Cardinality(s) - 1
    BY <2>1, <2>3, SmallerSet
  <2>6. g[r] <= e[r] + Cardinality(r \cap U) * C
    <3>1. ~ (Cardinality(s) <= Cardinality(r))
      BY <2>5
    <3> QED BY <2>1, <2>5, <3>1
  <2>7. f[p] <= h[p] + (IF p \in U THEN C ELSE 0)
    BY <2>3
  <2>8. g[r] \in Int /\ e[r] \in Int /\ g[s] \in Int /\ e[s] \in Int /\ f[p] \in Nat /\ h[p] \in Nat
    BY <2>1, <2>3, <2>5
  <2> HIDE DEF p, r
  <2>9. Cardinality(r \cap U) \in Nat /\ Cardinality(r \cap U) * C \in Nat /\ Cardinality(s \cap U) * C \in Nat
    BY <1>4, <2>1, <2>5
  <2>10. CASE p \in U
    <3>1. (s \cap U) \ {p} = r \cap U /\ p \in s \cap U
      BY <2>3, <2>10 DEF r
    <3>2. Cardinality(r \cap U) = Cardinality(s \cap U) - 1 /\ Cardinality(s \cap U) \in Nat
      <4>1. IsFiniteSet(s \cap U) /\ Cardinality(s \cap U) \in Nat
        BY <1>4, <2>1
      <4>2. Cardinality((s \cap U) \ {p}) = Cardinality(s \cap U) - 1
        <5> DEFINE q == s \cap U
        <5>1. IsFiniteSet(q) /\ p \in q /\ q \in SUBSET q
          BY <3>1, <4>1
        <5> HIDE DEF q
        <5>2. Cardinality(q \ {p}) = Cardinality(q) - 1
          BY <5>1, SmallerSet
        <5> QED BY <5>2 DEF q
      <4> QED BY <3>1, <4>1, <4>2
    <3>3. Cardinality(s \cap U) = Cardinality(r \cap U) + 1
      BY <2>9, <3>2
    <3>4. Cardinality(s \cap U) * C = Cardinality(r \cap U) * C + C
      BY <2>9, <3>3, MoreTimes
    <3>5. g[s] <= e[s] + Cardinality(s \cap U) * C
      BY <2>4, <2>6, <2>7, <2>8, <2>9, <2>10, <3>4
    <3> QED BY <2>1, <3>5
  <2>11. CASE p \notin U
    <3>1. s \cap U = r \cap U
      BY <2>11 DEF r
    <3>2. f[p] <= h[p]
      BY <2>7, <2>8, <2>11
    <3>3. g[s] <= e[s] + Cardinality(r \cap U) * C
      BY <2>4, <2>6, <2>8, <2>9, <3>2
    <3> QED BY <2>1, <3>1, <3>3
  <2> QED BY <2>10, <2>11
<1>6. g[S] <= e[S] + Cardinality(S \cap U) * C
  BY <1>5
<1>7. SumFunction(f) = g[S] /\ SumFunction(h) = e[S] /\ S \cap U = U
  BY <1>1, <1>2, <1>3, SumIsSum DEF SumFunction
<1> QED BY <1>6, <1>7
=============================================================================
