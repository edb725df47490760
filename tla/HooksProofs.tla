----------------------------- MODULE HooksProofs -----------------------------
(***************************************************************************)
(* What the operators of Hooks do to the sequences their words spell, for  *)
(* any set of nodes: a chain Spells one, a cycle Circles one, a free list  *)
(* is Stacked, a list that keeps no last is Piled; Walk reads them back.   *)
(* Each primitive is followed through its words and becomes one operation  *)
(* on sequences, and leaves the words of all other nodes as they were.     *)
(***************************************************************************)
EXTENDS Hooks, Integers, FiniteSetTheorems, Sums

-----------------------------------------------------------------------------
(* What Walk reads.                                                        *)

Onward(h, first, i) == IF h.next[i] = first THEN END ELSE h.next[i]
Walked(h, first, n, f) ==
  [p \in (0..n) \X (DOMAIN h.next \cup {END}) |->
     IF p[1] = 0 \/ p[2] = END THEN <<>>
     ELSE <<p[2]>> \o f[<<p[1] - 1, Onward(h, first, p[2])>>]]

\* Walk's inner function exists: it is built one length at a time.
LEMMA WalksExist ==
  ASSUME NEW V, END \notin V, NEW h, h.next \in [V -> V \cup {END}], NEW first, NEW N \in Nat
  PROVE  \E f : f = Walked(h, first, N, f)
<1> DEFINE W == V \cup {END}
           Bad == {n \in Nat : ~ \E f : f = Walked(h, first, n, f)}
<1>1. DOMAIN h.next = V /\ \A i \in V : Onward(h, first, i) \in W
  BY DEF Onward
<1>2. 0 \notin Bad
  <2> DEFINE f == [p \in (0..0) \X W |-> <<>>]
  <2>1. f = Walked(h, first, 0, f)
    BY <1>1 DEF Walked
  <2> QED BY <2>1
<1>3. ASSUME NEW n \in Nat, n \notin Bad PROVE n + 1 \notin Bad
  <2>1. PICK f : f = Walked(h, first, n, f)
    BY <1>3
  <2> DEFINE g == [p \in (0..(n + 1)) \X W |->
                     IF p[1] <= n THEN f[p] ELSE IF p[2] = END THEN <<>>
                     ELSE <<p[2]>> \o f[<<p[1] - 1, Onward(h, first, p[2])>>]]
             w == Walked(h, first, n + 1, g)
  <2>2. DOMAIN w = (0..(n + 1)) \X W /\ DOMAIN g = (0..(n + 1)) \X W
    BY <1>1 DEF Walked
  <2>3. ASSUME NEW k \in 0..(n + 1), NEW i \in W PROVE g[<<k, i>>] = w[<<k, i>>]
    <3>1. <<k, i>> \in (0..(n + 1)) \X W
      OBVIOUS
    <3>2. w[<<k, i>>] = IF k = 0 \/ i = END THEN <<>> ELSE <<i>> \o g[<<k - 1, Onward(h, first, i)>>]
      <4> HIDE DEF g
      <4> QED BY <1>1, <3>1 DEF Walked
    <3>3. ASSUME k # 0, i # END
          PROVE  g[<<k - 1, Onward(h, first, i)>>] = f[<<k - 1, Onward(h, first, i)>>]
      <4>1. k - 1 \in 0..n /\ Onward(h, first, i) \in W
        BY <1>1, <3>3
      <4>2. <<k - 1, Onward(h, first, i)>> \in (0..(n + 1)) \X W
        BY <4>1
      <4> QED BY <4>1, <4>2
    <3>4. ASSUME k <= n
          PROVE  f[<<k, i>>] = IF k = 0 \/ i = END THEN <<>> ELSE <<i>> \o f[<<k - 1, Onward(h, first, i)>>]
      <4>1. <<k, i>> \in (0..n) \X (DOMAIN h.next \cup {END})
        BY <1>1, <3>4
      <4> QED BY <2>1, <4>1 DEF Walked
    <3>5. g[<<k, i>>] = IF k <= n THEN f[<<k, i>>] ELSE IF i = END THEN <<>>
                        ELSE <<i>> \o f[<<k - 1, Onward(h, first, i)>>]
      BY <3>1
    <3> HIDE DEF g, w
    <3> QED BY <3>2, <3>3, <3>4, <3>5
  <2>4. g = w
    <3>1. \A p \in (0..(n + 1)) \X W : g[p] = w[p]
      <4> HIDE DEF g, w
      <4> QED BY <2>3
    <3> QED BY <3>1, <2>2 DEF Walked
  <2> QED BY <2>4
<1>4. Bad = {}
  <2>1. ASSUME Bad # {} PROVE FALSE
    <3>1. Bad \in SUBSET Nat
      OBVIOUS
    <3> HIDE DEF Bad
    <3>2. PICK n \in Bad : \A m \in Bad : n <= m
      BY <2>1, <3>1, LeastOf
    <3>3. n \in Nat /\ n # 0
      BY <3>1, <1>2
    <3>4. n - 1 \in Nat /\ n - 1 \notin Bad
      BY <3>2, <3>3
    <3>5. (n - 1) + 1 = n
      BY <3>3
    <3> QED BY <1>3, <3>2, <3>4, <3>5
  <2> QED BY <2>1
<1> QED BY <1>4

OneEach(s) == \A j, k \in 1..Len(s) : s[j] = s[k] => j = k

\* The words of next follow s from its first node, and end it or close it.
Follows(h, first, s, V) ==
  /\ s \in Seq(V) /\ OneEach(s)
  /\ first = IF s = <<>> THEN END ELSE s[1]
  /\ \A k \in 1..Len(s) : IF k = Len(s) THEN h.next[s[k]] \in {END, first} ELSE h.next[s[k]] = s[k + 1]

\* A sequence that repeats nothing is no longer than its set.
LEMMA OneEachIsShort ==
  ASSUME NEW V, IsFiniteSet(V), NEW s \in Seq(V), OneEach(s)
  PROVE  Len(s) <= Cardinality(V)
<1>1. s \in [1..Len(s) -> V] /\ Len(s) \in Nat
  OBVIOUS
<1>2. s \in Injection(1..Len(s), V)
  BY <1>1 DEF OneEach, Injection, IsInjective
<1>3. Cardinality(1..Len(s)) = Len(s) /\ IsFiniteSet(1..Len(s))
  <2>1. \A n \in Nat : Cardinality(1..n) = n /\ IsFiniteSet(1..n)
    BY FS_Interval
  <2> QED BY <1>1, <2>1
<1> QED BY <1>2, <1>3, FS_Injection

Suffix(s, k) == [j \in 1..(Len(s) + 1 - k) |-> s[j + k - 1]]

\* A walk along next reads exactly the sequence the words follow.
LEMMA WalkIs ==
  ASSUME NEW V, IsFiniteSet(V), END \notin V, NEW h, h.next \in [V -> V \cup {END}],
         NEW first, NEW s, Follows(h, first, s, V)
  PROVE  Walk(h, first) = s
<1> DEFINE N == Cardinality(V)
           w == CHOOSE f : f = Walked(h, first, N, f)
           D == (0..N) \X (V \cup {END})
           L == Len(s)
<1>1. DOMAIN h.next = V /\ s \in Seq(V) /\ L \in Nat /\ N \in Nat /\ L <= N
  BY OneEachIsShort, FS_CardinalityType DEF Follows
<1>2. Walk(h, first) = w[<<N, first>>]
  BY <1>1 DEF Walk, Walked, Onward
<1>3. w = Walked(h, first, N, w)
  BY <1>1, WalksExist
<1>4. \A k \in 0..N, i \in V \cup {END} :
        w[<<k, i>>] = IF k = 0 \/ i = END THEN <<>> ELSE <<i>> \o w[<<k - 1, Onward(h, first, i)>>]
  <2> HIDE DEF w
  <2> SUFFICES ASSUME NEW k \in 0..N, NEW i \in V \cup {END}
               PROVE  w[<<k, i>>] = IF k = 0 \/ i = END THEN <<>> ELSE <<i>> \o w[<<k - 1, Onward(h, first, i)>>]
    OBVIOUS
  <2>1. <<k, i>> \in (0..N) \X (DOMAIN h.next \cup {END})
    BY <1>1
  <2> QED BY <1>3, <2>1 DEF Walked
<1> HIDE DEF w
<1> DEFINE Bad == {m \in Nat : m < L /\ \E n \in 0..N : n > m /\ w[<<n, s[L - m]>>] # Suffix(s, L - m)}
<1>5. ASSUME NEW m \in Nat, m < L, NEW n \in 0..N, n > m, m = 0 \/ m - 1 \notin Bad
      PROVE  w[<<n, s[L - m]>>] = Suffix(s, L - m)
  <2>1. L - m \in 1..L /\ s[L - m] \in V /\ s[L - m] # END /\ n # 0 /\ n - 1 \in 0..N
    BY <1>1, <1>5
  <2>2. w[<<n, s[L - m]>>] = <<s[L - m]>> \o w[<<n - 1, Onward(h, first, s[L - m])>>]
    BY <1>4, <2>1
  <2>3. CASE m = 0
    <3>1. Onward(h, first, s[L]) = END
      BY <1>1, <2>1, <2>3 DEF Onward, Follows
    <3>2. w[<<n - 1, END>>] = <<>>
      BY <1>4, <2>1
    <3>3. w[<<n, s[L]>>] = <<s[L]>> \o <<>>
      BY <2>2, <2>3, <3>1, <3>2
    <3>4. Suffix(s, L) = <<s[L]>>
      BY <1>1 DEF Suffix
    <3>5. <<s[L]>> \o <<>> = <<s[L]>>
      BY <2>1, <2>3
    <3> QED BY <2>3, <1>1, <3>3, <3>4, <3>5
  <2>4. CASE m # 0
    <3>1. L - m # L /\ L - (m - 1) \in 1..L /\ L - (m - 1) = (L - m) + 1
      BY <1>1, <1>5, <2>4
    <3>2. h.next[s[L - m]] = s[(L - m) + 1] /\ first = s[1]
      BY <2>1, <3>1 DEF Follows
    <3>3. s[(L - m) + 1] # s[1]
      <4>1. 1 \in 1..L /\ (L - m) + 1 # 1
        BY <2>1
      <4> QED BY <3>1, <4>1 DEF Follows, OneEach
    <3>4. Onward(h, first, s[L - m]) = s[L - (m - 1)]
      BY <3>1, <3>2, <3>3 DEF Onward
    <3>5. w[<<n - 1, s[L - (m - 1)]>>] = Suffix(s, L - (m - 1))
      BY <1>5, <2>1, <2>4
    <3>6. <<s[L - m]>> \o Suffix(s, L - (m - 1)) = Suffix(s, L - m)
      <4> DEFINE a == Suffix(s, L - (m - 1)) b == <<s[L - m]>> \o a c == Suffix(s, L - m)
      <4>1. a \in Seq(V) /\ Len(a) = m /\ \A j \in 1..m : a[j] = s[j + L - m]
        BY <1>1, <1>5, <2>4 DEF Suffix
      <4>2. b \in Seq(V) /\ Len(b) = m + 1 /\ \A j \in 1..(m + 1) : b[j] = IF j = 1 THEN s[L - m] ELSE a[j - 1]
        <5> HIDE DEF a
        <5> QED BY <4>1, <2>1
      <4>3. c \in Seq(V) /\ Len(c) = m + 1 /\ \A j \in 1..(m + 1) : c[j] = s[j + L - m - 1]
        BY <1>1, <1>5, <2>4 DEF Suffix
      <4> HIDE DEF a, b, c
      <4>4. ASSUME NEW j \in 1..(m + 1) PROVE b[j] = c[j]
        <5>1. CASE j = 1
          <6>1. c[1] = s[1 + L - m - 1] /\ 1 + L - m - 1 = L - m /\ b[1] = s[L - m]
            BY <4>2, <4>3, <5>1, <1>1
          <6> QED BY <5>1, <6>1
        <5>2. CASE j # 1
          <6>1. j - 1 \in 1..m /\ (j - 1) + L - m = j + L - m - 1
            BY <5>2, <1>1
          <6>2. b[j] = a[j - 1] /\ a[j - 1] = s[(j - 1) + L - m]
            BY <4>1, <4>2, <5>2, <6>1
          <6>3. c[j] = s[j + L - m - 1]
            BY <4>3
          <6> QED BY <6>1, <6>2, <6>3
        <5> QED BY <5>1, <5>2
      <4>5. b = c
        BY <4>2, <4>3, <4>4
      <4> QED BY <4>5 DEF b, c, a
    <3> QED BY <2>2, <3>4, <3>5, <3>6
  <2> QED BY <2>3, <2>4
<1>6. Bad = {}
  <2>1. ASSUME Bad # {} PROVE FALSE
    <3>1. Bad \in SUBSET Nat
      OBVIOUS
    <3>2. PICK m \in Bad : \A j \in Bad : m <= j
      <4> HIDE DEF Bad
      <4> QED BY <2>1, <3>1, LeastOf
    <3>3. PICK n \in 0..N : n > m /\ w[<<n, s[L - m]>>] # Suffix(s, L - m)
      OBVIOUS
    <3>4. m \in Nat /\ m < L
      OBVIOUS
    <3>5. m = 0 \/ m - 1 \notin Bad
      <4> HIDE DEF Bad
      <4> QED BY <3>2, <3>4
    <3> HIDE DEF Bad
    <3> QED BY <1>5, <3>3, <3>4, <3>5
  <2> QED BY <2>1
<1>7. CASE L = 0
  <2>1. s = <<>> /\ first = END
    BY <1>1, <1>7 DEF Follows
  <2>2. w[<<N, END>>] = <<>>
    <3>1. N \in 0..N /\ END \in V \cup {END}
      BY <1>1
    <3> QED BY <1>4, <3>1
  <2> QED BY <1>2, <2>1, <2>2
<1>8. CASE L # 0
  <2>1. L - 1 \in Nat /\ L - 1 < L /\ N \in 0..N /\ N > L - 1 /\ L - (L - 1) = 1
    BY <1>1, <1>8
  <2>2. w[<<N, s[1]>>] = Suffix(s, 1)
    BY <1>6, <2>1
  <2>3. Suffix(s, 1) = s
    BY <1>1 DEF Suffix
  <2>4. first = s[1]
    BY <1>1, <1>8 DEF Follows
  <2> QED BY <1>2, <2>2, <2>3, <2>4
<1> QED BY <1>7, <1>8

-----------------------------------------------------------------------------
(* Sequences that repeat nothing.                                          *)

Without(s, p) == [k \in 1..(Len(s) - 1) |-> IF k < p THEN s[k] ELSE s[k + 1]]
Stands(s, i) == \E k \in 1..Len(s) : s[k] = i

\* What appending a new element to such a sequence gives.
LEMMA AppendFacts ==
  ASSUME NEW V, NEW s \in Seq(V), NEW i \in V
  PROVE  /\ Append(s, i) \in Seq(V) /\ Len(Append(s, i)) = Len(s) + 1
         /\ Len(s) \in Nat /\ Append(s, i) # <<>>
         /\ \A k \in 1..Len(s) : Append(s, i)[k] = s[k]
         /\ Append(s, i)[Len(s) + 1] = i
         /\ OneEach(s) /\ ~ Stands(s, i) => OneEach(Append(s, i))
         /\ \A j : Stands(Append(s, i), j) <=> Stands(s, j) \/ j = i
<1>1. /\ Append(s, i) \in Seq(V) /\ Len(Append(s, i)) = Len(s) + 1
      /\ Len(s) \in Nat /\ Append(s, i) # <<>>
      /\ \A k \in 1..Len(s) : Append(s, i)[k] = s[k]
      /\ Append(s, i)[Len(s) + 1] = i
  OBVIOUS
<1> DEFINE a == Append(s, i)
<1>2. \A k \in 1..Len(a) : k \in 1..Len(s) \/ k = Len(s) + 1
  BY <1>1
<1> HIDE DEF a
<1>3. OneEach(s) /\ ~ Stands(s, i) => OneEach(a)
  BY <1>1, <1>2 DEF OneEach, Stands, a
<1>4. \A j : Stands(a, j) <=> Stands(s, j) \/ j = i
  BY <1>1, <1>2 DEF Stands, a
<1> QED BY <1>1, <1>3, <1>4 DEF a

\* What a sequence is without its element at p.
LEMMA WithoutFacts ==
  ASSUME NEW V, NEW s \in Seq(V), OneEach(s), NEW p \in 1..Len(s)
  PROVE  /\ Without(s, p) \in Seq(V) /\ Len(Without(s, p)) = Len(s) - 1 /\ Len(s) \in Nat \ {0}
         /\ \A k \in 1..(Len(s) - 1) : Without(s, p)[k] = IF k < p THEN s[k] ELSE s[k + 1]
         /\ OneEach(Without(s, p)) /\ ~ Stands(Without(s, p), s[p])
         /\ \A j : Stands(Without(s, p), j) <=> Stands(s, j) /\ j # s[p]
         /\ Without(s, p) = <<>> <=> Len(s) = 1
<1> DEFINE w == Without(s, p)
<1>1. Len(s) \in Nat \ {0} /\ \A k \in 1..(Len(s) - 1) : w[k] = (IF k < p THEN s[k] ELSE s[k + 1]) /\ w[k] \in V
  BY DEF Without
<1>2. w \in Seq(V) /\ Len(w) = Len(s) - 1
  <2>1. Len(s) - 1 \in Nat /\ w \in [1..(Len(s) - 1) -> V]
    BY <1>1 DEF Without
  <2> HIDE DEF w
  <2> QED BY <2>1
<1> HIDE DEF w
<1>3. \A k \in 1..Len(w) : k \in 1..Len(s) /\ k + 1 \in 1..Len(s)
  BY <1>1, <1>2
<1>4. OneEach(w) /\ ~ Stands(w, s[p])
  <2>1. ASSUME NEW k \in 1..Len(w) PROVE w[k] # s[p]
    <3>1. k \in 1..Len(s) /\ k + 1 \in 1..Len(s)
      BY <1>3
    <3> QED BY <1>1, <1>2, <3>1 DEF OneEach
  <2>2. ASSUME NEW j \in 1..Len(w), NEW k \in 1..Len(w), w[j] = w[k] PROVE j = k
    <3>1. j \in 1..Len(s) /\ j + 1 \in 1..Len(s) /\ k \in 1..Len(s) /\ k + 1 \in 1..Len(s)
      BY <1>3
    <3> DEFINE x == IF j < p THEN j ELSE j + 1
               y == IF k < p THEN k ELSE k + 1
    <3>2. x \in 1..Len(s) /\ y \in 1..Len(s)
      BY <3>1
    <3>3. s[x] = s[y]
      BY <1>1, <1>2, <2>2
    <3>4. x = y
      <4> HIDE DEF x, y
      <4> QED BY <3>2, <3>3 DEF OneEach
    <3> QED BY <3>4, <1>1, <1>2
  <2> QED BY <2>1, <2>2 DEF OneEach, Stands
<1>5. ASSUME NEW j, Stands(s, j), j # s[p] PROVE Stands(w, j)
  <2>1. PICK k \in 1..Len(s) : s[k] = j
    BY <1>5 DEF Stands
  <2>2. CASE k < p
    BY <1>1, <1>2, <2>1, <2>2 DEF Stands
  <2>3. CASE ~ (k < p)
    <3>1. k # p /\ k - 1 \in 1..Len(w) /\ ~ (k - 1 < p) /\ (k - 1) + 1 = k
      BY <1>1, <1>2, <1>5, <2>1, <2>3
    <3>2. w[k - 1] = s[k]
      BY <1>1, <1>2, <3>1
    <3> QED BY <2>1, <3>1, <3>2 DEF Stands
  <2> QED BY <2>2, <2>3
<1>6. ASSUME NEW j, Stands(w, j) PROVE Stands(s, j)
  BY <1>1, <1>2, <1>3, <1>6 DEF Stands
<1>7. w = <<>> <=> Len(s) = 1
  BY <1>1, <1>2
<1> QED BY <1>1, <1>2, <1>4, <1>5, <1>6, <1>7 DEF w

\* Two sequences, one after the other.
LEMMA EndToEnd ==
  ASSUME NEW V, NEW a \in Seq(V), NEW b \in Seq(V)
  PROVE  a \o b \in Seq(V) /\ Len(a \o b) = Len(a) + Len(b)
OBVIOUS

\* Taking out one element leaves what is before it and what is after.
LEMMA CutOut ==
  ASSUME NEW V, NEW s \in Seq(V), OneEach(s), NEW p \in 1..Len(s)
  PROVE  SubSeq(s, 1, p - 1) \o SubSeq(s, p + 1, Len(s)) = Without(s, p)
<1> DEFINE a == SubSeq(s, 1, p - 1)  b == SubSeq(s, p + 1, Len(s))
<1>1. Len(s) \in Nat
  OBVIOUS
<1>2. a \in Seq(V) /\ Len(a) = p - 1 /\ \A k \in 1..(p - 1) : a[k] = s[k]
  BY <1>1
<1>3. b \in Seq(V) /\ Len(b) = Len(s) - p /\ \A k \in 1..(Len(s) - p) : b[k] = s[k + p]
  BY <1>1
<1> HIDE DEF a, b
<1>4. a \o b \in Seq(V) /\ Len(a \o b) = Len(s) - 1
  <2>1. Len(a) + Len(b) = Len(s) - 1
    BY <1>1, <1>2, <1>3
  <2>2. a \o b \in Seq(V) /\ Len(a \o b) = Len(a) + Len(b)
    BY <1>2, <1>3, EndToEnd
  <2> QED BY <2>1, <2>2
<1>5. ASSUME NEW k \in 1..(Len(s) - 1) PROVE (a \o b)[k] = Without(s, p)[k]
  <2>1. CASE k < p
    BY <1>1, <1>2, <1>3, <2>1 DEF Without
  <2>2. CASE ~ (k < p)
    <3>1. (a \o b)[k] = b[k - (p - 1)]
      BY <1>1, <1>2, <1>3, <2>2
    <3>2. k - (p - 1) \in 1..(Len(s) - p) /\ k - (p - 1) + p = k + 1
      BY <1>1, <2>2
    <3> QED BY <1>3, <2>2, <3>1, <3>2 DEF Without
  <2> QED BY <2>1, <2>2
<1>6. Without(s, p) \in Seq(V) /\ Len(Without(s, p)) = Len(s) - 1
  BY WithoutFacts
<1>7. a \o b = Without(s, p)
  <2> DEFINE w == Without(s, p)  c == a \o b
  <2> HIDE DEF w, c
  <2>1. c \in Seq(V) /\ w \in Seq(V) /\ Len(c) = Len(w) /\ \A k \in 1..Len(c) : c[k] = w[k]
    BY <1>4, <1>5, <1>6 DEF c, w
  <2>2. c = w
    BY <2>1
  <2> QED BY <2>2 DEF c, w
<1> QED BY <1>7 DEF a, b

\* What putting a new element in front of such a sequence gives.
LEMMA PrependFacts ==
  ASSUME NEW V, NEW s \in Seq(V), OneEach(s), NEW i \in V, ~ Stands(s, i)
  PROVE  LET r == <<i>> \o s
         IN /\ r \in Seq(V) /\ Len(r) = Len(s) + 1 /\ r # <<>> /\ OneEach(r)
            /\ \A k \in 1..Len(r) : r[k] = IF k = 1 THEN i ELSE s[k - 1]
            /\ \A j : Stands(r, j) <=> Stands(s, j) \/ j = i
<1> DEFINE r == <<i>> \o s
<1>1. <<i>> \in Seq(V) /\ Len(s) \in Nat
  OBVIOUS
<1>2. /\ r \in Seq(V) /\ Len(r) = Len(s) + 1 /\ r # <<>>
      /\ \A k \in 1..Len(r) : r[k] = IF k = 1 THEN i ELSE s[k - 1]
  BY <1>1
<1> HIDE DEF r
<1>3. OneEach(r)
  <2> SUFFICES ASSUME NEW j \in 1..Len(r), NEW k \in 1..Len(r), r[j] = r[k] PROVE j = k
    BY DEF OneEach
  <2>1. \A m \in 1..Len(r) : m # 1 => m - 1 \in 1..Len(s) /\ Stands(s, r[m])
    BY <1>1, <1>2 DEF Stands
  <2>2. CASE j = 1
    BY <1>2, <2>1, <2>2
  <2>3. CASE k = 1
    BY <1>2, <2>1, <2>3
  <2>4. CASE j # 1 /\ k # 1
    <3>1. j - 1 = k - 1
      BY <1>1, <1>2, <2>1, <2>4 DEF OneEach
    <3> QED BY <3>1
  <2> QED BY <2>2, <2>3, <2>4
<1>4. ASSUME NEW j PROVE Stands(r, j) <=> Stands(s, j) \/ j = i
  <2>1. 1 \in 1..Len(r) /\ r[1] = i
    BY <1>1, <1>2
  <2>2. \A k \in 1..Len(s) : k + 1 \in 1..Len(r) /\ r[k + 1] = s[k]
    BY <1>1, <1>2
  <2>3. \A k \in 1..Len(r) : k # 1 => k - 1 \in 1..Len(s) /\ r[k] = s[k - 1]
    BY <1>1, <1>2
  <2>4. ASSUME Stands(r, j) PROVE Stands(s, j) \/ j = i
    BY <1>2, <2>3, <2>4 DEF Stands
  <2>5. Stands(s, j) => Stands(r, j)
    BY <2>2 DEF Stands
  <2>6. Stands(r, i)
    BY <2>1 DEF Stands
  <2> QED BY <2>4, <2>5, <2>6
<1> QED BY <1>2, <1>3, <1>4 DEF r

\* What two such sequences that share nothing give, one after the other.
LEMMA ConcatFacts ==
  ASSUME NEW V, NEW a \in Seq(V), NEW b \in Seq(V), OneEach(a), OneEach(b),
         \A i : ~ (Stands(a, i) /\ Stands(b, i))
  PROVE  LET r == a \o b
         IN /\ r \in Seq(V) /\ Len(r) = Len(a) + Len(b) /\ OneEach(r)
            /\ \A k \in 1..Len(r) : r[k] = IF k <= Len(a) THEN a[k] ELSE b[k - Len(a)]
            /\ \A j : Stands(r, j) <=> Stands(a, j) \/ Stands(b, j)
<1> DEFINE r == a \o b
<1>1. Len(a) \in Nat /\ Len(b) \in Nat
  OBVIOUS
<1>2. /\ r \in Seq(V) /\ Len(r) = Len(a) + Len(b)
      /\ \A k \in 1..Len(r) : r[k] = IF k <= Len(a) THEN a[k] ELSE b[k - Len(a)]
  BY <1>1
<1> HIDE DEF r
<1>3. \A k \in 1..Len(r) : /\ k <= Len(a) => k \in 1..Len(a) /\ r[k] = a[k]
                           /\ ~ (k <= Len(a)) => k - Len(a) \in 1..Len(b) /\ r[k] = b[k - Len(a)]
  BY <1>1, <1>2
<1>4. OneEach(r)
  <2> SUFFICES ASSUME NEW j \in 1..Len(r), NEW k \in 1..Len(r), r[j] = r[k] PROVE j = k
    BY DEF OneEach
  <2>1. \A m \in 1..Len(r) : IF m <= Len(a) THEN Stands(a, r[m]) ELSE Stands(b, r[m])
    BY <1>3 DEF Stands
  <2>2. j <= Len(a) <=> k <= Len(a)
    BY <2>1
  <2>3. CASE j <= Len(a)
    BY <1>3, <2>2, <2>3 DEF OneEach
  <2>4. CASE ~ (j <= Len(a))
    <3>1. j - Len(a) = k - Len(a)
      BY <1>3, <2>2, <2>4 DEF OneEach
    <3> QED BY <1>1, <3>1
  <2> QED BY <2>3, <2>4
<1>5. ASSUME NEW j PROVE Stands(r, j) <=> Stands(a, j) \/ Stands(b, j)
  <2>1. ASSUME Stands(r, j) PROVE Stands(a, j) \/ Stands(b, j)
    <3>1. PICK k \in 1..Len(r) : r[k] = j
      BY <2>1 DEF Stands
    <3> QED BY <1>3, <3>1 DEF Stands
  <2>2. ASSUME Stands(a, j) PROVE Stands(r, j)
    <3>1. PICK k \in 1..Len(a) : a[k] = j
      BY <2>2 DEF Stands
    <3>2. k \in 1..Len(r) /\ k <= Len(a)
      BY <1>1, <1>2
    <3> QED BY <1>3, <3>1, <3>2 DEF Stands
  <2>3. ASSUME Stands(b, j) PROVE Stands(r, j)
    <3>1. PICK k \in 1..Len(b) : b[k] = j
      BY <2>3 DEF Stands
    <3>2. k + Len(a) \in 1..Len(r) /\ ~ (k + Len(a) <= Len(a)) /\ (k + Len(a)) - Len(a) = k
      BY <1>1, <1>2
    <3>3. r[k + Len(a)] = j
      BY <1>3, <3>1, <3>2
    <3> QED BY <3>2, <3>3 DEF Stands
  <2> QED BY <2>1, <2>2, <2>3
<1> QED BY <1>2, <1>4, <1>5 DEF r

-----------------------------------------------------------------------------
(* Chains.                                                                 *)

Spells(h, c, s, V) ==
  /\ s \in Seq(V) /\ OneEach(s)
  /\ c.first = (IF s = <<>> THEN END ELSE s[1])
  /\ c.last = (IF s = <<>> THEN END ELSE s[Len(s)])
  /\ \A k \in 1..Len(s) : /\ h.previous[s[k]] = IF k = 1 THEN END ELSE s[k - 1]
                          /\ h.next[s[k]] = IF k = Len(s) THEN END ELSE s[k + 1]

\* The two words of a hook are nodes or END.
LEMMA PlaneFacts ==
  ASSUME NEW V, END \notin V, NEW h \in Plane(V)
  PROVE  /\ h.previous \in [V -> V \cup {END}] /\ h.next \in [V -> V \cup {END}]
         /\ DOMAIN h.next = V /\ DOMAIN h.previous = V
BY DEF Plane

\* Pushed, word by word.
LEMMA PushedWords ==
  ASSUME NEW V, END \notin V, NEW h \in Plane(V), NEW c, c.last \in V \cup {END}, NEW i \in V, c.last # i
  PROVE  LET g == Pushed(h, c, i).hook
         IN /\ g \in Plane(V)
            /\ \A m \in V : /\ g.next[m] = IF m = i THEN END ELSE IF m = c.last THEN i ELSE h.next[m]
                            /\ g.previous[m] = IF m = i THEN c.last ELSE h.previous[m]
<1> DEFINE u == PutNext(h, c.last, i)
<1>1. u \in Plane(V) /\ \A m \in V : /\ u.next[m] = IF m = c.last THEN i ELSE h.next[m]
                                     /\ u.previous[m] = h.previous[m]
  BY DEF PutNext, Plane
<1> HIDE DEF u
<1>2. LET g == SetHook(u, i, c.last, END)
      IN /\ g \in Plane(V)
         /\ \A m \in V : /\ g.next[m] = IF m = i THEN END ELSE u.next[m]
                         /\ g.previous[m] = IF m = i THEN c.last ELSE u.previous[m]
  BY <1>1 DEF SetHook, Plane
<1>3. Pushed(h, c, i).hook = SetHook(u, i, c.last, END)
  BY DEF Pushed, u
<1> QED BY <1>1, <1>2, <1>3

\* A push appends to what the chain spells.
LEMMA SpellsPushed ==
  ASSUME NEW V, END \notin V, NEW h \in Plane(V), NEW c, NEW s, Spells(h, c, s, V), NEW i \in V, ~ Stands(s, i)
  PROVE  LET out == Pushed(h, c, i)
         IN /\ out.hook \in Plane(V)
            /\ Spells(out.hook, out.chain, Append(s, i), V)
            /\ \A j \in V : ~ Stands(s, j) /\ j # i =>
                 out.hook.previous[j] = h.previous[j] /\ out.hook.next[j] = h.next[j]
<1> DEFINE g == Pushed(h, c, i).hook  k == Pushed(h, c, i).chain  a == Append(s, i)
<1>1. s \in Seq(V) /\ Len(s) \in Nat /\ OneEach(s) /\ \A n \in 1..Len(s) : s[n] \in V /\ s[n] # i /\ s[n] # END
  BY DEF Spells, Stands
<1>2. /\ c.last \in V \cup {END} /\ c.last # i
      /\ s # <<>> => Len(s) \in 1..Len(s) /\ 1 \in 1..Len(s) /\ c.last = s[Len(s)] /\ c.first = s[1]
      /\ s = <<>> => Len(s) = 0 /\ c.last = END
  BY <1>1 DEF Spells
<1>3. /\ g \in Plane(V)
      /\ \A m \in V : /\ g.next[m] = IF m = i THEN END ELSE IF m = c.last THEN i ELSE h.next[m]
                      /\ g.previous[m] = IF m = i THEN c.last ELSE h.previous[m]
  BY <1>2, PushedWords
<1>4. k.first = (IF c.last = END THEN i ELSE c.first) /\ k.last = i
  BY DEF Pushed
<1>5. /\ a \in Seq(V) /\ Len(a) = Len(s) + 1 /\ a # <<>> /\ OneEach(a)
      /\ \A n \in 1..Len(s) : a[n] = s[n]
      /\ a[Len(s) + 1] = i
  BY <1>1, AppendFacts
<1> HIDE DEF g, k, a
<1>6. k.first = a[1] /\ k.last = a[Len(a)]
  BY <1>1, <1>2, <1>4, <1>5
<1>7. ASSUME NEW n \in 1..Len(a)
      PROVE  /\ g.previous[a[n]] = IF n = 1 THEN END ELSE a[n - 1]
             /\ g.next[a[n]] = IF n = Len(a) THEN END ELSE a[n + 1]
  <2>1. CASE n = Len(a)
    BY <1>1, <1>2, <1>3, <1>5, <2>1
  <2>2. CASE n # Len(a)
    <3>1. n \in 1..Len(s) /\ a[n] = s[n] /\ s[n] \in V /\ s[n] # i
      BY <1>1, <1>5, <2>2
    <3>2. h.previous[s[n]] = (IF n = 1 THEN END ELSE s[n - 1]) /\ h.next[s[n]] = IF n = Len(s) THEN END ELSE s[n + 1]
      BY <3>1 DEF Spells
    <3>3. n # 1 => n - 1 \in 1..Len(s)
      BY <3>1
    <3>4. g.previous[a[n]] = IF n = 1 THEN END ELSE a[n - 1]
      BY <1>3, <1>5, <3>1, <3>2, <3>3
    <3>5. n # Len(s) => n + 1 \in 1..Len(s) /\ s[n] # c.last
      BY <1>1, <1>2, <3>1 DEF OneEach
    <3>6. g.next[a[n]] = a[n + 1]
      BY <1>2, <1>3, <1>5, <3>1, <3>2, <3>5
    <3> QED BY <2>2, <3>4, <3>6
  <2> QED BY <2>1, <2>2
<1>8. Spells(g, k, a, V)
  BY <1>5, <1>6, <1>7 DEF Spells
<1>9. ASSUME NEW j \in V, ~ Stands(s, j), j # i
      PROVE  g.previous[j] = h.previous[j] /\ g.next[j] = h.next[j]
  <2>1. j # c.last
    BY <1>2, <1>9 DEF Stands
  <2> QED BY <1>3, <1>9, <2>1
<1> QED BY <1>3, <1>8, <1>9 DEF g, k, a

\* Unlinked, word by word.
LEMMA UnlinkedWords ==
  ASSUME NEW V, END \notin V, NEW h \in Plane(V), NEW c, NEW i \in V
  PROVE  LET g == Unlinked(h, c, i).hook
         IN /\ g \in Plane(V)
            /\ \A m \in V : /\ g.next[m] = IF m = h.previous[i] THEN h.next[i] ELSE h.next[m]
                            /\ g.previous[m] = IF m = h.next[i] THEN h.previous[i] ELSE h.previous[m]
<1> DEFINE p == h.previous[i]  n == h.next[i]  u == PutNext(h, p, n)
<1>0. p \in V \cup {END} /\ n \in V \cup {END}
  BY DEF Plane
<1> HIDE DEF p, n
<1>1. u \in Plane(V) /\ \A m \in V : /\ u.next[m] = IF m = p THEN n ELSE h.next[m]
                                     /\ u.previous[m] = h.previous[m]
  BY <1>0 DEF PutNext, Plane
<1> HIDE DEF u
<1>2. LET g == PutPrevious(u, n, p)
      IN /\ g \in Plane(V)
         /\ \A m \in V : /\ g.next[m] = u.next[m]
                         /\ g.previous[m] = IF m = n THEN p ELSE u.previous[m]
  BY <1>0, <1>1 DEF PutPrevious, Plane
<1>3. Unlinked(h, c, i).hook = PutPrevious(u, n, p)
  BY DEF Unlinked, u, n, p
<1> QED BY <1>1, <1>2, <1>3 DEF n, p

\* Unlinking takes the node out of what the chain spells, wherever it stood.
LEMMA SpellsUnlinked ==
  ASSUME NEW V, END \notin V, NEW h \in Plane(V), NEW c, NEW s, Spells(h, c, s, V), NEW p \in 1..Len(s)
  PROVE  LET out == Unlinked(h, c, s[p])
         IN /\ out.hook \in Plane(V)
            /\ Spells(out.hook, out.chain, Without(s, p), V)
            /\ \A j \in V : ~ Stands(s, j) =>
                 out.hook.previous[j] = h.previous[j] /\ out.hook.next[j] = h.next[j]
<1> DEFINE i == s[p]  g == Unlinked(h, c, i).hook  k == Unlinked(h, c, i).chain  w == Without(s, p)  L == Len(s)
<1>1. /\ s \in Seq(V) /\ L \in Nat \ {0} /\ OneEach(s) /\ \A n \in 1..L : s[n] \in V /\ s[n] # END
      /\ c.first = s[1] /\ c.last = s[L] /\ 1 \in 1..L /\ L \in 1..L
  BY DEF Spells
<1>2. \A n \in 1..L : /\ h.previous[s[n]] = IF n = 1 THEN END ELSE s[n - 1]
                      /\ h.next[s[n]] = IF n = L THEN END ELSE s[n + 1]
  BY DEF Spells
<1>3. /\ g \in Plane(V)
      /\ \A m \in V : /\ g.next[m] = IF m = h.previous[i] THEN h.next[i] ELSE h.next[m]
                      /\ g.previous[m] = IF m = h.next[i] THEN h.previous[i] ELSE h.previous[m]
  BY <1>1, UnlinkedWords
<1>4. /\ k.first = IF h.previous[i] = END THEN h.next[i] ELSE c.first
      /\ k.last = IF h.next[i] = END THEN h.previous[i] ELSE c.last
  BY DEF Unlinked
<1>5. /\ w \in Seq(V) /\ Len(w) = L - 1 /\ OneEach(w)
      /\ \A n \in 1..(L - 1) : w[n] = IF n < p THEN s[n] ELSE s[n + 1]
      /\ w = <<>> <=> L = 1
  BY <1>1, WithoutFacts
<1>6. /\ h.previous[i] = IF p = 1 THEN END ELSE s[p - 1]
      /\ h.next[i] = IF p = L THEN END ELSE s[p + 1]
      /\ p # 1 => p - 1 \in 1..L
      /\ p # L => p + 1 \in 1..L
  BY <1>1, <1>2
<1>7. p \in 1..L /\ \A x, y \in 1..L : s[x] = s[y] => x = y
  BY <1>1 DEF OneEach
<1> HIDE DEF i, g, k, w, L
<1>8. k.first = IF w = <<>> THEN END ELSE w[1]
  <2>1. CASE L = 1
    BY <1>1, <1>4, <1>5, <1>6, <2>1
  <2>2. CASE L # 1
    <3>1. w # <<>> /\ 1 \in 1..(L - 1) /\ w[1] = IF 1 < p THEN s[1] ELSE s[2]
      BY <1>1, <1>5, <2>2
    <3>2. CASE p = 1
      BY <1>1, <1>4, <1>6, <2>2, <3>1, <3>2
    <3>3. CASE p # 1
      BY <1>1, <1>4, <1>6, <3>1, <3>3
    <3> QED BY <3>2, <3>3
  <2> QED BY <2>1, <2>2
<1>9. k.last = IF w = <<>> THEN END ELSE w[Len(w)]
  <2>1. CASE L = 1
    BY <1>1, <1>4, <1>5, <1>6, <2>1
  <2>2. CASE L # 1
    <3>1. w # <<>> /\ L - 1 \in 1..(L - 1) /\ w[L - 1] = IF L - 1 < p THEN s[L - 1] ELSE s[L]
      BY <1>1, <1>5, <2>2
    <3>2. CASE p = L
      BY <1>1, <1>4, <1>5, <1>6, <2>2, <3>1, <3>2
    <3>3. CASE p # L
      BY <1>1, <1>4, <1>5, <1>6, <3>1, <3>3
    <3> QED BY <3>2, <3>3
  <2> QED BY <2>1, <2>2
<1>10. ASSUME NEW n \in 1..Len(w)
       PROVE  /\ g.previous[w[n]] = IF n = 1 THEN END ELSE w[n - 1]
              /\ g.next[w[n]] = IF n = Len(w) THEN END ELSE w[n + 1]
  <2> DEFINE m == IF n < p THEN n ELSE n + 1
  <2>1. n \in 1..(L - 1) /\ m \in 1..L /\ m # p /\ w[n] = s[m] /\ s[m] \in V
    BY <1>1, <1>5
  <2>2. g.previous[w[n]] = IF n = 1 THEN END ELSE w[n - 1]
    <3>1. CASE n < p
      <4>1. m = n /\ s[m] # h.next[i]
        BY <1>1, <1>6, <1>7, <2>1, <3>1
      <4>2. g.previous[w[n]] = IF n = 1 THEN END ELSE s[n - 1]
        BY <1>2, <1>3, <2>1, <4>1
      <4>3. n # 1 => n - 1 \in 1..(L - 1) /\ n - 1 < p
        BY <1>1, <1>7, <2>1, <3>1
      <4> QED BY <1>5, <4>2, <4>3
    <3>2. CASE ~ (n < p) /\ n = p
      <4>1. m = p + 1 /\ p # L /\ s[m] = h.next[i]
        BY <1>1, <1>6, <2>1, <3>2
      <4>2. g.previous[w[n]] = IF p = 1 THEN END ELSE s[p - 1]
        BY <1>3, <1>6, <2>1, <4>1
      <4>3. n # 1 => n - 1 \in 1..(L - 1) /\ n - 1 < p
        BY <1>1, <1>7, <2>1, <3>2
      <4> QED BY <1>5, <3>2, <4>2, <4>3
    <3>3. CASE ~ (n < p) /\ n # p
      <4>1. m = n + 1 /\ m # p + 1 /\ m - 1 = n /\ m # 1 /\ n - 1 \in 1..(L - 1) /\ ~ (n - 1 < p) /\ (n - 1) + 1 = n /\ n # 1
        BY <1>1, <2>1, <3>3
      <4>2. s[m] # h.next[i]
        BY <1>1, <1>6, <1>7, <2>1, <4>1
      <4>3. g.previous[w[n]] = s[n]
        <5>1. h.previous[s[m]] = s[m - 1]
          BY <1>2, <2>1, <4>1
        <5> HIDE DEF m
        <5> QED BY <1>3, <2>1, <4>1, <4>2, <5>1
      <4> QED BY <1>5, <4>1, <4>3
    <3> QED BY <3>1, <3>2, <3>3
  <2>3. g.next[w[n]] = IF n = Len(w) THEN END ELSE w[n + 1]
    <3>1. CASE ~ (n < p)
      <4>1. m = n + 1 /\ m # p - 1 /\ s[m] # h.previous[i]
        BY <1>1, <1>6, <1>7, <2>1, <3>1
      <4>2. g.next[w[n]] = IF m = L THEN END ELSE s[m + 1]
        BY <1>2, <1>3, <2>1, <4>1
      <4>3. n # L - 1 => n + 1 \in 1..(L - 1) /\ ~ (n + 1 < p) /\ (n + 1) + 1 = m + 1
        BY <1>1, <2>1, <3>1
      <4>4. n = L - 1 <=> m = L
        BY <1>1, <2>1, <4>1
      <4> QED BY <1>5, <4>2, <4>3, <4>4
    <3>2. CASE n < p /\ n = p - 1
      <4>1. m = n /\ p # 1 /\ s[m] = h.previous[i]
        BY <1>1, <1>6, <2>1, <3>2
      <4>2. g.next[w[n]] = IF p = L THEN END ELSE s[p + 1]
        BY <1>3, <1>6, <2>1, <4>1
      <4>3. n # L - 1 => n + 1 \in 1..(L - 1) /\ ~ (n + 1 < p) /\ (n + 1) + 1 = p + 1
        BY <1>1, <2>1, <3>2
      <4>4. n = L - 1 <=> p = L
        BY <1>1, <2>1, <3>2
      <4> QED BY <1>5, <4>2, <4>3, <4>4
    <3>3. CASE n < p /\ n # p - 1
      <4>1. m = n /\ m # L /\ s[m] # h.previous[i]
        BY <1>1, <1>6, <1>7, <2>1, <3>3
      <4>2. g.next[w[n]] = s[n + 1]
        BY <1>2, <1>3, <2>1, <4>1
      <4>3. n # L - 1 /\ n + 1 \in 1..(L - 1) /\ n + 1 < p
        BY <1>1, <1>7, <2>1, <3>3
      <4> QED BY <1>5, <4>2, <4>3
    <3> QED BY <3>1, <3>2, <3>3
  <2> QED BY <2>2, <2>3
<1>11. Spells(g, k, w, V)
  BY <1>5, <1>8, <1>9, <1>10 DEF Spells
<1>12. ASSUME NEW j \in V, ~ Stands(s, j)
       PROVE  g.previous[j] = h.previous[j] /\ g.next[j] = h.next[j]
  <2>1. j # h.previous[i] /\ j # h.next[i]
    BY <1>1, <1>6, <1>12 DEF Stands, L
  <2> QED BY <1>3, <2>1
<1> QED BY <1>3, <1>11, <1>12 DEF i, g, k, w

\* A pop is the unlinking of the first node.
LEMMA SpellsPopped ==
  ASSUME NEW V, END \notin V, NEW h \in Plane(V), NEW c, NEW s, Spells(h, c, s, V), s # <<>>
  PROVE  LET out == Popped(h, c)
         IN /\ out.hook \in Plane(V)
            /\ Spells(out.hook, out.chain, Without(s, 1), V)
            /\ \A j \in V : ~ Stands(s, j) =>
                 out.hook.previous[j] = h.previous[j] /\ out.hook.next[j] = h.next[j]
<1> DEFINE o == Popped(h, c)  u == Unlinked(h, c, s[1])
<1>1. 1 \in 1..Len(s) /\ c.first = s[1] /\ h.previous[s[1]] = END
  BY DEF Spells
<1>2. /\ u.hook \in Plane(V) /\ Spells(u.hook, u.chain, Without(s, 1), V)
      /\ \A j \in V : ~ Stands(s, j) => u.hook.previous[j] = h.previous[j] /\ u.hook.next[j] = h.next[j]
  BY <1>1, SpellsUnlinked
<1>3. o.hook = u.hook /\ o.chain.first = u.chain.first /\ o.chain.last = u.chain.last
  BY <1>1 DEF Popped, Unlinked, PutNext, PutPrevious
<1> HIDE DEF o, u
<1>4. Spells(o.hook, o.chain, Without(s, 1), V)
  BY <1>2, <1>3 DEF Spells
<1> QED BY <1>2, <1>3, <1>4 DEF o, u

-----------------------------------------------------------------------------
(* Cycles.                                                                 *)

Before(k, L) == IF k = 1 THEN L ELSE k - 1
After(k, L) == IF k = L THEN 1 ELSE k + 1
At(n, p) == IF n < p THEN n ELSE n + 1

Circles(h, ring, s, V) ==
  /\ s \in Seq(V) /\ OneEach(s)
  /\ ring = (IF s = <<>> THEN END ELSE s[1])
  /\ \A k \in 1..Len(s) :
       /\ h.previous[s[k]] = IF Len(s) = 1 THEN END ELSE s[Before(k, Len(s))]
       /\ h.next[s[k]] = IF Len(s) = 1 THEN END ELSE s[After(k, Len(s))]

\* The index before and the index after, in a cycle.
LEMMA Around ==
  ASSUME NEW L \in Nat, NEW k \in 1..L
  PROVE  /\ Before(k, L) \in 1..L /\ After(k, L) \in 1..L
         /\ Before(After(k, L), L) = k /\ After(Before(k, L), L) = k
         /\ L # 1 => Before(k, L) # k /\ After(k, L) # k
BY DEF Before, After

\* Indices that follow one another, once one is left out.
LEMMA AroundGap ==
  ASSUME NEW L \in Nat, L > 1, NEW p \in 1..L, NEW n \in 1..(L - 1)
  PROVE  /\ At(n, p) \in 1..L /\ At(n, p) # p
         /\ Before(n, L - 1) \in 1..(L - 1) /\ After(n, L - 1) \in 1..(L - 1)
         /\ At(Before(n, L - 1), p) = IF At(n, p) = After(p, L) THEN Before(p, L) ELSE Before(At(n, p), L)
         /\ At(After(n, L - 1), p) = IF At(n, p) = Before(p, L) THEN After(p, L) ELSE After(At(n, p), L)
BY DEF Before, After, At

\* Two nodes of a cycle have one another on both sides, and only two.
LEMMA AroundTwo ==
  ASSUME NEW L \in Nat, L > 1, NEW p \in 1..L
  PROVE  Before(p, L) = After(p, L) <=> L = 2
BY DEF Before, After

\* The ring word is the first node, and END of an empty cycle alone.
LEMMA CirclesFacts ==
  ASSUME NEW V, END \notin V, NEW h, NEW ring, NEW s, Circles(h, ring, s, V)
  PROVE  /\ s \in Seq(V) /\ Len(s) \in Nat /\ OneEach(s)
         /\ \A k \in 1..Len(s) : s[k] \in V /\ s[k] # END
         /\ \A j, k \in 1..Len(s) : s[j] = s[k] => j = k
         /\ s = <<>> <=> Len(s) = 0
         /\ s = <<>> <=> ring = END
         /\ s # <<>> => ring = s[1] /\ 1 \in 1..Len(s) /\ Len(s) \in 1..Len(s)
<1>1. s \in Seq(V) /\ Len(s) \in Nat /\ OneEach(s) /\ \A k \in 1..Len(s) : s[k] \in V /\ s[k] # END
  BY DEF Circles
<1> QED BY <1>1 DEF Circles, OneEach

\* The previous word of the front is the last node.
LEMMA CirclesBack ==
  ASSUME NEW V, END \notin V, NEW h \in Plane(V), NEW ring, NEW s, Circles(h, ring, s, V), s # <<>>
  PROVE  Back(h, ring) = s[Len(s)] /\ Stepped(h, ring) = IF Len(s) = 1 THEN s[1] ELSE s[2]
<1> DEFINE L == Len(s)
<1>1. /\ \A k \in 1..L : s[k] # END
      /\ L \in Nat /\ ring = s[1] /\ 1 \in 1..L /\ L \in 1..L
  BY CirclesFacts
<1>2. /\ h.previous[s[1]] = IF L = 1 THEN END ELSE s[Before(1, L)]
      /\ h.next[s[1]] = IF L = 1 THEN END ELSE s[After(1, L)]
  BY <1>1 DEF Circles
<1> HIDE DEF L
<1>3. /\ Before(1, L) = L
      /\ L # 1 => After(1, L) = 2 /\ 2 \in 1..L
  BY <1>1 DEF Before, After
<1>4. Back(h, ring) = s[L] /\ Stepped(h, ring) = IF L = 1 THEN s[1] ELSE s[2]
  BY <1>1, <1>2, <1>3 DEF Back, Stepped
<1> QED BY <1>4 DEF L

\* Joined, word by word.
LEMMA JoinedWords ==
  ASSUME NEW V, END \notin V, NEW h \in Plane(V), NEW ring \in V, NEW b \in V, Back(h, ring) = b, NEW i \in V,
         i # ring, i # b
  PROVE  LET g == Joined(h, ring, i).hook
         IN /\ g \in Plane(V) /\ Joined(h, ring, i).ring = ring
            /\ \A m \in V : /\ g.next[m] = IF m = i THEN ring ELSE IF m = b THEN i ELSE h.next[m]
                            /\ g.previous[m] = IF m = i THEN b ELSE IF m = ring THEN i ELSE h.previous[m]
<1> DEFINE u == SetHook(h, i, b, ring)  v == PutNext(u, b, i)  g == PutPrevious(v, ring, i)
<1>1. u \in Plane(V) /\ \A m \in V : /\ u.next[m] = IF m = i THEN ring ELSE h.next[m]
                                     /\ u.previous[m] = IF m = i THEN b ELSE h.previous[m]
  BY DEF SetHook, Plane
<1> HIDE DEF u
<1>2. v \in Plane(V) /\ \A m \in V : /\ v.next[m] = IF m = b THEN i ELSE u.next[m]
                                     /\ v.previous[m] = u.previous[m]
  BY <1>1 DEF PutNext, Plane
<1> HIDE DEF v
<1>3. g \in Plane(V) /\ \A m \in V : /\ g.next[m] = v.next[m]
                                     /\ g.previous[m] = IF m = ring THEN i ELSE v.previous[m]
  BY <1>2 DEF PutPrevious, Plane
<1>4. Joined(h, ring, i) = [hook |-> g, ring |-> ring]
  BY DEF Joined, g, v, u
<1> HIDE DEF g
<1> QED BY <1>1, <1>2, <1>3, <1>4

\* Joining puts a node at the cycle's back.
LEMMA CirclesJoined ==
  ASSUME NEW V, END \notin V, NEW h \in Plane(V), NEW ring, NEW s, Circles(h, ring, s, V), NEW i \in V, ~ Stands(s, i)
  PROVE  LET out == Joined(h, ring, i)
         IN /\ out.hook \in Plane(V)
            /\ Circles(out.hook, out.ring, Append(s, i), V)
            /\ \A j \in V : ~ Stands(s, j) /\ j # i =>
                 out.hook.previous[j] = h.previous[j] /\ out.hook.next[j] = h.next[j]
<1> DEFINE g == Joined(h, ring, i).hook  r == Joined(h, ring, i).ring  a == Append(s, i)  L == Len(s)
<1>1. /\ s \in Seq(V) /\ L \in Nat /\ OneEach(s)
      /\ \A k \in 1..L : s[k] \in V /\ s[k] # END /\ s[k] # i
      /\ \A j, k \in 1..L : s[j] = s[k] => j = k
      /\ s = <<>> <=> L = 0
      /\ s = <<>> <=> ring = END
      /\ s # <<>> => ring = s[1] /\ 1 \in 1..L /\ L \in 1..L
  BY CirclesFacts DEF Stands
<1>2. /\ a \in Seq(V) /\ Len(a) = L + 1 /\ a # <<>> /\ OneEach(a)
      /\ \A n \in 1..L : a[n] = s[n]
      /\ a[L + 1] = i
  BY <1>1, AppendFacts
<1> HIDE DEF a
<1>3. CASE s = <<>>
  <2>1. g = SetHook(h, i, END, END) /\ r = i
    BY <1>1, <1>3 DEF Joined
  <2>2. /\ g \in Plane(V)
        /\ \A m \in V : /\ g.next[m] = IF m = i THEN END ELSE h.next[m]
                        /\ g.previous[m] = IF m = i THEN END ELSE h.previous[m]
    BY <2>1 DEF SetHook, Plane
  <2> HIDE DEF g, r
  <2>3. Circles(g, r, a, V)
    BY <1>1, <1>2, <1>3, <2>1, <2>2 DEF Circles
  <2> QED BY <2>2, <2>3 DEF g, r, a
<1>4. CASE s # <<>>
  <2>1. Back(h, ring) = s[L]
    BY <1>4, CirclesBack
  <2>2. /\ g \in Plane(V) /\ r = ring
        /\ \A m \in V : /\ g.next[m] = IF m = i THEN ring ELSE IF m = s[L] THEN i ELSE h.next[m]
                        /\ g.previous[m] = IF m = i THEN s[L] ELSE IF m = ring THEN i ELSE h.previous[m]
    BY <1>1, <1>4, <2>1, JoinedWords
  <2>3. \A n \in 1..L : /\ h.previous[s[n]] = IF L = 1 THEN END ELSE s[Before(n, L)]
                        /\ h.next[s[n]] = IF L = 1 THEN END ELSE s[After(n, L)]
    BY DEF Circles
  <2> HIDE DEF g, r, L
  <2>4. ASSUME NEW n \in 1..Len(a)
        PROVE  /\ g.previous[a[n]] = IF Len(a) = 1 THEN END ELSE a[Before(n, Len(a))]
               /\ g.next[a[n]] = IF Len(a) = 1 THEN END ELSE a[After(n, Len(a))]
    <3>0. Len(a) # 1
      BY <1>1, <1>2, <1>4
    <3>1. CASE n = L + 1
      <4>1. Before(n, L + 1) = L /\ After(n, L + 1) = 1
        BY <1>1, <1>4, <3>1 DEF Before, After
      <4> QED BY <1>1, <1>2, <1>4, <2>2, <3>0, <3>1, <4>1
    <3>2. CASE n # L + 1
      <4>1. n \in 1..L /\ a[n] = s[n] /\ s[n] \in V /\ s[n] # i
        BY <1>1, <1>2, <3>2
      <4>2. g.previous[a[n]] = a[Before(n, Len(a))]
        <5>1. CASE n = 1
          BY <1>1, <1>2, <1>4, <2>2, <4>1, <5>1 DEF Before
        <5>2. CASE n # 1
          <6>1. Before(n, L + 1) = n - 1 /\ Before(n, L) = n - 1 /\ n - 1 \in 1..L /\ L # 1
            BY <1>1, <4>1, <5>2 DEF Before
          <6>2. s[n] # ring
            BY <1>1, <1>4, <4>1, <5>2
          <6> QED BY <1>2, <2>2, <2>3, <4>1, <6>1, <6>2
        <5> QED BY <5>1, <5>2
      <4>3. g.next[a[n]] = a[After(n, Len(a))]
        <5>1. CASE n = L
          BY <1>1, <1>2, <1>4, <2>2, <4>1, <5>1 DEF After
        <5>2. CASE n # L
          <6>1. After(n, L + 1) = n + 1 /\ After(n, L) = n + 1 /\ n + 1 \in 1..L /\ L # 1
            BY <1>1, <4>1, <5>2 DEF After
          <6>2. s[n] # s[L]
            BY <1>1, <1>4, <4>1, <5>2
          <6> QED BY <1>2, <2>2, <2>3, <4>1, <6>1, <6>2
        <5> QED BY <5>1, <5>2
      <4> QED BY <3>0, <4>2, <4>3
    <3> QED BY <3>1, <3>2
  <2>5. r = a[1]
    BY <1>1, <1>2, <1>4, <2>2
  <2>6. Circles(g, r, a, V)
    BY <1>2, <2>4, <2>5 DEF Circles
  <2>7. ASSUME NEW j \in V, ~ Stands(s, j), j # i
        PROVE  g.previous[j] = h.previous[j] /\ g.next[j] = h.next[j]
    <3>1. j # ring /\ j # s[L]
      BY <1>1, <1>4, <2>7 DEF Stands, L
    <3> QED BY <2>2, <2>7, <3>1
  <2> QED BY <2>2, <2>6, <2>7 DEF g, r, a
<1> QED BY <1>3, <1>4

\* Left, word by word.
LEMMA LeftWords ==
  ASSUME NEW V, END \notin V, NEW h \in Plane(V), NEW ring, NEW i \in V, NEW p \in V, NEW n \in V,
         h.previous[i] = p, h.next[i] = n, p # i, n # i
  PROVE  LET g == Left(h, ring, i).hook
         IN /\ g \in Plane(V) /\ Left(h, ring, i).ring = IF ring = i THEN n ELSE ring
            /\ \A m \in V : /\ g.next[m] = IF m = i THEN END ELSE IF m = p THEN IF p = n THEN END ELSE n ELSE h.next[m]
                            /\ g.previous[m] = IF m = i THEN i ELSE IF m = n THEN IF p = n THEN END ELSE p ELSE h.previous[m]
<1> DEFINE x == IF p = n THEN END ELSE n  y == IF p = n THEN END ELSE p
           u == PutNext(h, p, x)  v == PutPrevious(u, n, y)  g == Idled(v, i)
<1>0. x \in V \cup {END} /\ y \in V \cup {END}
  OBVIOUS
<1>5. Left(h, ring, i) = [hook |-> g, ring |-> IF ring = i THEN n ELSE ring]
  BY DEF Left
<1> HIDE DEF x, y
<1>1. u \in Plane(V) /\ \A m \in V : /\ u.next[m] = IF m = p THEN x ELSE h.next[m]
                                     /\ u.previous[m] = h.previous[m]
  BY <1>0 DEF PutNext, Plane
<1> HIDE DEF u
<1>2. v \in Plane(V) /\ \A m \in V : /\ v.next[m] = u.next[m]
                                     /\ v.previous[m] = IF m = n THEN y ELSE u.previous[m]
  BY <1>0, <1>1 DEF PutPrevious, Plane
<1> HIDE DEF v
<1>3. g \in Plane(V) /\ \A m \in V : /\ g.next[m] = IF m = i THEN END ELSE v.next[m]
                                     /\ g.previous[m] = IF m = i THEN i ELSE v.previous[m]
  BY <1>2 DEF Idled, SetHook, Plane
<1> HIDE DEF g
<1> QED BY <1>1, <1>2, <1>3, <1>5 DEF x, y

\* Leaving takes the node out of the cycle, wherever it stood.
LEMMA CirclesLeft ==
  ASSUME NEW V, END \notin V, NEW h \in Plane(V), NEW ring, NEW s, Circles(h, ring, s, V), NEW p \in 1..Len(s)
  PROVE  LET out == Left(h, ring, s[p])
         IN /\ out.hook \in Plane(V)
            /\ Circles(out.hook, out.ring, Without(s, p), V)
            /\ \A j \in V : ~ Stands(s, j) =>
                 out.hook.previous[j] = h.previous[j] /\ out.hook.next[j] = h.next[j]
<1> DEFINE i == s[p]  g == Left(h, ring, i).hook  r == Left(h, ring, i).ring  w == Without(s, p)  L == Len(s)
<1>1. /\ s \in Seq(V) /\ L \in Nat \ {0} /\ OneEach(s) /\ p \in 1..L /\ 1 \in 1..L
      /\ \A k \in 1..L : s[k] \in V /\ s[k] # END
      /\ \A j, k \in 1..L : s[j] = s[k] => j = k
      /\ ring = s[1]
  BY CirclesFacts
<1>2. /\ w \in Seq(V) /\ Len(w) = L - 1 /\ OneEach(w)
      /\ \A n \in 1..(L - 1) : w[n] = s[At(n, p)]
      /\ w = <<>> <=> L = 1
  <2>1. \A n \in 1..(L - 1) : w[n] = IF n < p THEN s[n] ELSE s[n + 1]
    BY <1>1, WithoutFacts
  <2>2. \A n \in 1..(L - 1) : w[n] = s[At(n, p)]
    <3> HIDE DEF w, L
    <3> QED BY <2>1 DEF At
  <2> QED BY <1>1, <2>2, WithoutFacts
<1>3. \A n \in 1..L : /\ h.previous[s[n]] = IF L = 1 THEN END ELSE s[Before(n, L)]
                      /\ h.next[s[n]] = IF L = 1 THEN END ELSE s[After(n, L)]
  BY DEF Circles
<1> HIDE DEF L, w
<1>4. CASE L = 1
  <2>1. h.next[i] = END /\ p = 1
    BY <1>1, <1>3, <1>4
  <2>2. g = Idled(h, i) /\ r = END
    BY <2>1 DEF Left
  <2>3. /\ g \in Plane(V)
        /\ \A m \in V : /\ g.next[m] = IF m = i THEN END ELSE h.next[m]
                        /\ g.previous[m] = IF m = i THEN i ELSE h.previous[m]
    BY <1>1, <2>2 DEF Idled, SetHook, Plane
  <2> HIDE DEF g, r
  <2>4. Circles(g, r, w, V)
    BY <1>2, <1>4, <2>2 DEF Circles
  <2>5. \A j \in V : ~ Stands(s, j) => j # i
    BY DEF Stands
  <2> QED BY <2>3, <2>4, <2>5 DEF g, r, w, i
<1>5. CASE L # 1
  <2>1. /\ L > 1 /\ L \in Nat
        /\ h.previous[i] = s[Before(p, L)] /\ h.next[i] = s[After(p, L)]
        /\ Before(p, L) \in 1..L /\ After(p, L) \in 1..L /\ Before(p, L) # p /\ After(p, L) # p
        /\ s[Before(p, L)] \in V /\ s[After(p, L)] \in V /\ s[Before(p, L)] # i /\ s[After(p, L)] # i /\ i \in V
    <3>1. L > 1 /\ L \in Nat
      BY <1>1, <1>5
    <3>2. Before(p, L) \in 1..L /\ After(p, L) \in 1..L /\ Before(p, L) # p /\ After(p, L) # p
      <4>1. L \in Nat /\ p \in 1..L /\ L # 1
        BY <1>1, <1>5
      <4> QED BY <4>1, Around
    <3>3. h.previous[i] = s[Before(p, L)] /\ h.next[i] = s[After(p, L)]
      BY <1>1, <1>3, <1>5
    <3> QED BY <1>1, <3>1, <3>2, <3>3
  <2>2. s[Before(p, L)] = s[After(p, L)] <=> L = 2
    BY <1>1, <2>1, AroundTwo
  <2> HIDE DEF i
  <2>3. /\ g \in Plane(V) /\ r = IF ring = i THEN s[After(p, L)] ELSE ring
        /\ \A m \in V :
             /\ g.next[m] = IF m = i THEN END ELSE IF m = s[Before(p, L)] THEN IF L = 2 THEN END ELSE s[After(p, L)] ELSE h.next[m]
             /\ g.previous[m] = IF m = i THEN i ELSE IF m = s[After(p, L)] THEN IF L = 2 THEN END ELSE s[Before(p, L)] ELSE h.previous[m]
    BY <2>1, <2>2, LeftWords
  <2> HIDE DEF g, r
  <2>4. r = w[1]
    <3>1. 1 \in 1..(L - 1) /\ w[1] = s[At(1, p)]
      BY <1>2, <2>1
    <3>2. CASE p = 1
      BY <1>1, <2>1, <2>3, <3>1, <3>2 DEF i, At, After
    <3>3. CASE p # 1
      BY <1>1, <2>1, <2>3, <3>1, <3>3 DEF i, At
    <3> QED BY <3>2, <3>3
  <2>5. ASSUME NEW n \in 1..Len(w)
        PROVE  /\ g.previous[w[n]] = IF Len(w) = 1 THEN END ELSE w[Before(n, Len(w))]
               /\ g.next[w[n]] = IF Len(w) = 1 THEN END ELSE w[After(n, Len(w))]
    <3>1. n \in 1..(L - 1)
      BY <1>2
    <3>2. /\ At(n, p) \in 1..L /\ At(n, p) # p
          /\ Before(n, L - 1) \in 1..(L - 1) /\ After(n, L - 1) \in 1..(L - 1)
          /\ At(Before(n, L - 1), p) = IF At(n, p) = After(p, L) THEN Before(p, L) ELSE Before(At(n, p), L)
          /\ At(After(n, L - 1), p) = IF At(n, p) = Before(p, L) THEN After(p, L) ELSE After(At(n, p), L)
      BY <1>1, <2>1, <3>1, AroundGap
    <3>3. w[n] = s[At(n, p)] /\ s[At(n, p)] \in V /\ s[At(n, p)] # i
      BY <1>1, <1>2, <3>1, <3>2 DEF i
    <3>4. /\ s[At(n, p)] = s[Before(p, L)] <=> At(n, p) = Before(p, L)
          /\ s[At(n, p)] = s[After(p, L)] <=> At(n, p) = After(p, L)
      BY <1>1, <2>1, <3>2
    <3>5. CASE L = 2
      <4>1. At(n, p) = Before(p, L) /\ At(n, p) = After(p, L)
        BY <1>1, <3>1, <3>5 DEF At, Before, After
      <4> QED BY <1>2, <2>3, <3>3, <3>4, <3>5, <4>1
    <3>6. CASE L # 2
      <4>1. Len(w) # 1
        BY <1>2, <2>1, <3>6
      <4>2. g.previous[w[n]] = s[At(Before(n, L - 1), p)]
        BY <1>3, <1>5, <2>3, <3>2, <3>3, <3>4, <3>6
      <4>3. g.next[w[n]] = s[At(After(n, L - 1), p)]
        BY <1>3, <1>5, <2>3, <3>2, <3>3, <3>4, <3>6
      <4> QED BY <1>2, <3>2, <4>1, <4>2, <4>3
    <3> QED BY <3>5, <3>6
  <2>6. Circles(g, r, w, V)
    BY <1>2, <1>5, <2>4, <2>5 DEF Circles
  <2>7. ASSUME NEW j \in V, ~ Stands(s, j)
        PROVE  g.previous[j] = h.previous[j] /\ g.next[j] = h.next[j]
    <3>1. j # i /\ j # s[Before(p, L)] /\ j # s[After(p, L)]
      BY <1>1, <2>1, <2>7 DEF Stands, L, i
    <3> QED BY <2>3, <3>1
  <2> QED BY <2>3, <2>6, <2>7 DEF g, r, w, i
<1> QED BY <1>4, <1>5

\* Stepping sends the front to the back.
LEMMA CirclesStepped ==
  ASSUME NEW V, END \notin V, NEW h \in Plane(V), NEW ring, NEW s, Circles(h, ring, s, V), s # <<>>
  PROVE  Circles(h, Stepped(h, ring), Append(Without(s, 1), s[1]), V)
<1> DEFINE L == Len(s)  w == Without(s, 1)  a == Append(w, s[1])
<1>1. /\ s \in Seq(V) /\ L \in Nat \ {0} /\ OneEach(s) /\ 1 \in 1..L
      /\ \A k \in 1..L : s[k] \in V /\ s[k] # END
      /\ ring = s[1]
  BY CirclesFacts
<1>2. /\ w \in Seq(V) /\ Len(w) = L - 1 /\ OneEach(w) /\ ~ Stands(w, s[1])
      /\ \A n \in 1..(L - 1) : w[n] = s[n + 1]
  BY <1>1, WithoutFacts
<1> HIDE DEF w
<1>3. /\ a \in Seq(V) /\ Len(a) = L /\ a # <<>> /\ OneEach(a)
      /\ \A n \in 1..(L - 1) : a[n] = w[n]
      /\ a[L] = s[1]
  BY <1>1, <1>2, AppendFacts
<1>4. \A n \in 1..L : /\ h.previous[s[n]] = IF L = 1 THEN END ELSE s[Before(n, L)]
                      /\ h.next[s[n]] = IF L = 1 THEN END ELSE s[After(n, L)]
  BY DEF Circles
<1>5. Stepped(h, ring) = IF L = 1 THEN s[1] ELSE s[2]
  BY CirclesBack
<1> HIDE DEF a, L
<1>6. \A n \in 1..L : a[n] = s[After(n, L)]
  BY <1>1, <1>2, <1>3 DEF After
<1>7. Stepped(h, ring) = a[1]
  BY <1>1, <1>5, <1>6 DEF After
<1>8. ASSUME NEW n \in 1..L
      PROVE  /\ h.previous[a[n]] = IF L = 1 THEN END ELSE a[Before(n, L)]
             /\ h.next[a[n]] = IF L = 1 THEN END ELSE a[After(n, L)]
  <2>1. /\ Before(n, L) \in 1..L /\ After(n, L) \in 1..L
        /\ Before(After(n, L), L) = n /\ After(Before(n, L), L) = n
    BY <1>1, Around
  <2> QED BY <1>4, <1>6, <2>1
<1> QED BY <1>3, <1>7, <1>8 DEF Circles, a, w

\* move_back sends any node to the back, as if it had left and joined.
LEMMA CirclesCycledBack ==
  ASSUME NEW V, END \notin V, NEW h \in Plane(V), NEW ring, NEW s, Circles(h, ring, s, V), NEW p \in 1..Len(s)
  PROVE  LET out == CycledBack(h, ring, s[p])
         IN /\ out.hook \in Plane(V)
            /\ Circles(out.hook, out.ring, Append(Without(s, p), s[p]), V)
            /\ \A j \in V : ~ Stands(s, j) =>
                 out.hook.previous[j] = h.previous[j] /\ out.hook.next[j] = h.next[j]
<1>1. /\ s \in Seq(V) /\ Len(s) \in Nat \ {0} /\ s # <<>> /\ OneEach(s) /\ 1 \in 1..Len(s)
      /\ \A k \in 1..Len(s) : s[k] \in V /\ s[k] # END
      /\ \A j, k \in 1..Len(s) : s[j] = s[k] => j = k
      /\ ring = s[1]
  BY CirclesFacts
<1>2. CASE p = 1
  <2>1. CycledBack(h, ring, s[p]) = [hook |-> h, ring |-> Stepped(h, ring)]
    BY <1>1, <1>2 DEF CycledBack
  <2> QED BY <1>1, <1>2, <2>1, CirclesStepped
<1>3. h.previous[ring] = IF Len(s) = 1 THEN END ELSE s[Len(s)]
  BY <1>1 DEF Circles, Before
<1>4. CASE p # 1 /\ p = Len(s)
  <2>1. CycledBack(h, ring, s[p]) = [hook |-> h, ring |-> ring]
    BY <1>1, <1>3, <1>4 DEF CycledBack
  <2>2. Append(Without(s, p), s[p]) = s
    <3> DEFINE w == Without(s, p)  a == Append(w, s[p])
    <3>1. /\ w \in Seq(V) /\ Len(w) = Len(s) - 1 /\ \A n \in 1..(Len(s) - 1) : w[n] = s[n]
      <4>1. /\ w \in Seq(V) /\ Len(w) = Len(s) - 1
            /\ \A n \in 1..(Len(s) - 1) : w[n] = IF n < p THEN s[n] ELSE s[n + 1]
        BY <1>1, WithoutFacts
      <4>2. \A n \in 1..(Len(s) - 1) : n < p
        BY <1>1, <1>4
      <4> HIDE DEF w
      <4> QED BY <4>1, <4>2
    <3> HIDE DEF w
    <3>2. /\ a \in Seq(V) /\ Len(a) = Len(s) /\ \A n \in 1..(Len(s) - 1) : a[n] = s[n]
          /\ a[Len(s)] = s[p]
      BY <1>1, <3>1, AppendFacts
    <3> HIDE DEF a
    <3>3. \A n \in 1..Len(s) : a[n] = s[n]
      BY <1>1, <1>4, <3>2
    <3>4. a = s
      BY <1>1, <3>2, <3>3
    <3> QED BY <3>4 DEF a, w
  <2> QED BY <2>1, <2>2
<1>5. CASE p # 1 /\ p # Len(s)
  <2> DEFINE o == Left(h, ring, s[p])  w == Without(s, p)  j == Joined(o.hook, o.ring, s[p])
  <2>1. s[p] # ring /\ Len(s) # 1 /\ s[p] # s[Len(s)] /\ s[p] \in V
    BY <1>1, <1>5
  <2>2. CycledBack(h, ring, s[p]) = j
    BY <1>3, <2>1 DEF CycledBack
  <2>3. /\ o.hook \in Plane(V) /\ Circles(o.hook, o.ring, w, V)
        /\ \A m \in V : ~ Stands(s, m) => o.hook.previous[m] = h.previous[m] /\ o.hook.next[m] = h.next[m]
    BY CirclesLeft
  <2>4. ~ Stands(w, s[p]) /\ \A m : Stands(w, m) <=> Stands(s, m) /\ m # s[p]
    BY <1>1, WithoutFacts
  <2> HIDE DEF o, w
  <2>5. /\ j.hook \in Plane(V) /\ Circles(j.hook, j.ring, Append(w, s[p]), V)
        /\ \A m \in V : ~ Stands(w, m) /\ m # s[p] =>
             j.hook.previous[m] = o.hook.previous[m] /\ j.hook.next[m] = o.hook.next[m]
    BY <2>1, <2>3, <2>4, CirclesJoined
  <2> HIDE DEF j
  <2>6. \A m \in V : ~ Stands(s, m) => ~ Stands(w, m) /\ m # s[p]
    BY <2>4 DEF Stands
  <2> QED BY <2>2, <2>3, <2>5, <2>6 DEF w
<1> QED BY <1>2, <1>4, <1>5

-----------------------------------------------------------------------------
(* Frames.                                                                 *)

\* Who stands in a sequence is of its set.
LEMMA IsInside ==
  ASSUME NEW V, NEW s \in Seq(V), NEW i, Stands(s, i)
  PROVE  i \in V /\ s # <<>>
BY DEF Stands

\* A chain spells the same while the words of its own nodes stay.
LEMMA SpellsFrame ==
  ASSUME NEW V, NEW h, NEW g, NEW c, NEW s, Spells(h, c, s, V),
         \A j \in V : Stands(s, j) => g.previous[j] = h.previous[j] /\ g.next[j] = h.next[j]
  PROVE  Spells(g, c, s, V)
<1>1. s \in Seq(V) /\ \A k \in 1..Len(s) : s[k] \in V /\ Stands(s, s[k])
  BY DEF Spells, Stands
<1> QED BY <1>1 DEF Spells

\* A cycle is the same while the words of its own nodes stay.
LEMMA CirclesFrame ==
  ASSUME NEW V, NEW h, NEW g, NEW r, NEW s, Circles(h, r, s, V),
         \A j \in V : Stands(s, j) => g.previous[j] = h.previous[j] /\ g.next[j] = h.next[j]
  PROVE  Circles(g, r, s, V)
<1>1. s \in Seq(V) /\ \A k \in 1..Len(s) : s[k] \in V /\ Stands(s, s[k])
  BY DEF Circles, Stands
<1> QED BY <1>1 DEF Circles

-----------------------------------------------------------------------------
(* Chains joined, and a removal put back.                                  *)

\* Spliced, word by word.
LEMMA SplicedWords ==
  ASSUME NEW V, END \notin V, NEW h \in Plane(V), NEW t, NEW s, t.last \in V, s.first \in V
  PROVE  LET g == Spliced(h, t, s).hook
         IN /\ g \in Plane(V)
            /\ \A m \in V : /\ g.next[m] = IF m = t.last THEN s.first ELSE h.next[m]
                            /\ g.previous[m] = IF m = s.first THEN t.last ELSE h.previous[m]
<1> DEFINE x == t.last  y == s.first  u == PutNext(h, x, y)
<1>1. x # END /\ y # END /\ x \in V /\ y \in V
  OBVIOUS
<1>2. Spliced(h, t, s).hook = PutPrevious(u, y, x)
  BY <1>1 DEF Spliced
<1> HIDE DEF x, y
<1>3. u \in Plane(V) /\ \A m \in V : /\ u.next[m] = IF m = x THEN y ELSE h.next[m]
                                     /\ u.previous[m] = h.previous[m]
  BY <1>1 DEF PutNext, Plane
<1> HIDE DEF u
<1>4. LET g == PutPrevious(u, y, x)
      IN /\ g \in Plane(V)
         /\ \A m \in V : g.next[m] = u.next[m] /\ g.previous[m] = IF m = y THEN x ELSE u.previous[m]
  BY <1>1, <1>3 DEF PutPrevious, Plane
<1> QED BY <1>2, <1>3, <1>4 DEF x, y

\* Two chains of one plane, the second of them not empty.
Separate(h, t, s, a, b, V) ==
  /\ Spells(h, t, a, V) /\ Spells(h, s, b, V) /\ b # <<>>
  /\ \A i : ~ (Stands(a, i) /\ Stands(b, i))

\* A splice puts one chain's nodes behind the other's.
LEMMA SpellsSpliced ==
  ASSUME NEW V, END \notin V, NEW h \in Plane(V), NEW t, NEW s, NEW a, NEW b, Separate(h, t, s, a, b, V)
  PROVE  LET out == Spliced(h, t, s)
         IN /\ out.hook \in Plane(V)
            /\ Spells(out.hook, out.chain, a \o b, V)
            /\ \A j \in V : ~ Stands(a, j) /\ ~ Stands(b, j) =>
                 out.hook.previous[j] = h.previous[j] /\ out.hook.next[j] = h.next[j]
<1>0. /\ Spells(h, t, a, V) /\ Spells(h, s, b, V) /\ b # <<>>
      /\ \A i : ~ (Stands(a, i) /\ Stands(b, i))
  BY DEF Separate
<1> USE <1>0
<1> DEFINE g == Spliced(h, t, s).hook  k == Spliced(h, t, s).chain  r == a \o b  A == Len(a)  B == Len(b)
<1>1. /\ a \in Seq(V) /\ b \in Seq(V) /\ OneEach(a) /\ OneEach(b) /\ A \in Nat /\ B \in Nat \ {0}
      /\ \A n \in 1..A : a[n] \in V /\ Stands(a, a[n])
      /\ \A n \in 1..B : b[n] \in V /\ Stands(b, b[n])
      /\ 1 \in 1..B /\ B \in 1..B /\ (a # <<>> <=> A # 0)
  BY DEF Spells, Stands
<1>2. /\ t.first = (IF A = 0 THEN END ELSE a[1]) /\ t.last = (IF A = 0 THEN END ELSE a[A])
      /\ s.first = b[1] /\ s.last = b[B] /\ s.first \in V
      /\ A # 0 => 1 \in 1..A /\ A \in 1..A /\ t.last \in V
  BY <1>1 DEF Spells
<1>3. /\ \A n \in 1..A : /\ h.previous[a[n]] = IF n = 1 THEN END ELSE a[n - 1]
                         /\ h.next[a[n]] = IF n = A THEN END ELSE a[n + 1]
      /\ \A n \in 1..B : /\ h.previous[b[n]] = IF n = 1 THEN END ELSE b[n - 1]
                         /\ h.next[b[n]] = IF n = B THEN END ELSE b[n + 1]
  BY DEF Spells
<1>4. /\ r \in Seq(V) /\ Len(r) = A + B /\ OneEach(r) /\ r # <<>>
      /\ \A n \in 1..Len(r) : r[n] = IF n <= A THEN a[n] ELSE b[n - A]
      /\ \A j : Stands(r, j) <=> Stands(a, j) \/ Stands(b, j)
  <2>1. /\ r \in Seq(V) /\ Len(r) = A + B /\ OneEach(r)
        /\ \A n \in 1..Len(r) : r[n] = IF n <= A THEN a[n] ELSE b[n - A]
        /\ \A j : Stands(r, j) <=> Stands(a, j) \/ Stands(b, j)
    BY <1>1, ConcatFacts
  <2>2. r # <<>>
    BY <1>1, <2>1
  <2> QED BY <2>1, <2>2
<1>5. k.first = (IF A = 0 THEN b[1] ELSE a[1]) /\ k.last = b[B]
  BY <1>1, <1>2 DEF Spliced
<1>6. /\ g \in Plane(V)
      /\ \A m \in V : /\ g.next[m] = IF A # 0 /\ m = a[A] THEN b[1] ELSE h.next[m]
                      /\ g.previous[m] = IF A # 0 /\ m = b[1] THEN a[A] ELSE h.previous[m]
  <2>1. CASE A = 0
    BY <1>1, <1>2, <2>1 DEF Spliced
  <2>2. CASE A # 0
    <3>1. t.last \in V /\ s.first \in V /\ t.last = a[A] /\ s.first = b[1]
      BY <1>1, <1>2, <2>2
    <3> QED BY <2>2, <3>1, SplicedWords
  <2> QED BY <2>1, <2>2
<1> HIDE DEF g, k, r
<1>7. \A n \in 1..A : \A m \in 1..B : a[n] # b[m]
  BY <1>1
<1>8. ASSUME NEW n \in 1..(A + B)
      PROVE  /\ g.previous[r[n]] = IF n = 1 THEN END ELSE r[n - 1]
             /\ g.next[r[n]] = IF n = A + B THEN END ELSE r[n + 1]
  <2>1. CASE n <= A
    <3>1. n \in 1..A /\ r[n] = a[n] /\ a[n] \in V /\ A # 0 /\ n # A + B
      BY <1>1, <1>4, <2>1
    <3>2. g.previous[a[n]] = h.previous[a[n]]
      BY <1>1, <1>6, <1>7, <3>1
    <3>3. n # 1 => r[n - 1] = a[n - 1]
      <4>1. n # 1 => n - 1 \in 1..Len(r) /\ n - 1 <= A
        BY <1>1, <1>4, <2>1
      <4> QED BY <1>4, <4>1
    <3>4. CASE n = A
      <4>1. r[n + 1] = b[1]
        BY <1>1, <1>4, <3>4
      <4> QED BY <1>3, <1>6, <3>1, <3>2, <3>3, <3>4, <4>1
    <3>5. CASE n # A
      <4>1. n + 1 \in 1..A /\ r[n + 1] = a[n + 1]
        BY <1>1, <1>4, <3>1, <3>5
      <4>2. a[n] # a[A]
        BY <1>1, <1>2, <3>1, <3>5 DEF OneEach
      <4> QED BY <1>3, <1>6, <3>1, <3>2, <3>3, <3>5, <4>1, <4>2
    <3> QED BY <3>4, <3>5
  <2>2. CASE ~ (n <= A)
    <3> DEFINE q == n - A
    <3>1. q \in 1..B /\ r[n] = b[q] /\ b[q] \in V /\ (n = A + B <=> q = B) /\ n = q + A
      BY <1>1, <1>4, <2>2
    <3>2. q # B => q + 1 \in 1..B /\ r[n + 1] = b[q + 1]
      BY <1>1, <1>4, <3>1
    <3>3. q # 1 => q - 1 \in 1..B /\ r[n - 1] = b[q - 1]
      BY <1>1, <1>4, <3>1
    <3>4. q = 1 /\ A # 0 => r[n - 1] = a[A] /\ n # 1
      BY <1>1, <1>4, <3>1
    <3> HIDE DEF q
    <3>5. g.next[b[q]] = h.next[b[q]]
      BY <1>1, <1>2, <1>6, <1>7, <3>1
    <3>6. g.next[r[n]] = IF n = A + B THEN END ELSE r[n + 1]
      BY <1>3, <3>1, <3>2, <3>5
    <3>7. CASE q = 1
      <4>1. n = 1 <=> A = 0
        BY <1>1, <3>1, <3>7
      <4> QED BY <1>3, <1>6, <3>1, <3>4, <3>6, <3>7, <4>1
    <3>8. CASE q # 1
      <4>1. b[q] # b[1] /\ n # 1
        BY <1>1, <3>1, <3>8 DEF OneEach
      <4>2. g.previous[b[q]] = h.previous[b[q]]
        BY <1>6, <3>1, <4>1
      <4>3. h.previous[b[q]] = b[q - 1]
        BY <1>3, <3>1, <3>8
      <4> QED BY <3>1, <3>3, <3>6, <3>8, <4>1, <4>2, <4>3
    <3> QED BY <3>7, <3>8
  <2> QED BY <2>1, <2>2
<1>9. r[1] = (IF A = 0 THEN b[1] ELSE a[1]) /\ r[Len(r)] = b[B]
  BY <1>1, <1>4
<1>10. Spells(g, k, r, V)
  BY <1>4, <1>5, <1>8, <1>9 DEF Spells
<1>11. \A j \in V : ~ Stands(a, j) /\ ~ Stands(b, j) => g.previous[j] = h.previous[j] /\ g.next[j] = h.next[j]
  BY <1>1, <1>2, <1>6
<1> QED BY <1>6, <1>10, <1>11 DEF g, k, r

\* What an unlinking took can be put back: the chain spells what it did.
LEMMA SpellsRestored ==
  ASSUME NEW V, END \notin V, NEW h \in Plane(V), NEW c, NEW s, Spells(h, c, s, V), NEW p \in 1..Len(s)
  PROVE  LET out == Unlinked(h, c, s[p])
             back == Restored(out.hook, out.chain, s[p])
         IN back.hook \in Plane(V) /\ Spells(back.hook, back.chain, s, V)
<1> DEFINE i == s[p]  g == Unlinked(h, c, i).hook  k == Unlinked(h, c, i).chain  L == Len(s)
           x == h.previous[i]  y == h.next[i]  b == Restored(g, k, i)
<1>1. /\ s \in Seq(V) /\ L \in Nat /\ OneEach(s) /\ i \in V /\ L # 0
      /\ c.first = s[1] /\ c.last = s[L] /\ \A n \in 1..L : s[n] \in V /\ s[n] # END
  BY DEF Spells
<1>2. /\ x = (IF p = 1 THEN END ELSE s[p - 1]) /\ y = (IF p = L THEN END ELSE s[p + 1])
      /\ p # 1 => p - 1 \in 1..L /\ h.next[s[p - 1]] = i
      /\ p # L => p + 1 \in 1..L /\ h.previous[s[p + 1]] = i
  <2>1. \A n \in 1..L : /\ h.previous[s[n]] = IF n = 1 THEN END ELSE s[n - 1]
                        /\ h.next[s[n]] = IF n = L THEN END ELSE s[n + 1]
    BY DEF Spells
  <2>2. p # 1 => p - 1 \in 1..L /\ p - 1 # L /\ (p - 1) + 1 = p
    BY <1>1
  <2>3. p # L => p + 1 \in 1..L /\ p + 1 # 1 /\ (p + 1) - 1 = p
    BY <1>1
  <2> QED BY <2>1, <2>2, <2>3
<1>3. x # i /\ y # i /\ x \in V \cup {END} /\ y \in V \cup {END}
  BY <1>1, <1>2 DEF OneEach
<1>4. /\ g \in Plane(V)
      /\ \A m \in V : /\ g.next[m] = IF m = x THEN y ELSE h.next[m]
                      /\ g.previous[m] = IF m = y THEN x ELSE h.previous[m]
  BY <1>1, UnlinkedWords
<1>5. k.first = (IF x = END THEN y ELSE c.first) /\ k.last = (IF y = END THEN x ELSE c.last)
  BY DEF Unlinked
<1>6. x # END => h.next[x] = i
  BY <1>1, <1>2
<1>7. y # END => h.previous[y] = i
  BY <1>1, <1>2
<1> HIDE DEF g, k, x, y
<1>8. g.previous[i] = x /\ g.next[i] = y
  BY <1>1, <1>3, <1>4 DEF x, y
<1> DEFINE u == PutNext(g, x, i)  w == PutPrevious(u, y, i)
<1>9. u \in Plane(V) /\ \A m \in V : /\ u.next[m] = IF m = x THEN i ELSE g.next[m]
                                     /\ u.previous[m] = g.previous[m]
  BY <1>1, <1>3, <1>4 DEF PutNext, Plane
<1> HIDE DEF u
<1>10. w \in Plane(V) /\ \A m \in V : /\ w.next[m] = u.next[m]
                                      /\ w.previous[m] = IF m = y THEN i ELSE u.previous[m]
  BY <1>1, <1>3, <1>9 DEF PutPrevious, Plane
<1>11. /\ b.hook = w
       /\ b.chain.first = (IF x = END THEN i ELSE k.first) /\ b.chain.last = (IF y = END THEN i ELSE k.last)
  BY <1>8 DEF Restored, u
<1> HIDE DEF w, b
<1>12. \A m \in V : w.next[m] = h.next[m] /\ w.previous[m] = h.previous[m]
  BY <1>4, <1>6, <1>7, <1>9, <1>10
<1>13. b.chain.first = c.first /\ b.chain.last = c.last
  BY <1>1, <1>2, <1>5, <1>11
<1>14. Spells(w, c, s, V)
  BY <1>12, SpellsFrame
<1>15. Spells(w, b.chain, s, V)
  BY <1>13, <1>14 DEF Spells
<1> QED BY <1>10, <1>11, <1>15 DEF b, g, k

-----------------------------------------------------------------------------
(* Free lists.                                                             *)

\* next alone spells the stack s from its top, and ends it.
Stacked(h, top, s, V) ==
  /\ s \in Seq(V) /\ OneEach(s)
  /\ top = IF s = <<>> THEN END ELSE s[1]
  /\ \A k \in 1..Len(s) : h.next[s[k]] = IF k = Len(s) THEN END ELSE s[k + 1]

\* A stack stays while the next words of its nodes do.
LEMMA StackedSame ==
  ASSUME NEW V, NEW h, NEW g, NEW top, NEW s, Stacked(h, top, s, V),
         \A j : Stands(s, j) => g.next[j] = h.next[j]
  PROVE  Stacked(g, top, s, V)
<1>1. \A k \in 1..Len(s) : Stands(s, s[k])
  BY DEF Stands
<1> QED BY <1>1 DEF Stacked

\* The top is taken: the stack is the rest.
LEMMA StackedPopped ==
  ASSUME NEW V, NEW h, NEW g, NEW top, NEW s, Stacked(h, top, s, V), s # <<>>,
         \A j : Stands(s, j) /\ j # top => g.next[j] = h.next[j]
  PROVE  /\ Stacked(g, h.next[top], Without(s, 1), V) /\ top \in V /\ Stands(s, top)
         /\ \A j : Stands(Without(s, 1), j) <=> Stands(s, j) /\ j # top
<1> DEFINE r == Without(s, 1)
<1>1. s \in Seq(V) /\ OneEach(s) /\ 1 \in 1..Len(s) /\ top = s[1] /\ top \in V /\ Stands(s, top)
  BY DEF Stacked, Stands
<1>2. /\ r \in Seq(V) /\ OneEach(r) /\ Len(r) = Len(s) - 1
      /\ \A j : Stands(r, j) <=> Stands(s, j) /\ j # top
  BY <1>1, WithoutFacts
<1>3. \A k \in 1..Len(r) : r[k] = s[k + 1] /\ k + 1 \in 1..Len(s)
  BY <1>1, <1>2 DEF Without
<1>4. h.next[top] = IF r = <<>> THEN END ELSE r[1]
  <2>1. CASE Len(s) = 1
    <3>1. r = <<>>
      BY <1>2, <2>1
    <3> QED BY <1>1, <2>1, <3>1 DEF Stacked
  <2>2. CASE Len(s) # 1
    <3>1. r # <<>> /\ 1 \in 1..Len(r)
      BY <1>1, <1>2, <2>2
    <3> QED BY <1>1, <1>3, <2>2, <3>1 DEF Stacked
  <2> QED BY <2>1, <2>2
<1>5. ASSUME NEW k \in 1..Len(r) PROVE g.next[r[k]] = IF k = Len(r) THEN END ELSE r[k + 1]
  <2>1. Stands(r, r[k])
    BY DEF Stands
  <2>2. g.next[r[k]] = h.next[s[k + 1]]
    BY <1>2, <1>3, <2>1
  <2>3. h.next[s[k + 1]] = IF k + 1 = Len(s) THEN END ELSE s[k + 2]
    BY <1>3 DEF Stacked
  <2>4. k # Len(r) => k + 1 \in 1..Len(r) /\ s[k + 2] = r[k + 1]
    BY <1>1, <1>2, <1>3
  <2> QED BY <1>1, <1>2, <2>2, <2>3, <2>4
<1> HIDE DEF r
<1>6. Stacked(g, h.next[top], r, V)
  BY <1>2, <1>4, <1>5 DEF Stacked
<1> QED BY <1>1, <1>2, <1>6 DEF r

\* A node is put on top.
LEMMA StackedPushed ==
  ASSUME NEW V, NEW h, NEW g, NEW top, NEW s, Stacked(h, top, s, V),
         NEW i \in V, ~ Stands(s, i), g.next[i] = top,
         \A j : Stands(s, j) => g.next[j] = h.next[j]
  PROVE  /\ Stacked(g, i, <<i>> \o s, V)
         /\ \A j : Stands(<<i>> \o s, j) <=> Stands(s, j) \/ j = i
<1> DEFINE r == <<i>> \o s
<1>1. s \in Seq(V) /\ OneEach(s) /\ Len(s) \in Nat
  BY DEF Stacked
<1>2. /\ r \in Seq(V) /\ Len(r) = Len(s) + 1 /\ r # <<>> /\ OneEach(r)
      /\ \A k \in 1..Len(r) : r[k] = IF k = 1 THEN i ELSE s[k - 1]
      /\ \A j : Stands(r, j) <=> Stands(s, j) \/ j = i
  BY <1>1, PrependFacts
<1> HIDE DEF r
<1>3. ASSUME NEW k \in 1..Len(r) PROVE g.next[r[k]] = IF k = Len(r) THEN END ELSE r[k + 1]
  <2>1. CASE k = 1
    <3>1. CASE s = <<>>
      BY <1>1, <1>2, <2>1, <3>1 DEF Stacked
    <3>2. CASE s # <<>>
      BY <1>1, <1>2, <2>1, <3>2 DEF Stacked
    <3> QED BY <3>1, <3>2
  <2>2. CASE k # 1
    <3>1. k - 1 \in 1..Len(s) /\ r[k] = s[k - 1] /\ Stands(s, s[k - 1])
      BY <1>1, <1>2, <2>2 DEF Stands
    <3>2. h.next[s[k - 1]] = IF k - 1 = Len(s) THEN END ELSE s[(k - 1) + 1]
      BY <3>1 DEF Stacked
    <3>3. k # Len(r) => k + 1 \in 1..Len(r) /\ r[k + 1] = s[k] /\ (k - 1) + 1 = k
      BY <1>1, <1>2, <2>2
    <3> QED BY <1>1, <1>2, <3>1, <3>2, <3>3
  <2> QED BY <2>1, <2>2
<1>4. Stacked(g, i, r, V)
  BY <1>2, <1>3 DEF Stacked
<1> QED BY <1>2, <1>4 DEF r

\* What a free list is read as.
LEMMA StackIs ==
  ASSUME NEW V, END \notin V, IsFiniteSet(V), NEW h \in Plane(V), NEW top, NEW s, Stacked(h, top, s, V)
  PROVE  Walk(h, top) = s
<1>1. h.next \in [V -> V \cup {END}]
  BY DEF Plane
<1>2. Follows(h, top, s, V)
  BY DEF Follows, Stacked
<1> QED BY <1>1, <1>2, WalkIs

-----------------------------------------------------------------------------
(* Lists that keep no last.                                                *)

\* A list's words are those of a chain with the same nodes.
EndsOf(s) == [first |-> IF s = <<>> THEN END ELSE s[1], last |-> IF s = <<>> THEN END ELSE s[Len(s)]]
Piled(h, head, s, V) == head = EndsOf(s).first /\ Spells(h, EndsOf(s), s, V)

\* A chain without its last word is such a list.
LEMMA SpellsPiles ==
  ASSUME NEW V, NEW h, NEW c, NEW s, Spells(h, c, s, V)
  PROVE  Piled(h, c.first, s, V)
BY DEF Piled, Spells, EndsOf

\* A list is the same while the words of its own nodes stay.
LEMMA PiledFrame ==
  ASSUME NEW V, NEW h, NEW g, NEW head, NEW s, Piled(h, head, s, V),
         \A j \in V : Stands(s, j) => g.previous[j] = h.previous[j] /\ g.next[j] = h.next[j]
  PROVE  Piled(g, head, s, V)
BY SpellsFrame DEF Piled

\* Listed, word by word.
LEMMA ListedWords ==
  ASSUME NEW V, END \notin V, NEW h \in Plane(V), NEW head \in V \cup {END}, NEW i \in V, head # i
  PROVE  LET g == Listed(h, head, i).hook
         IN /\ g \in Plane(V)
            /\ \A m \in V : /\ g.next[m] = IF m = i THEN head ELSE h.next[m]
                            /\ g.previous[m] = IF m = i THEN END ELSE IF m = head THEN i ELSE h.previous[m]
<1> DEFINE u == PutPrevious(h, head, i)
<1>1. u \in Plane(V) /\ \A m \in V : /\ u.previous[m] = IF m = head THEN i ELSE h.previous[m]
                                     /\ u.next[m] = h.next[m]
  BY DEF PutPrevious, Plane
<1> HIDE DEF u
<1>2. LET g == SetHook(u, i, END, head)
      IN /\ g \in Plane(V)
         /\ \A m \in V : /\ g.next[m] = IF m = i THEN head ELSE u.next[m]
                         /\ g.previous[m] = IF m = i THEN END ELSE u.previous[m]
  BY <1>1 DEF SetHook, Plane
<1>3. Listed(h, head, i).hook = SetHook(u, i, END, head)
  BY DEF Listed, u
<1> QED BY <1>1, <1>2, <1>3

\* Linking puts a node in front of the list.
LEMMA PiledListed ==
  ASSUME NEW V, END \notin V, NEW h \in Plane(V), NEW head, NEW s, Piled(h, head, s, V), NEW i \in V, ~ Stands(s, i)
  PROVE  LET out == Listed(h, head, i)
         IN /\ out.hook \in Plane(V)
            /\ Piled(out.hook, out.list, <<i>> \o s, V)
            /\ \A j \in V : ~ Stands(s, j) /\ j # i =>
                 out.hook.previous[j] = h.previous[j] /\ out.hook.next[j] = h.next[j]
<1> DEFINE g == Listed(h, head, i).hook  r == <<i>> \o s
<1>1. /\ s \in Seq(V) /\ Len(s) \in Nat /\ OneEach(s) /\ \A n \in 1..Len(s) : s[n] \in V /\ s[n] # i /\ s[n] # END
      /\ head = IF s = <<>> THEN END ELSE s[1]
  BY DEF Piled, Spells, Stands, EndsOf
<1>2. /\ head \in V \cup {END} /\ head # i
      /\ s # <<>> => 1 \in 1..Len(s) /\ head = s[1]
      /\ s = <<>> => Len(s) = 0 /\ head = END
  BY <1>1
<1>3. /\ g \in Plane(V)
      /\ \A m \in V : /\ g.next[m] = IF m = i THEN head ELSE h.next[m]
                      /\ g.previous[m] = IF m = i THEN END ELSE IF m = head THEN i ELSE h.previous[m]
  BY <1>2, ListedWords
<1>4. /\ r \in Seq(V) /\ Len(r) = Len(s) + 1 /\ r # <<>> /\ OneEach(r)
      /\ \A k \in 1..Len(r) : r[k] = IF k = 1 THEN i ELSE s[k - 1]
  BY <1>1, PrependFacts
<1>5. Listed(h, head, i).list = i
  BY DEF Listed
<1> HIDE DEF g, r
<1>6. ASSUME NEW k \in 1..Len(r)
      PROVE  /\ g.previous[r[k]] = IF k = 1 THEN END ELSE r[k - 1]
             /\ g.next[r[k]] = IF k = Len(r) THEN END ELSE r[k + 1]
  <2>1. CASE k = 1
    <3>1. g.previous[i] = END /\ g.next[i] = head /\ r[1] = i
      BY <1>3, <1>4, <2>1
    <3>2. CASE s = <<>>
      BY <1>2, <1>4, <2>1, <3>1, <3>2
    <3>3. CASE s # <<>>
      BY <1>1, <1>2, <1>4, <2>1, <3>1, <3>3
    <3> QED BY <3>2, <3>3
  <2>2. CASE k # 1
    <3>1. k - 1 \in 1..Len(s) /\ r[k] = s[k - 1] /\ s[k - 1] \in V /\ s[k - 1] # i /\ s # <<>>
      BY <1>1, <1>4, <2>2
    <3>2. /\ h.previous[s[k - 1]] = IF k - 1 = 1 THEN END ELSE s[(k - 1) - 1]
          /\ h.next[s[k - 1]] = IF k - 1 = Len(s) THEN END ELSE s[(k - 1) + 1]
      BY <3>1 DEF Piled, Spells
    <3>3. g.next[r[k]] = IF k = Len(r) THEN END ELSE r[k + 1]
      <4>1. k # Len(r) => k + 1 \in 1..Len(r) /\ r[k + 1] = s[k] /\ (k - 1) + 1 = k
        BY <1>1, <1>4, <2>2
      <4>2. k = Len(r) <=> k - 1 = Len(s)
        BY <1>1, <1>4
      <4> QED BY <1>3, <3>1, <3>2, <4>1, <4>2
    <3>4. CASE k = 2
      <4>1. r[k] = head /\ r[k - 1] = i
        BY <1>1, <1>2, <1>4, <3>1, <3>4
      <4> QED BY <1>3, <2>2, <3>1, <3>3, <4>1
    <3>5. CASE k # 2
      <4>1. k - 1 # 1 /\ 1 \in 1..Len(s) /\ s[k - 1] # s[1]
        BY <1>1, <3>1, <3>5 DEF OneEach
      <4>2. r[k - 1] = s[(k - 1) - 1] /\ s[k - 1] # head
        BY <1>1, <1>2, <1>4, <2>2, <3>1, <3>5, <4>1
      <4> QED BY <1>3, <2>2, <3>1, <3>2, <3>3, <4>1, <4>2
    <3> QED BY <3>4, <3>5
  <2> QED BY <2>1, <2>2
<1>7. Piled(g, i, r, V)
  <2>1. EndsOf(r).first = r[1] /\ EndsOf(r).last = r[Len(r)] /\ r[1] = i
    BY <1>1, <1>4 DEF EndsOf
  <2> QED BY <1>4, <1>6, <2>1 DEF Piled, Spells
<1>8. ASSUME NEW j \in V, ~ Stands(s, j), j # i
      PROVE  g.previous[j] = h.previous[j] /\ g.next[j] = h.next[j]
  <2>1. j # head
    BY <1>2, <1>8 DEF Stands
  <2> QED BY <1>3, <1>8, <2>1
<1> QED BY <1>3, <1>5, <1>7, <1>8 DEF g, r

\* Unlinking takes the node out of the list, wherever it stood.
LEMMA PiledUnlisted ==
  ASSUME NEW V, END \notin V, NEW h \in Plane(V), NEW head, NEW s, Piled(h, head, s, V), NEW p \in 1..Len(s)
  PROVE  LET out == Unlisted(h, head, s[p])
         IN /\ out.hook \in Plane(V)
            /\ Piled(out.hook, out.list, Without(s, p), V)
            /\ \A j \in V : ~ Stands(s, j) =>
                 out.hook.previous[j] = h.previous[j] /\ out.hook.next[j] = h.next[j]
<1> DEFINE i == s[p]  c == EndsOf(s)  u == Unlinked(h, c, i)  w == Without(s, p)
<1>1. Spells(h, c, s, V) /\ head = c.first /\ i \in V /\ Stands(s, i) /\ s \in Seq(V) /\ OneEach(s)
  BY DEF Piled, Spells, Stands
<1>2. /\ u.hook \in Plane(V) /\ Spells(u.hook, u.chain, w, V)
      /\ \A j \in V : ~ Stands(s, j) => u.hook.previous[j] = h.previous[j] /\ u.hook.next[j] = h.next[j]
  <2> HIDE DEF c
  <2> QED BY <1>1, SpellsUnlinked
<1>3. Unlisted(h, head, i).hook = Idled(u.hook, i) /\ Unlisted(h, head, i).list = u.chain.first
  BY <1>1 DEF Unlisted, Unlinked
<1>4. ~ Stands(w, i)
  BY <1>1, WithoutFacts
<1> HIDE DEF u, c, w, i
<1>5. /\ Idled(u.hook, i) \in Plane(V)
      /\ \A j \in V : j # i => /\ Idled(u.hook, i).previous[j] = u.hook.previous[j]
                               /\ Idled(u.hook, i).next[j] = u.hook.next[j]
  BY <1>1, <1>2 DEF Idled, SetHook, Plane
<1>6. Spells(Idled(u.hook, i), u.chain, w, V)
  BY <1>2, <1>4, <1>5, SpellsFrame
<1>7. Piled(Idled(u.hook, i), u.chain.first, w, V)
  BY <1>6, SpellsPiles
<1> QED BY <1>1, <1>2, <1>3, <1>5, <1>7 DEF i, w

-----------------------------------------------------------------------------
(* What the lists are read as.                                             *)

\* A chain is read as what it spells.
LEMMA ChainIs ==
  ASSUME NEW V, END \notin V, IsFiniteSet(V), NEW h \in Plane(V), NEW c, NEW s, Spells(h, c, s, V)
  PROVE  Walk(h, c.first) = s
<1>1. h.next \in [V -> V \cup {END}]
  BY DEF Plane
<1>2. Follows(h, c.first, s, V)
  BY DEF Follows, Spells
<1> QED BY <1>1, <1>2, WalkIs

\* So is a cycle, from its front and once around.
LEMMA CycleIs ==
  ASSUME NEW V, END \notin V, IsFiniteSet(V), NEW h \in Plane(V), NEW ring, NEW s, Circles(h, ring, s, V)
  PROVE  Walk(h, ring) = s
<1>1. h.next \in [V -> V \cup {END}]
  BY DEF Plane
<1>2. s # <<>> => Len(s) \in 1..Len(s) /\ ring = s[1]
  BY DEF Circles
<1>3. Follows(h, ring, s, V)
  BY <1>2 DEF Follows, Circles, After
<1> QED BY <1>1, <1>3, WalkIs

\* And a list, from its head.
LEMMA PileIs ==
  ASSUME NEW V, END \notin V, IsFiniteSet(V), NEW h \in Plane(V), NEW head, NEW s, Piled(h, head, s, V)
  PROVE  Walk(h, head) = s
BY ChainIs DEF Piled
=============================================================================
