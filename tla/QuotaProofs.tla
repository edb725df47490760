---------------------------- MODULE QuotaProofs ----------------------------
(***************************************************************************)
(* Quota is conserved and reservations are closed for every number of      *)
(* handles, every word width and every depth of nested callbacks.          *)
(*                                                                         *)
(* Neither property is inductive.  A refund adds with wrapping arithmetic, *)
(* so it must know that the sum of all accounts is a word (Conserved); a   *)
(* refund to a parent must know that the parent is still there, that a     *)
(* unit carries exactly one and that an ended handle carries nothing       *)
(* (HandlesAreSane).                                                       *)
(***************************************************************************)
EXTENDS Quota

HandlesAreSane ==
  \A h \in Handles :
    /\ kind[h] = "free" => rem[h] = 0 /\ source[h] = Root
    /\ kind[h] \in {"unit", "loose", "admitting"} => rem[h] = 1
    /\ source[h] # Root => /\ kind[h] \in {"lease", "offering"}
                           /\ kind[source[h]] = "shared"

IInv == TypeOK /\ HandlesAreSane /\ CallsAreBacked /\ Conserved /\ ReservationsAreClosed

LEMMA AccountsFinite == IsFiniteSet(Accounts) /\ MaxWord \in Nat
<1>1. IsFiniteSet({Root})
  BY FS_Singleton
<1> QED
  BY <1>1, FS_Union, QuotaAssumption DEF Accounts

\* Two accounts together hold no more than the total, so a refund of one to
\* the other does not wrap.
LEMMA PairFits ==
  ASSUME IInv, NEW x \in Accounts, NEW y \in Accounts, x # y
  PROVE  rem[x] + rem[y] <= MaxWord
<1> DEFINE m == [rem EXCEPT ![y] = 0]
<1>1. rem \in [Accounts -> 0..MaxWord] /\ total \in 0..MaxWord /\ spent \in Nat
  BY DEF IInv, TypeOK, Word
<1>2. m \in [Accounts -> 0..MaxWord] /\ m[y] = 0 /\ m[x] = rem[x]
      /\ \A z \in Accounts \ {y} : m[z] = rem[z]
  BY <1>1, AccountsFinite
<1> HIDE DEF m
<1>3. SumOf(m, MaxWord) = SumOf(rem, MaxWord) + m[y] - rem[y]
  BY <1>1, <1>2, SumOfUpdate, AccountsFinite
<1>4. m[x] <= SumOf(m, MaxWord)
  BY <1>2, SumOfBounds, AccountsFinite
<1>5. SumOf(rem, MaxWord) \in Nat /\ SumOf(m, MaxWord) \in Nat
  BY <1>1, <1>2, UnitsFinite, AccountsFinite
<1>6. SumOf(rem, MaxWord) + spent = total
  BY DEF IInv, Conserved
<1>7. rem[x] \in Nat /\ rem[y] \in Nat
  BY <1>1, AccountsFinite
<1> QED
  BY <1>1, <1>2, <1>3, <1>4, <1>5, <1>6, <1>7, AccountsFinite

LEMMA LentType ==
  ASSUME TypeOK, NEW s \in Handles
  PROVE  LentBy(s) \in [Handles -> 0..MaxWord]
BY QuotaAssumption DEF TypeOK, LentBy, Word, Accounts

-----------------------------------------------------------------------------
(* A handle is created. *)

LEMMA DrawStep ==
  ASSUME IInv, NEW h \in Handles, NEW k \in Kinds \ {"free"}, NEW s \in Accounts,
         NEW n \in Nat, s # h, n <= rem[s],
         k \in {"unit", "loose", "admitting"} => n = 1,
         s # Root => k = "lease" /\ kind[s] = "shared",
         k # "offering", Draw(h, k, s, n),
         total' = total, spent' = spent, calls' \in Seq(Handles)
  PROVE  IInv'
<1>t. /\ rem \in [Accounts -> 0..MaxWord] /\ kind \in [Handles -> Kinds]
      /\ source \in [Handles -> Accounts] /\ budget \in [Handles -> Int]
      /\ total \in 0..MaxWord /\ spent \in Nat
      /\ h \in Accounts /\ Handles \subseteq Accounts /\ h # Root
  BY QuotaAssumption DEF IInv, TypeOK, Word, Accounts
<1>d. /\ kind[h] = "free"
      /\ rem' = [rem EXCEPT ![s] = rem[s] - n, ![h] = n]
      /\ kind' = [kind EXCEPT ![h] = k]
      /\ source' = [source EXCEPT ![h] = s]
      /\ budget' = [budget EXCEPT ![h] = n]
  BY DEF Draw
<1>i. /\ rem[h] = 0 /\ source[h] = Root
      /\ \A c \in Handles : source[c] # h
  BY <1>t, <1>d DEF IInv, HandlesAreSane
<1>n. n \in 0..MaxWord /\ rem[s] \in 0..MaxWord /\ rem[s] - n \in 0..MaxWord
  BY <1>t, AccountsFinite
<1>r. /\ rem' \in [Accounts -> 0..MaxWord]
      /\ rem'[s] = rem[s] - n /\ rem'[h] = n
      /\ \A z \in Accounts \ {s, h} : rem'[z] = rem[z]
  BY <1>t, <1>d, <1>n
<1>1. TypeOK'
  <2>1. kind' \in [Handles -> Kinds]
    BY <1>t, <1>d
  <2>2. source' \in [Handles -> Accounts]
    BY <1>t, <1>d
  <2>3. budget' \in [Handles -> Int]
    BY <1>t, <1>d, <1>n
  <2> QED
    BY <2>1, <2>2, <2>3, <1>r, <1>t DEF TypeOK, Word
<1>2. HandlesAreSane'
  <2> SUFFICES ASSUME NEW c \in Handles
               PROVE  /\ kind'[c] = "free" => rem'[c] = 0 /\ source'[c] = Root
                      /\ kind'[c] \in {"unit", "loose", "admitting"} => rem'[c] = 1
                      /\ source'[c] # Root => /\ kind'[c] \in {"lease", "offering"}
                                              /\ kind'[source'[c]] = "shared"
    BY DEF HandlesAreSane
  <2>0. /\ kind[c] = "free" => rem[c] = 0 /\ source[c] = Root
        /\ kind[c] \in {"unit", "loose", "admitting"} => rem[c] = 1
        /\ source[c] # Root => /\ kind[c] \in {"lease", "offering"}
                               /\ kind[source[c]] = "shared"
    BY DEF IInv, HandlesAreSane
  <2>s. s # Root => s \in Handles
    BY DEF Accounts
  <2>1. CASE c = h
    <3>1. kind'[c] = k /\ rem'[c] = n /\ source'[c] = s
      BY <2>1, <1>t, <1>d, <1>r
    <3>2. s # Root => kind'[s] = kind[s]
      BY <2>s, <1>t, <1>d
    <3> QED
      BY <3>1, <3>2
  <2>2. CASE c = s /\ c # h
    <3>1. kind[c] = "shared"
      BY <2>2, QuotaAssumption
    <3>2. kind'[c] = kind[c] /\ source'[c] = source[c]
      BY <2>2, <1>t, <1>d
    <3> QED
      BY <2>0, <3>1, <3>2
  <2>3. CASE c # s /\ c # h
    <3>1. kind'[c] = kind[c] /\ rem'[c] = rem[c] /\ source'[c] = source[c]
      BY <2>3, <1>t, <1>d, <1>r
    <3>2. source[c] # Root => source[c] \in Handles /\ kind'[source[c]] = kind[source[c]]
      BY <1>t, <1>d, <1>i DEF Accounts
    <3> QED
      BY <2>0, <3>1, <3>2
  <2> QED
    BY <2>1, <2>2, <2>3
<1>3. CallsAreBacked'
  <2> SUFFICES ASSUME NEW c \in Handles, kind'[c] \in {"admitting", "offering"}
               PROVE  rem'[c] >= 1
    BY DEF CallsAreBacked
  <2>1. CASE c = h
    BY <2>1, <1>t, <1>d, <1>r
  <2>2. CASE c = s /\ c # h
    <3>1. kind[c] = "shared"
      BY <2>2, QuotaAssumption
    <3>2. kind'[c] = kind[c]
      BY <2>2, <1>t, <1>d
    <3> QED
      BY <3>1, <3>2
  <2>3. CASE c # s /\ c # h
    <3>1. kind'[c] = kind[c] /\ rem'[c] = rem[c]
      BY <2>3, <1>t, <1>d, <1>r
    <3>2. rem[c] >= 1
      BY <3>1 DEF IInv, CallsAreBacked
    <3> QED
      BY <3>1, <3>2
  <2> QED
    BY <2>1, <2>2, <2>3
<1>4. Conserved'
  <2>1. SumOf(rem', MaxWord)
          = SumOf(rem, MaxWord) + (rem'[s] - rem[s]) + (rem'[h] - rem[h])
    <3>1. rem \in [Accounts -> 0..MaxWord] /\ rem' \in [Accounts -> 0..MaxWord]
          /\ s \in Accounts /\ h \in Accounts /\ s # h
          /\ \A z \in Accounts \ {s, h} : rem'[z] = rem[z]
      BY <1>t, <1>r
    <3> QED
      BY ONLY <3>1, SumOfUpdate2, AccountsFinite
  <2>2. SumOf(rem, MaxWord) \in Nat
    BY <1>t, UnitsFinite, AccountsFinite
  <2>3. SumOf(rem, MaxWord) + spent = total
    BY DEF IInv, Conserved
  <2>4. SumOf(rem', MaxWord) = SumOf(rem, MaxWord)
    BY ONLY <2>1, <2>2, <1>r, <1>i, <1>n, AccountsFinite, n \in Nat
  <2> QED
    BY <2>3, <2>4 DEF Conserved
<1>5. ReservationsAreClosed'
  <2> SUFFICES ASSUME NEW t \in Handles
               PROVE  rem'[t] + SumOf(LentBy(t)', MaxWord) = budget'[t]
    BY DEF ReservationsAreClosed
  <2> DEFINE f == LentBy(t)
             g == LentBy(t)'
  <2>1. f \in [Handles -> 0..MaxWord] /\ g \in [Handles -> 0..MaxWord]
    <3>1. f \in [Handles -> 0..MaxWord]
      BY LentType DEF IInv
    <3>2. g \in [Handles -> 0..MaxWord]
      BY <1>1, QuotaAssumption DEF TypeOK, LentBy, Word, Accounts
    <3> QED
      BY <3>1, <3>2
  <2>2. /\ \A c \in Handles : f[c] = IF source[c] = t THEN rem[c] ELSE 0
        /\ \A c \in Handles : g[c] = IF source'[c] = t THEN rem'[c] ELSE 0
    BY DEF LentBy
  <2>3. rem[t] + SumOf(f, MaxWord) = budget[t]
    BY DEF IInv, ReservationsAreClosed
  <2> HIDE DEF f, g
  <2>n. SumOf(f, MaxWord) \in Nat /\ SumOf(g, MaxWord) \in Nat
    BY <2>1, UnitsFinite, QuotaAssumption
  <2>f. \A c \in Handles \ {h} : source'[c] = source[c]
    BY <1>t, <1>d
  <2>h. source'[h] = s /\ f[h] = 0
    BY <1>t, <1>d, <1>i, <2>2
  <2>4. CASE t = h
    <3>1. \A c \in Handles : g[c] = 0
      BY <2>4, <2>2, <2>f, <2>h, <1>i
    <3>2. SumOf(g, MaxWord) = 0
      BY <3>1, <2>1, SumOfZero, QuotaAssumption
    <3>3. budget'[t] = n /\ rem'[t] = n
      BY <2>4, <1>t, <1>d, <1>r
    <3> QED
      BY <3>2, <3>3, <1>n DEF g
  <2>5. CASE t = s
    <3>1. \A c \in Handles \ {h} : g[c] = f[c]
      <4> SUFFICES ASSUME NEW c \in Handles \ {h} PROVE g[c] = f[c]
        OBVIOUS
      <4>0. kind[t] = "shared" /\ t # Root
        BY <2>5, QuotaAssumption
      <4>1. source[c] = t => c # t
        BY <4>0 DEF IInv, HandlesAreSane
      <4>2. source[c] = t => rem'[c] = rem[c]
        BY <4>1, <2>5, <1>r, <1>t
      <4> QED
        BY <4>2, <2>2, <2>f
    <3>2. g[h] = n
      BY <2>5, <2>2, <2>h, <1>r
    <3>3. SumOf(g, MaxWord) = SumOf(f, MaxWord) + g[h] - f[h]
      BY <3>1, <2>1, SumOfUpdate, QuotaAssumption, SMTT(60)
    <3>4. budget'[t] = budget[t] /\ rem'[t] = rem[t] - n
      BY <2>5, <1>t, <1>d, <1>r
    <3>5. budget[t] \in Int /\ rem[t] \in Nat
      BY <1>t
    <3>6. rem'[t] + SumOf(g, MaxWord) = budget'[t]
      BY ONLY <3>2, <3>3, <3>4, <3>5, <2>3, <2>n, <2>h, n \in Nat
    <3> QED
      BY <3>6 DEF g
  <2>6. CASE t # s /\ t # h
    <3>1. \A c \in Handles : g[c] = f[c]
      <4> SUFFICES ASSUME NEW c \in Handles PROVE g[c] = f[c]
        OBVIOUS
      <4>1. CASE c = h
        BY <4>1, <2>2, <2>h, <2>6
      <4>2. CASE c # h /\ c = s
        <5>0. kind[c] = "shared"
          BY <4>2, QuotaAssumption
        <5>1. source[c] = Root
          BY <5>0 DEF IInv, HandlesAreSane
        <5> QED
          BY <5>1, <4>2, <2>2, <2>f, <1>t, QuotaAssumption
      <4>3. CASE c # h /\ c # s
        BY <4>3, <2>2, <2>f, <1>r, <1>t
      <4> QED
        BY <4>1, <4>2, <4>3
    <3>2. g = f
      BY <3>1, <2>1
    <3>3. budget'[t] = budget[t] /\ rem'[t] = rem[t]
      BY <2>6, <1>t, <1>d, <1>r
    <3>4. rem'[t] + SumOf(g, MaxWord) = budget'[t]
      BY <3>2, <3>3, <2>3
    <3> QED
      BY <3>4 DEF g
  <2> QED
    BY <2>4, <2>5, <2>6
<1> QED
  BY <1>1, <1>2, <1>3, <1>4, <1>5 DEF IInv
-----------------------------------------------------------------------------
(* A handle ends. *)

LEMMA SettleStep ==
  ASSUME IInv, NEW h \in Handles, kind[h] # "free", Childless(h),
         NEW back \in Nat, back <= rem[h], Settle(h, back),
         total' = total, calls' \in Seq(Handles)
  PROVE  IInv'
<1> DEFINE s == source[h]
<1>t. /\ rem \in [Accounts -> 0..MaxWord] /\ kind \in [Handles -> Kinds]
      /\ source \in [Handles -> Accounts] /\ budget \in [Handles -> Int]
      /\ total \in 0..MaxWord /\ spent \in Nat
      /\ h \in Accounts /\ Handles \subseteq Accounts /\ h # Root
      /\ Root \in Accounts /\ s \in Accounts
  BY QuotaAssumption DEF IInv, TypeOK, Word, Accounts
<1>i. /\ s # h
      /\ s # Root => s \in Handles /\ kind[s] = "shared" /\ source[s] = Root
      /\ \A c \in Handles : kind[c] # "free" => source[c] # h
      /\ \A c \in Handles : source[c] # h
  <2>1. \A c \in Handles : kind[c] # "free" => source[c] # h
    BY DEF Childless
  <2>2. \A c \in Handles : source[c] # h
    BY <2>1, <1>t DEF IInv, HandlesAreSane
  <2>3. s # Root => s \in Handles /\ kind[s] = "shared"
    BY <1>t DEF IInv, HandlesAreSane, Accounts
  <2>4. s # Root => source[s] = Root
    BY <2>3 DEF IInv, HandlesAreSane
  <2> QED
    BY <2>1, <2>2, <2>3, <2>4
<1>n. /\ rem[h] \in 0..MaxWord /\ rem[s] \in 0..MaxWord
      /\ rem[s] + back \in 0..MaxWord /\ rem[h] - back \in Nat
  <2>1. rem[h] \in 0..MaxWord /\ rem[s] \in 0..MaxWord
    BY <1>t
  <2>2. rem[s] + rem[h] <= MaxWord
    BY <1>t, <1>i, PairFits
  <2> QED
    BY ONLY <2>1, <2>2, back \in Nat, back <= rem[h], AccountsFinite
<1>d. /\ rem' = [rem EXCEPT ![s] = rem[s] + back, ![h] = 0]
      /\ kind' = [kind EXCEPT ![h] = "free"]
      /\ source' = [source EXCEPT ![h] = Root]
      /\ budget' = [Charged(h, rem[h] - back) EXCEPT ![h] = 0]
      /\ spent' = spent + (rem[h] - back)
  <2>1. Plus(rem[s], back) = rem[s] + back
    BY <1>n DEF Plus
  <2> QED
    BY <2>1 DEF Settle
<1> HIDE DEF s
<1>r. /\ rem' \in [Accounts -> 0..MaxWord]
      /\ rem'[s] = rem[s] + back /\ rem'[h] = 0
      /\ \A z \in Accounts \ {s, h} : rem'[z] = rem[z]
  <2>1. rem' \in [Accounts -> 0..MaxWord]
    <3>1. 0 \in 0..MaxWord
      BY AccountsFinite
    <3> QED
      BY <3>1, <1>t, <1>d, <1>n
  <2>2. rem'[s] = rem[s] + back /\ rem'[h] = 0
    BY <1>t, <1>d, <1>i
  <2>3. \A z \in Accounts \ {s, h} : rem'[z] = rem[z]
    BY <1>t, <1>d
  <2> QED
    BY <2>1, <2>2, <2>3
<1>k. /\ kind'[h] = "free" /\ source'[h] = Root
      /\ \A c \in Handles \ {h} : /\ kind'[c] = kind[c] /\ source'[c] = source[c]
  BY <1>t, <1>d
<1>b. /\ budget' \in [Handles -> Int] /\ budget'[h] = 0
      /\ s \in Handles => budget'[s] = budget[s] - (rem[h] - back)
      /\ \A c \in Handles \ {h, s} : budget'[c] = budget[c]
  <2>1. /\ Charged(h, rem[h] - back) \in [Handles -> Int]
        /\ \A c \in Handles : Charged(h, rem[h] - back)[c]
             = IF c \in {h, s} THEN budget[c] - (rem[h] - back) ELSE budget[c]
    BY <1>t, <1>n DEF Charged, s
  <2> QED
    BY ONLY <2>1, <1>d, <1>i, h \in Handles
<1>1. TypeOK'
  <2>1. kind' \in [Handles -> Kinds]
    BY <1>t, <1>d DEF Kinds
  <2>2. source' \in [Handles -> Accounts]
    BY <1>t, <1>d
  <2>3. budget' \in [Handles -> Int]
    BY <1>b
  <2>4. spent' \in Nat
    BY <1>t, <1>d, <1>n, SMTT(60)
  <2> QED
    BY <2>1, <2>2, <2>3, <2>4, <1>r, <1>t DEF TypeOK, Word
<1>2. HandlesAreSane'
  <2> SUFFICES ASSUME NEW c \in Handles
               PROVE  /\ kind'[c] = "free" => rem'[c] = 0 /\ source'[c] = Root
                      /\ kind'[c] \in {"unit", "loose", "admitting"} => rem'[c] = 1
                      /\ source'[c] # Root => /\ kind'[c] \in {"lease", "offering"}
                                              /\ kind'[source'[c]] = "shared"
    BY DEF HandlesAreSane
  <2>0. /\ kind[c] = "free" => rem[c] = 0 /\ source[c] = Root
        /\ kind[c] \in {"unit", "loose", "admitting"} => rem[c] = 1
        /\ source[c] # Root => /\ kind[c] \in {"lease", "offering"}
                               /\ kind[source[c]] = "shared"
    BY DEF IInv, HandlesAreSane
  <2>1. CASE c = h
    BY <2>1, <1>k, <1>r
  <2>2. CASE c = s /\ c # h
    <3>1. kind[c] = "shared" /\ source[c] = Root
      BY <2>2, <1>i, QuotaAssumption
    <3>2. kind'[c] = kind[c] /\ source'[c] = source[c]
      BY <2>2, <1>k
    <3> QED
      BY <3>1, <3>2
  <2>3. CASE c # s /\ c # h
    <3>1. kind'[c] = kind[c] /\ rem'[c] = rem[c] /\ source'[c] = source[c]
      BY <2>3, <1>t, <1>k, <1>r
    <3>2. source[c] # Root => source[c] \in Handles /\ kind'[source[c]] = kind[source[c]]
      BY <1>t, <1>k, <1>i DEF Accounts
    <3> QED
      BY <2>0, <3>1, <3>2
  <2> QED
    BY <2>1, <2>2, <2>3
<1>3. CallsAreBacked'
  <2> SUFFICES ASSUME NEW c \in Handles, kind'[c] \in {"admitting", "offering"}
               PROVE  rem'[c] >= 1
    BY DEF CallsAreBacked
  <2>1. c # h
    BY <1>k
  <2>2. c # s
    BY <2>1, <1>k, <1>i, QuotaAssumption
  <2>3. kind'[c] = kind[c] /\ rem'[c] = rem[c]
    BY <2>1, <2>2, <1>t, <1>k, <1>r
  <2>4. rem[c] >= 1
    BY <2>3 DEF IInv, CallsAreBacked
  <2> QED
    BY <2>3, <2>4
<1>4. Conserved'
  <2>1. SumOf(rem', MaxWord)
          = SumOf(rem, MaxWord) + (rem'[s] - rem[s]) + (rem'[h] - rem[h])
    <3>1. rem \in [Accounts -> 0..MaxWord] /\ rem' \in [Accounts -> 0..MaxWord]
          /\ s \in Accounts /\ h \in Accounts /\ s # h
          /\ \A z \in Accounts \ {s, h} : rem'[z] = rem[z]
      BY <1>t, <1>r, <1>i
    <3> QED
      BY ONLY <3>1, SumOfUpdate2, AccountsFinite
  <2>2. SumOf(rem, MaxWord) \in Nat
    BY <1>t, UnitsFinite, AccountsFinite
  <2>3. SumOf(rem, MaxWord) + spent = total
    BY DEF IInv, Conserved
  <2>4. SumOf(rem', MaxWord) + spent' = SumOf(rem, MaxWord) + spent
    <3>1. rem'[s] = rem[s] + back /\ rem'[h] = 0 /\ spent' = spent + (rem[h] - back)
          /\ rem[h] \in Int /\ rem[s] \in Int /\ spent \in Nat
      BY <1>r, <1>d, <1>n, <1>t, AccountsFinite
    <3> QED
      BY ONLY <2>1, <2>2, <3>1, back \in Nat
  <2> QED
    BY <2>3, <2>4 DEF Conserved
<1>5. ReservationsAreClosed'
  <2> SUFFICES ASSUME NEW t \in Handles
               PROVE  rem'[t] + SumOf(LentBy(t)', MaxWord) = budget'[t]
    BY DEF ReservationsAreClosed
  <2> DEFINE f == LentBy(t)
             g == LentBy(t)'
  <2>1. f \in [Handles -> 0..MaxWord] /\ g \in [Handles -> 0..MaxWord]
    <3>1. f \in [Handles -> 0..MaxWord]
      BY LentType DEF IInv
    <3>2. g \in [Handles -> 0..MaxWord]
      BY <1>1, QuotaAssumption DEF TypeOK, LentBy, Word, Accounts
    <3> QED
      BY <3>1, <3>2
  <2>2. /\ \A c \in Handles : f[c] = IF source[c] = t THEN rem[c] ELSE 0
        /\ \A c \in Handles : g[c] = IF source'[c] = t THEN rem'[c] ELSE 0
    BY DEF LentBy
  <2>3. rem[t] + SumOf(f, MaxWord) = budget[t]
    BY DEF IInv, ReservationsAreClosed
  <2> HIDE DEF f, g
  <2>n. SumOf(f, MaxWord) \in Nat /\ SumOf(g, MaxWord) \in Nat
    BY <2>1, UnitsFinite, QuotaAssumption
  <2>h. g[h] = 0
    BY <2>2, <1>k, QuotaAssumption
  <2>4. CASE t = h
    <3>1. \A c \in Handles : g[c] = 0
      BY <2>4, <2>2, <2>h, <1>k, <1>i
    <3>2. SumOf(g, MaxWord) = 0
      BY <3>1, <2>1, SumOfZero, QuotaAssumption
    <3>3. budget'[t] = 0 /\ rem'[t] = 0
      BY <2>4, <1>b, <1>r
    <3> QED
      BY <3>2, <3>3 DEF g
  <2>o. \A c \in Handles \ {h} : g[c] = f[c]
    <3> SUFFICES ASSUME NEW c \in Handles \ {h} PROVE g[c] = f[c]
      OBVIOUS
    <3>1. source[c] = t => c # s
      BY <1>i, QuotaAssumption
    <3>2. source[c] = t => rem'[c] = rem[c]
      BY <3>1, <1>r, <1>t
    <3> QED
      BY <3>2, <2>2, <1>k
  <2>s. SumOf(g, MaxWord) = SumOf(f, MaxWord) + g[h] - f[h]
    <3>1. h \in Handles /\ IsFiniteSet(Handles) /\ MaxWord \in Nat
      BY QuotaAssumption
    <3> QED
      BY ONLY <3>1, <2>o, <2>1, SumOfUpdate
  <2>v. f[h] \in Nat /\ rem[t] \in Nat /\ budget[t] \in Int
    BY <2>1, <1>t
  <2>5. CASE t = s
    <3>1. f[h] = rem[h]
      BY <2>5, <2>2 DEF s
    <3>2. budget'[t] = budget[t] - (rem[h] - back) /\ rem'[t] = rem[t] + back
      BY <2>5, <1>b, <1>r
    <3>3. rem'[t] + SumOf(g, MaxWord) = budget'[t]
      BY ONLY <3>1, <3>2, <2>s, <2>h, <2>n, <2>v, <2>3, back \in Nat, back <= rem[h]
    <3> QED
      BY <3>3 DEF g
  <2>6. CASE t # s /\ t # h
    <3>0. f[h] = 0
      BY <2>6, <2>2 DEF s
    <3>1. budget'[t] = budget[t] /\ rem'[t] = rem[t]
      BY <2>6, <1>t, <1>b, <1>r
    <3>2. rem'[t] + SumOf(g, MaxWord) = budget'[t]
      BY ONLY <3>0, <3>1, <2>s, <2>h, <2>n, <2>v, <2>3
    <3> QED
      BY <3>2 DEF g
  <2> QED
    BY <2>4, <2>5, <2>6
<1> QED
  BY <1>1, <1>2, <1>3, <1>4, <1>5 DEF IInv
-----------------------------------------------------------------------------
(* Steps that leave the reservations in place. *)

\* Only calls, or the kind of one handle between lease and offering, unit
\* and loose, or shared and running, changes.
LEMMA RekindStep ==
  ASSUME IInv, NEW h \in Handles, NEW k \in Kinds,
         kind' = [kind EXCEPT ![h] = k],
         \/ kind[h] = "unit" /\ k = "loose"
         \/ kind[h] = "lease" /\ k = "offering" /\ rem[h] # 0
         \/ kind[h] = "shared" /\ k = "running" /\ Childless(h),
         calls' \in Seq(Handles), UNCHANGED <<rem, source, budget, total, spent>>
  PROVE  IInv'
<1>t. /\ kind \in [Handles -> Kinds] /\ rem \in [Accounts -> Word]
      /\ source \in [Handles -> Accounts] /\ Handles \subseteq Accounts
  BY DEF IInv, TypeOK, Accounts
<1>k. kind'[h] = k /\ \A c \in Handles \ {h} : kind'[c] = kind[c]
  BY <1>t
<1>1. TypeOK'
  <2>1. kind' \in [Handles -> Kinds]
    BY <1>t
  <2> QED
    BY <2>1 DEF IInv, TypeOK
<1>2. HandlesAreSane'
  <2> SUFFICES ASSUME NEW c \in Handles
               PROVE  /\ kind'[c] = "free" => rem[c] = 0 /\ source[c] = Root
                      /\ kind'[c] \in {"unit", "loose", "admitting"} => rem[c] = 1
                      /\ source[c] # Root => /\ kind'[c] \in {"lease", "offering"}
                                             /\ kind'[source[c]] = "shared"
    BY DEF HandlesAreSane
  <2>0. /\ kind[c] = "free" => rem[c] = 0 /\ source[c] = Root
        /\ kind[c] \in {"unit", "loose", "admitting"} => rem[c] = 1
        /\ source[c] # Root => /\ kind[c] \in {"lease", "offering"}
                               /\ kind[source[c]] = "shared"
    BY DEF IInv, HandlesAreSane
  <2>1. source[c] # Root => source[c] \in Handles /\ source[c] # h
    <3>1. source[c] # Root => source[c] \in Handles
      BY <1>t DEF Accounts
    <3>2. source[c] # Root => source[c] # h
      BY <2>0 DEF Childless
    <3> QED
      BY <3>1, <3>2
  <2>2. source[c] # Root => kind'[source[c]] = "shared"
    BY <2>0, <2>1, <1>k
  <2>3. CASE c = h
    BY <2>0, <2>2, <2>3, <1>k
  <2>4. CASE c # h
    BY <2>0, <2>2, <2>4, <1>k
  <2> QED
    BY <2>3, <2>4
<1>3. CallsAreBacked'
  <2> SUFFICES ASSUME NEW c \in Handles, kind'[c] \in {"admitting", "offering"}
               PROVE  rem[c] >= 1
    BY DEF CallsAreBacked
  <2>1. CASE c = h
    <3>1. rem[h] # 0 /\ rem[h] \in Nat
      BY <2>1, <1>k, <1>t DEF Word
    <3> QED
      BY <3>1, <2>1
  <2>2. CASE c # h
    BY <2>2, <1>k DEF IInv, CallsAreBacked
  <2> QED
    BY <2>1, <2>2
<1>4. Conserved'
  BY DEF IInv, Conserved
<1>5. ReservationsAreClosed'
  <2>1. \A t \in Handles : LentBy(t)' = LentBy(t)
    BY DEF LentBy
  <2> QED
    BY <2>1 DEF IInv, ReservationsAreClosed
<1> QED
  BY <1>1, <1>2, <1>3, <1>4, <1>5 DEF IInv

\* An offer returns: the lease gives up one unit, or none.
LEMMA OfferStep ==
  ASSUME IInv, NEW h \in Handles, kind[h] = "offering", NEW n \in 0..1,
         kind' = [kind EXCEPT ![h] = "lease"],
         rem' = [rem EXCEPT ![h] = @ - n],
         spent' = spent + n, budget' = Charged(h, n),
         calls' \in Seq(Handles), UNCHANGED <<source, total>>
  PROVE  IInv'
<1>t. /\ rem \in [Accounts -> 0..MaxWord] /\ kind \in [Handles -> Kinds]
      /\ source \in [Handles -> Accounts] /\ budget \in [Handles -> Int]
      /\ spent \in Nat /\ h \in Accounts /\ Handles \subseteq Accounts
  BY DEF IInv, TypeOK, Word, Accounts
<1>k. kind'[h] = "lease" /\ \A c \in Handles \ {h} : kind'[c] = kind[c]
  BY <1>t
<1>n. rem[h] >= 1 /\ rem[h] \in 0..MaxWord /\ rem[h] - n \in 0..MaxWord
  <2>1. rem[h] >= 1 /\ rem[h] \in 0..MaxWord
    BY <1>t DEF IInv, CallsAreBacked
  <2> QED
    BY <2>1, AccountsFinite
<1>r. /\ rem' \in [Accounts -> 0..MaxWord] /\ rem'[h] = rem[h] - n
      /\ \A z \in Accounts \ {h} : rem'[z] = rem[z]
  BY <1>t, <1>n
<1>b. /\ budget' \in [Handles -> Int]
      /\ \A c \in Handles : budget'[c] = IF c \in {h, source[h]} THEN budget[c] - n
                                       ELSE budget[c]
  BY <1>t DEF Charged
<1>1. TypeOK'
  <2>1. kind' \in [Handles -> Kinds]
    BY <1>t DEF Kinds
  <2>2. spent' \in Nat
    BY <1>t
  <2> QED
    BY <2>1, <2>2, <1>r, <1>b DEF IInv, TypeOK, Word
<1>2. HandlesAreSane'
  <2> SUFFICES ASSUME NEW c \in Handles
               PROVE  /\ kind'[c] = "free" => rem'[c] = 0 /\ source[c] = Root
                      /\ kind'[c] \in {"unit", "loose", "admitting"} => rem'[c] = 1
                      /\ source[c] # Root => /\ kind'[c] \in {"lease", "offering"}
                                             /\ kind'[source[c]] = "shared"
    BY DEF HandlesAreSane
  <2>0. /\ kind[c] = "free" => rem[c] = 0 /\ source[c] = Root
        /\ kind[c] \in {"unit", "loose", "admitting"} => rem[c] = 1
        /\ source[c] # Root => /\ kind[c] \in {"lease", "offering"}
                               /\ kind[source[c]] = "shared"
    BY DEF IInv, HandlesAreSane
  <2>1. source[c] # Root => source[c] \in Handles \ {h}
    BY <2>0, <1>t DEF Accounts
  <2>2. source[c] # Root => kind'[source[c]] = "shared"
    BY <2>0, <2>1, <1>k
  <2>3. CASE c = h
    BY <2>0, <2>2, <2>3, <1>k
  <2>4. CASE c # h
    <3>1. rem'[c] = rem[c]
      BY <2>4, <1>r, <1>t
    <3> QED
      BY <2>0, <2>2, <2>4, <3>1, <1>k
  <2> QED
    BY <2>3, <2>4
<1>3. CallsAreBacked'
  <2> SUFFICES ASSUME NEW c \in Handles, kind'[c] \in {"admitting", "offering"}
               PROVE  rem'[c] >= 1
    BY DEF CallsAreBacked
  <2>1. c # h
    BY <1>k
  <2>2. rem'[c] = rem[c] /\ kind'[c] = kind[c]
    BY <2>1, <1>r, <1>t, <1>k
  <2>3. rem[c] >= 1
    BY <2>2 DEF IInv, CallsAreBacked
  <2> QED
    BY <2>2, <2>3
<1>4. Conserved'
  <2>1. SumOf(rem', MaxWord) = SumOf(rem, MaxWord) + rem'[h] - rem[h]
    <3>1. rem \in [Accounts -> 0..MaxWord] /\ rem' \in [Accounts -> 0..MaxWord]
          /\ h \in Accounts /\ \A z \in Accounts \ {h} : rem'[z] = rem[z]
      BY <1>t, <1>r
    <3> QED
      BY ONLY <3>1, SumOfUpdate, AccountsFinite
  <2>2. SumOf(rem, MaxWord) \in Nat
    BY <1>t, UnitsFinite, AccountsFinite
  <2>3. SumOf(rem', MaxWord) + spent' = SumOf(rem, MaxWord) + spent
    <3>1. rem'[h] = rem[h] - n /\ rem[h] \in Int /\ n \in Int /\ spent \in Int
      BY <1>r, <1>n, <1>t, AccountsFinite
    <3> QED
      BY ONLY <2>1, <2>2, <3>1, spent' = spent + n
  <2> QED
    BY <2>3 DEF IInv, Conserved
<1>5. ReservationsAreClosed'
  <2> SUFFICES ASSUME NEW t \in Handles
               PROVE  rem'[t] + SumOf(LentBy(t)', MaxWord) = budget'[t]
    BY DEF ReservationsAreClosed
  <2> DEFINE f == LentBy(t)
             g == LentBy(t)'
  <2>1. f \in [Handles -> 0..MaxWord] /\ g \in [Handles -> 0..MaxWord]
    <3>1. f \in [Handles -> 0..MaxWord]
      BY LentType DEF IInv
    <3>2. g \in [Handles -> 0..MaxWord]
      BY <1>1, QuotaAssumption DEF TypeOK, LentBy, Word, Accounts
    <3> QED
      BY <3>1, <3>2
  <2>2. /\ \A c \in Handles : f[c] = IF source[c] = t THEN rem[c] ELSE 0
        /\ \A c \in Handles : g[c] = IF source[c] = t THEN rem'[c] ELSE 0
    BY DEF LentBy
  <2>3. rem[t] + SumOf(f, MaxWord) = budget[t]
    BY DEF IInv, ReservationsAreClosed
  <2> HIDE DEF f, g
  <2>4. \A c \in Handles \ {h} : g[c] = f[c]
    BY <2>2, <1>r, <1>t
  <2>5. SumOf(g, MaxWord) = SumOf(f, MaxWord) + g[h] - f[h]
    <3>1. h \in Handles /\ IsFiniteSet(Handles) /\ MaxWord \in Nat
      BY QuotaAssumption
    <3> QED
      BY ONLY <3>1, <2>4, <2>1, SumOfUpdate
  <2>6. SumOf(f, MaxWord) \in Nat /\ f[h] \in Nat /\ g[h] \in Nat
    BY <2>1, UnitsFinite, QuotaAssumption
  <2>7. source[h] # h
    BY QuotaAssumption DEF IInv, HandlesAreSane
  <2>8. n \in Int /\ rem[t] \in Int /\ rem[h] \in Int /\ budget[t] \in Int
    BY <1>t, AccountsFinite
  <2>9. rem'[t] + SumOf(g, MaxWord) = budget'[t]
    <3>1. CASE t = h
      <4>1. f[h] = 0 /\ g[h] = 0
        BY <3>1, <2>2, <2>7
      <4>2. rem'[t] = rem[t] - n /\ budget'[t] = budget[t] - n
        BY <3>1, <1>r, <1>b
      <4> QED
        BY ONLY <4>1, <4>2, <2>3, <2>5, <2>6, <2>8
    <3>2. CASE t # h /\ t = source[h]
      <4>0. f[h] = rem[h] /\ g[h] = rem[h] - n
        BY <3>2, <2>2, <1>r
      <4>1. g[h] - f[h] = 0 - n
        BY ONLY <4>0, <2>8
      <4>2. rem'[t] = rem[t] /\ budget'[t] = budget[t] - n
        BY <3>2, <1>r, <1>b, <1>t
      <4> QED
        BY ONLY <4>1, <4>2, <2>3, <2>5, <2>6, <2>8
    <3>3. CASE t # h /\ t # source[h]
      <4>1. f[h] = 0 /\ g[h] = 0
        BY <3>3, <2>2
      <4>2. rem'[t] = rem[t] /\ budget'[t] = budget[t]
        BY <3>3, <1>r, <1>b, <1>t
      <4> QED
        BY ONLY <4>1, <4>2, <2>3, <2>5, <2>6, <2>8
    <3> QED
      BY <3>1, <3>2, <3>3
  <2> QED
    BY <2>9 DEF g
<1> QED
  BY <1>1, <1>2, <1>3, <1>4, <1>5 DEF IInv

\* The ledger's counter and the two ghosts change, no reservation does.
LEMMA RootStep ==
  ASSUME IInv, NEW v \in Word, rem' = [rem EXCEPT ![Root] = v],
         total' \in Word, spent' \in Nat,
         SumOf(rem, MaxWord) + (v - rem[Root]) + spent' = total',
         UNCHANGED <<kind, source, budget, calls>>
  PROVE  IInv'
<1>t. /\ rem \in [Accounts -> 0..MaxWord] /\ v \in 0..MaxWord
      /\ Root \in Accounts /\ Root \notin Handles /\ Handles \subseteq Accounts
  BY QuotaAssumption DEF IInv, TypeOK, Word, Accounts
<1>r. /\ rem' \in [Accounts -> 0..MaxWord] /\ rem'[Root] = v
      /\ \A z \in Accounts \ {Root} : rem'[z] = rem[z]
      /\ \A c \in Handles : rem'[c] = rem[c]
  BY <1>t
<1>1. TypeOK'
  BY <1>r DEF IInv, TypeOK, Word
<1>2. HandlesAreSane' /\ CallsAreBacked'
  BY <1>r DEF IInv, HandlesAreSane, CallsAreBacked
<1>3. Conserved'
  <2>1. SumOf(rem', MaxWord) = SumOf(rem, MaxWord) + rem'[Root] - rem[Root]
    <3>1. rem \in [Accounts -> 0..MaxWord] /\ rem' \in [Accounts -> 0..MaxWord]
          /\ Root \in Accounts /\ \A z \in Accounts \ {Root} : rem'[z] = rem[z]
      BY <1>t, <1>r
    <3> QED
      BY ONLY <3>1, SumOfUpdate, AccountsFinite
  <2>2. SumOf(rem, MaxWord) \in Int /\ rem[Root] \in Int /\ v \in Int
    BY <1>t, UnitsFinite, AccountsFinite
  <2> QED
    BY <2>1, <2>2, <1>r DEF Conserved
<1>4. ReservationsAreClosed'
  <2>1. \A t \in Handles : LentBy(t)' = LentBy(t)
    BY <1>r DEF LentBy
  <2> QED
    BY <2>1, <1>r DEF IInv, ReservationsAreClosed
<1> QED
  BY <1>1, <1>2, <1>3, <1>4 DEF IInv

-----------------------------------------------------------------------------
(* The invariant. *)

\* A call pushes its handle, a return pops it.
LEMMA CallsType ==
  ASSUME TypeOK, NEW h \in Handles
  PROVE  /\ Enter(h) => calls' \in Seq(Handles)
         /\ Leave(h) => calls' \in Seq(Handles)
<1>1. calls \in Seq(Handles)
  BY DEF TypeOK
<1>2. <<h>> \o calls \in Seq(Handles)
  BY <1>1
<1>3. calls # << >> => Tail(calls) \in Seq(Handles)
  BY <1>1
<1> QED
  BY <1>2, <1>3 DEF Enter, Leave

LEMMA InitInv == Init => IInv
<1> SUFFICES ASSUME Init PROVE IInv
  OBVIOUS
<1>1. PICK left \in Starts :
        rem = [x \in Accounts |-> IF x = Root THEN left ELSE 0] /\ total = left
  BY DEF Init
<1>t. left \in 0..MaxWord /\ Root \in Accounts /\ Root \notin Handles
      /\ Handles \subseteq Accounts
  BY QuotaAssumption DEF Word, Accounts
<1>r. /\ rem \in [Accounts -> 0..MaxWord] /\ rem[Root] = left
      /\ \A c \in Accounts \ {Root} : rem[c] = 0
      /\ \A h \in Handles : rem[h] = 0
  BY <1>1, <1>t, AccountsFinite
<1>i. /\ kind = [h \in Handles |-> "free"] /\ source = [h \in Handles |-> Root]
      /\ budget = [h \in Handles |-> 0] /\ calls = << >> /\ spent = 0
  BY DEF Init
<1>2. TypeOK
  BY <1>1, <1>t, <1>r, <1>i, AccountsFinite DEF TypeOK, Kinds, Word
<1>z. \A h \in Handles : kind[h] = "free" /\ source[h] = Root /\ budget[h] = 0
  BY <1>i
<1>y. \A h \in Handles : rem[h] = 0
  BY <1>r
<1>3. HandlesAreSane /\ CallsAreBacked
  BY ONLY <1>y, <1>z DEF HandlesAreSane, CallsAreBacked
<1>4. Conserved
  <2> DEFINE z == [x \in Accounts |-> 0]
  <2>1. z \in [Accounts -> 0..MaxWord] /\ \A x \in Accounts : z[x] = 0
    BY AccountsFinite
  <2> HIDE DEF z
  <2>2. SumOf(z, MaxWord) = 0
    BY <2>1, SumOfZero, AccountsFinite
  <2>3. SumOf(rem, MaxWord) = SumOf(z, MaxWord) + rem[Root] - z[Root]
    BY <2>1, <1>r, <1>t, SumOfUpdate, AccountsFinite, SMTT(60)
  <2> QED
    BY <2>1, <2>2, <2>3, <1>1, <1>r, <1>i, <1>t DEF Conserved
<1>5. ReservationsAreClosed
  <2> SUFFICES ASSUME NEW t \in Handles
               PROVE  rem[t] + SumOf(LentBy(t), MaxWord) = budget[t]
    BY DEF ReservationsAreClosed
  <2>1. LentBy(t) \in [Handles -> 0..MaxWord]
    BY <1>2, LentType
  <2>2. \A c \in Handles : LentBy(t)[c] = 0
    BY ONLY <1>y DEF LentBy
  <2>3. SumOf(LentBy(t), MaxWord) = 0
    BY <2>1, <2>2, SumOfZero, QuotaAssumption
  <2> QED
    BY ONLY <2>3, <1>y, <1>z, t \in Handles
<1> QED
  BY <1>2, <1>3, <1>4, <1>5 DEF IInv

LEMMA NextInv == IInv /\ [Next]_vars => IInv'
<1> SUFFICES ASSUME IInv, [Next]_vars PROVE IInv'
  OBVIOUS
<1>t. /\ rem \in [Accounts -> 0..MaxWord] /\ total \in 0..MaxWord /\ spent \in Nat
      /\ kind \in [Handles -> Kinds] /\ calls \in Seq(Handles)
      /\ Root \in Accounts /\ Root \notin Handles /\ Handles \subseteq Accounts
      /\ MaxWord \in Nat /\ TypeOK
  BY QuotaAssumption DEF IInv, TypeOK, Word, Accounts
<1>w. /\ \A x \in Accounts : rem[x] \in Nat
      /\ \A n \in Sizes : n \in Nat
      /\ SumOf(rem, MaxWord) \in Nat /\ SumOf(rem, MaxWord) + spent = total
  BY <1>t, UnitsFinite, AccountsFinite, QuotaAssumption DEF Word, IInv, Conserved
<1>1. CASE Take
  <2>1. rem[Root] >= 1 /\ rem[Root] - 1 \in Word
    BY <1>1, <1>t, <1>w DEF Take, Affords, Word
  <2>2. /\ rem' = [rem EXCEPT ![Root] = rem[Root] - 1] /\ spent' = spent + 1
        /\ total' = total /\ UNCHANGED <<kind, source, budget, calls>>
    BY <1>1 DEF Take
  <2>3. SumOf(rem, MaxWord) + ((rem[Root] - 1) - rem[Root]) + spent' = total'
    BY <2>2, <1>w, <1>t
  <2>4. total' \in Word /\ spent' \in Nat
    BY <2>2, <1>t DEF Word
  <2> QED
    BY <2>1, <2>2, <2>3, <2>4, RootStep
<1>2. ASSUME NEW h \in Handles, Open(h) PROVE IInv'
  BY <1>2, <1>t, <1>w, DrawStep DEF Open, Affords, Kinds
<1>3. ASSUME NEW h \in Handles, IntoParts(h) PROVE IInv'
  BY <1>3, <1>t, RekindStep DEF IntoParts, Kinds
<1>4. ASSUME NEW h \in Handles, ReturnItem(h) PROVE IInv'
  <2>1. rem[h] = 1 /\ kind[h] # "free" /\ Childless(h)
    BY <1>4, QuotaAssumption DEF ReturnItem, IInv, HandlesAreSane, Childless
  <2> QED
    BY <2>1, <1>4, <1>t, SettleStep DEF ReturnItem
<1>5. ASSUME NEW h \in Handles, Consume(h) PROVE IInv'
  <2>1. rem[h] = 1 /\ kind[h] # "free" /\ Childless(h)
    BY <1>5, QuotaAssumption DEF Consume, IInv, HandlesAreSane, Childless
  <2> QED
    BY <2>1, <1>5, <1>t, SettleStep DEF Consume
<1>6. ASSUME NEW h \in Handles, BeginAdmit(h) PROVE IInv'
  <2>1. calls' \in Seq(Handles)
    BY <1>6, <1>t, CallsType DEF BeginAdmit
  <2> QED
    BY <2>1, <1>6, <1>t, <1>w, DrawStep DEF BeginAdmit, Affords, Kinds
<1>7. ASSUME NEW h \in Handles, NEW item \in BOOLEAN, EndAdmit(h, item) PROVE IInv'
  <2>1. calls' \in Seq(Handles)
    BY <1>7, <1>t, CallsType DEF EndAdmit
  <2>2. rem[h] = 1 /\ kind[h] # "free" /\ Childless(h)
    BY <1>7, QuotaAssumption DEF EndAdmit, IInv, HandlesAreSane, Childless
  <2>3. CASE item
    BY <2>1, <2>2, <2>3, <1>7, SettleStep DEF EndAdmit
  <2>4. CASE ~item
    BY <2>1, <2>2, <2>4, <1>7, SettleStep DEF EndAdmit
  <2> QED
    BY <2>3, <2>4
<1>8. ASSUME NEW h \in Handles, NEW n \in Sizes, ReserveShared(h, n) PROVE IInv'
  BY <1>8, <1>t, <1>w, DrawStep DEF ReserveShared, Affords, Kinds
<1>9. ASSUME NEW h \in Handles, NEW limit \in Sizes, ReserveSharedUp(h, limit) PROVE IInv'
  <2>1. Least(rem[Root], limit) \in Nat /\ Least(rem[Root], limit) <= rem[Root]
    BY <1>t, <1>w DEF Least
  <2> QED
    BY <2>1, <1>9, <1>t, DrawStep DEF ReserveSharedUp, Kinds
<1>10. ASSUME NEW h \in Handles, NEW s \in Accounts, NEW limit \in Sizes,
              LeaseUpTo(h, s, limit)
       PROVE  IInv'
  <2>1. Least(rem[s], limit) \in Nat /\ Least(rem[s], limit) <= rem[s]
    BY <1>w DEF Least
  <2>2. s # h /\ (s # Root => kind[s] = "shared")
    BY <1>10, <1>t DEF LeaseUpTo, Draw
  <2> QED
    BY <2>1, <2>2, <1>10, <1>t, DrawStep DEF LeaseUpTo, Kinds
<1>11. ASSUME NEW h \in Handles, BeginOffer(h) PROVE IInv'
  <2>1. calls' \in Seq(Handles)
    BY <1>11, <1>t, CallsType DEF BeginOffer
  <2> QED
    BY <2>1, <1>11, RekindStep DEF BeginOffer, Kinds
<1>12. ASSUME NEW h \in Handles, NEW item \in BOOLEAN, EndOffer(h, item) PROVE IInv'
  <2>1. calls' \in Seq(Handles)
    BY <1>12, <1>t, CallsType DEF EndOffer
  <2>2. kind[h] = "offering" /\ kind' = [kind EXCEPT ![h] = "lease"]
        /\ UNCHANGED <<source, total>>
    BY <1>12 DEF EndOffer
  <2>3. CASE item
    <3>1. /\ rem' = [rem EXCEPT ![h] = @ - 1] /\ spent' = spent + 1
          /\ budget' = Charged(h, 1)
      BY <1>12, <2>3 DEF EndOffer
    <3> QED
      BY <2>1, <2>2, <3>1, 1 \in 0..1, OfferStep
  <2>4. CASE ~item
    <3>0. rem' = [rem EXCEPT ![h] = rem[h]] /\ spent' = spent /\ budget' = budget
      BY <1>12, <2>4 DEF EndOffer
    <3>3. Charged(h, 0) = budget
      BY DEF Charged, IInv, TypeOK
    <3>2. rem[h] - 0 = rem[h] /\ spent + 0 = spent
      BY <1>t, <1>w
    <3>1. /\ rem' = [rem EXCEPT ![h] = @ - 0] /\ spent' = spent + 0
          /\ budget' = Charged(h, 0)
      BY <3>0, <3>2, <3>3
    <3> QED
      BY <2>1, <2>2, <3>1, 0 \in 0..1, OfferStep
  <2> QED
    BY <2>3, <2>4
<1>13. ASSUME NEW h \in Handles, DropReservation(h) PROVE IInv'
  <2>1. rem[h] \in Nat /\ rem[h] <= rem[h] /\ kind[h] # "free"
    BY <1>13, <1>w, <1>t DEF DropReservation
  <2> QED
    BY <2>1, <1>13, <1>t, SettleStep DEF DropReservation
<1>14. ASSUME NEW h \in Handles, BeginWith(h) PROVE IInv'
  <2>1. calls' \in Seq(Handles)
    BY <1>14, <1>t, CallsType DEF BeginWith
  <2> QED
    BY <2>1, <1>14, RekindStep DEF BeginWith, Kinds
<1>15. ASSUME NEW h \in Handles, NEW unused \in Word, EndWith(h, unused) PROVE IInv'
  <2>1. calls' \in Seq(Handles)
    BY <1>15, <1>t, CallsType DEF EndWith
  <2>2. unused \in Nat /\ unused <= rem[h] /\ kind[h] = "running"
    BY <1>15 DEF EndWith, Word
  <2>3. Childless(h)
    BY <2>2, QuotaAssumption DEF IInv, HandlesAreSane, Childless
  <2> QED
    BY <2>1, <2>2, <2>3, <1>15, SettleStep DEF EndWith
<1>16. ASSUME NEW h \in Handles, Forget(h) PROVE IInv'
  <2>1. kind[h] # "free" /\ Childless(h) /\ 0 <= rem[h]
    BY <1>16, <1>t, <1>w DEF Forget
  <2> QED
    BY <2>1, <1>16, <1>t, SettleStep DEF Forget
<1>17. ASSUME NEW left \in Starts, Reset(left) PROVE IInv'
  <2>1. /\ \A h \in Handles : kind[h] = "free"
        /\ rem' = [rem EXCEPT ![Root] = left] /\ total' = left /\ spent' = 0
        /\ UNCHANGED <<kind, source, budget, calls>>
    BY <1>17 DEF Reset
  <2>2. \A h \in Handles : rem[h] = 0
    BY <2>1 DEF IInv, HandlesAreSane
  <2> DEFINE z == [x \in Accounts |-> 0]
  <2>3. z \in [Accounts -> 0..MaxWord] /\ \A x \in Accounts : z[x] = 0
    BY AccountsFinite
  <2> HIDE DEF z
  <2>4. SumOf(z, MaxWord) = 0
    BY <2>3, SumOfZero, AccountsFinite
  <2>5. \A x \in Accounts \ {Root} : rem[x] = z[x]
    BY <2>2, <2>3 DEF Accounts
  <2>6. SumOf(rem, MaxWord) = SumOf(z, MaxWord) + rem[Root] - z[Root]
    <3>1. rem \in [Accounts -> 0..MaxWord] /\ Root \in Accounts
      BY <1>t
    <3> QED
      BY ONLY <3>1, <2>3, <2>5, SumOfUpdate, AccountsFinite
  <2>7. left \in Word /\ left \in Nat
    BY QuotaAssumption DEF Word
  <2>8. SumOf(rem, MaxWord) + (left - rem[Root]) + spent' = total'
    BY <2>1, <2>3, <2>4, <2>6, <2>7, <1>w, <1>t
  <2> QED
    BY <2>1, <2>7, <2>8, RootStep
<1>18. CASE UNCHANGED vars
  <2>1. \A t \in Handles : LentBy(t)' = LentBy(t)
    BY <1>18 DEF vars, LentBy
  <2> QED
    BY <2>1, <1>18 DEF vars, IInv, TypeOK, HandlesAreSane, CallsAreBacked, Conserved,
                       ReservationsAreClosed
<1> QED
  BY <1>1, <1>2, <1>3, <1>4, <1>5, <1>6, <1>7, <1>8, <1>9, <1>10, <1>11, <1>12, <1>13,
     <1>14, <1>15, <1>16, <1>17, <1>18 DEF Next

\* The strengthened invariant holds in every reachable state of the quota code.
THEOREM QuotaInductive == Spec => []IInv
BY InitInv, NextInv, PTL DEF Spec

\* Units are conserved through every nesting of callbacks and every refund
\* (Drop for Lease, Shared and Return), so no wrapping_add in refund wraps.
THEOREM QuotaIsConserved == Spec => []Conserved
<1>1. IInv => Conserved
  BY DEF IInv
<1> QED
  BY <1>1, QuotaInductive, PTL

\* A Shared reservation and its child leases never hold more than it was given.
THEOREM ReservationsStayClosed == Spec => []ReservationsAreClosed
<1>1. IInv => ReservationsAreClosed
  BY DEF IInv
<1> QED
  BY <1>1, QuotaInductive, PTL

\* Whatever a callback of admit_with does, its unit is still in hand when it
\* returns.
THEOREM CallsStayBacked == Spec => []CallsAreBacked
<1>1. IInv => CallsAreBacked
  BY DEF IInv
<1> QED
  BY <1>1, QuotaInductive, PTL
=============================================================================
