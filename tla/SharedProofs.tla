----------------------------- MODULE SharedProofs -----------------------------
(***************************************************************************)
(* Facts that the theorems about several modules cite: sums over paths,    *)
(* the levels of JSON values and the places in them, orders and what they  *)
(* put in a row, and lists that are put together from smaller ones.  What  *)
(* is defined by recursion is a recursive function; each step of an        *)
(* induction on it is an appeal to the least number at which it fails.     *)
(***************************************************************************)
EXTENDS RepositoryPaths, Json, SequenceTheorems, FiniteSetTheorems,
        WellFoundedInduction, TLAPS

(***************************************************************************)
(* The proofs by induction rest on one fact about numbers: to show that    *)
(* something holds of all of them, look at the least at which it does not. *)
(***************************************************************************)

\* A set of numbers that is not empty has a least one.
LEMMA Least ==
    ASSUME NEW S \in SUBSET Nat, S # {}
    PROVE  \E n \in S : \A m \in S : n <= m
<1> DEFINE R == {s \in Nat \X Nat : s[1] < s[2]}
<1>1. R = OpToRel(<, Nat)
  BY DEF OpToRel
<1>2. IsWellFoundedOn(R, Nat)
  BY <1>1, NatLessThanWellFounded
<1>3. PICK n \in S : \A m \in S : ~ (<<m, n>> \in R)
  BY <1>2, WFMin
<1>4. SUFFICES ASSUME NEW m \in S PROVE n <= m
  OBVIOUS
<1>5. m \in Nat /\ n \in Nat /\ ~ (<<m, n>> \in R)
  BY <1>3
<1>. QED
  BY <1>5

\* A set of paths that is not empty has one that sorts before the others.
LEMMA FirstExists ==
    ASSUME NEW P \in SUBSET Paths, P # {}
    PROVE  \E p \in P : \A q \in P : Order[p] <= Order[q]
<1> DEFINE S == {Order[p] : p \in P}
<1>1. S \in SUBSET Nat /\ S # {}
  BY OrderAssumption
<1> HIDE DEF S
<1>2. PICK n \in S : \A m \in S : n <= m
  BY <1>1, Least
<1>. QED
  BY <1>2 DEF S

\* The prefixes of a path.
LEMMA PathFacts ==
    ASSUME NEW p \in Paths
    PROVE  /\ p \in Seq(Segments) /\ Len(p) \in Nat /\ Len(p) >= 1
           /\ \A n \in 1..Len(p) : /\ SubSeq(p, 1, n) \in Seq(Segments)
                                   /\ Len(SubSeq(p, 1, n)) = n
                                   /\ \A i \in 1..n : SubSeq(p, 1, n)[i] = p[i]
           /\ Ancestors(p) \subseteq Paths
<1>1. p \in Seq(Segments) /\ p # <<>> /\ Ancestors(p) \subseteq Paths
  BY PathsAssumption
<1>2. Len(p) \in Nat /\ Len(p) >= 1
  BY <1>1, EmptySeq
<1>3. ASSUME NEW n \in 1..Len(p)
      PROVE  /\ SubSeq(p, 1, n) \in Seq(Segments)
             /\ Len(SubSeq(p, 1, n)) = n
             /\ \A i \in 1..n : SubSeq(p, 1, n)[i] = p[i]
  <2>1. n \in Nat /\ n >= 1 /\ n <= Len(p)
    BY <1>2
  <2>2. \A i \in 1..n : p[i] \in Segments
    BY <1>1, <1>2, <2>1, ElementOfSeq
  <2>3. /\ SubSeq(p, 1, n) \in Seq(Segments)
        /\ Len(SubSeq(p, 1, n)) = IF 1 <= n THEN n - 1 + 1 ELSE 0
        /\ \A i \in 1..n - 1 + 1 : SubSeq(p, 1, n)[i] = p[1 + i - 1]
    BY <1>1, <2>1, <2>2, SubSeqProperties
  <2>4. n - 1 + 1 = n /\ \A i \in 1..n : 1 + i - 1 = i
    BY <2>1
  <2>. QED
    BY <2>1, <2>3, <2>4
<1>. QED
  BY <1>1, <1>2, <1>3

\* Two prefixes of one path: the shorter one is a prefix of the longer one.
LEMMA PrefixOfPrefix ==
    ASSUME NEW p \in Paths, NEW n \in 1..Len(p), NEW m \in 1..n
    PROVE  SubSeq(SubSeq(p, 1, n), 1, m) = SubSeq(p, 1, m)
<1> DEFINE q == SubSeq(p, 1, n)
           a == SubSeq(q, 1, m)
           b == SubSeq(p, 1, m)
<1>1. Len(p) \in Nat /\ n \in Nat /\ m \in Nat /\ m \in 1..Len(p) /\ m >= 1 /\ m <= n
  BY PathFacts
<1>2. /\ q \in Seq(Segments) /\ Len(q) = n /\ \A i \in 1..n : q[i] = p[i]
      /\ b \in Seq(Segments) /\ Len(b) = m /\ \A i \in 1..m : b[i] = p[i]
  BY <1>1, PathFacts
<1> HIDE DEF q, b
<1>3. \A i \in 1..m : q[i] \in Segments
  BY <1>1, <1>2, ElementOfSeq
<1>4. /\ a \in Seq(Segments)
      /\ Len(a) = IF 1 <= m THEN m - 1 + 1 ELSE 0
      /\ \A i \in 1..m - 1 + 1 : a[i] = q[1 + i - 1]
  BY <1>1, <1>2, <1>3, SubSeqProperties
<1> HIDE DEF a
<1>5. Len(a) = m /\ \A i \in 1..m : a[i] = p[i]
  <2>1. m - 1 + 1 = m /\ \A i \in 1..m : 1 + i - 1 = i /\ i \in 1..n
    BY <1>1
  <2>. QED
    BY <1>1, <1>2, <1>4, <2>1
<1>6. a = b
  BY <1>2, <1>4, <1>5, SeqEqual
<1>. QED
  BY <1>6 DEF a, b, q

\* An ancestor of an ancestor is an ancestor.
LEMMA AncestorsOfAncestor ==
    ASSUME NEW p \in Paths, NEW q \in Ancestors(p)
    PROVE  Ancestors(q) \subseteq Ancestors(p)
<1>1. Len(p) \in Nat
  BY PathFacts
<1>2. PICK n \in 1..Len(p) - 1 : q = SubSeq(p, 1, n)
  BY DEF Ancestors
<1>3. n \in 1..Len(p) /\ n \in Nat
  BY <1>1
<1>4. Len(q) = n
  BY <1>2, <1>3, PathFacts
<1>5. \A m \in 1..Len(q) - 1 : m \in 1..n /\ m \in 1..Len(p) - 1
  BY <1>1, <1>3, <1>4
<1>6. \A m \in 1..Len(q) - 1 : SubSeq(q, 1, m) = SubSeq(p, 1, m)
  BY <1>2, <1>3, <1>5, PrefixOfPrefix
<1>. QED
  BY <1>5, <1>6 DEF Ancestors

\* The ancestors of a portable path are portable.
LEMMA PortableAncestors ==
    ASSUME NEW p \in Paths, Portable(p), NEW q \in Ancestors(p)
    PROVE  Portable(q)
<1>1. PICK n \in 1..Len(p) - 1 : q = SubSeq(p, 1, n)
  BY DEF Ancestors
<1>2. n \in 1..Len(p) /\ \A i \in 1..n : i \in 1..Len(p)
  BY PathFacts
<1>3. Len(q) = n /\ \A i \in 1..n : q[i] = p[i]
  BY <1>1, <1>2, PathFacts
<1>. QED
  BY <1>2, <1>3 DEF Portable

-----------------------------------------------------------------------------

Measured == [path : Paths, size : Nat]

\* The function that adds up the first N sizes.
IsSum(list, N, g) ==
    g = [n \in 0..N |-> IF n = 0 THEN 0 ELSE g[n - 1] + list[n].size]

LEMMA SumStep ==
    ASSUME NEW list, NEW N \in Nat, NEW g, IsSum(list, N, g)
    PROVE  /\ g[0] = 0
           /\ \A n \in 1..N : g[n] = g[n - 1] + list[n].size
<1>1. \A n \in 0..N : g[n] = IF n = 0 THEN 0 ELSE g[n - 1] + list[n].size
  BY DEF IsSum
<1>2. 0 \in 0..N /\ \A n \in 1..N : n \in 0..N /\ n # 0
  OBVIOUS
<1>. QED
  BY <1>1, <1>2

LEMMA SumExists ==
    ASSUME NEW list \in Seq(Measured)
    PROVE  \A N \in 0..Len(list) : \E g : IsSum(list, N, g)
<1> DEFINE Bad == {N \in 0..Len(list) : ~\E g : IsSum(list, N, g)}
<1>1. Len(list) \in Nat
  OBVIOUS
<1>2. SUFFICES ASSUME Bad # {} PROVE FALSE
  OBVIOUS
<1>3. Bad \in SUBSET Nat
  BY <1>1
<1> HIDE DEF Bad
<1>4. PICK N \in Bad : \A m \in Bad : N <= m
  BY <1>2, <1>3, Least
<1>5. N \in 0..Len(list) /\ N \in Nat /\ ~\E g : IsSum(list, N, g)
  BY <1>1 DEF Bad
<1>6. CASE N = 0
  <2> DEFINE g == [n \in 0..0 |-> 0]
  <2>1. g = [n \in 0..0 |-> IF n = 0 THEN 0 ELSE g[n - 1] + list[n].size]
    OBVIOUS
  <2>2. IsSum(list, 0, g)
    BY <2>1 DEF IsSum
  <2>. QED
    BY <1>5, <1>6, <2>2
<1>7. CASE N # 0
  <2>1. N - 1 \in 0..Len(list) /\ N - 1 \notin Bad
    BY <1>1, <1>4, <1>5, <1>7
  <2>2. PICK h : IsSum(list, N - 1, h)
    BY <2>1 DEF Bad
  <2> DEFINE g == [n \in 0..N |-> IF n = N THEN h[N - 1] + list[N].size ELSE h[n]]
             f == [n \in 0..N |-> IF n = 0 THEN 0 ELSE g[n - 1] + list[n].size]
  <2>3. \A k \in 0..N - 1 : h[k] = IF k = 0 THEN 0 ELSE h[k - 1] + list[k].size
    BY <2>2 DEF IsSum
  <2>4. ASSUME NEW n \in 0..N PROVE f[n] = g[n]
    <3>1. CASE n = N
      BY <3>1, <1>5, <1>7
    <3>2. CASE n # N
      <4>1. n \in 0..N - 1 /\ g[n] = h[n]
        BY <3>2, <1>5
      <4>2. n # 0 => n - 1 \in 0..N /\ n - 1 # N
        BY <4>1, <1>5
      <4>. QED
        BY <2>3, <4>1, <4>2
    <3>. QED
      BY <3>1, <3>2
  <2>5. /\ DOMAIN g = 0..N /\ DOMAIN f = 0..N
        /\ g = [n \in DOMAIN g |-> g[n]] /\ f = [n \in DOMAIN f |-> f[n]]
    OBVIOUS
  <2> HIDE DEF f, g
  <2>6. f = g
    BY <2>4, <2>5
  <2>7. IsSum(list, N, g)
    BY <2>6 DEF f, IsSum
  <2>. QED
    BY <1>5, <2>7
<1>. QED
  BY <1>6, <1>7

\* TotalBytes is the last value of such a function.
LEMMA TotalIs ==
    ASSUME NEW list \in Seq(Measured)
    PROVE  \E g : IsSum(list, Len(list), g) /\ TotalBytes(list) = g[Len(list)]
<1> DEFINE t == CHOOSE g : IsSum(list, Len(list), g)
<1>1. Len(list) \in 0..Len(list)
  OBVIOUS
<1>2. IsSum(list, Len(list), t)
  BY <1>1, SumExists
<1>3. TotalBytes(list) = t[Len(list)]
  BY DEF TotalBytes, IsSum
<1>. QED
  BY <1>2, <1>3

\* Two lists that agree on their first N documents have one sum of them.
LEMMA SumAgrees ==
    ASSUME NEW list, NEW other, NEW M \in Nat, NEW N \in Nat, NEW K \in Nat, K <= M, K <= N,
           NEW g, IsSum(list, M, g), NEW h, IsSum(other, N, h),
           \A i \in 1..K : list[i] = other[i]
    PROVE  g[K] = h[K]
<1> DEFINE Bad == {n \in 0..K : g[n] # h[n]}
<1>1. SUFFICES ASSUME Bad # {} PROVE FALSE
  <2>1. K \in 0..K
    OBVIOUS
  <2>. QED
    BY <2>1
<1>2. Bad \in SUBSET Nat
  OBVIOUS
<1> HIDE DEF Bad
<1>3. PICK n \in Bad : \A m \in Bad : n <= m
  BY <1>1, <1>2, Least
<1>4. n \in 0..K /\ g[n] # h[n]
  BY DEF Bad
<1>5. g[0] = 0 /\ h[0] = 0
  BY SumStep
<1>6. n \in 1..K /\ n \in 1..M /\ n \in 1..N /\ n - 1 \in 0..K /\ n - 1 \notin Bad
  BY <1>3, <1>4, <1>5
<1>7. g[n - 1] = h[n - 1]
  BY <1>6 DEF Bad
<1>8. g[n] = g[n - 1] + list[n].size /\ h[n] = h[n - 1] + other[n].size
  BY <1>6, SumStep
<1>9. list[n] = other[n]
  BY <1>6
<1>. QED
  BY <1>4, <1>7, <1>8, <1>9

\* The sum of no sizes.
LEMMA TotalOfNone == TotalBytes(<<>>) = 0
<1>1. <<>> \in Seq(Measured) /\ Len(<<>>) = 0
  OBVIOUS
<1>2. PICK g : IsSum(<<>>, 0, g) /\ TotalBytes(<<>>) = g[0]
  BY <1>1, TotalIs
<1>. QED
  BY <1>2, SumStep

\* One more document adds its size.
LEMMA TotalOfAppend ==
    ASSUME NEW list \in Seq(Measured), NEW d \in Measured
    PROVE  TotalBytes(Append(list, d)) = TotalBytes(list) + d.size
<1> DEFINE more == Append(list, d)
           N    == Len(list)
<1>1. /\ more \in Seq(Measured) /\ Len(more) = N + 1 /\ N \in Nat
      /\ more[N + 1] = d /\ \A i \in 1..N : more[i] = list[i]
  BY AppendProperties
<1> HIDE DEF more, N
<1>2. PICK g : IsSum(list, N, g) /\ TotalBytes(list) = g[N]
  BY TotalIs DEF N
<1>3. PICK h : IsSum(more, N + 1, h) /\ TotalBytes(more) = h[N + 1]
  BY <1>1, TotalIs
<1>4. g[N] = h[N]
  BY <1>1, <1>2, <1>3, SumAgrees
<1>5. h[N + 1] = h[N] + d.size
  <2>1. N + 1 \in 1..(N + 1) /\ (N + 1) - 1 = N /\ N + 1 \in Nat
    BY <1>1
  <2>. QED
    BY <1>1, <1>3, <2>1, SumStep
<1>. QED
  BY <1>2, <1>3, <1>4, <1>5 DEF more

\* A sum of sizes is a natural number.
LEMMA SumIsNat ==
    ASSUME NEW list \in Seq(Measured), NEW g, IsSum(list, Len(list), g)
    PROVE  \A n \in 0..Len(list) : g[n] \in Nat
<1> DEFINE Bad == {n \in 0..Len(list) : g[n] \notin Nat}
<1>1. SUFFICES ASSUME Bad # {} PROVE FALSE
  OBVIOUS
<1>2. Len(list) \in Nat /\ Bad \in SUBSET Nat
  OBVIOUS
<1> HIDE DEF Bad
<1>3. PICK n \in Bad : \A m \in Bad : n <= m
  BY <1>1, <1>2, Least
<1>4. n \in 0..Len(list) /\ g[n] \notin Nat
  BY DEF Bad
<1>5. g[0] = 0
  BY <1>2, SumStep
<1>6. n \in 1..Len(list) /\ n - 1 \in 0..Len(list) /\ n - 1 \notin Bad
  BY <1>2, <1>3, <1>4, <1>5
<1>7. g[n - 1] \in Nat
  BY <1>6 DEF Bad
<1>8. list[n] \in Measured
  BY <1>6, ElementOfSeq
<1>9. list[n].size \in Nat
  BY <1>8 DEF Measured
<1>10. g[n] = g[n - 1] + list[n].size
  BY <1>2, <1>6, SumStep
<1>. QED
  BY <1>4, <1>7, <1>9, <1>10

LEMMA TotalIsNat ==
    ASSUME NEW list \in Seq(Measured)
    PROVE  TotalBytes(list) \in Nat
<1>1. PICK g : IsSum(list, Len(list), g) /\ TotalBytes(list) = g[Len(list)]
  BY TotalIs
<1>2. Len(list) \in 0..Len(list)
  OBVIOUS
<1>. QED
  BY <1>1, <1>2, SumIsNat

\* The same number added on both sides, between the terms of two sums.
LEMMA SameAddend ==
    ASSUME NEW a \in Nat, NEW b \in Nat, NEW c \in Nat, NEW d \in Nat, NEW e \in Nat,
           b + d = a + e
    PROVE  (b + c) + d = (a + c) + e
  OBVIOUS

\* Two lists that differ in one document have sums that differ as it does.
LEMMA TotalOfChange ==
    ASSUME NEW list \in Seq(Measured), NEW other \in Seq(Measured), Len(other) = Len(list),
           NEW k \in 1..Len(list), \A i \in 1..Len(list) : i # k => other[i] = list[i]
    PROVE  TotalBytes(other) + list[k].size = TotalBytes(list) + other[k].size
<1> DEFINE N == Len(list)
<1>1. N \in Nat
  OBVIOUS
<1>2. PICK g : IsSum(list, N, g) /\ TotalBytes(list) = g[N]
  BY TotalIs
<1>3. PICK h : IsSum(other, N, h) /\ TotalBytes(other) = h[N]
  BY TotalIs
<1>4. /\ \A n \in 0..N : g[n] \in Nat /\ h[n] \in Nat
      /\ \A n \in 1..N : list[n].size \in Nat /\ other[n].size \in Nat
  <2>1. \A n \in 1..N : list[n] \in Measured /\ other[n] \in Measured
    BY ElementOfSeq
  <2>. QED
    BY <1>2, <1>3, <2>1, SumIsNat DEF Measured
<1>5. \A n \in 1..N : g[n] = g[n - 1] + list[n].size /\ h[n] = h[n - 1] + other[n].size
  BY <1>1, <1>2, <1>3, SumStep
<1>6. k \in 1..N /\ \A i \in 1..N : i # k => other[i] = list[i]
  OBVIOUS
<1>7. h[k - 1] = g[k - 1]
  <2>1. k - 1 \in Nat /\ k - 1 <= N /\ \A i \in 1..k - 1 : i \in 1..N /\ i # k
    BY <1>1, <1>6
  <2>. QED
    BY <1>1, <1>2, <1>3, <1>6, <2>1, SumAgrees
<1> HIDE DEF N
<1> DEFINE Bad == {n \in k..N : ~(h[n] + list[k].size = g[n] + other[k].size)}
<1>8. SUFFICES ASSUME Bad # {} PROVE FALSE
  <2>1. N \in k..N
    BY <1>1, <1>6
  <2>. QED
    BY <1>2, <1>3, <2>1
<1>9. Bad \in SUBSET Nat
  BY <1>1, <1>6
<1> HIDE DEF Bad
<1>10. PICK n \in Bad : \A m \in Bad : n <= m
  BY <1>8, <1>9, Least
<1>11. n \in k..N /\ ~(h[n] + list[k].size = g[n] + other[k].size)
  BY DEF Bad
<1>12. n \in 1..N /\ n - 1 \in 0..N /\ k - 1 \in 0..N
  BY <1>1, <1>6, <1>11
<1>13. CASE n = k
  <2>1. g[k] = g[k - 1] + list[k].size /\ h[k] = g[k - 1] + other[k].size
    BY <1>5, <1>6, <1>7
  <2>2. g[k - 1] \in Nat /\ list[k].size \in Nat /\ other[k].size \in Nat
    BY <1>4, <1>6, <1>12
  <2>3. ~(h[k] + list[k].size = g[k] + other[k].size)
    BY <1>11, <1>13
  <2>. QED
    BY <2>1, <2>2, <2>3
<1>14. CASE n # k
  <2>1. n - 1 \in k..N /\ n - 1 \notin Bad
    BY <1>1, <1>6, <1>10, <1>11, <1>12, <1>14
  <2>2. h[n - 1] + list[k].size = g[n - 1] + other[k].size
    BY <2>1 DEF Bad
  <2>3. other[n] = list[n]
    BY <1>6, <1>12, <1>14
  <2>4. g[n] = g[n - 1] + list[n].size /\ h[n] = h[n - 1] + list[n].size
    BY <1>5, <1>12, <2>3
  <2>5. /\ g[n - 1] \in Nat /\ h[n - 1] \in Nat
        /\ list[n].size \in Nat /\ list[k].size \in Nat /\ other[k].size \in Nat
    BY <1>4, <1>6, <1>12
  <2> DEFINE a == g[n - 1]
             b == h[n - 1]
             c == list[n].size
             d == list[k].size
             e == other[k].size
  <2>6. (b + c) + d = (a + c) + e
    <3>1. b + d = a + e /\ a \in Nat /\ b \in Nat /\ c \in Nat /\ d \in Nat /\ e \in Nat
      BY <2>2, <2>5
    <3> HIDE DEF a, b, c, d, e
    <3>. QED
      BY <3>1, SameAddend
  <2>. QED
    BY <1>11, <2>4, <2>6
<1>. QED
  BY <1>13, <1>14

\* The sum of the first sizes is no more than the sum of all.
LEMMA TotalOfPrefix ==
    ASSUME NEW list \in Seq(Measured), NEW k \in 1..Len(list)
    PROVE  TotalBytes(SubSeq(list, 1, k)) <= TotalBytes(list)
<1> DEFINE N    == Len(list)
           part == SubSeq(list, 1, k)
<1>1. N \in Nat /\ k \in Nat /\ k <= N
  OBVIOUS
<1>2. part \in Seq(Measured) /\ Len(part) = k /\ \A i \in 1..k : part[i] = list[i]
  <2>1. \A i \in 1..k : list[i] \in Measured
    BY ElementOfSeq
  <2>. QED
    BY <1>1, <2>1, SubSeqProperties
<1>3. PICK g : IsSum(list, N, g) /\ TotalBytes(list) = g[N]
  BY TotalIs
<1>4. PICK h : IsSum(part, k, h) /\ TotalBytes(part) = h[k]
  BY <1>2, TotalIs
<1> HIDE DEF part
<1>5. h[k] = g[k]
  BY <1>1, <1>2, <1>3, <1>4, SumAgrees
<1>6. \A n \in 0..N : g[n] \in Nat
  BY <1>3, SumIsNat
<1>7. \A n \in 1..N : list[n].size \in Nat
  <2>1. \A n \in 1..N : list[n] \in Measured
    BY ElementOfSeq
  <2>. QED
    BY <2>1 DEF Measured
<1>8. \A n \in 1..N : g[n] = g[n - 1] + list[n].size
  BY <1>1, <1>3, SumStep
<1> HIDE DEF N
<1> DEFINE Bad == {n \in k..N : ~(g[k] <= g[n])}
<1>9. SUFFICES ASSUME Bad # {} PROVE FALSE
  <2>1. N \in k..N
    BY <1>1
  <2>. QED
    BY <1>3, <1>4, <1>5, <2>1 DEF part
<1>10. Bad \in SUBSET Nat
  BY <1>1
<1> HIDE DEF Bad
<1>11. PICK n \in Bad : \A m \in Bad : n <= m
  BY <1>9, <1>10, Least
<1>12. n \in k..N /\ ~(g[k] <= g[n])
  BY DEF Bad
<1>13. n # k /\ k \in 0..N
  BY <1>1, <1>6, <1>12
<1>14. n - 1 \in k..N /\ n \in 1..N /\ n - 1 \notin Bad /\ n - 1 \in 0..N
  BY <1>1, <1>11, <1>12, <1>13
<1>15. g[k] <= g[n - 1]
  BY <1>14 DEF Bad
<1>16. g[n] = g[n - 1] + list[n].size /\ g[n - 1] \in Nat /\ list[n].size \in Nat /\ g[k] \in Nat
  BY <1>6, <1>7, <1>8, <1>13, <1>14
<1>. QED
  BY <1>12, <1>15, <1>16

\* The documents at some places of a list, with nothing in the others.
Masked(list, S) ==
    [i \in 1..Len(list) |-> IF i \in S THEN list[i] ELSE [path |-> list[i].path, size |-> 0]]

LEMMA MaskedIs ==
    ASSUME NEW list \in Seq(Measured), NEW S
    PROVE  /\ Masked(list, S) \in Seq(Measured) /\ Len(Masked(list, S)) = Len(list)
           /\ \A i \in 1..Len(list) :
                 Masked(list, S)[i] = IF i \in S THEN list[i] ELSE [path |-> list[i].path, size |-> 0]
<1> DEFINE N == Len(list)
           m == Masked(list, S)
<1>1. N \in Nat
  OBVIOUS
<1>2. \A i \in 1..N : list[i] \in Measured
  BY ElementOfSeq
<1>3. m \in [1..N -> Measured]
  BY <1>2 DEF Masked, Measured
<1>4. m \in Seq(Measured) /\ Len(m) = N
  BY <1>1, <1>3
<1>. QED
  BY <1>4 DEF Masked

\* Nothing anywhere is nothing in all.
LEMMA TotalOfMaskedNone ==
    ASSUME NEW list \in Seq(Measured)
    PROVE  TotalBytes(Masked(list, {})) = 0
<1> DEFINE N == Len(list)
           m == Masked(list, {})
<1>1. N \in Nat
  OBVIOUS
<1>2. m \in Seq(Measured) /\ Len(m) = N /\ \A i \in 1..N : m[i].size = 0
  <2>1. \A i \in 1..N : m[i] = [path |-> list[i].path, size |-> 0]
    BY DEF Masked
  <2>2. m \in Seq(Measured) /\ Len(m) = N
    BY MaskedIs
  <2>3. ASSUME NEW i \in 1..N PROVE m[i].size = 0
    <3>1. m[i] = [path |-> list[i].path, size |-> 0]
      BY <2>1
    <3> HIDE DEF m
    <3>. QED
      BY <3>1
  <2>. QED
    BY <2>2, <2>3
<1> HIDE DEF m, N
<1>3. PICK g : IsSum(m, N, g) /\ TotalBytes(m) = g[N]
  BY <1>2, TotalIs
<1>4. g[0] = 0 /\ \A n \in 1..N : g[n] = g[n - 1] + m[n].size
  BY <1>1, <1>3, SumStep
<1> DEFINE Bad == {n \in 0..N : g[n] # 0}
<1>5. SUFFICES ASSUME Bad # {} PROVE FALSE
  <2>1. N \in 0..N
    BY <1>1
  <2>. QED
    BY <1>3, <2>1 DEF m
<1>6. Bad \in SUBSET Nat
  BY <1>1
<1> HIDE DEF Bad
<1>7. PICK n \in Bad : \A k \in Bad : n <= k
  BY <1>5, <1>6, Least
<1>8. n \in 0..N /\ g[n] # 0
  BY DEF Bad
<1>9. n \in 1..N /\ n - 1 \in 0..N /\ n - 1 \notin Bad
  BY <1>1, <1>4, <1>7, <1>8
<1>10. g[n - 1] = 0
  BY <1>9 DEF Bad
<1>. QED
  BY <1>2, <1>4, <1>8, <1>9, <1>10

\* One more place adds what is there.
LEMMA TotalOfMaskedMore ==
    ASSUME NEW list \in Seq(Measured), NEW S, NEW k \in 1..Len(list), k \notin S
    PROVE  TotalBytes(Masked(list, S \cup {k})) = TotalBytes(Masked(list, S)) + list[k].size
<1> DEFINE a == Masked(list, S)
           b == Masked(list, S \cup {k})
<1>1. /\ a \in Seq(Measured) /\ b \in Seq(Measured) /\ Len(a) = Len(list) /\ Len(b) = Len(a)
      /\ \A i \in 1..Len(list) : i # k => b[i] = a[i]
      /\ a[k].size = 0 /\ b[k] = list[k]
  <2>1. /\ a \in Seq(Measured) /\ b \in Seq(Measured) /\ Len(a) = Len(list) /\ Len(b) = Len(list)
    BY MaskedIs
  <2>2. a[k] = [path |-> list[k].path, size |-> 0]
    BY DEF Masked
  <2>3. b[k] = list[k]
    BY DEF Masked
  <2>4. \A i \in 1..Len(list) : i # k => b[i] = a[i]
    BY DEF Masked
  <2>5. a[k].size = 0
    BY <2>2
  <2>. QED
    BY <2>1, <2>3, <2>4, <2>5
<1>2. list[k].size \in Nat
  <2>1. list[k] \in Measured
    BY ElementOfSeq
  <2>. QED
    BY <2>1 DEF Measured
<1> HIDE DEF a, b
<1>3. TotalBytes(a) \in Nat /\ TotalBytes(b) \in Nat
  BY <1>1, TotalIsNat
<1>4. TotalBytes(b) + a[k].size = TotalBytes(a) + b[k].size
  BY <1>1, TotalOfChange
<1>5. TotalBytes(b) = TotalBytes(a) + list[k].size
  BY <1>1, <1>2, <1>3, <1>4
<1>. QED
  BY <1>5 DEF a, b

\* The order of the documents does not change the sum of their sizes.
LEMMA TotalOfRearranged ==
    ASSUME NEW list \in Seq(Measured), NEW p \in [1..Len(list) -> 1..Len(list)],
           \A i, j \in 1..Len(list) : p[i] = p[j] => i = j,
           \A k \in 1..Len(list) : \E i \in 1..Len(list) : p[i] = k
    PROVE  TotalBytes([i \in 1..Len(list) |-> list[p[i]]]) = TotalBytes(list)
<1> DEFINE N       == Len(list)
           q       == [i \in 1..N |-> list[p[i]]]
           part(n) == SubSeq(q, 1, n)
           used(n) == {p[i] : i \in 1..n}
<1>1. N \in Nat
  OBVIOUS
<1>2. \A i \in 1..N : p[i] \in 1..N /\ list[p[i]] \in Measured
  BY ElementOfSeq
<1>3. q \in [1..N -> Measured]
  BY <1>2
<1>4. q \in Seq(Measured) /\ Len(q) = N /\ \A i \in 1..N : q[i] = list[p[i]]
  <2>1. \A i \in 1..N : q[i] = list[p[i]]
    OBVIOUS
  <2> HIDE DEF q, N
  <2>. QED
    BY <1>1, <1>3, <2>1
<1> HIDE DEF q, N
<1>5. \A n \in 0..N : part(n) \in Seq(Measured) /\ Len(part(n)) = n /\ \A i \in 1..n : part(n)[i] = q[i]
  <2>1. ASSUME NEW n \in 0..N
        PROVE  part(n) \in Seq(Measured) /\ Len(part(n)) = n /\ \A i \in 1..n : part(n)[i] = q[i]
    <3>1. \A i \in 1..n : q[i] \in Measured
      BY <1>1, <1>4, ElementOfSeq
    <3>2. n \in Int /\ n >= 0
      BY <1>1
    <3>. QED
      BY <3>1, <3>2, SubSeqProperties
  <2>. QED
    BY <2>1
<1> DEFINE Bad == {n \in 0..N : TotalBytes(part(n)) # TotalBytes(Masked(list, used(n)))}
<1>6. SUFFICES ASSUME Bad # {} PROVE FALSE
  <2>1. N \in 0..N
    BY <1>1
  <2>2. TotalBytes(part(N)) = TotalBytes(Masked(list, used(N)))
    BY <1>6, <2>1
  <2>3. part(N) = q
    BY <1>4, SubSeqFull
  <2>4. used(N) = 1..N
    BY <1>2 DEF N
  <2>5. Masked(list, 1..N) = list
    <3>1. /\ Masked(list, 1..N) \in Seq(Measured) /\ Len(Masked(list, 1..N)) = Len(list)
          /\ \A i \in 1..Len(list) : Masked(list, 1..N)[i] = list[i]
      BY MaskedIs DEF N
    <3>. QED
      BY <3>1, SeqEqual
  <2>. QED
    BY <2>2, <2>3, <2>4, <2>5 DEF q, N
<1>7. Bad \in SUBSET Nat
  BY <1>1
<1> HIDE DEF Bad
<1>8. PICK n \in Bad : \A m \in Bad : n <= m
  BY <1>6, <1>7, Least
<1>9. n \in 0..N /\ TotalBytes(part(n)) # TotalBytes(Masked(list, used(n)))
  BY DEF Bad
<1>10. n # 0
  <2>1. ASSUME n = 0 PROVE FALSE
    <3>1. part(0) = <<>>
      BY SubSeqEmpty
    <3>2. used(0) = {}
      OBVIOUS
    <3>. QED
      BY <1>9, <2>1, <3>1, <3>2, TotalOfNone, TotalOfMaskedNone
  <2>. QED
    BY <2>1
<1>11. n \in 1..N /\ n - 1 \in 0..N /\ n - 1 \notin Bad
  BY <1>1, <1>8, <1>9, <1>10
<1>12. TotalBytes(part(n - 1)) = TotalBytes(Masked(list, used(n - 1)))
  BY <1>11 DEF Bad
<1>13. part(n) = Append(part(n - 1), q[n])
  <2>1. q[n] \in Measured
    BY <1>4, <1>11, ElementOfSeq
  <2>2. part(n - 1) \in Seq(Measured) /\ Len(part(n - 1)) = n - 1
    BY <1>5, <1>11
  <2>3. \A i \in 1..n - 1 : part(n - 1)[i] = q[i]
    BY <1>5, <1>11
  <2>4. part(n) \in Seq(Measured) /\ Len(part(n)) = n /\ \A i \in 1..n : part(n)[i] = q[i]
    BY <1>5, <1>9
  <2> HIDE DEF part
  <2> DEFINE more == Append(part(n - 1), q[n])
  <2>5. /\ more \in Seq(Measured) /\ Len(more) = (n - 1) + 1 /\ more[(n - 1) + 1] = q[n]
        /\ \A i \in 1..n - 1 : more[i] = part(n - 1)[i]
    BY <2>1, <2>2, AppendProperties
  <2>6. n \in Nat /\ (n - 1) + 1 = n /\ \A i \in 1..n : i \in 1..n - 1 \/ i = n
    BY <1>1, <1>11
  <2> HIDE DEF more
  <2>7. Len(part(n)) = Len(more) /\ \A i \in 1..Len(part(n)) : part(n)[i] = more[i]
    BY <2>3, <2>4, <2>5, <2>6
  <2>8. part(n) = more
    BY <2>4, <2>5, <2>7, SeqEqual
  <2>. QED
    BY <2>8 DEF more
<1>14. used(n) = used(n - 1) \cup {p[n]} /\ p[n] \notin used(n - 1) /\ p[n] \in 1..N
  <2>1. n \in Nat /\ \A i : i \in 1..n <=> (i \in 1..n - 1 \/ i = n)
    BY <1>1, <1>11
  <2>2. \A i \in 1..n - 1 : i \in 1..N /\ i # n
    BY <1>1, <1>11
  <2>3. used(n) = used(n - 1) \cup {p[n]}
    <3>1. \A k : k \in used(n) <=> \E i \in 1..n : p[i] = k
      OBVIOUS
    <3>2. \A k : k \in used(n - 1) <=> \E i \in 1..n - 1 : p[i] = k
      OBVIOUS
    <3> HIDE DEF used
    <3>3. \A k : k \in used(n) <=> k \in used(n - 1) \/ k = p[n]
      BY <2>1, <3>1, <3>2
    <3>. QED
      BY <3>3
  <2>4. \A i \in 1..n - 1 : p[i] # p[n]
    BY <1>11, <2>2 DEF N
  <2>. QED
    BY <1>2, <1>11, <2>3, <2>4
<1>15. TotalBytes(part(n)) = TotalBytes(part(n - 1)) + list[p[n]].size
  <2>1. q[n] \in Measured /\ q[n] = list[p[n]]
    BY <1>4, <1>11, ElementOfSeq
  <2>2. part(n - 1) \in Seq(Measured)
    BY <1>5, <1>11
  <2> HIDE DEF part
  <2>3. TotalBytes(Append(part(n - 1), q[n])) = TotalBytes(part(n - 1)) + q[n].size
    BY <2>1, <2>2, TotalOfAppend
  <2>. QED
    BY <1>13, <2>1, <2>3
<1>16. TotalBytes(Masked(list, used(n))) = TotalBytes(Masked(list, used(n - 1))) + list[p[n]].size
  <2> DEFINE S == used(n - 1)
             k == p[n]
  <2>1. used(n) = S \cup {k} /\ k \notin S /\ k \in 1..Len(list)
    BY <1>14 DEF N
  <2> HIDE DEF S, k, used
  <2>2. TotalBytes(Masked(list, S \cup {k})) = TotalBytes(Masked(list, S)) + list[k].size
    BY <2>1, TotalOfMaskedMore
  <2>. QED
    BY <2>1, <2>2 DEF S, k
<1>. QED
  BY <1>9, <1>12, <1>15, <1>16

-----------------------------------------------------------------------------
(***************************************************************************)
(* Values, level by level.                                                 *)
(***************************************************************************)

IsLevels(value, f, N) ==
    f = [n \in 0..N |-> IF n = 0 THEN {value} ELSE UNION {Inside(v) : v \in f[n - 1]}]

LEMMA LevelsExist ==
    ASSUME NEW value
    PROVE  \E f : IsLevels(value, f, MaxNesting)
<1> DEFINE Bad == {N \in Nat : ~\E f : IsLevels(value, f, N)}
<1>1. Bad = {}
  <2>1. SUFFICES ASSUME Bad # {} PROVE FALSE
    OBVIOUS
  <2>2. Bad \in SUBSET Nat
    OBVIOUS
  <2> HIDE DEF Bad
  <2>3. PICK N \in Bad : \A m \in Bad : N <= m
    BY <2>1, <2>2, Least
  <2>4. N \in Nat /\ ~\E f : IsLevels(value, f, N)
    BY DEF Bad
  <2>5. CASE N = 0
    <3> DEFINE f == [n \in 0..0 |-> {value}]
               g == [n \in 0..0 |-> IF n = 0 THEN {value} ELSE UNION {Inside(v) : v \in f[n - 1]}]
    <3>1. f = g
      OBVIOUS
    <3>. QED
      BY <2>4, <2>5, <3>1 DEF IsLevels
  <2>6. CASE N # 0
    <3>1. N - 1 \in Nat /\ N - 1 \notin Bad
      BY <2>3, <2>4, <2>6
    <3>2. PICK h : IsLevels(value, h, N - 1)
      BY <3>1 DEF Bad
    <3> DEFINE Step(k, n) == IF n = 0 THEN {value} ELSE UNION {Inside(v) : v \in k[n - 1]}
               f == [n \in 0..N |-> Step(h, n)]
               g == [n \in 0..N |-> Step(f, n)]
    <3>3. h = [n \in 0..N - 1 |-> Step(h, n)]
      BY <3>2 DEF IsLevels
    <3>4. \A n \in 0..N - 1 : f[n] = h[n]
      <4>1. SUFFICES ASSUME NEW n \in 0..N - 1 PROVE f[n] = h[n]
        OBVIOUS
      <4>2. h[n] = Step(h, n)
        BY <3>3
      <4>3. n \in 0..N
        BY <2>4
      <4> HIDE DEF Step
      <4>. QED
        BY <4>2, <4>3
    <3>5. \A n \in 0..N : f[n] = g[n]
      <4>1. SUFFICES ASSUME NEW n \in 0..N PROVE Step(h, n) = Step(f, n)
        OBVIOUS
      <4>2. CASE n = 0
        BY <4>2
      <4>3. CASE n # 0
        <5>1. n - 1 \in 0..N - 1
          BY <2>4, <4>3
        <5>2. f[n - 1] = h[n - 1]
          BY <3>4, <5>1
        <5>. QED
          BY <5>2
      <4>. QED
        BY <4>2, <4>3
    <3>6. f = g
      BY <3>5
    <3>. QED
      BY <2>4, <3>6 DEF IsLevels
  <2>. QED
    BY <2>5, <2>6
<1>. QED
  BY <1>1, NestingAssumption

LEMMA LevelsAre ==
    ASSUME NEW value
    PROVE  /\ Levels(value)[0] = {value}
           /\ \A n \in 1..MaxNesting :
                 Levels(value)[n] = UNION {Inside(v) : v \in Levels(value)[n - 1]}
<1> DEFINE f == CHOOSE f : IsLevels(value, f, MaxNesting)
<1>1. IsLevels(value, f, MaxNesting)
  BY LevelsExist
<1>2. Levels(value) = f
  BY DEF Levels, IsLevels
<1> HIDE DEF f
<1>3. Levels(value) = [n \in 0..MaxNesting |->
          IF n = 0 THEN {value} ELSE UNION {Inside(v) : v \in Levels(value)[n - 1]}]
  BY <1>1, <1>2 DEF IsLevels
<1>4. \A n \in 0..MaxNesting : Levels(value)[n] =
          IF n = 0 THEN {value} ELSE UNION {Inside(v) : v \in Levels(value)[n - 1]}
  BY <1>3
<1>5. 0 \in 0..MaxNesting
  BY NestingAssumption
<1>6. \A n \in 1..MaxNesting : n \in 0..MaxNesting /\ n # 0
  BY NestingAssumption
<1>. QED
  BY <1>4, <1>5, <1>6

\* What is in a value is within it.
LEMMA InsideWithin ==
    ASSUME NEW value, NEW n \in 0..MaxNesting - 1, NEW v \in Levels(value)[n]
    PROVE  /\ v \in Within(value)
           /\ \A u \in Inside(v) : u \in Levels(value)[n + 1] /\ u \in Within(value)
<1>1. n \in 0..MaxNesting /\ n + 1 \in 1..MaxNesting /\ n + 1 \in 0..MaxNesting
  BY NestingAssumption
<1>2. Levels(value)[n + 1] = UNION {Inside(u) : u \in Levels(value)[n]}
  <2>1. (n + 1) - 1 = n
    BY <1>1
  <2>. QED
    BY <1>1, <2>1, LevelsAre
<1>. QED
  BY <1>1, <1>2 DEF Within

\* A value that nests as the parser lets it: what is in it is formed, and so
\* is what is in that.
LEMMA WithinClosed ==
    ASSUME NEW value, Nested(value, MaxNesting)
    PROVE  /\ value \in Within(value)
           /\ \A v \in Within(value) : Formed(v) /\ Inside(v) \subseteq Within(value)
<1>1. value \in Within(value)
  <2>1. 0 \in 0..MaxNesting
    BY NestingAssumption
  <2>. QED
    BY <2>1, LevelsAre DEF Within
<1>2. ASSUME NEW v \in Within(value)
      PROVE  Formed(v) /\ Inside(v) \subseteq Within(value)
  <2>1. Formed(v)
    BY DEF Nested
  <2>2. PICK n \in 0..MaxNesting : v \in Levels(value)[n]
    BY DEF Within
  <2>3. CASE n = MaxNesting
    <3>1. v[1] \notin {"list", "object"}
      BY <2>2, <2>3 DEF Nested
    <3>2. Inside(v) = {}
      BY <3>1 DEF Inside
    <3>. QED
      BY <2>1, <3>2
  <2>4. CASE n # MaxNesting
    <3>1. n \in 0..MaxNesting - 1
      BY <2>4, NestingAssumption
    <3>. QED
      BY <2>1, <2>2, <3>1, InsideWithin
  <2>. QED
    BY <2>3, <2>4
<1>. QED
  BY <1>1, <1>2

\* A value of a document, and what a list or an object has in it.
IsValue(v) ==
    /\ v[1] = "object" => /\ IsFiniteSet(DOMAIN v[2])
                          /\ v[2] = [name \in DOMAIN v[2] |-> v[2][name]]
    /\ v[1] = "list" => Len(v[2]) \in Nat /\ DOMAIN v[2] = 1..Len(v[2]) /\ IsFiniteSet(DOMAIN v[2])

LEMMA ValueIs ==
    ASSUME NEW value, Nested(value, MaxNesting), NEW v \in Within(value)
    PROVE  /\ IsValue(v)
           /\ v[1] \in {"object", "list"} => \A key \in DOMAIN v[2] : v[2][key] \in Within(value)
<1>1. Formed(v) /\ Inside(v) \subseteq Within(value)
  BY WithinClosed
<1>2. CASE v[1] = "object"
  BY <1>1, <1>2 DEF Formed, Inside, IsValue
<1>3. CASE v[1] = "list"
  <2>1. v[2] \in Seq(Inside(v))
    BY <1>1, <1>3 DEF Formed
  <2>2. Len(v[2]) \in Nat /\ DOMAIN v[2] = 1..Len(v[2]) /\ IsFiniteSet(DOMAIN v[2])
    BY <2>1, FS_Interval
  <2>3. \A key \in DOMAIN v[2] : v[2][key] \in Inside(v)
    BY <2>2, <1>3 DEF Inside
  <2>. QED
    BY <1>1, <1>3, <2>2, <2>3 DEF IsValue
<1>. QED
  BY <1>2, <1>3 DEF IsValue

-----------------------------------------------------------------------------
(***************************************************************************)
(* A report is a list that is put together from smaller ones.  What is     *)
(* asked of one is which findings are in it and how many of a set it has.  *)
(***************************************************************************)

IsList(list) == Len(list) \in Nat /\ list = [i \in 1..Len(list) |-> list[i]]

\* The findings of a list, and how many of its places have one of a set.
Findings(list) == {list[i] : i \in 1..Len(list)}
Hits(list, S)  == Cardinality({i \in 1..Len(list) : list[i] \in S})

LEMMA ListIs ==
    ASSUME NEW list, IsList(list)
    PROVE  /\ list \in Seq(Findings(list)) /\ Len(list) \in Nat /\ DOMAIN list = 1..Len(list)
           /\ \A i \in 1..Len(list) : list[i] \in Findings(list)
<1>1. Len(list) \in Nat /\ \A i \in 1..Len(list) : list[i] \in Findings(list)
  BY DEF IsList, Findings
<1>2. [i \in 1..Len(list) |-> list[i]] \in Seq(Findings(list))
  BY <1>1
<1>3. list \in Seq(Findings(list))
  BY <1>2 DEF IsList
<1>. QED
  BY <1>1, <1>3

LEMMA SeqIsList ==
    ASSUME NEW S, NEW list \in Seq(S)
    PROVE  IsList(list) /\ Findings(list) \subseteq S
  BY DEF IsList, Findings

LEMMA HitsAre ==
    ASSUME NEW list, IsList(list), NEW S
    PROVE  /\ IsFiniteSet({i \in 1..Len(list) : list[i] \in S})
           /\ Hits(list, S) \in Nat
           /\ Hits(list, S) = 0 <=> Findings(list) \cap S = {}
<1> DEFINE places == {i \in 1..Len(list) : list[i] \in S}
<1>1. Len(list) \in Nat
  BY DEF IsList
<1>2. IsFiniteSet(1..Len(list)) /\ places \subseteq 1..Len(list)
  BY <1>1, FS_Interval
<1>3. IsFiniteSet(places)
  BY <1>2, FS_Subset
<1>4. Cardinality(places) \in Nat /\ (Cardinality(places) = 0 <=> places = {})
  BY <1>3, FS_CardinalityType, FS_EmptySet
<1>5. places = {} <=> Findings(list) \cap S = {}
  BY DEF Findings
<1>. QED
  BY <1>3, <1>4, <1>5 DEF Hits

LEMMA NoneIs ==
    /\ IsList(<<>>) /\ Findings(<<>>) = {} /\ \A S : Hits(<<>>, S) = 0
<1>1. Len(<<>>) = 0 /\ <<>> = [i \in 1..0 |-> <<>>[i]] /\ 1..0 = {}
  OBVIOUS
<1>2. \A S : {i \in 1..Len(<<>>) : <<>>[i] \in S} = {}
  BY <1>1
<1>3. Cardinality({}) = 0
  BY FS_EmptySet
<1>. QED
  BY <1>1, <1>2, <1>3 DEF IsList, Findings, Hits

LEMMA OneIs ==
    ASSUME NEW f
    PROVE  /\ IsList(<<f>>) /\ Findings(<<f>>) = {f}
           /\ \A S : Hits(<<f>>, S) = IF f \in S THEN 1 ELSE 0
<1>1. Len(<<f>>) = 1 /\ <<f>>[1] = f /\ 1..1 = {1}
  OBVIOUS
<1>2. IsList(<<f>>) /\ Findings(<<f>>) = {f}
  BY <1>1 DEF IsList, Findings
<1>3. ASSUME NEW S PROVE Hits(<<f>>, S) = IF f \in S THEN 1 ELSE 0
  <2>1. CASE f \in S
    <3>1. {i \in 1..Len(<<f>>) : <<f>>[i] \in S} = {1}
      BY <1>1, <2>1
    <3>. QED
      BY <2>1, <3>1, FS_Singleton DEF Hits
  <2>2. CASE f \notin S
    <3>1. {i \in 1..Len(<<f>>) : <<f>>[i] \in S} = {}
      BY <1>1, <2>2
    <3>. QED
      BY <2>2, <3>1, FS_EmptySet DEF Hits
  <2>. QED
    BY <2>1, <2>2
<1>. QED
  BY <1>2, <1>3

\* Two lists, one after the other.
LEMMA BothAre ==
    ASSUME NEW a, IsList(a), NEW b, IsList(b)
    PROVE  /\ IsList(a \o b) /\ Findings(a \o b) = Findings(a) \cup Findings(b)
           /\ \A S : Hits(a \o b, S) = Hits(a, S) + Hits(b, S)
<1> DEFINE R == Findings(a) \cup Findings(b)
           m == Len(a)
           n == Len(b)
<1>1. /\ a \in Seq(R) /\ b \in Seq(R) /\ m \in Nat /\ n \in Nat
      /\ \A i \in 1..m : a[i] \in Findings(a)
      /\ \A i \in 1..n : b[i] \in Findings(b)
  <2>1. /\ a \in Seq(Findings(a)) /\ b \in Seq(Findings(b))
        /\ m \in Nat /\ n \in Nat
    BY ListIs
  <2>2. \A i \in 1..m : a[i] \in Findings(a)
    BY DEF Findings
  <2>3. \A i \in 1..n : b[i] \in Findings(b)
    BY DEF Findings
  <2>4. a \in Seq(R) /\ b \in Seq(R)
    BY <2>1
  <2>. QED
    BY <2>1, <2>2, <2>3, <2>4
<1>2. /\ a \o b \in Seq(R) /\ Len(a \o b) = m + n
      /\ \A i \in 1..m : (a \o b)[i] = a[i]
      /\ \A i \in m + 1..m + n : (a \o b)[i] = b[i - m]
  BY <1>1
<1>3. IsList(a \o b)
  BY <1>2, SeqIsList
<1>4. Findings(a \o b) = R
  <2>1. ASSUME NEW f \in R PROVE f \in Findings(a \o b)
    <3>1. CASE f \in Findings(a)
      <4>1. PICK i \in 1..m : f = a[i]
        BY <3>1 DEF Findings
      <4>2. i \in 1..m + n /\ (a \o b)[i] = f
        BY <1>1, <1>2, <4>1
      <4>. QED
        BY <1>2, <4>2 DEF Findings
    <3>2. CASE f \in Findings(b)
      <4>1. PICK i \in 1..n : f = b[i]
        BY <3>2 DEF Findings
      <4>2. m + i \in m + 1..m + n /\ (m + i) - m = i /\ m + i \in 1..m + n
        BY <1>1, <4>1
      <4>3. (a \o b)[m + i] = f
        BY <1>2, <4>1, <4>2
      <4>. QED
        BY <1>2, <4>2, <4>3 DEF Findings
    <3>. QED
      BY <3>1, <3>2
  <2>2. ASSUME NEW f \in Findings(a \o b) PROVE f \in R
    <3>1. PICK i \in 1..m + n : f = (a \o b)[i]
      BY <1>2 DEF Findings
    <3>. QED
      BY <1>1, <1>2, <3>1
  <2>. QED
    BY <2>1, <2>2
<1>5. ASSUME NEW S PROVE Hits(a \o b, S) = Hits(a, S) + Hits(b, S)
  <2> DEFINE left1 == {i \in 1..m : a[i] \in S}
             right == {i \in 1..n : b[i] \in S}
             moved == {i \in m + 1..m + n : (a \o b)[i] \in S}
             all   == {i \in 1..m + n : (a \o b)[i] \in S}
             f     == [i \in right |-> m + i]
  <2>1. all = left1 \cup moved /\ left1 \cap moved = {}
    BY <1>1, <1>2
  <2>2. IsFiniteSet(left1) /\ IsFiniteSet(right)
    BY HitsAre
  <2>3. f \in Bijection(right, moved)
    <3>1. \A i \in right : f[i] \in moved
      BY <1>1, <1>2
    <3>2. \A i, j \in right : f[i] = f[j] => i = j
      BY <1>1
    <3>3. ASSUME NEW k \in moved PROVE \E i \in right : f[i] = k
      <4>1. k - m \in right /\ f[k - m] = k
        BY <1>1, <1>2
      <4>. QED
        BY <4>1
    <3>4. f \in [right -> moved]
      BY <3>1
    <3>. QED
      BY <3>2, <3>3, <3>4 DEF Bijection, Injection, Surjection, IsInjective
  <2>4. IsFiniteSet(moved) /\ Cardinality(moved) = Cardinality(right)
    <3>1. ExistsBijection(right, moved)
      BY <2>3 DEF ExistsBijection
    <3> HIDE DEF right, moved
    <3>. QED
      BY <2>2, <3>1, FS_Bijection
  <2> HIDE DEF left1, moved, all
  <2>5. Cardinality(all) = Cardinality(left1) + Cardinality(moved)
    <3>1. Cardinality(left1 \cup moved) = Cardinality(left1) + Cardinality(moved) - Cardinality(left1 \cap moved)
      BY <2>2, <2>4, FS_Union
    <3>2. Cardinality(left1 \cap moved) = 0
      BY <2>1, FS_EmptySet
    <3>3. Cardinality(left1) \in Nat /\ Cardinality(moved) \in Nat
      BY <2>2, <2>4, FS_CardinalityType
    <3>. QED
      BY <2>1, <3>1, <3>2, <3>3
  <2>. QED
    BY <1>2, <2>4, <2>5 DEF Hits, left1, right, all
<1>. QED
  BY <1>3, <1>4, <1>5
\* The recursive function in FlattenSeq, up to N.
IsFlat(lists, N, g) ==
    g = [i \in 1..N |-> IF i = 1 THEN lists[i] ELSE g[i - 1] \o lists[i]]

LEMMA FlatExists ==
    ASSUME NEW lists, NEW N \in Nat
    PROVE  \E g : IsFlat(lists, N, g)
<1> DEFINE Bad == {n \in Nat : ~\E g : IsFlat(lists, n, g)}
<1>1. SUFFICES ASSUME Bad # {} PROVE FALSE
  OBVIOUS
<1> HIDE DEF Bad
<1>2. PICK n \in Bad : \A m \in Bad : n <= m
  <2>1. Bad \in SUBSET Nat
    BY DEF Bad
  <2>. QED
    BY <1>1, <2>1, Least
<1>3. n \in Nat /\ ~\E g : IsFlat(lists, n, g)
  BY <1>2 DEF Bad
<1>4. CASE n = 0
  <2> DEFINE g == [i \in 1..0 |-> <<>>]
  <2>1. g = [i \in 1..0 |-> IF i = 1 THEN lists[i] ELSE g[i - 1] \o lists[i]]
    <3>1. 1..0 = {}
      OBVIOUS
    <3>. QED
      BY <3>1
  <2>. QED
    BY <1>3, <1>4, <2>1 DEF IsFlat
<1>5. CASE n # 0
  <2>1. n - 1 \in Nat /\ n - 1 \notin Bad
    BY <1>2, <1>3, <1>5
  <2>2. PICK h : IsFlat(lists, n - 1, h)
    BY <2>1 DEF Bad
  <2> DEFINE new == IF n = 1 THEN lists[n] ELSE h[n - 1] \o lists[n]
             g   == [i \in 1..n |-> IF i = n THEN new ELSE h[i]]
             f   == [i \in 1..n |-> IF i = 1 THEN lists[i] ELSE g[i - 1] \o lists[i]]
  <2>3. \A k \in 1..n - 1 : h[k] = IF k = 1 THEN lists[k] ELSE h[k - 1] \o lists[k]
    BY <2>2 DEF IsFlat
  <2>4. ASSUME NEW i \in 1..n PROVE f[i] = g[i]
    <3>1. CASE i = n
      <4>1. n # 1 => n - 1 \in 1..n /\ n - 1 # n
        BY <1>3, <1>5
      <4>2. n # 1 => g[n - 1] = h[n - 1]
        BY <4>1
      <4>. QED
        BY <3>1, <4>2
    <3>2. CASE i # n
      <4>1. i \in 1..n - 1 /\ g[i] = h[i]
        BY <1>3, <3>2
      <4>2. i # 1 => i - 1 \in 1..n /\ i - 1 # n
        BY <1>3, <4>1
      <4>3. i # 1 => g[i - 1] = h[i - 1]
        BY <4>2
      <4>. QED
        BY <2>3, <4>1, <4>3
    <3>. QED
      BY <3>1, <3>2
  <2>5. /\ DOMAIN g = 1..n /\ DOMAIN f = 1..n
        /\ g = [i \in DOMAIN g |-> g[i]] /\ f = [i \in DOMAIN f |-> f[i]]
    OBVIOUS
  <2> HIDE DEF f, g
  <2>6. f = g
    BY <2>4, <2>5
  <2>7. IsFlat(lists, n, g)
    BY <2>6 DEF f, IsFlat
  <2>. QED
    BY <1>3, <2>7
<1>. QED
  BY <1>4, <1>5

Joined(lists, n, g) ==
    g[1] = lists[1] /\ \A i \in 2..n : g[i] = g[i - 1] \o lists[i]

LEMMA FlatIs ==
    ASSUME NEW lists, Len(lists) \in Nat \ {0}
    PROVE  \E g : FlattenSeq(lists) = g[Len(lists)] /\ Joined(lists, Len(lists), g)
<1> DEFINE n == Len(lists)
           g == CHOOSE h : IsFlat(lists, n, h)
<1>1. IsFlat(lists, n, g)
  BY FlatExists
<1>2. FlattenSeq(lists) = g[n]
  <2>1. Len(lists) # 0
    OBVIOUS
  <2>. QED
    BY <2>1 DEF FlattenSeq, IsFlat
<1> HIDE DEF g
<1>3. \A i \in 1..n : g[i] = IF i = 1 THEN lists[i] ELSE g[i - 1] \o lists[i]
  BY <1>1 DEF IsFlat
<1>4. g[1] = lists[1]
  BY <1>3
<1>5. ASSUME NEW i \in 2..n PROVE g[i] = g[i - 1] \o lists[i]
  <2>1. i \in 1..n /\ i # 1
    OBVIOUS
  <2>. QED
    BY <1>3, <2>1
<1>. QED
  BY <1>2, <1>4, <1>5 DEF Joined

\* What has been put together after every step.
\* The findings of a set in each of some lists are counted by sets that have
\* nothing in common.
Counted(keys, lists, S, T) ==
    /\ \A x \in keys : /\ IsList(lists[x]) /\ IsFiniteSet(T[x])
                       /\ Hits(lists[x], S) = Cardinality(T[x])
    /\ \A x, y \in keys : x # y => T[x] \cap T[y] = {}

LEMMA FlatSteps ==
    ASSUME NEW n \in Nat \ {0}, NEW lists, NEW g, Joined(lists, n, g),
           NEW S, NEW T, Counted(1..n, lists, S, T)
    PROVE  /\ IsList(g[n])
           /\ Findings(g[n]) = UNION {Findings(lists[i]) : i \in 1..n}
           /\ Hits(g[n], S) = Cardinality(UNION {T[i] : i \in 1..n})
<1> DEFINE Seen(m)  == UNION {Findings(lists[i]) : i \in 1..m}
           Taken(m) == UNION {T[i] : i \in 1..m}
           Good(m)  == /\ IsList(g[m]) /\ Findings(g[m]) = Seen(m)
                       /\ Hits(g[m], S) = Cardinality(Taken(m)) /\ IsFiniteSet(Taken(m))
           Bad == {m \in 1..n : ~Good(m)}
<1>0. /\ \A i \in 1..n : /\ IsList(lists[i]) /\ IsFiniteSet(T[i])
                        /\ Hits(lists[i], S) = Cardinality(T[i])
      /\ \A i, j \in 1..n : i # j => T[i] \cap T[j] = {}
      /\ g[1] = lists[1] /\ \A i \in 2..n : g[i] = g[i - 1] \o lists[i]
  BY DEF Joined, Counted
<1>1. SUFFICES Bad = {}
  <2>1. n \in 1..n
    OBVIOUS
  <2>2. Good(n)
    BY <1>1, <2>1
  <2>. QED
    BY <2>2
<1>2. SUFFICES ASSUME Bad # {} PROVE FALSE
  OBVIOUS
<1>3. PICK m \in Bad : \A k \in Bad : m <= k
  <2>1. Bad \in SUBSET Nat
    OBVIOUS
  <2> HIDE DEF Bad
  <2>. QED
    BY <1>2, <2>1, Least
<1>4. m \in 1..n /\ ~Good(m)
  BY <1>3
<1>5. CASE m = 1
  <2>1. 1..1 = {1} /\ 1 \in 1..n
    BY <1>4, <1>5
  <2>2. Seen(1) = Findings(lists[1]) /\ Taken(1) = T[1]
    BY <2>1
  <2>3. /\ IsList(lists[1]) /\ IsFiniteSet(T[1])
        /\ Hits(lists[1], S) = Cardinality(T[1])
    BY <1>0, <2>1
  <2> HIDE DEF Seen, Taken
  <2>4. Good(1)
    BY <1>0, <2>2, <2>3
  <2>. QED
    BY <1>4, <1>5, <2>4
<1>6. CASE m # 1
  <2>1. m \in 2..n /\ m - 1 \in 1..n /\ m - 1 < m
    BY <1>4, <1>6
  <2>2. Good(m - 1)
    <3>1. m - 1 \notin Bad
      <4> HIDE DEF Bad
      <4>. QED
        BY <1>3, <1>4, <2>1
    <3>. QED
      BY <2>1, <3>1
  <2>3. g[m] = g[m - 1] \o lists[m] /\ IsList(lists[m]) /\ IsFiniteSet(T[m])
        /\ Hits(lists[m], S) = Cardinality(T[m])
    BY <1>0, <1>4, <2>1
  <2>4. 1..m = (1..m - 1) \cup {m}
    BY <1>4
  <2>5. Seen(m) = Seen(m - 1) \cup Findings(lists[m])
    BY <2>4
  <2>6. Taken(m) = Taken(m - 1) \cup T[m]
    BY <2>4
  <2>7. Taken(m - 1) \cap T[m] = {}
    <3>1. \A i \in 1..m - 1 : i \in 1..n /\ i # m
      BY <1>4
    <3>. QED
      BY <1>0, <1>4, <3>1
  <2> HIDE DEF Seen, Taken
  <2>8. /\ IsList(g[m]) /\ Findings(g[m]) = Findings(g[m - 1]) \cup Findings(lists[m])
        /\ Hits(g[m], S) = Hits(g[m - 1], S) + Hits(lists[m], S)
    BY <2>2, <2>3, BothAre
  <2>9. /\ IsFiniteSet(Taken(m - 1) \cup T[m])
        /\ Cardinality(Taken(m - 1) \cup T[m]) = Cardinality(Taken(m - 1)) + Cardinality(T[m])
    <3>1. /\ IsFiniteSet(Taken(m - 1) \cup T[m])
          /\ Cardinality(Taken(m - 1) \cup T[m]) =
                Cardinality(Taken(m - 1)) + Cardinality(T[m]) - Cardinality(Taken(m - 1) \cap T[m])
      BY <2>2, <2>3, FS_Union
    <3>2. Cardinality(Taken(m - 1) \cap T[m]) = 0
      BY <2>7, FS_EmptySet
    <3>3. Cardinality(Taken(m - 1)) \in Nat /\ Cardinality(T[m]) \in Nat
      BY <2>2, <2>3, FS_CardinalityType
    <3>. QED
      BY <3>1, <3>2, <3>3
  <2>10. Good(m)
    BY <2>2, <2>3, <2>5, <2>6, <2>8, <2>9
  <2>. QED
    BY <1>4, <2>10
<1>. QED
  BY <1>5, <1>6

\* The members of a finite set, in some order.
LEMMA ListedIs ==
    ASSUME NEW set, IsFiniteSet(set), NEW s, s = SetToSeq(set)
    PROVE  /\ Len(s) \in Nat /\ Len(s) = Cardinality(set)
           /\ \A i \in 1..Len(s) : s[i] \in set
           /\ \A i, j \in 1..Len(s) : s[i] = s[j] => i = j
           /\ \A x \in set : \E i \in 1..Len(s) : s[i] = x
<1> DEFINE n == Cardinality(set)
<1>1. n \in Nat /\ ExistsBijection(1..n, set)
  BY FS_CardinalityType
<1>2. PICK f \in [1..n -> set] : IsInjective(f)
  BY <1>1 DEF ExistsBijection, Bijection, Injection
<1>3. s \in [1..n -> set] /\ IsInjective(s)
  BY <1>2 DEF SetToSeq
<1>4. Len(s) = n /\ \A i \in 1..n : s[i] \in set
  <2>1. s \in Seq(set)
    BY <1>1, <1>3
  <2>. QED
    BY <1>1, <1>3, <2>1
<1>5. \A i, j \in 1..n : s[i] = s[j] => i = j
  BY <1>3 DEF IsInjective
<1>6. s \in Surjection(1..n, set)
  <2>1. s \in Injection(1..n, set)
    BY <1>3 DEF Injection
  <2>2. IsFiniteSet(1..n) /\ Cardinality(1..n) = n
    BY <1>1, FS_Interval
  <2>. QED
    BY <2>1, <2>2, FS_Injection
<1>7. \A x \in set : \E i \in 1..n : s[i] = x
  BY <1>6 DEF Surjection
<1>. QED
  BY <1>1, <1>4, <1>5, <1>7

\* A list that Each makes, of the lists a function has for the members of a
\* set.
IsEach(list, set, F) ==
    /\ IsFiniteSet(set)
    /\ \A x \in set : IsList(F[x])
    /\ list = FlattenSeq([i \in 1..Len(SetToSeq(set)) |-> F[SetToSeq(set)[i]]])

LEMMA EachCounts ==
    ASSUME NEW set, NEW F, NEW list, IsEach(list, set, F),
           NEW S, NEW T, Counted(set, F, S, T)
    PROVE  /\ IsList(list)
           /\ Findings(list) = UNION {Findings(F[x]) : x \in set}
           /\ Hits(list, S) = Cardinality(UNION {T[x] : x \in set})
<1> DEFINE s == SetToSeq(set)
           n == Len(s)
           lists == [i \in 1..n |-> F[s[i]]]
           U == [i \in 1..n |-> T[s[i]]]
<1>0. /\ IsFiniteSet(set)
      /\ \A x \in set : IsList(F[x]) /\ IsFiniteSet(T[x]) /\ Hits(F[x], S) = Cardinality(T[x])
      /\ \A x, y \in set : x # y => T[x] \cap T[y] = {}
  BY DEF IsEach, Counted
<1>1. /\ n \in Nat
      /\ \A i \in 1..n : s[i] \in set
      /\ \A i, j \in 1..n : s[i] = s[j] => i = j
      /\ \A x \in set : \E i \in 1..n : s[i] = x
  BY <1>0, ListedIs
<1>2. list = FlattenSeq(lists)
  BY DEF IsEach
<1> HIDE DEF s, n
<1>3. Len(lists) = n /\ \A i \in 1..n : lists[i] = F[s[i]]
  BY <1>1
<1>4. UNION {Findings(F[x]) : x \in set} = UNION {Findings(lists[i]) : i \in 1..n}
  <2>1. \A x \in set : \E i \in 1..n : Findings(F[x]) = Findings(lists[i])
    BY <1>1, <1>3
  <2>2. \A i \in 1..n : \E x \in set : Findings(F[x]) = Findings(lists[i])
    BY <1>1, <1>3
  <2>. QED
    BY <2>1, <2>2
<1>5. UNION {T[x] : x \in set} = UNION {U[i] : i \in 1..n}
  <2>1. \A x \in set : \E i \in 1..n : T[x] = U[i]
    BY <1>1
  <2>2. \A i \in 1..n : \E x \in set : T[x] = U[i]
    BY <1>1
  <2>. QED
    BY <2>1, <2>2
<1>6. CASE n = 0
  <2>1. lists = <<>> /\ 1..n = {}
    BY <1>6
  <2>2. list = <<>>
    BY <1>2, <1>3, <1>6, <2>1 DEF FlattenSeq
  <2>3. UNION {Findings(lists[i]) : i \in 1..n} = {} /\ UNION {U[i] : i \in 1..n} = {}
    BY <2>1
  <2>. QED
    BY <1>4, <1>5, <2>2, <2>3, NoneIs, FS_EmptySet
<1>7. CASE n > 0
  <2> HIDE DEF lists
  <2>1. PICK g : FlattenSeq(lists) = g[n] /\ Joined(lists, n, g)
    <3>1. Len(lists) \in Nat \ {0}
      BY <1>1, <1>3, <1>7
    <3>. QED
      BY <1>3, <3>1, FlatIs
  <2>2. Counted(1..n, lists, S, U)
    <3>1. ASSUME NEW i \in 1..n
          PROVE  /\ IsList(lists[i]) /\ IsFiniteSet(U[i])
                 /\ Hits(lists[i], S) = Cardinality(U[i])
      BY <1>0, <1>1, <1>3
    <3>2. ASSUME NEW i \in 1..n, NEW j \in 1..n, i # j PROVE U[i] \cap U[j] = {}
      <4>1. s[i] \in set /\ s[j] \in set /\ s[i] # s[j]
        BY <1>1, <3>2
      <4>. QED
        BY <1>0, <4>1
    <3>. QED
      BY <3>1, <3>2 DEF Counted
  <2> HIDE DEF U
  <2>3. /\ IsList(g[n])
        /\ Findings(g[n]) = UNION {Findings(lists[i]) : i \in 1..n}
        /\ Hits(g[n], S) = Cardinality(UNION {U[i] : i \in 1..n})
    <3>1. n \in Nat \ {0}
      BY <1>1, <1>7
    <3>. QED
      BY <2>1, <2>2, <3>1, FlatSteps
  <2>. QED
    BY <1>2, <1>4, <1>5, <2>1, <2>3
<1>. QED
  BY <1>1, <1>6, <1>7

LEMMA EachIs ==
    ASSUME NEW set, NEW F, NEW list, IsEach(list, set, F)
    PROVE  /\ IsList(list)
           /\ Findings(list) = UNION {Findings(F[x]) : x \in set}
<1> DEFINE T == [x \in set |-> {}]
<1>1. \A x \in set : IsList(F[x]) /\ Hits(F[x], {}) = 0
  BY HitsAre DEF IsEach
<1>2. Counted(set, F, {}, T)
  BY <1>1, FS_EmptySet DEF Counted
<1>. QED
  BY <1>2, EachCounts

\* One finding of a set, of some members and of no others.
LEMMA EachOf ==
    ASSUME NEW set, NEW F, NEW list, IsEach(list, set, F),
           NEW S, NEW some, some \subseteq set,
           \A x \in set : Hits(F[x], S) = IF x \in some THEN 1 ELSE 0
    PROVE  Hits(list, S) = Cardinality(some)
<1> DEFINE T == [x \in set |-> IF x \in some THEN {x} ELSE {}]
<1>1. Counted(set, F, S, T)
  BY FS_EmptySet, FS_Singleton DEF Counted, IsEach
<1>2. UNION {T[x] : x \in set} = some
  OBVIOUS
<1> HIDE DEF T
<1>. QED
  BY <1>1, <1>2, EachCounts

\* Findings of a set, of one member only.
LEMMA EachOnly ==
    ASSUME NEW set, NEW F, NEW list, IsEach(list, set, F),
           NEW S, NEW one \in set, \A x \in set : x # one => Hits(F[x], S) = 0
    PROVE  Hits(list, S) = Hits(F[one], S)
<1> DEFINE places == {i \in 1..Len(F[one]) : F[one][i] \in S}
           T == [x \in set |-> IF x = one THEN places ELSE {}]
<1>1. IsFiniteSet(places) /\ Hits(F[one], S) = Cardinality(places)
  BY HitsAre DEF Hits, IsEach
<1> HIDE DEF places
<1>2. Counted(set, F, S, T)
  BY <1>1, FS_EmptySet DEF Counted, IsEach
<1>3. UNION {T[x] : x \in set} = places
  OBVIOUS
<1> HIDE DEF T
<1>. QED
  BY <1>1, <1>2, <1>3, EachCounts

LEMMA EachNone ==
    ASSUME NEW set, NEW F, NEW list, IsEach(list, set, F),
           NEW S, \A x \in set : Hits(F[x], S) = 0
    PROVE  Hits(list, S) = 0
<1>1. \A x \in set : Hits(F[x], S) = IF x \in {} THEN 1 ELSE 0
  OBVIOUS
<1>2. Hits(list, S) = Cardinality({})
  BY <1>1, EachOf
<1>. QED
  BY <1>2, FS_EmptySet

\* What a function has for the members of a finite set.
LEMMA ImageIsFinite ==
    ASSUME NEW f, IsFiniteSet(DOMAIN f)
    PROVE  IsFiniteSet({f[x] : x \in DOMAIN f})
<1> DEFINE S == DOMAIN f
           T == {f[x] : x \in S}
           g == [x \in S |-> f[x]]
<1>1. g \in Surjection(S, T)
  BY DEF Surjection
<1>. QED
  BY <1>1, FS_Surjection

-----------------------------------------------------------------------------
(***************************************************************************)
(* The places in a value.  At and PlacesOn are recursive functions; a      *)
(* place is a sequence of keys of values within the value.                 *)
(***************************************************************************)

KeysIn(json) == UNION {KeysOf(v) : v \in Within(json)}

IsAt(value, place, N, f) ==
    f = [n \in 0..N |-> IF n = 0 THEN value ELSE f[n - 1][2][place[n]]]

LEMMA AtExists ==
    ASSUME NEW value, NEW place, NEW N \in Nat
    PROVE  \E f : IsAt(value, place, N, f)
<1> DEFINE Bad == {n \in Nat : ~\E f : IsAt(value, place, n, f)}
<1>1. SUFFICES ASSUME Bad # {} PROVE FALSE
  OBVIOUS
<1> HIDE DEF Bad
<1>2. PICK n \in Bad : \A m \in Bad : n <= m
  <2>1. Bad \in SUBSET Nat
    BY DEF Bad
  <2>. QED
    BY <1>1, <2>1, Least
<1>3. n \in Nat /\ ~\E f : IsAt(value, place, n, f)
  BY <1>2 DEF Bad
<1>4. CASE n = 0
  <2> DEFINE g == [i \in 0..0 |-> value]
             f == [i \in 0..0 |-> IF i = 0 THEN value ELSE g[i - 1][2][place[i]]]
  <2>1. f = g
    OBVIOUS
  <2>. QED
    BY <1>3, <1>4, <2>1 DEF IsAt
<1>5. CASE n # 0
  <2>1. n - 1 \in Nat /\ n - 1 \notin Bad
    BY <1>2, <1>3, <1>5
  <2>2. PICK h : IsAt(value, place, n - 1, h)
    BY <2>1 DEF Bad
  <2> DEFINE new == h[n - 1][2][place[n]]
             g   == [i \in 0..n |-> IF i = n THEN new ELSE h[i]]
             f   == [i \in 0..n |-> IF i = 0 THEN value ELSE g[i - 1][2][place[i]]]
  <2>3. \A k \in 0..n - 1 : h[k] = IF k = 0 THEN value ELSE h[k - 1][2][place[k]]
    BY <2>2 DEF IsAt
  <2>4. ASSUME NEW i \in 0..n PROVE f[i] = g[i]
    <3>1. CASE i = n
      <4>1. n - 1 \in 0..n /\ n - 1 # n
        BY <1>3, <1>5
      <4>2. g[n - 1] = h[n - 1]
        BY <4>1
      <4>. QED
        BY <1>5, <3>1, <4>2
    <3>2. CASE i # n
      <4>1. i \in 0..n - 1 /\ g[i] = h[i]
        BY <1>3, <3>2
      <4>2. i # 0 => i - 1 \in 0..n /\ i - 1 # n
        BY <1>3, <4>1
      <4>3. i # 0 => g[i - 1] = h[i - 1]
        BY <4>2
      <4>. QED
        BY <2>3, <4>1, <4>3
    <3>. QED
      BY <3>1, <3>2
  <2>5. /\ DOMAIN g = 0..n /\ DOMAIN f = 0..n
        /\ g = [i \in DOMAIN g |-> g[i]] /\ f = [i \in DOMAIN f |-> f[i]]
    OBVIOUS
  <2> HIDE DEF f, g
  <2>6. f = g
    BY <2>4, <2>5
  <2>7. IsAt(value, place, n, g)
    BY <2>6 DEF f, IsAt
  <2>. QED
    BY <1>3, <2>7
<1>. QED
  BY <1>4, <1>5

LEMMA AtAgrees ==
    ASSUME NEW value, NEW N \in Nat, NEW M \in Nat, N <= M, NEW p, NEW q,
           \A i \in 1..N : p[i] = q[i],
           NEW f, IsAt(value, p, N, f), NEW g, IsAt(value, q, M, g)
    PROVE  \A n \in 0..N : f[n] = g[n]
<1> DEFINE Bad == {n \in 0..N : f[n] # g[n]}
<1>1. SUFFICES ASSUME Bad # {} PROVE FALSE
  OBVIOUS
<1>2. PICK n \in Bad : \A m \in Bad : n <= m
  <2>1. Bad \in SUBSET Nat
    OBVIOUS
  <2> HIDE DEF Bad
  <2>. QED
    BY <1>1, <2>1, Least
<1>3. n \in 0..N /\ n \in 0..M /\ f[n] # g[n]
  OBVIOUS
<1>4. /\ f[n] = IF n = 0 THEN value ELSE f[n - 1][2][p[n]]
      /\ g[n] = IF n = 0 THEN value ELSE g[n - 1][2][q[n]]
  <2>1. \A i \in 0..N : f[i] = IF i = 0 THEN value ELSE f[i - 1][2][p[i]]
    BY DEF IsAt
  <2>2. \A i \in 0..M : g[i] = IF i = 0 THEN value ELSE g[i - 1][2][q[i]]
    BY DEF IsAt
  <2>. QED
    BY <1>3, <2>1, <2>2
<1>5. CASE n = 0
  BY <1>3, <1>4, <1>5
<1>6. CASE n # 0
  <2>1. n - 1 \in 0..N /\ n \in 1..N /\ ~(n <= n - 1)
    BY <1>3, <1>6
  <2>2. n - 1 \notin Bad
    <3> HIDE DEF Bad
    <3>. QED
      BY <1>2, <2>1
  <2>3. f[n - 1] = g[n - 1] /\ p[n] = q[n]
    BY <2>1, <2>2
  <2>. QED
    BY <1>3, <1>4, <1>6, <2>3
<1>. QED
  BY <1>5, <1>6

LEMMA AtIs ==
    ASSUME NEW value, NEW place, NEW f, Len(place) \in Nat, IsAt(value, place, Len(place), f)
    PROVE  At(value, place) = f[Len(place)]
<1> DEFINE n == Len(place)
           g == CHOOSE h : IsAt(value, place, n, h)
<1>1. IsAt(value, place, n, g)
  OBVIOUS
<1>2. At(value, place) = g[n]
  BY DEF At, IsAt
<1> HIDE DEF g
<1>3. n \in 0..n /\ n <= n
  OBVIOUS
<1> HIDE DEF n
<1>4. \A i \in 0..n : f[i] = g[i]
  BY <1>1, <1>3, AtAgrees DEF n
<1>. QED
  BY <1>2, <1>3, <1>4 DEF n

LEMMA AtSteps ==
    ASSUME NEW value, NEW K, NEW place \in Seq(K), NEW key \in K
    PROVE  /\ At(value, <<>>) = value
           /\ At(value, Append(place, key)) = At(value, place)[2][key]
<1> DEFINE n == Len(place)
           longer == Append(place, key)
<1>1. n \in Nat /\ Len(longer) = n + 1 /\ (\A i \in 1..n : longer[i] = place[i]) /\ longer[n + 1] = key
  BY AppendProperties
<1>2. At(value, <<>>) = value
  <2>1. PICK f : IsAt(value, <<>>, 0, f)
    BY AtExists
  <2>2. Len(<<>>) = 0 /\ 0 \in 0..0
    OBVIOUS
  <2>3. f[0] = value
    BY <2>1, <2>2 DEF IsAt
  <2>. QED
    BY <2>1, <2>2, <2>3, AtIs
<1> HIDE DEF n, longer
<1>3. PICK f : IsAt(value, place, n, f)
  BY <1>1, AtExists
<1>4. PICK g : IsAt(value, longer, n + 1, g)
  <2>1. n + 1 \in Nat
    BY <1>1
  <2>. QED
    BY <2>1, AtExists
<1>5. At(value, place) = f[n] /\ At(value, longer) = g[n + 1]
  BY <1>1, <1>3, <1>4, AtIs DEF n
<1>6. f[n] = g[n]
  <2>1. n + 1 \in Nat /\ n <= n + 1 /\ n \in 0..n
    BY <1>1
  <2>2. \A i \in 1..n : place[i] = longer[i]
    BY <1>1
  <2>. QED
    BY <1>1, <1>3, <1>4, <2>1, <2>2, AtAgrees
<1>7. g[n + 1] = g[n][2][key]
  <2>1. n + 1 \in 0..n + 1 /\ n + 1 # 0 /\ (n + 1) - 1 = n
    BY <1>1
  <2>2. \A i \in 0..n + 1 : g[i] = IF i = 0 THEN value ELSE g[i - 1][2][longer[i]]
    BY <1>4 DEF IsAt
  <2>. QED
    BY <1>1, <2>1, <2>2
<1>. QED
  BY <1>2, <1>5, <1>6, <1>7 DEF longer

-----------------------------------------------------------------------------
(* The places level by level. *)

Onward(value, places) ==
    UNION {{Append(place, key) : key \in KeysOf(At(value, place))} : place \in places}

IsPlaces(value, f, N) ==
    f = [n \in 0..N |-> IF n = 0 THEN {<<>>} ELSE Onward(value, f[n - 1])]

LEMMA PlacesExist ==
    ASSUME NEW value, NEW N \in Nat
    PROVE  \E f : IsPlaces(value, f, N)
<1> DEFINE Bad == {n \in Nat : ~\E f : IsPlaces(value, f, n)}
<1>1. SUFFICES ASSUME Bad # {} PROVE FALSE
  OBVIOUS
<1> HIDE DEF Bad
<1>2. PICK n \in Bad : \A m \in Bad : n <= m
  <2>1. Bad \in SUBSET Nat
    BY DEF Bad
  <2>. QED
    BY <1>1, <2>1, Least
<1>3. n \in Nat /\ ~\E f : IsPlaces(value, f, n)
  BY <1>2 DEF Bad
<1>4. CASE n = 0
  <2> DEFINE g == [i \in 0..0 |-> {<<>>}]
             f == [i \in 0..0 |-> IF i = 0 THEN {<<>>} ELSE Onward(value, g[i - 1])]
  <2>1. f = g
    OBVIOUS
  <2>. QED
    BY <1>3, <1>4, <2>1 DEF IsPlaces
<1>5. CASE n # 0
  <2>1. n - 1 \in Nat /\ n - 1 \notin Bad
    BY <1>2, <1>3, <1>5
  <2>2. PICK h : IsPlaces(value, h, n - 1)
    BY <2>1 DEF Bad
  <2> DEFINE new == Onward(value, h[n - 1])
             g   == [i \in 0..n |-> IF i = n THEN new ELSE h[i]]
             f   == [i \in 0..n |-> IF i = 0 THEN {<<>>} ELSE Onward(value, g[i - 1])]
  <2>3. \A k \in 0..n - 1 : h[k] = IF k = 0 THEN {<<>>} ELSE Onward(value, h[k - 1])
    BY <2>2 DEF IsPlaces
  <2>4. ASSUME NEW i \in 0..n PROVE f[i] = g[i]
    <3>1. CASE i = n
      <4>1. n - 1 \in 0..n /\ n - 1 # n
        BY <1>3, <1>5
      <4>2. g[n - 1] = h[n - 1]
        BY <4>1
      <4>. QED
        BY <1>5, <3>1, <4>2
    <3>2. CASE i # n
      <4>1. i \in 0..n - 1 /\ g[i] = h[i]
        BY <1>3, <3>2
      <4>2. i # 0 => i - 1 \in 0..n /\ i - 1 # n
        BY <1>3, <4>1
      <4>3. i # 0 => g[i - 1] = h[i - 1]
        BY <4>2
      <4>. QED
        BY <2>3, <4>1, <4>3
    <3>. QED
      BY <3>1, <3>2
  <2>5. /\ DOMAIN g = 0..n /\ DOMAIN f = 0..n
        /\ g = [i \in DOMAIN g |-> g[i]] /\ f = [i \in DOMAIN f |-> f[i]]
    OBVIOUS
  <2> HIDE DEF f, g
  <2>6. f = g
    BY <2>4, <2>5
  <2>7. IsPlaces(value, g, n)
    BY <2>6 DEF f, IsPlaces
  <2>. QED
    BY <1>3, <2>7
<1>. QED
  BY <1>4, <1>5

LEMMA PlacesAre ==
    ASSUME NEW value
    PROVE  /\ PlacesOn(value)[0] = {<<>>}
           /\ \A n \in 1..MaxNesting : PlacesOn(value)[n] = Onward(value, PlacesOn(value)[n - 1])
<1> DEFINE f == CHOOSE f : IsPlaces(value, f, MaxNesting)
<1>1. IsPlaces(value, f, MaxNesting)
  BY PlacesExist, NestingAssumption
<1>2. PlacesOn(value) = f
  BY DEF PlacesOn, IsPlaces, Onward
<1> HIDE DEF f
<1>3. \A n \in 0..MaxNesting : f[n] = IF n = 0 THEN {<<>>} ELSE Onward(value, f[n - 1])
  BY <1>1 DEF IsPlaces
<1>4. 0 \in 0..MaxNesting /\ \A n \in 1..MaxNesting : n \in 0..MaxNesting /\ n # 0
  BY NestingAssumption
<1>. QED
  BY <1>2, <1>3, <1>4

\* A place on a level, and the value there.
IsPlace(json, n, place) ==
    place \in Seq(KeysIn(json)) /\ Len(place) = n /\ At(json, place) \in Levels(json)[n]

LEMMA KeysAre ==
    ASSUME NEW json, Nested(json, MaxNesting), NEW n \in 0..MaxNesting, NEW v \in Levels(json)[n]
    PROVE  /\ v \in Within(json) /\ IsFiniteSet(KeysOf(v)) /\ KeysOf(v) \subseteq KeysIn(json)
           /\ n = MaxNesting => KeysOf(v) = {}
           /\ n # MaxNesting => \A key \in KeysOf(v) : v[2][key] \in Levels(json)[n + 1]
<1>1. v \in Within(json)
  BY DEF Within
<1>2. IsValue(v) /\ Formed(v)
  BY <1>1, ValueIs, WithinClosed
<1>3. IsFiniteSet(KeysOf(v))
  BY <1>2, FS_EmptySet DEF KeysOf, IsValue
<1>4. KeysOf(v) \subseteq KeysIn(json)
  BY <1>1 DEF KeysIn
<1>5. n = MaxNesting => KeysOf(v) = {}
  BY DEF Nested, KeysOf
<1>6. ASSUME n # MaxNesting, NEW key \in KeysOf(v) PROVE v[2][key] \in Levels(json)[n + 1]
  <2>1. v[2][key] \in Inside(v)
    BY <1>2 DEF KeysOf, Inside, IsValue
  <2>2. n \in 0..MaxNesting - 1
    BY <1>6, NestingAssumption
  <2>. QED
    BY <2>1, <2>2, InsideWithin
<1>. QED
  BY <1>1, <1>3, <1>4, <1>5, <1>6

\* One level further.
LEMMA OnwardIs ==
    ASSUME NEW json, Nested(json, MaxNesting), NEW n \in 0..MaxNesting, n # MaxNesting,
           NEW places, IsFiniteSet(places), \A place \in places : IsPlace(json, n, place)
    PROVE  /\ IsFiniteSet(Onward(json, places))
           /\ \A place \in Onward(json, places) : IsPlace(json, n + 1, place)
<1>1. ASSUME NEW place \in places, NEW key \in KeysOf(At(json, place))
      PROVE  IsPlace(json, n + 1, Append(place, key))
  <2> DEFINE v == At(json, place)
             K == KeysIn(json)
  <2>1. place \in Seq(K) /\ Len(place) = n /\ v \in Levels(json)[n]
    BY DEF IsPlace
  <2>2. key \in K /\ v[2][key] \in Levels(json)[n + 1]
    BY <2>1, KeysAre
  <2>3. Append(place, key) \in Seq(K) /\ Len(Append(place, key)) = n + 1
    BY <2>1, <2>2, AppendProperties
  <2>4. At(json, Append(place, key)) = v[2][key]
    BY <2>1, <2>2, AtSteps
  <2>. QED
    BY <2>2, <2>3, <2>4 DEF IsPlace
<1>2. ASSUME NEW place \in places
      PROVE  IsFiniteSet({Append(place, key) : key \in KeysOf(At(json, place))})
  <2> DEFINE f == [key \in KeysOf(At(json, place)) |-> Append(place, key)]
  <2>1. At(json, place) \in Levels(json)[n]
    BY DEF IsPlace
  <2>2. IsFiniteSet(DOMAIN f)
    BY <2>1, KeysAre
  <2>3. {Append(place, key) : key \in KeysOf(At(json, place))} = {f[x] : x \in DOMAIN f}
    OBVIOUS
  <2> HIDE DEF f
  <2>. QED
    BY <2>2, <2>3, ImageIsFinite
<1>3. IsFiniteSet(Onward(json, places))
  <2> DEFINE f == [place \in places |-> {Append(place, key) : key \in KeysOf(At(json, place))}]
             all == {f[x] : x \in DOMAIN f}
  <2>1. DOMAIN f = places /\ \A x \in places : IsFiniteSet(f[x])
    BY <1>2
  <2>2. Onward(json, places) = UNION all
    BY DEF Onward
  <2> HIDE DEF f
  <2>3. IsFiniteSet(all) /\ \A T \in all : IsFiniteSet(T)
    BY <2>1, ImageIsFinite
  <2> HIDE DEF all
  <2>. QED
    BY <2>2, <2>3, FS_UNION
<1>. QED
  BY <1>1, <1>3 DEF Onward

LEMMA PlacesAreGood ==
    ASSUME NEW json, Nested(json, MaxNesting)
    PROVE  \A n \in 0..MaxNesting :
              IsFiniteSet(PlacesOn(json)[n]) /\ \A place \in PlacesOn(json)[n] : IsPlace(json, n, place)
<1> DEFINE Good(n) == IsFiniteSet(PlacesOn(json)[n]) /\ \A place \in PlacesOn(json)[n] : IsPlace(json, n, place)
           Bad == {n \in 0..MaxNesting : ~Good(n)}
<1>1. SUFFICES ASSUME Bad # {} PROVE FALSE
  OBVIOUS
<1>2. PICK n \in Bad : \A m \in Bad : n <= m
  <2>1. Bad \in SUBSET Nat
    BY NestingAssumption
  <2> HIDE DEF Bad
  <2>. QED
    BY <1>1, <2>1, Least
<1>3. n \in 0..MaxNesting /\ ~Good(n)
  OBVIOUS
<1>4. CASE n = 0
  <2>1. At(json, <<>>) = json
    <3>1. <<>> \in Seq({1}) /\ 1 \in {1}
      OBVIOUS
    <3>. QED
      BY <3>1, AtSteps
  <2>2. json \in Levels(json)[0] /\ PlacesOn(json)[0] = {<<>>}
    BY LevelsAre, PlacesAre
  <2>3. <<>> \in Seq(KeysIn(json)) /\ Len(<<>>) = 0
    OBVIOUS
  <2>. QED
    BY <1>3, <1>4, <2>1, <2>2, <2>3, FS_Singleton DEF IsPlace
<1>5. CASE n # 0
  <2>1. /\ n - 1 \in 0..MaxNesting /\ n \in 1..MaxNesting /\ n - 1 # MaxNesting
        /\ (n - 1) + 1 = n /\ ~(n <= n - 1)
    BY <1>3, <1>5, NestingAssumption
  <2>2. Good(n - 1)
    <3>1. n - 1 \notin Bad
      <4> HIDE DEF Bad
      <4>. QED
        BY <1>2, <2>1
    <3>. QED
      BY <2>1, <3>1
  <2>3. PlacesOn(json)[n] = Onward(json, PlacesOn(json)[n - 1])
    BY <2>1, PlacesAre
  <2>4. Good(n)
    BY <2>1, <2>2, <2>3, OnwardIs
  <2>. QED
    BY <1>3, <2>4
<1>. QED
  BY <1>4, <1>5
LEMMA PlaceFacts ==
    ASSUME NEW json, Nested(json, MaxNesting)
    PROVE  /\ <<>> \in Places(json) /\ IsFiniteSet(Places(json))
           /\ \A place \in Places(json) :
                 /\ place \in Seq(KeysIn(json)) /\ Len(place) \in 0..MaxNesting
                 /\ At(json, place) \in Within(json) /\ IsFiniteSet(KeysOf(At(json, place)))
                 /\ \A key \in KeysOf(At(json, place)) :
                       /\ key \in KeysIn(json)
                       /\ Append(place, key) \in Places(json)
                       /\ Append(place, key) \in Seq(KeysIn(json))
                       /\ Len(Append(place, key)) = Len(place) + 1
                       /\ \A i \in 1..Len(place) : Append(place, key)[i] = place[i]
                       /\ Append(place, key)[Len(place) + 1] = key
                       /\ At(json, Append(place, key)) = At(json, place)[2][key]
                 /\ place # <<>> => \E p \in Places(json) : \E key \in KeysOf(At(json, p)) : place = Append(p, key)
<1> DEFINE K == KeysIn(json)
<1>1. <<>> \in Places(json)
  <2>1. 0 \in 0..MaxNesting
    BY NestingAssumption
  <2>2. <<>> \in PlacesOn(json)[0]
    BY PlacesAre
  <2>. QED
    BY <2>1, <2>2 DEF Places
<1>2. IsFiniteSet(Places(json))
  <2> DEFINE f == [n \in 0..MaxNesting |-> PlacesOn(json)[n]]
             all == {f[x] : x \in DOMAIN f}
  <2>1. IsFiniteSet(0..MaxNesting)
    BY NestingAssumption, FS_Interval
  <2>2. DOMAIN f = 0..MaxNesting /\ \A n \in 0..MaxNesting : IsFiniteSet(f[n])
    BY PlacesAreGood
  <2>3. Places(json) = UNION all
    BY DEF Places
  <2> HIDE DEF f
  <2>4. IsFiniteSet(all) /\ \A T \in all : IsFiniteSet(T)
    BY <2>1, <2>2, ImageIsFinite
  <2> HIDE DEF all
  <2>. QED
    BY <2>3, <2>4, FS_UNION
<1>3. ASSUME NEW place \in Places(json)
      PROVE  /\ place \in Seq(K) /\ Len(place) \in 0..MaxNesting
             /\ At(json, place) \in Within(json) /\ IsFiniteSet(KeysOf(At(json, place)))
  <2>1. PICK n \in 0..MaxNesting : place \in PlacesOn(json)[n]
    BY DEF Places
  <2>2. place \in Seq(K) /\ Len(place) = n /\ At(json, place) \in Levels(json)[n]
    BY <2>1, PlacesAreGood DEF IsPlace
  <2>. QED
    BY <2>2, KeysAre
<1>4. ASSUME NEW place \in Places(json), NEW key \in KeysOf(At(json, place))
      PROVE  /\ key \in K
             /\ Append(place, key) \in Places(json)
             /\ Append(place, key) \in Seq(K)
             /\ Len(Append(place, key)) = Len(place) + 1
             /\ \A i \in 1..Len(place) : Append(place, key)[i] = place[i]
             /\ Append(place, key)[Len(place) + 1] = key
             /\ At(json, Append(place, key)) = At(json, place)[2][key]
  <2>1. PICK n \in 0..MaxNesting : place \in PlacesOn(json)[n]
    BY DEF Places
  <2>2. place \in Seq(K) /\ Len(place) = n /\ At(json, place) \in Levels(json)[n]
    BY <2>1, PlacesAreGood DEF IsPlace
  <2>3. key \in K /\ n # MaxNesting
    BY <2>2, KeysAre
  <2>4. n + 1 \in 1..MaxNesting /\ n + 1 \in 0..MaxNesting /\ (n + 1) - 1 = n
    BY <2>3, NestingAssumption
  <2>5. PlacesOn(json)[n + 1] = Onward(json, PlacesOn(json)[n])
    BY <2>4, PlacesAre
  <2>6. Append(place, key) \in Onward(json, PlacesOn(json)[n])
    BY <2>1 DEF Onward
  <2>7. Append(place, key) \in Places(json)
    BY <2>4, <2>5, <2>6 DEF Places
  <2>. QED
    BY <2>2, <2>3, <2>7, AppendProperties, AtSteps
<1>5. ASSUME NEW place \in Places(json), place # <<>>
      PROVE  \E p \in Places(json) : \E key \in KeysOf(At(json, p)) : place = Append(p, key)
  <2>1. PICK n \in 0..MaxNesting : place \in PlacesOn(json)[n]
    BY DEF Places
  <2>2. n # 0
    BY <1>5, <2>1, PlacesAre
  <2>3. n \in 1..MaxNesting /\ n - 1 \in 0..MaxNesting
    BY <2>2, NestingAssumption
  <2>4. place \in Onward(json, PlacesOn(json)[n - 1])
    BY <2>1, <2>3, PlacesAre
  <2>5. PICK p \in PlacesOn(json)[n - 1] : \E key \in KeysOf(At(json, p)) : place = Append(p, key)
    BY <2>4 DEF Onward
  <2>6. p \in Places(json)
    BY <2>3, <2>5 DEF Places
  <2>. QED
    BY <2>5, <2>6
<1>. QED
  BY <1>1, <1>2, <1>3, <1>4, <1>5

-----------------------------------------------------------------------------
(***************************************************************************)
(* The places at or beneath a place.                                       *)
(***************************************************************************)

Under(json, place) ==
    {q \in Places(json) : Len(q) >= Len(place) /\ \A i \in 1..Len(place) : q[i] = place[i]}

Beneath(json, place) == Under(json, place) \ {place}

\* The next key on the way to a place is one of the value that it leads on from.
LEMMA NextKey ==
    ASSUME NEW json, Nested(json, MaxNesting), NEW place \in Places(json), NEW q \in Beneath(json, place)
    PROVE  Len(q) > Len(place) /\ q[Len(place) + 1] \in KeysOf(At(json, place))
<1> DEFINE n == Len(place)
           Wrong(u) == Len(u) > n /\ u[n + 1] \notin KeysOf(At(json, place))
           Bad == {k \in 0..MaxNesting : \E u \in Under(json, place) : Len(u) = k /\ Wrong(u)}
<1>0. /\ place \in Seq(KeysIn(json)) /\ n \in 0..MaxNesting
      /\ \A u \in Under(json, place) :
            /\ u \in Places(json) /\ u \in Seq(KeysIn(json)) /\ Len(u) \in 0..MaxNesting /\ Len(u) >= n
            /\ \A i \in 1..n : u[i] = place[i]
  BY PlaceFacts DEF Under
<1>1. ASSUME NEW u \in Under(json, place), Len(u) = n
      PROVE  u = place
  BY <1>0, <1>1, SeqEqual
<1>2. Bad = {}
  <2>1. SUFFICES ASSUME Bad # {} PROVE FALSE
    OBVIOUS
  <2>2. PICK k \in Bad : \A m \in Bad : k <= m
    <3>1. Bad \in SUBSET Nat
      BY NestingAssumption
    <3> HIDE DEF Bad
    <3>. QED
      BY <2>1, <3>1, Least
  <2>3. PICK u \in Under(json, place) : Len(u) = k /\ Wrong(u)
    OBVIOUS
  <2>4. u \in Places(json) /\ u # <<>>
    BY <1>0, <2>3
  <2>5. PICK p \in Places(json) : \E key \in KeysOf(At(json, p)) : u = Append(p, key)
    BY <2>4, PlaceFacts
  <2>6. PICK key \in KeysOf(At(json, p)) : u = Append(p, key)
    BY <2>5
  <2>7. /\ p \in Seq(KeysIn(json)) /\ Len(p) \in 0..MaxNesting /\ Len(u) = Len(p) + 1
        /\ (\A i \in 1..Len(p) : u[i] = p[i]) /\ u[Len(p) + 1] = key
    BY <2>6, PlaceFacts
  <2>8. p \in Under(json, place)
    <3>1. Len(p) >= n /\ \A i \in 1..n : i \in 1..Len(p)
      BY <1>0, <2>3, <2>7
    <3>2. \A i \in 1..n : p[i] = place[i]
      BY <1>0, <2>7, <3>1
    <3>. QED
      BY <3>1, <3>2 DEF Under
  <2>9. CASE Len(p) = n
    <3>1. p = place
      BY <1>1, <2>8, <2>9
    <3>. QED
      BY <2>3, <2>6, <2>7, <3>1
  <2>10. CASE Len(p) # n
    <3>1. Len(p) > n /\ n + 1 \in 1..Len(p)
      BY <1>0, <2>7, <2>8, <2>10
    <3>2. u[n + 1] = p[n + 1]
      BY <2>7, <3>1
    <3>3. Wrong(p)
      BY <2>3, <3>1, <3>2
    <3>4. Len(p) \in Bad
      BY <2>7, <2>8, <3>3
    <3>5. ~(k <= Len(p))
      BY <2>3, <2>7
    <3> HIDE DEF Bad
    <3>. QED
      BY <2>2, <3>4, <3>5
  <2>. QED
    BY <2>9, <2>10
<1>3. q \in Under(json, place) /\ q # place
  BY DEF Beneath
<1>4. Len(q) > n
  BY <1>0, <1>1, <1>3
<1>5. ~Wrong(q)
  BY <1>0, <1>2, <1>3
<1>. QED
  BY <1>4, <1>5

LEMMA BeneathIs ==
    ASSUME NEW json, Nested(json, MaxNesting), NEW place \in Places(json)
    PROVE  /\ Beneath(json, place) =
                 UNION {Under(json, Append(place, key)) : key \in KeysOf(At(json, place))}
           /\ \A k, l \in KeysOf(At(json, place)) :
                 k # l => Under(json, Append(place, k)) \cap Under(json, Append(place, l)) = {}
           /\ place \in Under(json, place)
           /\ IsFiniteSet(Under(json, place)) /\ IsFiniteSet(Beneath(json, place))
<1> DEFINE n == Len(place)
           D == KeysOf(At(json, place))
<1>0. n \in 0..MaxNesting
  BY PlaceFacts
<1>1. ASSUME NEW key \in D
      PROVE  /\ Len(Append(place, key)) = n + 1 /\ Append(place, key)[n + 1] = key
             /\ \A i \in 1..n : Append(place, key)[i] = place[i]
             /\ Append(place, key) \in Places(json)
  BY PlaceFacts
<1>2. ASSUME NEW key \in D, NEW q \in Under(json, Append(place, key))
      PROVE  q \in Beneath(json, place) /\ q[n + 1] = key
  <2>1. /\ q \in Places(json) /\ Len(q) >= n + 1 /\ Len(q) \in 0..MaxNesting
        /\ \A i \in 1..n + 1 : q[i] = Append(place, key)[i]
    BY <1>1, PlaceFacts DEF Under
  <2>2. q[n + 1] = key
    <3>1. n + 1 \in 1..n + 1
      BY <1>0
    <3>. QED
      BY <1>1, <2>1, <3>1
  <2>3. \A i \in 1..n : i \in 1..n + 1 /\ q[i] = place[i]
    BY <1>0, <1>1, <2>1
  <2>4. Len(q) >= n /\ q # place
    BY <1>0, <2>1
  <2>. QED
    BY <2>1, <2>2, <2>3, <2>4 DEF Under, Beneath
<1>3. ASSUME NEW q \in Beneath(json, place)
      PROVE  \E key \in D : q \in Under(json, Append(place, key))
  <2> DEFINE key == q[n + 1]
  <2>1. Len(q) > n /\ key \in D /\ q \in Places(json) /\ Len(q) \in 0..MaxNesting
    BY NextKey, PlaceFacts DEF Beneath, Under
  <2>2. \A i \in 1..n : q[i] = place[i]
    BY DEF Beneath, Under
  <2>3. \A i \in 1..n + 1 : q[i] = Append(place, key)[i]
    <3>1. \A i \in 1..n + 1 : i \in 1..n \/ i = n + 1
      BY <1>0
    <3>. QED
      BY <1>1, <2>1, <2>2, <3>1
  <2>4. Len(q) >= n + 1
    BY <1>0, <2>1
  <2>5. q \in Under(json, Append(place, key))
    BY <1>1, <2>1, <2>3, <2>4 DEF Under
  <2>. QED
    BY <2>1, <2>5
<1>4. Beneath(json, place) = UNION {Under(json, Append(place, key)) : key \in D}
  BY <1>2, <1>3
<1>5. \A k, l \in D : k # l => Under(json, Append(place, k)) \cap Under(json, Append(place, l)) = {}
  BY <1>2
<1>6. place \in Under(json, place)
  BY <1>0 DEF Under
<1>7. IsFiniteSet(Under(json, place)) /\ IsFiniteSet(Beneath(json, place))
  <2>1. Under(json, place) \subseteq Places(json) /\ Beneath(json, place) \subseteq Places(json)
    BY DEF Under, Beneath
  <2>. QED
    BY <2>1, PlaceFacts, FS_Subset
<1>. QED
  BY <1>4, <1>5, <1>6, <1>7

-----------------------------------------------------------------------------
(***************************************************************************)
(* Order.  A strict total order gives each element of a finite set a place *)
(* of its own.                                                             *)
(***************************************************************************)

\* R orders S strictly and totally.
Orders(R, S) ==
    /\ \A x \in S : <<x, x>> \notin R
    /\ \A x, y \in S : x # y => <<x, y>> \in R \/ <<y, x>> \in R
    /\ \A x, y, z \in S : <<x, y>> \in R /\ <<y, z>> \in R => <<x, z>> \in R

Preceding(x, R, S) == {y \in S : <<y, x>> \in R}

LEMMA PlacesInOrder ==
    ASSUME NEW S, IsFiniteSet(S), NEW R, Orders(R, S)
    PROVE  /\ Cardinality(S) \in Nat
           /\ \A x \in S : Cardinality(Preceding(x, R, S)) \in 0..Cardinality(S) - 1
           /\ \A x, y \in S : <<x, y>> \in R =>
                 Cardinality(Preceding(x, R, S)) < Cardinality(Preceding(y, R, S))
           /\ \A i \in 1..Cardinality(S) :
                 \E x \in S : Cardinality(Preceding(x, R, S)) = i - 1
<1>1. Cardinality(S) \in Nat
  BY FS_CardinalityType
<1>2. \A x \in S : /\ IsFiniteSet(Preceding(x, R, S))
                   /\ Cardinality(Preceding(x, R, S)) \in 0..Cardinality(S) - 1
  <2>1. SUFFICES ASSUME NEW x \in S
                 PROVE  /\ IsFiniteSet(Preceding(x, R, S))
                        /\ Cardinality(Preceding(x, R, S)) \in 0..Cardinality(S) - 1
    OBVIOUS
  <2>2. Preceding(x, R, S) \subseteq S \ {x}
    BY DEF Preceding, Orders
  <2>3. IsFiniteSet(S \ {x}) /\ Cardinality(S \ {x}) = Cardinality(S) - 1
    BY FS_RemoveElement
  <2>4. /\ IsFiniteSet(Preceding(x, R, S))
        /\ Cardinality(Preceding(x, R, S)) <= Cardinality(S \ {x})
    BY <2>2, <2>3, FS_Subset
  <2>5. Cardinality(Preceding(x, R, S)) \in Nat
    BY <2>4, FS_CardinalityType
  <2>. QED
    BY <1>1, <2>3, <2>4, <2>5
<1>3. \A x, y \in S : <<x, y>> \in R =>
         Cardinality(Preceding(x, R, S)) < Cardinality(Preceding(y, R, S))
  <2>1. SUFFICES ASSUME NEW x \in S, NEW y \in S, <<x, y>> \in R
                 PROVE  Cardinality(Preceding(x, R, S)) < Cardinality(Preceding(y, R, S))
    OBVIOUS
  <2>2. Preceding(x, R, S) \subseteq Preceding(y, R, S)
    BY <2>1 DEF Preceding, Orders
  <2>3. x \in Preceding(y, R, S) /\ x \notin Preceding(x, R, S)
    BY <2>1 DEF Preceding, Orders
  <2>4. IsFiniteSet(Preceding(y, R, S))
    BY <1>2
  <2>5. Preceding(x, R, S) # Preceding(y, R, S)
    BY <2>3
  <2>6. /\ Cardinality(Preceding(x, R, S)) <= Cardinality(Preceding(y, R, S))
        /\ Cardinality(Preceding(x, R, S)) # Cardinality(Preceding(y, R, S))
    BY <2>2, <2>4, <2>5, FS_Subset
  <2>7. /\ Cardinality(Preceding(x, R, S)) \in Int
        /\ Cardinality(Preceding(y, R, S)) \in Int
    BY <1>1, <1>2
  <2>. QED
    BY <2>6, <2>7
<1> DEFINE n == Cardinality(S)
<1>4. \A i \in 1..n : \E x \in S : Cardinality(Preceding(x, R, S)) = i - 1
  <2>1. SUFFICES ASSUME NEW i \in 1..n, \A x \in S : Cardinality(Preceding(x, R, S)) # i - 1
                 PROVE  FALSE
    OBVIOUS
  <2> DEFINE T     == (0..n - 1) \ {i - 1}
             place == [x \in S |-> Cardinality(Preceding(x, R, S))]
  <2>2. place \in [S -> T]
    BY <1>2, <2>1
  <2>3. /\ IsFiniteSet(0..n - 1)
        /\ Cardinality(0..n - 1) = n
    <3>1. Cardinality(0..n - 1) = IF 0 > n - 1 THEN 0 ELSE (n - 1) - 0 + 1
      BY <1>1, FS_Interval
    <3>. QED
      BY <1>1, <3>1, FS_Interval
  <2>4. i - 1 \in 0..n - 1
    BY <1>1
  <2>5. IsFiniteSet(T) /\ Cardinality(T) = n - 1
    <3>1. /\ IsFiniteSet(T)
          /\ Cardinality(T) = IF i - 1 \in 0..n - 1 THEN Cardinality(0..n - 1) - 1
                              ELSE Cardinality(0..n - 1)
      BY ONLY <2>3, FS_RemoveElement
    <3>. QED
      BY <2>3, <2>4, <3>1
  <2>6. Cardinality(T) < n
    BY <1>1, <2>5
  <2>7. PICK x, y \in S : x # y /\ place[x] = place[y]
    <3> HIDE DEF T, place
    <3>. QED
      BY <2>2, <2>5, <2>6, FS_PigeonHole
  <2>8. <<x, y>> \in R \/ <<y, x>> \in R
    BY <2>7 DEF Orders
  <2>9. /\ Cardinality(Preceding(x, R, S)) \in Nat
        /\ Cardinality(Preceding(y, R, S)) = Cardinality(Preceding(x, R, S))
    BY <1>1, <1>2, <2>7
  <2>. QED
    BY <1>3, <2>8, <2>9
<1>. QED
  BY <1>1, <1>2, <1>3, <1>4

LEMMA Ordered ==
    ASSUME NEW S, IsFiniteSet(S), NEW R, Orders(R, S), NEW s,
           s \in [1..Cardinality(S) -> S],
           \A i \in 1..Cardinality(S) : Cardinality(Preceding(s[i], R, S)) = i - 1
    PROVE  /\ s \in Seq(S) /\ Len(s) = Cardinality(S)
           /\ \A x \in S : \E i \in 1..Len(s) : s[i] = x
           /\ \A i, j \in 1..Len(s) : i < j => <<s[i], s[j]>> \in R
<1>1. /\ Cardinality(S) \in Nat
      /\ \A x \in S : Cardinality(Preceding(x, R, S)) \in 0..Cardinality(S) - 1
      /\ \A x, y \in S : <<x, y>> \in R =>
            Cardinality(Preceding(x, R, S)) < Cardinality(Preceding(y, R, S))
  BY PlacesInOrder
<1> DEFINE n        == Cardinality(S)
           place(x) == Cardinality(Preceding(x, R, S))
<1> HIDE DEF n, place
<1>2. /\ n \in Nat
      /\ \A x \in S : place(x) \in 0..n - 1
      /\ \A x, y \in S : <<x, y>> \in R => place(x) < place(y)
  BY <1>1 DEF n, place
<1>3. s \in [1..n -> S]
  BY DEF n
<1>4. \A i \in 1..n : s[i] \in S /\ place(s[i]) = i - 1
  BY <1>3 DEF n, place
<1>5. s \in Seq(S) /\ Len(s) = n
  <2>1. s \in [1..n -> S]
    BY <1>3, <1>4
  <2>2. n \in Nat
    BY <1>2
  <2>3. s \in Seq(S)
    BY <2>1, <2>2, SeqDef
  <2>4. DOMAIN s = 1..n
    BY <2>1
  <2>5. DOMAIN s = 1..Len(s) /\ Len(s) \in Nat
    BY <2>3, LenProperties
  <2>6. Len(s) = n
    <3>1. \A l \in Nat : 1..l = 1..n => l = n
      <4>1. SUFFICES ASSUME NEW l \in Nat, 1..l = 1..n, l # n PROVE FALSE
        OBVIOUS
      <4>2. (l \in 1..l <=> l \in 1..n) /\ (n \in 1..l <=> n \in 1..n)
        BY <4>1
      <4>. QED
        BY <2>2, <4>1, <4>2
    <3>. QED
      BY <2>4, <2>5, <3>1
  <2>. QED
    BY <2>3, <2>6
<1>6. \A x, y \in S : place(x) = place(y) => x = y
  <2>1. SUFFICES ASSUME NEW x \in S, NEW y \in S, place(x) = place(y), x # y PROVE FALSE
    OBVIOUS
  <2>2. <<x, y>> \in R \/ <<y, x>> \in R
    BY <2>1 DEF Orders
  <2>3. place(x) \in Nat /\ place(y) \in Nat
    BY <1>2
  <2>. QED
    BY <1>2, <2>1, <2>2, <2>3
<1>7. \A x \in S : \E i \in 1..n : s[i] = x
  <2>1. SUFFICES ASSUME NEW x \in S PROVE \E i \in 1..n : s[i] = x
    OBVIOUS
  <2>2. place(x) + 1 \in 1..n /\ (place(x) + 1) - 1 = place(x)
    BY <1>2
  <2>3. s[place(x) + 1] = x
    BY <1>4, <1>6, <2>2
  <2>. QED
    BY <2>2, <2>3
<1>8. \A i, j \in 1..n : i < j => <<s[i], s[j]>> \in R
  <2>1. SUFFICES ASSUME NEW i \in 1..n, NEW j \in 1..n, i < j PROVE <<s[i], s[j]>> \in R
    OBVIOUS
  <2>2. /\ s[i] \in S /\ s[j] \in S /\ place(s[i]) = i - 1 /\ place(s[j]) = j - 1
    BY <1>4
  <2>3. s[i] # s[j] /\ ~ (place(s[j]) < place(s[i]))
    BY <1>2, <2>1, <2>2
  <2>. QED
    BY <1>2, <2>2, <2>3 DEF Orders
<1>. QED
  BY <1>5, <1>7, <1>8 DEF n

-----------------------------------------------------------------------------
(***************************************************************************)
(* Bytes compare as sequences of numbers.                                  *)
(***************************************************************************)

\* Where a and b differ first, a has the smaller number.
LessAt(a, b, i) == a[i] < b[i] /\ \A j \in 1..i - 1 : a[j] = b[j]

\* a goes on as b, where it ends.
StartsAs(a, b) == Len(a) < Len(b) /\ \A j \in 1..Len(a) : a[j] = b[j]

LEMMA BeforeIs ==
    ASSUME NEW a \in Seq(Nat), NEW b \in Seq(Nat)
    PROVE  Before(a, b) <=> \/ StartsAs(a, b)
                            \/ \E i \in 1..Len(a) : i <= Len(b) /\ LessAt(a, b, i)
<1>1. Len(a) \in Nat /\ Len(b) \in Nat
  OBVIOUS
<1>2. IsStrictPrefix(a, b) <=> StartsAs(a, b)
  <2>1. ASSUME Len(a) <= Len(b)
        PROVE  SubSeq(a, 1, Len(a)) = SubSeq(b, 1, Len(a)) <=> \A j \in 1..Len(a) : a[j] = b[j]
    <3>1. SubSeq(a, 1, Len(a)) = [j \in 1..Len(a) |-> a[j]]
      BY <1>1
    <3>2. SubSeq(b, 1, Len(a)) = [j \in 1..Len(a) |-> b[j]]
      BY <1>1, <2>1
    <3>. QED
      BY <3>1, <3>2
  <2>2. ASSUME Len(a) = Len(b), \A j \in 1..Len(a) : a[j] = b[j]
        PROVE  a = b
    BY <2>2, SeqEqual
  <2>. QED
    BY <1>1, <2>1, <2>2 DEF IsStrictPrefix, IsPrefix, StartsAs
<1>. QED
  BY <1>2 DEF Before, LessAt

LEMMA BeforeOrders ==
    ASSUME NEW a \in Seq(Nat), NEW b \in Seq(Nat), NEW c \in Seq(Nat)
    PROVE  /\ ~Before(a, a)
           /\ a # b => Before(a, b) \/ Before(b, a)
           /\ Before(a, b) /\ Before(b, c) => Before(a, c)
<1>1. /\ Len(a) \in Nat /\ Len(b) \in Nat /\ Len(c) \in Nat
      /\ \A i \in 1..Len(a) : a[i] \in Nat
      /\ \A i \in 1..Len(b) : b[i] \in Nat
      /\ \A i \in 1..Len(c) : c[i] \in Nat
  OBVIOUS
<1>2. ~Before(a, a)
  BY <1>1, BeforeIs DEF StartsAs, LessAt
<1>3. a # b => Before(a, b) \/ Before(b, a)
  <2>1. SUFFICES ASSUME a # b PROVE Before(a, b) \/ Before(b, a)
    OBVIOUS
  <2> DEFINE D == {i \in 1..Len(a) : i <= Len(b) /\ a[i] # b[i]}
  <2>2. CASE D = {}
    <3>1. \A i \in 1..Len(a) : i <= Len(b) => a[i] = b[i]
      BY <2>2
    <3>2. Len(a) # Len(b)
      BY <2>1, <3>1, SeqEqual
    <3>3. CASE Len(a) < Len(b)
      BY <1>1, <3>1, <3>3, BeforeIs DEF StartsAs
    <3>4. CASE Len(b) < Len(a)
      <4>1. StartsAs(b, a)
        BY <1>1, <3>1, <3>4 DEF StartsAs
      <4>. QED
        BY <4>1, BeforeIs
    <3>. QED
      BY <1>1, <3>2, <3>3, <3>4
  <2>3. CASE D # {}
    <3>1. D \in SUBSET Nat
      BY <1>1
    <3> HIDE DEF D
    <3>2. PICK i \in D : \A j \in D : i <= j
      BY <2>3, <3>1, Least
    <3>3. i \in 1..Len(a) /\ i <= Len(b) /\ a[i] # b[i]
      BY <3>2 DEF D
    <3>4. \A j \in 1..i - 1 : a[j] = b[j]
      <4>1. SUFFICES ASSUME NEW j \in 1..i - 1, a[j] # b[j] PROVE FALSE
        OBVIOUS
      <4>2. j \in 1..Len(a) /\ j <= Len(b) /\ ~ (i <= j)
        BY <1>1, <3>3
      <4>. QED
        BY <3>2, <4>1, <4>2 DEF D
    <3>5. a[i] \in Nat /\ b[i] \in Nat
      BY <1>1, <3>3
    <3>6. CASE a[i] < b[i]
      BY <3>3, <3>4, <3>6, BeforeIs DEF LessAt
    <3>7. CASE b[i] < a[i]
      <4>1. LessAt(b, a, i) /\ i \in 1..Len(b) /\ i <= Len(a)
        BY <1>1, <3>3, <3>4, <3>7 DEF LessAt
      <4>. QED
        BY <4>1, BeforeIs
    <3>. QED
      BY <3>3, <3>5, <3>6, <3>7
  <2>. QED
    BY <2>2, <2>3
<1>4. Before(a, b) /\ Before(b, c) => Before(a, c)
  <2>1. SUFFICES ASSUME Before(a, b), Before(b, c) PROVE Before(a, c)
    OBVIOUS
  <2>2. \/ StartsAs(a, b)
        \/ \E i \in 1..Len(a) : i <= Len(b) /\ LessAt(a, b, i)
    BY <2>1, BeforeIs
  <2>3. \/ StartsAs(b, c)
        \/ \E i \in 1..Len(b) : i <= Len(c) /\ LessAt(b, c, i)
    BY <2>1, BeforeIs
  <2>4. SUFFICES \/ StartsAs(a, c)
                 \/ \E i \in 1..Len(a) : i <= Len(c) /\ LessAt(a, c, i)
    BY BeforeIs
  <2>5. CASE StartsAs(a, b) /\ StartsAs(b, c)
    BY <1>1, <2>5 DEF StartsAs
  <2>6. ASSUME StartsAs(a, b), NEW i \in 1..Len(b), i <= Len(c), LessAt(b, c, i)
        PROVE  \/ StartsAs(a, c)
               \/ \E k \in 1..Len(a) : k <= Len(c) /\ LessAt(a, c, k)
    <3>1. CASE i <= Len(a)
      BY <1>1, <2>6, <3>1 DEF StartsAs, LessAt
    <3>2. CASE Len(a) < i
      BY <1>1, <2>6, <3>2 DEF StartsAs, LessAt
    <3>. QED
      BY <1>1, <3>1, <3>2
  <2>7. ASSUME NEW i \in 1..Len(a), i <= Len(b), LessAt(a, b, i), StartsAs(b, c)
        PROVE  \E k \in 1..Len(a) : k <= Len(c) /\ LessAt(a, c, k)
    <3>1. i <= Len(c) /\ b[i] = c[i] /\ \A j \in 1..i - 1 : b[j] = c[j]
      BY <1>1, <2>7 DEF StartsAs
    <3>2. LessAt(a, c, i)
      BY <2>7, <3>1 DEF LessAt
    <3>. QED
      BY <3>1, <3>2
  <2>8. ASSUME NEW i \in 1..Len(a), i <= Len(b), LessAt(a, b, i),
               NEW k \in 1..Len(b), k <= Len(c), LessAt(b, c, k)
        PROVE  \E m \in 1..Len(a) : m <= Len(c) /\ LessAt(a, c, m)
    <3>1. /\ a[i] < b[i] /\ \A j \in 1..i - 1 : a[j] = b[j]
          /\ b[k] < c[k] /\ \A j \in 1..k - 1 : b[j] = c[j]
      BY <2>8 DEF LessAt
    <3>2. CASE i < k
      <4>1. i \in 1..k - 1 /\ \A j \in 1..i - 1 : j \in 1..k - 1
        BY <1>1, <2>8, <3>2
      <4>2. LessAt(a, c, i)
        BY <3>1, <4>1 DEF LessAt
      <4>3. i <= Len(c)
        BY <1>1, <2>8, <3>2
      <4>. QED
        BY <4>2, <4>3
    <3>3. CASE i = k
      <4>1. a[i] \in Nat /\ b[i] \in Nat /\ c[i] \in Nat
        BY <1>1, <2>8, <3>3
      <4>2. a[i] < c[i]
        BY <3>1, <3>3, <4>1
      <4>3. LessAt(a, c, i)
        BY <3>1, <3>3, <4>2 DEF LessAt
      <4>. QED
        BY <2>8, <3>3, <4>3
    <3>4. CASE k < i
      <4>1. k \in 1..i - 1 /\ k \in 1..Len(a) /\ \A j \in 1..k - 1 : j \in 1..i - 1
        BY <1>1, <2>8, <3>4
      <4>2. LessAt(a, c, k)
        BY <3>1, <4>1 DEF LessAt
      <4>. QED
        BY <2>8, <4>1, <4>2
    <3>. QED
      BY <1>1, <3>2, <3>3, <3>4
  <2>. QED
    BY <2>2, <2>3, <2>5, <2>6, <2>7, <2>8
<1>. QED
  BY <1>2, <1>3, <1>4

\* Where a list has members of a set.
Among(list, P) == {i \in 1..Len(list) : list[i] \in P}

\* What occurs in a part of a list occurs in the list, as often at least.
LEMMA PartOccurs ==
    ASSUME NEW T, NEW base \in Seq(T), NEW child \in Seq(T), NEW P
    PROVE  LET w == base \o child
               C == Among(child, P)
               W == Among(w, P)
           IN  /\ Len(child) \in Nat /\ Len(w) \in Nat /\ Len(child) <= Len(w)
               /\ \A i \in 1..Len(child) : \E j \in 1..Len(w) : w[j] = child[i]
               /\ Cardinality(C) \in Nat /\ Cardinality(W) \in Nat /\ Cardinality(C) <= Cardinality(W)
<1> DEFINE w == base \o child
           b == Len(base)
           C == Among(child, P)
           W == Among(w, P)
<1>1. b \in Nat /\ Len(child) \in Nat /\ Len(w) = b + Len(child)
  BY ConcatProperties
<1>2. \A i \in 1..Len(child) : b + i \in 1..Len(w) /\ w[b + i] = child[i]
  <2>1. \A j \in 1..b + Len(child) : w[j] = IF j <= b THEN base[j] ELSE child[j - b]
    BY ConcatProperties
  <2> HIDE DEF w, b
  <2>2. ASSUME NEW i \in 1..Len(child) PROVE b + i \in 1..Len(w) /\ w[b + i] = child[i]
    <3>1. b + i \in 1..b + Len(child) /\ ~(b + i <= b) /\ (b + i) - b = i
      BY <1>1
    <3>. QED
      BY <1>1, <2>1, <3>1
  <2>. QED
    BY <2>2
<1>3. IsFiniteSet(W) /\ IsFiniteSet(C)
  <2>1. IsFiniteSet(1..Len(w)) /\ IsFiniteSet(1..Len(child))
    BY <1>1, FS_Interval
  <2>. QED
    BY <2>1, FS_Subset DEF Among
<1>4. Cardinality(C) <= Cardinality(W)
  <2> DEFINE f == [i \in C |-> b + i]
  <2>1. f \in [C -> W]
    BY <1>2 DEF Among
  <2>2. \A i, j \in C : f[i] = f[j] => i = j
    BY <1>1 DEF Among
  <2> HIDE DEF C, W, f
  <2>3. f \in Injection(C, W)
    BY <2>1, <2>2 DEF Injection, IsInjective
  <2>. QED
    BY <1>3, <2>3, FS_Injection
<1>5. Cardinality(C) \in Nat /\ Cardinality(W) \in Nat
  BY <1>3, FS_CardinalityType
<1>6. Len(w) \in Nat /\ Len(child) <= Len(w)
  BY ONLY <1>1
<1>. QED
  BY <1>1, <1>2, <1>4, <1>5, <1>6

\* A list is what precedes its last member, and that member.
LEMMA BeforeLast ==
    ASSUME NEW T, NEW p \in Seq(T), p # <<>>
    PROVE  LET front == SubSeq(p, 1, Len(p) - 1)
           IN  /\ Len(p) \in Nat \ {0} /\ front \in Seq(T)
               /\ p = Append(front, p[Len(p)])
               /\ front = <<>> \/ Len(p) - 1 \in 1..Len(p) - 1
<1> DEFINE n     == Len(p) - 1
           front == SubSeq(p, 1, n)
           last  == p[n + 1]
<1>1. Len(p) \in Nat \ {0} /\ \A i \in 1..Len(p) : p[i] \in T
  OBVIOUS
<1>2. n \in Nat /\ n \in Int /\ 1 \in Int /\ Len(p) = n + 1 /\ \A i \in 1..n : p[i] \in T
  BY <1>1
<1>3. /\ front \in Seq(T) /\ Len(front) = IF 1 <= n THEN n - 1 + 1 ELSE 0
      /\ \A i \in 1..n - 1 + 1 : front[i] = p[1 + i - 1]
  BY <1>2, SubSeqProperties
<1>4. last \in T
  BY <1>1
<1> HIDE DEF n, front, last
<1>5. front \in Seq(T) /\ Len(front) = n /\ \A i \in 1..n : front[i] = p[i]
  BY <1>2, <1>3
<1>6. n = 0 => front = <<>>
  BY <1>5
<1>7. /\ Append(front, last) \in Seq(T)
      /\ Len(Append(front, last)) = n + 1
      /\ \A i \in 1..n : Append(front, last)[i] = front[i]
      /\ Append(front, last)[n + 1] = last
  BY <1>4, <1>5, AppendProperties
<1>8. last = p[n + 1]
  BY DEF last
<1>9. \A i \in 1..n + 1 : p[i] = Append(front, last)[i]
  BY <1>2, <1>5, <1>7, <1>8
<1>10. p = Append(front, last)
  BY <1>2, <1>7, <1>9, SeqEqual
<1>11. n = Len(p) - 1 /\ front = SubSeq(p, 1, n) /\ last = p[Len(p)]
  BY <1>2, <1>8 DEF n, front
<1>. QED
  BY <1>1, <1>2, <1>5, <1>6, <1>10, <1>11
=============================================================================
