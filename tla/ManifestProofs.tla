--------------------------- MODULE ManifestProofs ---------------------------
(***************************************************************************)
(* Proofs about the manifest, for any members, findings and edits.         *)
(***************************************************************************)
EXTENDS Manifest, SharedProofs

(***************************************************************************)
(* Values, level by level.  Redact and Faithful are recursive functions    *)
(* over the levels; that they exist is shown by looking at the least level *)
(* down to which they do not.                                              *)
(***************************************************************************)

\* A value with so many levels has nothing on the last one but leaves.
LEMMA LastLevel ==
    ASSUME NEW value, Nested(value, MaxNesting - 1)
    PROVE  /\ \A v \in Within(value) : Formed(v)
           /\ \A v \in Levels(value)[MaxNesting] : v[1] \notin {"list", "object"}
<1>1. MaxNesting \in 1..MaxNesting
  BY NestingAssumption
<1>2. Levels(value)[MaxNesting] = UNION {Inside(v) : v \in Levels(value)[MaxNesting - 1]}
  BY <1>1, LevelsAre
<1>3. \A v \in Levels(value)[MaxNesting - 1] : Inside(v) = {}
  BY DEF Nested, Inside
<1>4. Levels(value)[MaxNesting] = {}
  BY <1>2, <1>3
<1>. QED
  BY <1>4 DEF Nested

-----------------------------------------------------------------------------

IsRedaction(value, r, N) == r = [n \in 0..N |-> Redacting(value, r[n - 1], n)]

LEMMA NoLevelBelow ==
    ASSUME NEW value, NEW a, NEW b
    PROVE  Redacting(value, a, 0) = Redacting(value, b, 0)
<1> DEFINE Leaf(v) == IF v[1] = "text" /\ SensitiveMessage(v[2]) THEN Text(Redacted) ELSE v
<1>1. ASSUME NEW c, NEW v
      PROVE  Leaf(v) = CASE v[1] = "text" /\ SensitiveMessage(v[2]) -> Text(Redacted)
                         [] v[1] = "list" /\ 0 > 0 -> List([i \in 1..Len(v[2]) |-> c[v[2][i]]])
                         [] v[1] = "object" /\ 0 > 0 ->
                               Object([name \in Showable(v[2]) |-> c[v[2][name]]])
                         [] OTHER -> v
  <2>1. ~ (0 > 0)
    OBVIOUS
  <2>2. CASE v[1] = "text" /\ SensitiveMessage(v[2])
    BY <2>1, <2>2
  <2>3. CASE ~ (v[1] = "text" /\ SensitiveMessage(v[2]))
    BY <2>1, <2>3
  <2>. QED
    BY <2>2, <2>3
<1>2. ASSUME NEW c
      PROVE  Redacting(value, c, 0) = [v \in Within(value) |-> Leaf(v)]
  <2> HIDE DEF Leaf
  <2>. QED
    BY <1>1 DEF Redacting
<1>. QED
  BY <1>2

LEMMA RedactionExists ==
    ASSUME NEW value
    PROVE  \E r : IsRedaction(value, r, MaxNesting)
<1> DEFINE Bad == {N \in Nat : ~\E r : IsRedaction(value, r, N)}
<1>1. Bad = {}
  <2>1. SUFFICES ASSUME Bad # {} PROVE FALSE
    OBVIOUS
  <2>2. Bad \in SUBSET Nat
    OBVIOUS
  <2> HIDE DEF Bad
  <2>3. PICK N \in Bad : \A m \in Bad : N <= m
    BY <2>1, <2>2, Least
  <2>4. N \in Nat /\ ~\E r : IsRedaction(value, r, N)
    BY DEF Bad
  <2>5. PICK h : N # 0 => IsRedaction(value, h, N - 1)
    <3>1. N # 0 => N - 1 \in Nat /\ N - 1 \notin Bad
      BY <2>3, <2>4
    <3>. QED
      BY <3>1 DEF Bad
  <2> DEFINE f == [n \in 0..N |-> Redacting(value, h[n - 1], n)]
             g == [n \in 0..N |-> Redacting(value, f[n - 1], n)]
  <2>6. \A n \in 0..N - 1 : f[n] = h[n]
    <3>1. SUFFICES ASSUME NEW n \in 0..N - 1 PROVE f[n] = h[n]
      OBVIOUS
    <3>2. h = [m \in 0..N - 1 |-> Redacting(value, h[m - 1], m)]
      BY <2>4, <2>5, <3>1 DEF IsRedaction
    <3>3. h[n] = Redacting(value, h[n - 1], n)
      BY <3>2
    <3>4. n \in 0..N
      BY <2>4
    <3>. QED
      BY <3>3, <3>4
  <2>7. \A n \in 0..N : f[n] = g[n]
    <3>1. SUFFICES ASSUME NEW n \in 0..N
                   PROVE  Redacting(value, h[n - 1], n) = Redacting(value, f[n - 1], n)
      OBVIOUS
    <3>2. CASE n = 0
      BY <3>2, NoLevelBelow
    <3>3. CASE n # 0
      <4>1. n - 1 \in 0..N - 1
        BY <2>4, <3>3
      <4>2. f[n - 1] = h[n - 1]
        BY <2>6, <4>1
      <4>. QED
        BY <4>2
    <3>. QED
      BY <3>2, <3>3
  <2>8. f = g
    BY <2>7
  <2>. QED
    BY <2>4, <2>8 DEF IsRedaction
<1>. QED
  BY <1>1, NestingAssumption

LEMMA RedactIs ==
    ASSUME NEW value
    PROVE  \E r : IsRedaction(value, r, MaxNesting) /\ Redact(value) = r[MaxNesting][value]
<1> DEFINE r == CHOOSE r : IsRedaction(value, r, MaxNesting)
<1>1. IsRedaction(value, r, MaxNesting)
  BY RedactionExists
<1>2. Redact(value) = r[MaxNesting][value]
  BY DEF Redact, IsRedaction
<1>. QED
  BY <1>1, <1>2

\* What one level of a redaction makes of a value.
LEMMA RedactedTo ==
    ASSUME NEW value, NEW r, IsRedaction(value, r, MaxNesting),
           NEW n \in 0..MaxNesting, NEW v \in Within(value)
    PROVE  /\ v[1] = "text" => r[n][v] = IF SensitiveMessage(v[2]) THEN Text(Redacted) ELSE v
           /\ v[1] = "list" /\ n > 0 =>
                 r[n][v] = List([i \in 1..Len(v[2]) |-> r[n - 1][v[2][i]]])
           /\ v[1] = "object" /\ n > 0 =>
                 r[n][v] = Object([name \in Showable(v[2]) |-> r[n - 1][v[2][name]]])
           /\ v[1] \notin {"text", "list", "object"} => r[n][v] = v
<1>1. r[n] = Redacting(value, r[n - 1], n)
  BY DEF IsRedaction
<1> DEFINE b == r[n - 1]
<1>2. r[n][v] =
         CASE v[1] = "text" /\ SensitiveMessage(v[2]) -> Text(Redacted)
           [] v[1] = "list" /\ n > 0 -> List([i \in 1..Len(v[2]) |-> b[v[2][i]]])
           [] v[1] = "object" /\ n > 0 ->
                 Object([name \in Showable(v[2]) |-> b[v[2][name]]])
           [] OTHER -> v
  BY <1>1 DEF Redacting
<1> HIDE DEF b
<1>3. "text" # "list" /\ "text" # "object" /\ "list" # "object"
  OBVIOUS
<1>4. v[1] = "text" => r[n][v] = IF SensitiveMessage(v[2]) THEN Text(Redacted) ELSE v
  BY <1>2, <1>3
<1>5. v[1] = "list" /\ n > 0 => r[n][v] = List([i \in 1..Len(v[2]) |-> b[v[2][i]]])
  BY <1>2, <1>3
<1>6. v[1] = "object" /\ n > 0 =>
         r[n][v] = Object([name \in Showable(v[2]) |-> b[v[2][name]]])
  BY <1>2, <1>3
<1>7. v[1] \notin {"text", "list", "object"} => r[n][v] = v
  BY <1>2
<1>. QED
  BY <1>4, <1>5, <1>6, <1>7 DEF b

\* Each value within a redaction is the redaction of one within the value.
LEMMA RedactedLevel ==
    ASSUME NEW value, NEW r, IsRedaction(value, r, MaxNesting),
           \A v \in Within(value) : Formed(v),
           NEW N \in 0..MaxNesting
    PROVE  \A u \in Levels(r[MaxNesting][value])[N] :
              \E v \in Levels(value)[N] : u = r[MaxNesting - N][v]
<1> DEFINE shown == r[MaxNesting][value]
           Good(n) == \A u \in Levels(shown)[n] :
                         \E v \in Levels(value)[n] : u = r[MaxNesting - n][v]
           Bad     == {n \in 0..MaxNesting : ~Good(n)}
<1>1. Good(0)
  <2>1. Levels(shown)[0] = {shown} /\ Levels(value)[0] = {value}
    BY LevelsAre
  <2>2. MaxNesting - 0 = MaxNesting
    BY NestingAssumption
  <2>. QED
    BY <2>1, <2>2
<1>2. ASSUME NEW n \in 0..MaxNesting - 1, Good(n)
      PROVE  Good(n + 1)
  <2>1. SUFFICES ASSUME NEW u \in Levels(shown)[n + 1]
                 PROVE  \E v \in Levels(value)[n + 1] : u = r[MaxNesting - (n + 1)][v]
    OBVIOUS
  <2>2. n + 1 \in 1..MaxNesting /\ (n + 1) - 1 = n /\ n \in 0..MaxNesting
    BY NestingAssumption
  <2> DEFINE k == MaxNesting - n
  <2>3. k \in 0..MaxNesting /\ k > 0 /\ MaxNesting - (n + 1) = k - 1
    BY NestingAssumption
  <2>4. PICK w \in Levels(shown)[n] : u \in Inside(w)
    BY <2>2, LevelsAre
  <2>5. PICK v \in Levels(value)[n] : w = r[k][v]
    BY <1>2, <2>4
  <2>6. /\ v \in Within(value)
        /\ \A x \in Inside(v) : x \in Levels(value)[n + 1]
    BY <2>5, InsideWithin
  <2>7. Formed(v)
    BY <2>6
  <2> HIDE DEF k, shown
  <2>12. /\ v[1] = "text" => r[k][v] = IF SensitiveMessage(v[2]) THEN Text(Redacted) ELSE v
         /\ v[1] = "list" /\ k > 0 => r[k][v] = List([i \in 1..Len(v[2]) |-> r[k - 1][v[2][i]]])
         /\ v[1] = "object" /\ k > 0 =>
               r[k][v] = Object([name \in Showable(v[2]) |-> r[k - 1][v[2][name]]])
         /\ v[1] \notin {"text", "list", "object"} => r[k][v] = v
    <3>1. IsRedaction(value, r, MaxNesting) /\ k \in 0..MaxNesting /\ v \in Within(value)
      BY <2>3, <2>6
    <3>. QED
      BY ONLY <3>1, RedactedTo
  <2>8. CASE v[1] = "text"
    <3>1. w = Text(Redacted) \/ w = v
      BY <2>5, <2>8, <2>12
    <3>2. Inside(w) = {}
      BY <2>8, <3>1 DEF Inside, Text
    <3>. QED
      BY <2>4, <3>2
  <2>9. CASE v[1] = "list"
    <3> DEFINE shownList == [i \in 1..Len(v[2]) |-> r[k - 1][v[2][i]]]
    <3>1. w = List(shownList)
      BY <2>3, <2>5, <2>9, <2>12
    <3>2. Len(v[2]) \in Nat
      BY <2>7, <2>9 DEF Formed
    <3>3. Len(shownList) = Len(v[2])
      BY <3>2
    <3>4. w[1] = "list" /\ w[2] = shownList
      BY <3>1 DEF List
    <3>5. Inside(w) = {shownList[i] : i \in 1..Len(v[2])}
      BY <3>3, <3>4 DEF Inside
    <3>6. PICK i \in 1..Len(v[2]) : u = r[k - 1][v[2][i]]
      BY <2>4, <3>5
    <3>7. v[2][i] \in Inside(v)
      BY <2>9 DEF Inside
    <3>. QED
      BY <2>3, <2>6, <3>6, <3>7
  <2>10. CASE v[1] = "object"
    <3> DEFINE shownMembers == [name \in Showable(v[2]) |-> r[k - 1][v[2][name]]]
    <3>1. w = Object(shownMembers)
      BY <2>3, <2>5, <2>10, <2>12
    <3>2. w[1] = "object" /\ w[2] = shownMembers
      BY <3>1 DEF Object
    <3>3. Inside(w) = {shownMembers[name] : name \in Showable(v[2])}
      BY <3>2 DEF Inside
    <3>4. PICK name \in Showable(v[2]) : u = r[k - 1][v[2][name]]
      BY <2>4, <3>3
    <3>5. v[2][name] \in Inside(v)
      BY <2>10 DEF Inside, Showable
    <3>. QED
      BY <2>3, <2>6, <3>4, <3>5
  <2>11. CASE v[1] \notin {"text", "list", "object"}
    <3>1. w = v
      BY <2>5, <2>11, <2>12
    <3>2. Inside(w) = {}
      BY <2>11, <3>1 DEF Inside
    <3>. QED
      BY <2>4, <3>2
  <2>. QED
    BY <2>8, <2>9, <2>10, <2>11
<1> HIDE DEF Good
<1>3. Bad = {}
  <2>1. SUFFICES ASSUME Bad # {} PROVE FALSE
    OBVIOUS
  <2>2. Bad \in SUBSET Nat
    OBVIOUS
  <2> HIDE DEF Bad
  <2>3. PICK n \in Bad : \A m \in Bad : n <= m
    BY <2>1, <2>2, Least
  <2>4. n \in 0..MaxNesting /\ ~Good(n)
    BY DEF Bad
  <2>5. n # 0
    BY <1>1, <2>4
  <2>6. n - 1 \in 0..MaxNesting - 1 /\ n - 1 \in 0..MaxNesting /\ (n - 1) + 1 = n
    BY <2>4, <2>5, NestingAssumption
  <2>7. n - 1 \notin Bad
    BY <2>3, <2>4, <2>6
  <2>8. Good(n - 1)
    BY <2>6, <2>7 DEF Bad
  <2>. QED
    BY <1>2, <2>4, <2>6, <2>8
<1>4. Good(N)
  BY <1>3
<1>. QED
  BY <1>4 DEF Good

\* redact_json leaves nothing sensitive, at any depth.
LEMMA RedactIsSafe ==
    ASSUME NEW value, Nested(value, MaxNesting - 1)
    PROVE  Safe(Redact(value))
<1>1. PICK r : IsRedaction(value, r, MaxNesting) /\ Redact(value) = r[MaxNesting][value]
  BY RedactIs
<1>2. /\ \A v \in Within(value) : Formed(v)
      /\ \A v \in Levels(value)[MaxNesting] : v[1] \notin {"list", "object"}
  BY LastLevel
<1> DEFINE shown == Redact(value)
<1>3. ASSUME NEW u \in Within(shown)
      PROVE  /\ u[1] = "text" => ~SensitiveMessage(u[2])
             /\ u[1] = "object" =>
                   \A name \in DOMAIN u[2] : ~SensitiveKey(name) /\ ~SensitiveMessage(name)
  <2>1. PICK n \in 0..MaxNesting : u \in Levels(shown)[n]
    BY <1>3 DEF Within
  <2>2. PICK v \in Levels(value)[n] : u = r[MaxNesting - n][v]
    <3>1. u \in Levels(r[MaxNesting][value])[n]
      BY <1>1, <2>1
    <3>. QED
      BY <1>1, <1>2, <3>1, RedactedLevel
  <2>3. v \in Within(value) /\ Formed(v)
    BY <1>2, <2>2 DEF Within
  <2> DEFINE k == MaxNesting - n
  <2>4. k \in 0..MaxNesting /\ (k = 0 => n = MaxNesting)
    BY NestingAssumption
  <2>5. u = r[k][v]
    BY <2>2
  <2> HIDE DEF k, shown
  <2>6. /\ v[1] = "text" => r[k][v] = IF SensitiveMessage(v[2]) THEN Text(Redacted) ELSE v
        /\ v[1] = "list" /\ k > 0 => r[k][v] = List([i \in 1..Len(v[2]) |-> r[k - 1][v[2][i]]])
        /\ v[1] = "object" /\ k > 0 =>
              r[k][v] = Object([name \in Showable(v[2]) |-> r[k - 1][v[2][name]]])
        /\ v[1] \notin {"text", "list", "object"} => r[k][v] = v
    <3>1. IsRedaction(value, r, MaxNesting) /\ k \in 0..MaxNesting /\ v \in Within(value)
      BY <1>1, <2>3, <2>4
    <3>. QED
      BY ONLY <3>1, RedactedTo
  <2>7. CASE v[1] = "text"
    <3>1. CASE SensitiveMessage(v[2])
      <4>1. u[1] = "text" /\ u[2] = Redacted
        BY <2>5, <2>6, <2>7, <3>1 DEF Text
      <4>. QED
        BY <4>1, MarkersAssumption
    <3>2. CASE ~SensitiveMessage(v[2])
      BY <2>5, <2>6, <2>7, <3>2
    <3>. QED
      BY <3>1, <3>2
  <2>8. CASE v[1] \in {"list", "object"}
    <3>1. k > 0
      BY <1>2, <2>2, <2>4, <2>8
    <3>2. CASE v[1] = "list"
      <4>1. u[1] = "list"
        BY <2>5, <2>6, <3>1, <3>2 DEF List
      <4>. QED
        BY <4>1
    <3>3. CASE v[1] = "object"
      <4> DEFINE members == [name \in Showable(v[2]) |-> r[k - 1][v[2][name]]]
      <4>1. u[1] = "object" /\ u[2] = members
        BY <2>5, <2>6, <3>1, <3>3 DEF Object
      <4>2. DOMAIN u[2] = Showable(v[2])
        BY <4>1
      <4>. QED
        BY <4>1, <4>2 DEF Showable
    <3>. QED
      BY <2>8, <3>2, <3>3
  <2>9. CASE v[1] \notin {"text", "list", "object"}
    BY <2>5, <2>6, <2>9
  <2>. QED
    BY <2>7, <2>8, <2>9
<1> HIDE DEF shown
<1>4. \A string \in Strings(shown) : ~SensitiveMessage(string)
  BY <1>3 DEF Strings
<1>5. \A name \in Names(shown) : ~SensitiveKey(name) /\ ~SensitiveMessage(name)
  BY <1>3 DEF Names
<1>. QED
  BY <1>4, <1>5 DEF Safe, shown

-----------------------------------------------------------------------------

(***************************************************************************)
(* What is shown of an object beside the object.                           *)
(***************************************************************************)

IsBeside(value, shown, f, N) ==
    f = [n \in 0..N |-> IF n = 0 THEN {<<value, shown>>}
                        ELSE UNION {Beside(p[1], p[2]) : p \in f[n - 1]}]

LEMMA BesideExists ==
    ASSUME NEW value, NEW shown
    PROVE  \E f : IsBeside(value, shown, f, MaxNesting)
<1> DEFINE Bad == {N \in Nat : ~\E f : IsBeside(value, shown, f, N)}
           Step(k, n) == IF n = 0 THEN {<<value, shown>>}
                         ELSE UNION {Beside(p[1], p[2]) : p \in k[n - 1]}
<1>1. Bad = {}
  <2>1. SUFFICES ASSUME Bad # {} PROVE FALSE
    OBVIOUS
  <2>2. Bad \in SUBSET Nat
    OBVIOUS
  <2> HIDE DEF Bad
  <2>3. PICK N \in Bad : \A m \in Bad : N <= m
    BY <2>1, <2>2, Least
  <2>4. N \in Nat /\ ~\E f : IsBeside(value, shown, f, N)
    BY DEF Bad
  <2>5. PICK h : N # 0 => IsBeside(value, shown, h, N - 1)
    <3>1. N # 0 => N - 1 \in Nat /\ N - 1 \notin Bad
      BY <2>3, <2>4
    <3>. QED
      BY <3>1 DEF Bad
  <2> DEFINE f == [n \in 0..N |-> Step(h, n)]
             g == [n \in 0..N |-> Step(f, n)]
  <2>6. \A n \in 0..N - 1 : f[n] = h[n]
    <3>1. SUFFICES ASSUME NEW n \in 0..N - 1 PROVE f[n] = h[n]
      OBVIOUS
    <3>2. h = [m \in 0..N - 1 |-> Step(h, m)]
      BY <2>4, <2>5, <3>1 DEF IsBeside
    <3>3. h[n] = Step(h, n)
      BY <3>2
    <3>4. n \in 0..N
      BY <2>4
    <3> HIDE DEF Step
    <3>. QED
      BY <3>3, <3>4
  <2>7. \A n \in 0..N : f[n] = g[n]
    <3>1. SUFFICES ASSUME NEW n \in 0..N PROVE Step(h, n) = Step(f, n)
      OBVIOUS
    <3>2. CASE n = 0
      BY <3>2
    <3>3. CASE n # 0
      <4>1. n - 1 \in 0..N - 1
        BY <2>4, <3>3
      <4>2. f[n - 1] = h[n - 1]
        BY <2>6, <4>1
      <4>. QED
        BY <4>2
    <3>. QED
      BY <3>2, <3>3
  <2>8. f = g
    BY <2>7
  <2>. QED
    BY <2>4, <2>8 DEF IsBeside
<1>. QED
  BY <1>1, NestingAssumption

LEMMA FaithfulIs ==
    ASSUME NEW value, NEW shown
    PROVE  \E f : /\ IsBeside(value, shown, f, MaxNesting)
                  /\ Faithful(value, shown) <=>
                        \A n \in 0..MaxNesting : \A p \in f[n] : ShownAs(p[1], p[2])
<1> DEFINE f == CHOOSE f : IsBeside(value, shown, f, MaxNesting)
<1>1. IsBeside(value, shown, f, MaxNesting)
  BY BesideExists
<1>2. Faithful(value, shown) <=> \A n \in 0..MaxNesting : \A p \in f[n] : ShownAs(p[1], p[2])
  BY DEF Faithful, IsBeside
<1>. QED
  BY <1>1, <1>2

\* What stands beside a value so many levels within one of the members.
Redacts(object, p, n) ==
    \E name \in Showable(object) : \E r :
        /\ IsRedaction(object[name], r, MaxNesting)
        /\ \E v \in Levels(object[name])[n - 1] : p = <<v, r[MaxNesting - (n - 1)][v]>>

\* The redaction of a value shows of it all that may be shown, level by level.
LEMMA ShownLevel ==
    ASSUME NEW object, NEW n \in 1..MaxNesting, NEW p, Redacts(object, p, n),
           \A name \in DOMAIN object : Nested(object[name], MaxNesting - 1)
    PROVE  /\ ShownAs(p[1], p[2])
           /\ n < MaxNesting => \A q \in Beside(p[1], p[2]) : Redacts(object, q, n + 1)
<1>. PICK name \in Showable(object) : \E r :
          /\ IsRedaction(object[name], r, MaxNesting)
          /\ \E v \in Levels(object[name])[n - 1] : p = <<v, r[MaxNesting - (n - 1)][v]>>
  BY DEF Redacts
<1>1. PICK r : /\ IsRedaction(object[name], r, MaxNesting)
               /\ \E v \in Levels(object[name])[n - 1] : p = <<v, r[MaxNesting - (n - 1)][v]>>
  OBVIOUS
<1> DEFINE value == object[name]
           k     == MaxNesting - (n - 1)
<1>2. PICK v \in Levels(value)[n - 1] : p = <<v, r[k][v]>>
  BY <1>1
<1>3. /\ k \in 0..MaxNesting /\ k > 0 /\ n - 1 \in 0..MaxNesting - 1
      /\ (n - 1) + 1 = n /\ (n + 1) - 1 = n /\ MaxNesting - n = k - 1
  BY NestingAssumption
<1>4. Nested(value, MaxNesting - 1)
  BY DEF Showable
<1> DEFINE u == r[k][v]
<1>5. p[1] = v /\ p[2] = u
  BY <1>2
<1>6. IsRedaction(value, r, MaxNesting)
  BY <1>1
<1> HIDE DEF k, value
<1>7. /\ v \in Within(value)
      /\ \A x \in Inside(v) : x \in Levels(value)[n]
  BY <1>2, <1>3, InsideWithin
<1>8. Formed(v)
  BY <1>4, <1>7 DEF Nested
<1>9. /\ v[1] = "text" => u = IF SensitiveMessage(v[2]) THEN Text(Redacted) ELSE v
      /\ v[1] = "list" => u = List([i \in 1..Len(v[2]) |-> r[k - 1][v[2][i]]])
      /\ v[1] = "object" => u = Object([x \in Showable(v[2]) |-> r[k - 1][v[2][x]]])
      /\ v[1] \notin {"text", "list", "object"} => u = v
  <2>1. /\ v[1] = "text" => r[k][v] = IF SensitiveMessage(v[2]) THEN Text(Redacted) ELSE v
        /\ v[1] = "list" /\ k > 0 => r[k][v] = List([i \in 1..Len(v[2]) |-> r[k - 1][v[2][i]]])
        /\ v[1] = "object" /\ k > 0 =>
              r[k][v] = Object([x \in Showable(v[2]) |-> r[k - 1][v[2][x]]])
        /\ v[1] \notin {"text", "list", "object"} => r[k][v] = v
    <3>1. IsRedaction(value, r, MaxNesting) /\ k \in 0..MaxNesting /\ v \in Within(value)
      BY <1>3, <1>6, <1>7
    <3>. QED
      BY ONLY <3>1, RedactedTo
  <2>. QED
    BY <1>3, <2>1
<1> HIDE DEF u
<1>10. ASSUME NEW x \in Inside(v), n < MaxNesting
       PROVE  Redacts(object, <<x, r[k - 1][x]>>, n + 1)
  <2>1. x \in Levels(value)[(n + 1) - 1] /\ MaxNesting - ((n + 1) - 1) = k - 1
    BY <1>3, <1>7, <1>10
  <2>. QED
    BY <1>1, <2>1 DEF Redacts, value
<1>11. CASE v[1] = "text"
  <2>1. ShownAs(v, u)
    BY <1>9, <1>11 DEF ShownAs
  <2>2. Beside(v, u) = {}
    BY <1>11 DEF Beside
  <2>. QED
    BY <1>5, <2>1, <2>2
<1>12. CASE v[1] = "list"
  <2> DEFINE list == [i \in 1..Len(v[2]) |-> r[k - 1][v[2][i]]]
  <2>1. u[1] = "list" /\ u[2] = list
    BY <1>9, <1>12 DEF List
  <2>2. Len(v[2]) \in Nat
    BY <1>8, <1>12 DEF Formed
  <2>3. Len(u[2]) = Len(v[2])
    BY <2>1, <2>2
  <2>4. ShownAs(v, u)
    BY <1>12, <2>1, <2>3 DEF ShownAs
  <2>5. Beside(v, u) = {<<v[2][i], r[k - 1][v[2][i]]>> : i \in 1..Len(v[2])}
    BY <1>12, <2>1 DEF Beside
  <2>6. \A i \in 1..Len(v[2]) : v[2][i] \in Inside(v)
    BY <1>12 DEF Inside
  <2>7. n < MaxNesting => \A q \in Beside(v, u) : Redacts(object, q, n + 1)
    BY <1>10, <2>5, <2>6
  <2>. QED
    BY <1>5, <2>4, <2>7
<1>13. CASE v[1] = "object"
  <2> DEFINE members == [x \in Showable(v[2]) |-> r[k - 1][v[2][x]]]
  <2>1. u[1] = "object" /\ u[2] = members
    BY <1>9, <1>13 DEF Object
  <2>2. ShownAs(v, u)
    BY <1>13, <2>1 DEF ShownAs
  <2>3. Beside(v, u) = {<<v[2][x], r[k - 1][v[2][x]]>> : x \in Showable(v[2])}
    BY <1>13, <2>1 DEF Beside
  <2>4. \A x \in Showable(v[2]) : v[2][x] \in Inside(v)
    BY <1>13 DEF Inside, Showable
  <2>5. n < MaxNesting => \A q \in Beside(v, u) : Redacts(object, q, n + 1)
    BY <1>10, <2>3, <2>4
  <2>. QED
    BY <1>5, <2>2, <2>5
<1>14. CASE v[1] \notin {"text", "list", "object"}
  <2>1. ShownAs(v, u)
    BY <1>9, <1>14 DEF ShownAs
  <2>2. Beside(v, u) = {}
    BY <1>14 DEF Beside
  <2>. QED
    BY <1>5, <2>1, <2>2
<1>. QED
  BY <1>11, <1>12, <1>13, <1>14

\* Members that are redacted one by one show all of the object that may be
\* shown.
LEMMA RedactIsFaithful ==
    ASSUME NEW object, NEW kept, Showable(object) \subseteq kept,
           \A name \in DOMAIN object : Nested(object[name], MaxNesting - 1)
    PROVE  Faithful(Object(object), Object([name \in kept |-> Redact(object[name])]))
<1> DEFINE members == [name \in kept |-> Redact(object[name])]
           value   == Object(object)
           shown   == Object(members)
<1>1. PICK f : /\ IsBeside(value, shown, f, MaxNesting)
               /\ Faithful(value, shown) <=>
                     \A n \in 0..MaxNesting : \A p \in f[n] : ShownAs(p[1], p[2])
  BY FaithfulIs
<1>2. /\ value[1] = "object" /\ value[2] = object
      /\ shown[1] = "object" /\ shown[2] = members
  BY DEF Object
<1> HIDE DEF value, shown
<1>3. \A n \in 0..MaxNesting :
         f[n] = IF n = 0 THEN {<<value, shown>>}
                ELSE UNION {Beside(p[1], p[2]) : p \in f[n - 1]}
  BY <1>1 DEF IsBeside
<1>4. f[0] = {<<value, shown>>}
  <2>1. 0 \in 0..MaxNesting
    BY NestingAssumption
  <2>. QED
    BY <1>3, <2>1
<1>5. ShownAs(value, shown)
  BY <1>2 DEF ShownAs
<1>6. \A p \in f[1] : Redacts(object, p, 1)
  <2>1. SUFFICES ASSUME NEW p \in f[1] PROVE Redacts(object, p, 1)
    OBVIOUS
  <2>2. f[1] = UNION {Beside(q[1], q[2]) : q \in f[0]}
    <3>1. 1 \in 0..MaxNesting /\ 1 # 0 /\ 1 - 1 = 0
      BY NestingAssumption
    <3>. QED
      BY <1>3, <3>1
  <2>3. p \in Beside(value, shown)
    BY <1>4, <2>2
  <2>4. PICK name \in Showable(object) : p = <<object[name], members[name]>>
    BY <1>2, <2>3 DEF Beside
  <2>5. p = <<object[name], Redact(object[name])>>
    BY <2>4
  <2>6. PICK r : /\ IsRedaction(object[name], r, MaxNesting)
                 /\ Redact(object[name]) = r[MaxNesting][object[name]]
    BY RedactIs
  <2>7. object[name] \in Levels(object[name])[0]
    BY LevelsAre
  <2>8. 1 - 1 = 0 /\ MaxNesting - 0 = MaxNesting
    BY NestingAssumption
  <2>. QED
    BY <2>5, <2>6, <2>7, <2>8 DEF Redacts
<1> DEFINE Bad == {n \in 1..MaxNesting : ~\A p \in f[n] : Redacts(object, p, n)}
<1>7. Bad = {}
  <2>1. SUFFICES ASSUME Bad # {} PROVE FALSE
    OBVIOUS
  <2>2. Bad \in SUBSET Nat
    OBVIOUS
  <2> HIDE DEF Bad
  <2>3. PICK n \in Bad : \A m \in Bad : n <= m
    BY <2>1, <2>2, Least
  <2>4. PICK q \in f[n] : n \in 1..MaxNesting /\ ~Redacts(object, q, n)
    BY DEF Bad
  <2>5. n # 1
    BY <1>6, <2>4
  <2>6. /\ n - 1 \in 1..MaxNesting /\ n - 1 < MaxNesting /\ (n - 1) + 1 = n
        /\ n \in 0..MaxNesting /\ n # 0
    BY <2>4, <2>5, NestingAssumption
  <2>7. n - 1 \notin Bad
    BY <2>3, <2>4, <2>6
  <2>8. \A p \in f[n - 1] : Redacts(object, p, n - 1)
    BY <2>6, <2>7 DEF Bad
  <2>9. PICK p \in f[n - 1] : q \in Beside(p[1], p[2])
    <3>1. f[n] = UNION {Beside(p[1], p[2]) : p \in f[n - 1]}
      BY <1>3, <2>6
    <3>2. q \in UNION {Beside(p[1], p[2]) : p \in f[n - 1]}
      BY <2>4, <3>1
    <3>. QED
      BY <3>2
  <2>10. Redacts(object, q, (n - 1) + 1)
    BY <2>6, <2>8, <2>9, ShownLevel
  <2>. QED
    BY <2>4, <2>6, <2>10
<1>8. \A n \in 1..MaxNesting : \A p \in f[n] : ShownAs(p[1], p[2])
  <2>1. SUFFICES ASSUME NEW n \in 1..MaxNesting, NEW p \in f[n] PROVE ShownAs(p[1], p[2])
    OBVIOUS
  <2>2. Redacts(object, p, n)
    BY <1>7
  <2>. QED
    BY <2>2, ShownLevel
<1>9. \A n \in 0..MaxNesting : \A p \in f[n] : ShownAs(p[1], p[2])
  <2>1. SUFFICES ASSUME NEW n \in 0..MaxNesting, NEW p \in f[n] PROVE ShownAs(p[1], p[2])
    OBVIOUS
  <2>2. CASE n = 0
    <3>1. p = <<value, shown>>
      BY <1>4, <2>2
    <3>. QED
      BY <1>5, <3>1
  <2>3. CASE n # 0
    <3>1. n \in 1..MaxNesting
      BY <2>3, NestingAssumption
    <3>. QED
      BY <1>8, <3>1
  <2>. QED
    BY <2>2, <2>3
<1>. QED
  BY <1>1, <1>9 DEF value, shown

-----------------------------------------------------------------------------

(***************************************************************************)
(* The lists that are put in order.                                        *)
(***************************************************************************)

\* Parts with different names, in the order of their names.
LEMMA NamesOrder ==
    ASSUME NEW S, IsFiniteSet(S), \A c \in S : c.name \in Nameable,
           \A c, d \in S : c.name = d.name => c = d
    PROVE  /\ InOrder(S, ByName) \in Seq(S)
           /\ Len(InOrder(S, ByName)) = Cardinality(S)
           /\ \A c \in S : \E i \in 1..Len(InOrder(S, ByName)) : InOrder(S, ByName)[i] = c
           /\ \A i, j \in 1..Len(InOrder(S, ByName)) :
                 i < j => ByName(InOrder(S, ByName)[i], InOrder(S, ByName)[j])
<1> DEFINE R        == {p \in S \X S : ByName(p[1], p[2])}
           s        == InOrder(S, ByName)
           place(x) == Cardinality({y \in S : ByName(y, x)})
           n        == Cardinality(S)
<1>1. \A c, d \in S : <<c, d>> \in R <=> Before(Bytes(c.name), Bytes(d.name))
  BY DEF ByName
<1>2. \A c \in S : Bytes(c.name) \in Seq(Nat)
  BY BytesAssumption
<1>3. \A c, d \in S : c # d => Bytes(c.name) # Bytes(d.name)
  BY BytesAssumption
<1>4. s = [i \in 1..n |-> CHOOSE x \in S : place(x) = i - 1]
  BY DEF InOrder
<1>5. \A x \in S : {y \in S : ByName(y, x)} = Preceding(x, R, S)
  BY DEF Preceding
<1>6. \A x \in S : place(x) = Cardinality(Preceding(x, R, S))
  BY <1>5
<1> HIDE DEF R, place, s, n
<1>7. Orders(R, S)
  <2>1. \A c \in S : <<c, c>> \notin R
    BY <1>1, <1>2, BeforeOrders
  <2>2. \A c, d \in S : c # d => <<c, d>> \in R \/ <<d, c>> \in R
    BY <1>1, <1>2, <1>3, BeforeOrders
  <2>3. \A b, c, d \in S : <<b, c>> \in R /\ <<c, d>> \in R => <<b, d>> \in R
    BY <1>1, <1>2, BeforeOrders
  <2>. QED
    BY <2>1, <2>2, <2>3 DEF Orders
<1>8. \A i \in 1..n : \E x \in S : place(x) = i - 1
  <2>1. \A i \in 1..Cardinality(S) : \E x \in S : Cardinality(Preceding(x, R, S)) = i - 1
    BY <1>7, PlacesInOrder
  <2>. QED
    BY <1>6, <2>1 DEF n
<1>9. \A i \in 1..n : s[i] \in S /\ place(s[i]) = i - 1
  BY <1>4, <1>8
<1>10. /\ s \in [1..Cardinality(S) -> S]
       /\ \A i \in 1..Cardinality(S) : Cardinality(Preceding(s[i], R, S)) = i - 1
  BY <1>4, <1>6, <1>9 DEF n
<1>11. /\ s \in Seq(S) /\ Len(s) = Cardinality(S)
       /\ \A x \in S : \E i \in 1..Len(s) : s[i] = x
       /\ \A i, j \in 1..Len(s) : i < j => <<s[i], s[j]>> \in R
  <2>1. IsFiniteSet(S)
    OBVIOUS
  <2>. QED
    BY ONLY <1>7, <1>10, <2>1, Ordered, Zenon
<1>12. \A i, j \in 1..Len(s) : i < j => ByName(s[i], s[j])
  <2>1. SUFFICES ASSUME NEW i \in 1..Len(s), NEW j \in 1..Len(s), i < j PROVE ByName(s[i], s[j])
    OBVIOUS
  <2>2. <<s[i], s[j]>> \in R
    BY <1>11, <2>1
  <2>. QED
    BY <2>2 DEF R
<1>. QED
  BY <1>11, <1>12 DEF s

\* Documents at different paths, in the order of their paths.
LEMMA PathsOrder ==
    ASSUME NEW S, IsFiniteSet(S), \A c \in S : c.path \in Paths,
           \A c, d \in S : c.path = d.path => c = d
    PROVE  /\ InOrder(S, ByPath) \in Seq(S)
           /\ Len(InOrder(S, ByPath)) = Cardinality(S)
           /\ \A c \in S : \E i \in 1..Len(InOrder(S, ByPath)) : InOrder(S, ByPath)[i] = c
<1> DEFINE R        == {p \in S \X S : ByPath(p[1], p[2])}
           s        == InOrder(S, ByPath)
           place(x) == Cardinality({y \in S : ByPath(y, x)})
           n        == Cardinality(S)
<1>1. \A c, d \in S : <<c, d>> \in R <=> Order[c.path] < Order[d.path]
  BY DEF ByPath
<1>2. \A c \in S : Order[c.path] \in Nat
  BY OrderAssumption
<1>3. \A c, d \in S : c # d => Order[c.path] # Order[d.path]
  BY OrderAssumption
<1>4. s = [i \in 1..n |-> CHOOSE x \in S : place(x) = i - 1]
  BY DEF InOrder
<1>5. \A x \in S : {y \in S : ByPath(y, x)} = Preceding(x, R, S)
  BY DEF Preceding
<1>6. \A x \in S : place(x) = Cardinality(Preceding(x, R, S))
  BY <1>5
<1> HIDE DEF R, place, s, n
<1>7. Orders(R, S)
  BY <1>1, <1>2, <1>3 DEF Orders
<1>8. \A i \in 1..n : \E x \in S : place(x) = i - 1
  <2>1. \A i \in 1..Cardinality(S) : \E x \in S : Cardinality(Preceding(x, R, S)) = i - 1
    BY <1>7, PlacesInOrder
  <2>. QED
    BY <1>6, <2>1 DEF n
<1>9. \A i \in 1..n : s[i] \in S /\ place(s[i]) = i - 1
  BY <1>4, <1>8
<1>10. /\ s \in [1..Cardinality(S) -> S]
       /\ \A i \in 1..Cardinality(S) : Cardinality(Preceding(s[i], R, S)) = i - 1
  BY <1>4, <1>6, <1>9 DEF n
<1>11. /\ s \in Seq(S) /\ Len(s) = Cardinality(S)
       /\ \A x \in S : \E i \in 1..Len(s) : s[i] = x
       /\ \A i, j \in 1..Len(s) : i < j => <<s[i], s[j]>> \in R
  <2>1. IsFiniteSet(S)
    OBVIOUS
  <2>. QED
    BY ONLY <1>7, <1>10, <2>1, Ordered, Zenon
<1>. QED
  BY <1>11 DEF s

\* Defaults with different fields, in the order of their fields.
LEMMA FieldsOrder ==
    ASSUME NEW S, IsFiniteSet(S), \A c \in S : c.field \in DefaultFields,
           \A c, d \in S : c.field = d.field => c = d
    PROVE  /\ InOrder(S, ByField) \in Seq(S)
           /\ Len(InOrder(S, ByField)) = Cardinality(S)
           /\ \A c \in S : \E i \in 1..Len(InOrder(S, ByField)) : InOrder(S, ByField)[i] = c
           /\ \A i, j \in 1..Len(InOrder(S, ByField)) :
                 i < j => ByField(InOrder(S, ByField)[i], InOrder(S, ByField)[j])
<1> DEFINE R        == {p \in S \X S : ByField(p[1], p[2])}
           s        == InOrder(S, ByField)
           place(x) == Cardinality({y \in S : ByField(y, x)})
           n        == Cardinality(S)
<1>1. \A c, d \in S : <<c, d>> \in R <=> Before(FieldBytes(c.field), FieldBytes(d.field))
  BY DEF ByField
<1>2. \A c \in S : FieldBytes(c.field) \in Seq(Nat)
  BY BytesAssumption
<1>3. \A c, d \in S : c # d => FieldBytes(c.field) # FieldBytes(d.field)
  BY BytesAssumption
<1>4. s = [i \in 1..n |-> CHOOSE x \in S : place(x) = i - 1]
  BY DEF InOrder
<1>5. \A x \in S : {y \in S : ByField(y, x)} = Preceding(x, R, S)
  BY DEF Preceding
<1>6. \A x \in S : place(x) = Cardinality(Preceding(x, R, S))
  BY <1>5
<1> HIDE DEF R, place, s, n
<1>7. Orders(R, S)
  <2>1. \A c \in S : <<c, c>> \notin R
    BY <1>1, <1>2, BeforeOrders
  <2>2. \A c, d \in S : c # d => <<c, d>> \in R \/ <<d, c>> \in R
    BY <1>1, <1>2, <1>3, BeforeOrders
  <2>3. \A b, c, d \in S : <<b, c>> \in R /\ <<c, d>> \in R => <<b, d>> \in R
    BY <1>1, <1>2, BeforeOrders
  <2>. QED
    BY <2>1, <2>2, <2>3 DEF Orders
<1>8. \A i \in 1..n : \E x \in S : place(x) = i - 1
  <2>1. \A i \in 1..Cardinality(S) : \E x \in S : Cardinality(Preceding(x, R, S)) = i - 1
    BY <1>7, PlacesInOrder
  <2>. QED
    BY <1>6, <2>1 DEF n
<1>9. \A i \in 1..n : s[i] \in S /\ place(s[i]) = i - 1
  BY <1>4, <1>8
<1>10. /\ s \in [1..Cardinality(S) -> S]
       /\ \A i \in 1..Cardinality(S) : Cardinality(Preceding(s[i], R, S)) = i - 1
  BY <1>4, <1>6, <1>9 DEF n
<1>11. /\ s \in Seq(S) /\ Len(s) = Cardinality(S)
       /\ \A x \in S : \E i \in 1..Len(s) : s[i] = x
       /\ \A i, j \in 1..Len(s) : i < j => <<s[i], s[j]>> \in R
  <2>1. IsFiniteSet(S)
    OBVIOUS
  <2>. QED
    BY ONLY <1>7, <1>10, <2>1, Ordered, Zenon
<1>12. \A i, j \in 1..Len(s) : i < j => ByField(s[i], s[j])
  <2>1. SUFFICES ASSUME NEW i \in 1..Len(s), NEW j \in 1..Len(s), i < j PROVE ByField(s[i], s[j])
    OBVIOUS
  <2>2. <<s[i], s[j]>> \in R
    BY <1>11, <2>1
  <2>. QED
    BY <2>2 DEF R
<1>. QED
  BY <1>11, <1>12 DEF s

\* Numbers in their order.
LEMMA NumbersOrder ==
    ASSUME NEW S \in SUBSET Nat, IsFiniteSet(S)
    PROVE  /\ InOrder(S, Below) \in Seq(S)
           /\ Len(InOrder(S, Below)) = Cardinality(S)
           /\ \A c \in S : \E i \in 1..Len(InOrder(S, Below)) : InOrder(S, Below)[i] = c
           /\ \A i, j \in 1..Len(InOrder(S, Below)) :
                 i < j => Below(InOrder(S, Below)[i], InOrder(S, Below)[j])
<1> DEFINE R        == {p \in S \X S : Below(p[1], p[2])}
           s        == InOrder(S, Below)
           place(x) == Cardinality({y \in S : Below(y, x)})
           n        == Cardinality(S)
<1>1. \A c, d \in S : <<c, d>> \in R <=> c < d
  BY DEF Below
<1>4. s = [i \in 1..n |-> CHOOSE x \in S : place(x) = i - 1]
  BY DEF InOrder
<1>5. \A x \in S : {y \in S : Below(y, x)} = Preceding(x, R, S)
  BY DEF Preceding
<1>6. \A x \in S : place(x) = Cardinality(Preceding(x, R, S))
  BY <1>5
<1> HIDE DEF R, place, s, n
<1>7. Orders(R, S)
  BY <1>1 DEF Orders
<1>8. \A i \in 1..n : \E x \in S : place(x) = i - 1
  <2>1. \A i \in 1..Cardinality(S) : \E x \in S : Cardinality(Preceding(x, R, S)) = i - 1
    BY <1>7, PlacesInOrder
  <2>. QED
    BY <1>6, <2>1 DEF n
<1>9. \A i \in 1..n : s[i] \in S /\ place(s[i]) = i - 1
  BY <1>4, <1>8
<1>10. /\ s \in [1..Cardinality(S) -> S]
       /\ \A i \in 1..Cardinality(S) : Cardinality(Preceding(s[i], R, S)) = i - 1
  BY <1>4, <1>6, <1>9 DEF n
<1>11. /\ s \in Seq(S) /\ Len(s) = Cardinality(S)
       /\ \A x \in S : \E i \in 1..Len(s) : s[i] = x
       /\ \A i, j \in 1..Len(s) : i < j => <<s[i], s[j]>> \in R
  <2>1. IsFiniteSet(S)
    OBVIOUS
  <2>. QED
    BY ONLY <1>7, <1>10, <2>1, Ordered, Zenon
<1>12. \A i, j \in 1..Len(s) : i < j => Below(s[i], s[j])
  <2>1. SUFFICES ASSUME NEW i \in 1..Len(s), NEW j \in 1..Len(s), i < j PROVE Below(s[i], s[j])
    OBVIOUS
  <2>2. <<s[i], s[j]>> \in R
    BY <1>11, <2>1
  <2>. QED
    BY <2>2 DEF R
<1>. QED
  BY <1>11, <1>12 DEF s

\* The elements at some places are elements of the list.
LEMMA AtPlacesIs ==
    ASSUME NEW T, NEW list \in Seq(T), NEW places \in SUBSET (1..Len(list))
    PROVE  /\ AtPlaces(list, places) \in Seq(T)
           /\ \A i \in 1..Len(AtPlaces(list, places)) :
                 \E k \in places : AtPlaces(list, places)[i] = list[k]
<1> DEFINE s == AtPlaces(list, places)
           n == Cardinality(places)
           order == InOrder(places, Below)
<1>1. IsFiniteSet(places) /\ places \in SUBSET Nat
  <2>1. Len(list) \in Nat
    OBVIOUS
  <2>2. IsFiniteSet(1..Len(list))
    BY <2>1, FS_Interval
  <2>3. IsFiniteSet(places)
    BY <2>2, FS_Subset
  <2>4. \A i \in places : i \in Nat
    BY <2>1
  <2>. QED
    BY <2>3, <2>4
<1>2. order \in Seq(places) /\ Len(order) = n
  BY <1>1, NumbersOrder
<1>3. n \in Nat
  BY <1>1, FS_CardinalityType
<1>4. s = [i \in 1..n |-> list[order[i]]]
  BY DEF AtPlaces
<1> HIDE DEF s, order, n
<1>5. \A i \in 1..n : order[i] \in places
  BY <1>2, <1>3
<1>6. \A k \in places : list[k] \in T
  OBVIOUS
<1>7. s \in [1..n -> T]
  BY <1>4, <1>5, <1>6
<1>8. s \in Seq(T) /\ Len(s) = n
  BY <1>3, <1>7
<1>9. \A i \in 1..Len(s) : \E k \in places : s[i] = list[k]
  BY <1>4, <1>5, <1>8
<1>. QED
  BY <1>8, <1>9 DEF s

(***************************************************************************)
(* Lists of the same elements in another order.                            *)
(***************************************************************************)

Rearranges(s, t) ==
    \E p \in Bijection(1..Len(t), 1..Len(t)) : s = [i \in 1..Len(t) |-> t[p[i]]]

\* What a bijection of the first n numbers is, in the terms the lemmas on
\* sums have.
LEMMA BijectionIs ==
    ASSUME NEW n \in Nat, NEW p
    PROVE  p \in Bijection(1..n, 1..n) <=>
              /\ p \in [1..n -> 1..n]
              /\ \A i, j \in 1..n : p[i] = p[j] => i = j
              /\ \A k \in 1..n : \E i \in 1..n : p[i] = k
<1>1. ASSUME p \in Bijection(1..n, 1..n)
      PROVE  /\ p \in [1..n -> 1..n]
             /\ \A i, j \in 1..n : p[i] = p[j] => i = j
             /\ \A k \in 1..n : \E i \in 1..n : p[i] = k
  BY <1>1 DEF Bijection, Injection, Surjection, IsInjective
<1>2. ASSUME p \in [1..n -> 1..n], \A i, j \in 1..n : p[i] = p[j] => i = j,
             \A k \in 1..n : \E i \in 1..n : p[i] = k
      PROVE  p \in Bijection(1..n, 1..n)
  BY <1>2 DEF Bijection, Injection, Surjection, IsInjective
<1>. QED
  BY <1>1, <1>2

\* One bijection after another is one.
LEMMA BijectionsCompose ==
    ASSUME NEW n \in Nat, NEW p \in Bijection(1..n, 1..n), NEW q \in Bijection(1..n, 1..n)
    PROVE  [i \in 1..n |-> p[q[i]]] \in Bijection(1..n, 1..n)
<1> DEFINE r == [i \in 1..n |-> p[q[i]]]
<1>1. /\ p \in [1..n -> 1..n] /\ q \in [1..n -> 1..n]
      /\ \A i, j \in 1..n : p[i] = p[j] => i = j
      /\ \A i, j \in 1..n : q[i] = q[j] => i = j
      /\ \A k \in 1..n : \E i \in 1..n : p[i] = k
      /\ \A k \in 1..n : \E i \in 1..n : q[i] = k
  BY BijectionIs
<1>2. \A i \in 1..n : q[i] \in 1..n /\ p[q[i]] \in 1..n /\ r[i] = p[q[i]]
  BY <1>1
<1>3. r \in [1..n -> 1..n]
  BY <1>2
<1> HIDE DEF r
<1>4. \A i, j \in 1..n : r[i] = r[j] => i = j
  <2>1. SUFFICES ASSUME NEW i \in 1..n, NEW j \in 1..n, r[i] = r[j] PROVE i = j
    OBVIOUS
  <2>2. p[q[i]] = p[q[j]] /\ q[i] \in 1..n /\ q[j] \in 1..n
    BY <1>2, <2>1
  <2>3. q[i] = q[j]
    BY <1>1, <2>2
  <2>. QED
    BY <1>1, <2>3
<1>5. \A k \in 1..n : \E i \in 1..n : r[i] = k
  <2>1. SUFFICES ASSUME NEW k \in 1..n PROVE \E i \in 1..n : r[i] = k
    OBVIOUS
  <2>2. PICK j \in 1..n : p[j] = k
    BY <1>1
  <2>3. PICK i \in 1..n : q[i] = j
    BY <1>1
  <2>. QED
    BY <1>2, <2>2, <2>3
<1>6. r \in Bijection(1..n, 1..n)
  BY <1>3, <1>4, <1>5, BijectionIs
<1>. QED
  BY <1>6 DEF r

\* The inverse of a bijection is one.
LEMMA BijectionInverts ==
    ASSUME NEW n \in Nat, NEW p \in Bijection(1..n, 1..n)
    PROVE  \E q \in Bijection(1..n, 1..n) : \A i \in 1..n : p[q[i]] = i
<1> DEFINE q == [k \in 1..n |-> CHOOSE i \in 1..n : p[i] = k]
<1>1. /\ p \in [1..n -> 1..n]
      /\ \A i, j \in 1..n : p[i] = p[j] => i = j
      /\ \A k \in 1..n : \E i \in 1..n : p[i] = k
  BY BijectionIs
<1>2. \A k \in 1..n : q[k] \in 1..n /\ p[q[k]] = k
  BY <1>1
<1>3. q \in [1..n -> 1..n]
  BY <1>2
<1> HIDE DEF q
<1>4. \A i, j \in 1..n : q[i] = q[j] => i = j
  BY <1>2
<1>5. \A k \in 1..n : \E i \in 1..n : q[i] = k
  <2>1. SUFFICES ASSUME NEW k \in 1..n PROVE q[p[k]] = k /\ p[k] \in 1..n
    OBVIOUS
  <2>2. p[k] \in 1..n
    BY <1>1
  <2>3. q[p[k]] \in 1..n /\ p[q[p[k]]] = p[k]
    BY <1>2, <2>2
  <2>. QED
    BY <1>1, <2>2, <2>3
<1>6. q \in Bijection(1..n, 1..n)
  BY <1>3, <1>4, <1>5, BijectionIs
<1>. QED
  BY <1>2, <1>6

\* Such lists have the same length and the same elements.
LEMMA RearrangedIs ==
    ASSUME NEW T, NEW t \in Seq(T), NEW s, Rearranges(s, t)
    PROVE  /\ s \in Seq(T) /\ Len(s) = Len(t) /\ Len(t) \in Nat
           /\ \A i \in 1..Len(s) : \E k \in 1..Len(t) : s[i] = t[k]
           /\ \A k \in 1..Len(t) : \E i \in 1..Len(s) : s[i] = t[k]
           /\ ToSet(s) = ToSet(t)
<1> DEFINE n == Len(t)
<1>1. n \in Nat /\ DOMAIN t = 1..n /\ \A i \in 1..n : t[i] \in T
  BY LenProperties, ElementOfSeq
<1>2. PICK p \in Bijection(1..n, 1..n) : s = [i \in 1..n |-> t[p[i]]]
  BY DEF Rearranges
<1> HIDE DEF n
<1>3. /\ p \in [1..n -> 1..n]
      /\ \A k \in 1..n : \E i \in 1..n : p[i] = k
  BY <1>1, <1>2, BijectionIs
<1>4. s \in [1..n -> T] /\ \A i \in 1..n : s[i] = t[p[i]] /\ p[i] \in 1..n
  BY <1>1, <1>2, <1>3
<1>5. s \in Seq(T) /\ Len(s) = n /\ DOMAIN s = 1..n
  BY <1>1, <1>4
<1>6. \A i \in 1..n : \E k \in 1..n : s[i] = t[k]
  BY <1>4
<1>7. \A k \in 1..n : \E i \in 1..n : s[i] = t[k]
  <2>1. SUFFICES ASSUME NEW k \in 1..n PROVE \E i \in 1..n : s[i] = t[k]
    OBVIOUS
  <2>2. PICK i \in 1..n : p[i] = k
    BY <1>3
  <2>. QED
    BY <1>4, <2>2
<1>8. ToSet(s) = ToSet(t)
  <2>1. ToSet(s) = {s[i] : i \in 1..n} /\ ToSet(t) = {t[i] : i \in 1..n}
    BY <1>1, <1>5 DEF ToSet
  <2>2. \A x \in ToSet(s) : x \in ToSet(t)
    BY <1>6, <2>1
  <2>3. \A x \in ToSet(t) : x \in ToSet(s)
    BY <1>7, <2>1
  <2>. QED
    BY <2>2, <2>3
<1>. QED
  BY <1>1, <1>5, <1>6, <1>7, <1>8 DEF n

LEMMA RearrangesAgain ==
    ASSUME NEW T, NEW t \in Seq(T), NEW s, Rearranges(s, t), NEW r, Rearranges(r, s)
    PROVE  Rearranges(r, t)
<1> DEFINE n == Len(t)
<1>1. n \in Nat
  OBVIOUS
<1>2. PICK p \in Bijection(1..n, 1..n) : s = [i \in 1..n |-> t[p[i]]]
  BY DEF Rearranges
<1>3. Len(s) = n
  BY RearrangedIs
<1>4. PICK q \in Bijection(1..n, 1..n) : r = [i \in 1..n |-> s[q[i]]]
  BY <1>3 DEF Rearranges
<1> HIDE DEF n
<1> DEFINE pq == [i \in 1..n |-> p[q[i]]]
<1>5. pq \in Bijection(1..n, 1..n)
  BY <1>1, BijectionsCompose
<1>6. \A i \in 1..n : q[i] \in 1..n
  BY <1>1, BijectionIs
<1>7. r = [i \in 1..n |-> t[pq[i]]]
  BY <1>2, <1>4, <1>6
<1>. QED
  BY <1>5, <1>7 DEF Rearranges, n

LEMMA RearrangesBack ==
    ASSUME NEW T, NEW t \in Seq(T), NEW s, Rearranges(s, t)
    PROVE  Rearranges(t, s)
<1> DEFINE n == Len(t)
<1>1. n \in Nat
  OBVIOUS
<1>2. PICK p \in Bijection(1..n, 1..n) : s = [i \in 1..n |-> t[p[i]]]
  BY DEF Rearranges
<1>3. Len(s) = n
  BY RearrangedIs
<1>4. t = [i \in 1..n |-> t[i]]
  OBVIOUS
<1> HIDE DEF n
<1>5. PICK q \in Bijection(1..n, 1..n) : \A i \in 1..n : p[q[i]] = i
  BY <1>1, BijectionInverts
<1>6. \A i \in 1..n : q[i] \in 1..n
  BY <1>1, BijectionIs
<1>7. t = [i \in 1..n |-> s[q[i]]]
  BY <1>2, <1>4, <1>5, <1>6
<1>. QED
  BY <1>3, <1>7 DEF Rearranges

\* A list backwards.
LEMMA ReverseRearranges ==
    ASSUME NEW T, NEW t \in Seq(T)
    PROVE  Rearranges(Reverse(t), t)
<1> DEFINE n == Len(t)
           p == [i \in 1..n |-> (n - i) + 1]
<1>1. n \in Nat
  OBVIOUS
<1>2. Reverse(t) = [i \in 1..n |-> t[(n - i) + 1]]
  BY DEF Reverse
<1> HIDE DEF n
<1>3. \A i \in 1..n : p[i] = (n - i) + 1 /\ p[i] \in 1..n
  BY <1>1
<1>4. p \in [1..n -> 1..n]
  BY <1>3
<1>5. Reverse(t) = [i \in 1..n |-> t[p[i]]]
  BY <1>2
<1> HIDE DEF p
<1>6. \A i, j \in 1..n : p[i] = p[j] => i = j
  BY <1>1, <1>3
<1>7. \A k \in 1..n : \E i \in 1..n : p[i] = k
  <2>1. SUFFICES ASSUME NEW k \in 1..n PROVE \E i \in 1..n : p[i] = k
    OBVIOUS
  <2>2. (n - k) + 1 \in 1..n /\ (n - ((n - k) + 1)) + 1 = k
    BY <1>1
  <2>. QED
    BY <1>3, <2>2
<1>8. p \in Bijection(1..n, 1..n)
  BY <1>1, <1>4, <1>6, <1>7, BijectionIs
<1>. QED
  BY <1>5, <1>8 DEF Rearranges, n

\* All elements of a list that has none twice, put in any order.
LEMMA EnumerationRearranges ==
    ASSUME NEW T, NEW t \in Seq(T), \A i, j \in 1..Len(t) : t[i] = t[j] => i = j,
           NEW s \in Seq(ToSet(t)), Len(s) = Cardinality(ToSet(t)),
           \A x \in ToSet(t) : \E i \in 1..Len(s) : s[i] = x
    PROVE  Rearranges(s, t)
<1> DEFINE n == Len(t)
           S == ToSet(t)
<1>1. n \in Nat /\ DOMAIN t = 1..n /\ \A i \in 1..n : t[i] \in T
  BY LenProperties, ElementOfSeq
<1>2. S = {t[i] : i \in 1..n}
  BY <1>1 DEF ToSet
<1> HIDE DEF S
<1>3. IsFiniteSet(1..n) /\ Cardinality(1..n) = n
  <2>1. 1 \in Int /\ n \in Int
    BY <1>1
  <2>2. /\ IsFiniteSet(1..n)
        /\ Cardinality(1..n) = IF 1 > n THEN 0 ELSE (n - 1) + 1
    BY <2>1, FS_Interval
  <2>3. 1 > n => n = 0
    BY <1>1
  <2>. QED
    BY <1>1, <2>2, <2>3
<1>4. \A i, j \in 1..n : t[i] = t[j] => i = j
  OBVIOUS
<1>5. t = [i \in 1..n |-> t[i]]
  BY <1>1
<1> HIDE DEF n
<1>6. t \in [1..n -> S]
  BY <1>2, <1>5
<1>7. t \in Surjection(1..n, S) /\ t \in Injection(1..n, S)
  BY <1>1, <1>2, <1>4, <1>6 DEF Surjection, Injection, IsInjective
<1>8. IsFiniteSet(S) /\ Cardinality(S) = n
  BY <1>3, <1>7, FS_Surjection
<1>9. Len(s) = n /\ s \in [1..n -> S] /\ \A x \in S : \E i \in 1..n : s[i] = x
  <2>1. Len(s) = n
    BY <1>8 DEF S
  <2>2. s \in [1..Len(s) -> S]
    BY LenProperties DEF S
  <2>3. \A x \in S : \E i \in 1..Len(s) : s[i] = x
    BY DEF S
  <2>. QED
    BY <2>1, <2>2, <2>3
<1>10. s \in Surjection(1..n, S)
  BY <1>9 DEF Surjection
<1>11. s \in Injection(1..n, S)
  BY <1>3, <1>8, <1>10, FS_Surjection
<1>12. \A i, j \in 1..n : s[i] = s[j] => i = j
  BY <1>9, <1>11 DEF Injection, IsInjective
<1> DEFINE p == [i \in 1..n |-> CHOOSE k \in 1..n : t[k] = s[i]]
<1>13. \A i \in 1..n : p[i] \in 1..n /\ t[p[i]] = s[i]
  <2>1. SUFFICES ASSUME NEW i \in 1..n PROVE p[i] \in 1..n /\ t[p[i]] = s[i]
    OBVIOUS
  <2>2. s[i] \in S
    BY <1>9
  <2>3. \E k \in 1..n : t[k] = s[i]
    BY <1>2, <2>2
  <2>. QED
    BY <2>3
<1>14. p \in [1..n -> 1..n]
  BY <1>13
<1> HIDE DEF p
<1>15. \A i, j \in 1..n : p[i] = p[j] => i = j
  BY <1>12, <1>13
<1>16. \A k \in 1..n : \E i \in 1..n : p[i] = k
  <2>1. SUFFICES ASSUME NEW k \in 1..n PROVE \E i \in 1..n : p[i] = k
    OBVIOUS
  <2>2. t[k] \in S
    BY <1>6
  <2>3. PICK i \in 1..n : s[i] = t[k]
    BY <1>9, <2>2
  <2>4. t[p[i]] = t[k] /\ p[i] \in 1..n
    BY <1>13, <2>3
  <2>. QED
    BY <1>4, <2>4
<1>17. p \in Bijection(1..n, 1..n)
  BY <1>1, <1>14, <1>15, <1>16, BijectionIs
<1>18. s = [i \in 1..n |-> t[p[i]]]
  <2>1. s = [i \in 1..n |-> s[i]]
    BY <1>9
  <2>. QED
    BY <1>13, <2>1
<1>. QED
  BY <1>17, <1>18 DEF Rearranges, n

\* Sorting forgets the order, and is one of them.
LEMMA SortedRearranges ==
    ASSUME NEW T, NEW t \in Seq(T)
    PROVE  Rearranges(Sorted(t), t)
<1> DEFINE places == 1..Len(t)
           lists  == {[i \in places |-> t[p[i]]] : p \in Bijection(places, places)}
<1>1. Len(t) \in Nat
  OBVIOUS
<1>2. [i \in places |-> i] \in Bijection(places, places)
  BY DEF Bijection, Injection, Surjection, IsInjective
<1>3. Sorted(t) \in lists
  <2>1. lists # {}
    BY <1>2
  <2>2. Sorted(t) = CHOOSE s \in lists : TRUE
    BY DEF Sorted
  <2>. QED
    BY <2>1, <2>2
<1>. QED
  BY <1>3 DEF Rearranges

LEMMA SortedIs ==
    ASSUME NEW T, NEW list \in Seq(T)
    PROVE  /\ Sorted(list) \in Seq(T)
           /\ \A i \in 1..Len(Sorted(list)) : \E k \in 1..Len(list) : Sorted(list)[i] = list[k]
           /\ \A k \in 1..Len(list) : \E i \in 1..Len(Sorted(list)) : Sorted(list)[i] = list[k]
BY SortedRearranges, RearrangedIs

LEMMA SortedForgets ==
    ASSUME NEW T, NEW t \in Seq(T), NEW s, Rearranges(s, t)
    PROVE  Sorted(s) = Sorted(t)
<1> DEFINE lists(u) == {[i \in 1..Len(u) |-> u[p[i]]] : p \in Bijection(1..Len(u), 1..Len(u))}
<1>1. \A u, x : x \in lists(u) <=> Rearranges(x, u)
  BY DEF Rearranges
<1>2. s \in Seq(T) /\ Rearranges(t, s)
  BY RearrangedIs, RearrangesBack
<1> HIDE DEF lists
<1>3. lists(s) = lists(t)
  <2>1. ASSUME NEW x \in lists(s) PROVE x \in lists(t)
    BY <1>1, RearrangesAgain
  <2>2. ASSUME NEW x \in lists(t) PROVE x \in lists(s)
    BY <1>1, <1>2, RearrangesAgain
  <2>. QED
    BY <2>1, <2>2
<1>4. Sorted(s) = CHOOSE x \in lists(s) : TRUE
  BY DEF Sorted, lists
<1>5. Sorted(t) = CHOOSE x \in lists(t) : TRUE
  BY DEF Sorted, lists
<1>. QED
  BY <1>3, <1>4, <1>5

-----------------------------------------------------------------------------

(***************************************************************************)
(* The inductive invariant.                                                *)
(***************************************************************************)

\* Members of a document came from Members; nothing else is in one.
Grown(path, d) ==
    /\ DOMAIN d = {"json", "repeated"}
    /\ d.json[1] = "object" =>
          /\ d.json = Object(d.json[2])
          /\ IsFiniteSet(DOMAIN d.json[2])
          /\ \A name \in DOMAIN d.json[2] :
                \E m \in Members : m[1] = path /\ m[2] = name /\ m[3] = d.json[2][name]

DocumentsInv ==
    /\ DOMAIN documents \subseteq Paths
    /\ \A path \in DOMAIN documents : Grown(path, documents[path]) /\ documents[path].repeated \in BOOLEAN

FindingsInv == findings \in Seq(Reports)

\* The repository keeps its limits, and reports on its own documents.
LimitsInv ==
    /\ Constructible(DOMAIN documents)
    /\ Len(findings) <= MaxFindings - 1
    /\ \A i \in 1..Len(findings) :
          findings[i].document_path = None \/ findings[i].document_path[1] \in DOMAIN documents

\* A manifest is that of the documents as they are, an answer that to the
\* text as it is.
OutputInv == stage \in {"written", "read"} => FromRepository = <<"ok", manifest>>

AnswerInv == stage = "read" => answer = FromJson(wire)

\* As long as nobody edits the text it is the one that was written.
OwnInv == stage \in {"written", "read"} /\ ~edited => wire = ToWire(manifest)

RecordFields ==
    {"source_path", "architecture", "architecture_source", "model_type", "transformers_version",
     "diffusers_version", "task", "components", "extra", "applied_defaults"}

\* Whoever edits the text leaves records records and lists lists, and takes
\* names and fields from those there are.
Optional(option) == option = None \/ option = Some(option[1])

PartFormed(c) ==
    /\ c = [name |-> c.name, path |-> c.path, library |-> c.library, architecture |-> c.architecture,
            optional |-> c.optional, requires_code |-> c.requires_code]
    /\ c.name \in Nameable
    /\ Optional(c.library) /\ Optional(c.architecture)
    /\ c.optional \in BOOLEAN /\ c.requires_code \in BOOLEAN

NamedField(d) == "field" \in DOMAIN d /\ d.field \in DefaultFields

\* A task is of a kind, which has the name of its own spelling, or other.
TaskFormed(task) ==
    task = None \/ \E t : \/ task = Some(<<"kind", t>>) /\ TaskKind(<<t>>) = <<"kind", t>>
                          \/ task = Some(<<"other", t>>)

ScalarsFormed(n) ==
    /\ n = [field \in RecordFields |-> n[field]]
    /\ Optional(n.model_type) /\ Optional(n.transformers_version) /\ Optional(n.diffusers_version)
    /\ TaskFormed(n.task)
    /\ n.extra = [name \in DOMAIN n.extra |-> n.extra[name]]

RecordFormed(n) ==
    /\ DOMAIN n = RecordFields /\ ScalarsFormed(n)
    /\ n.components \in Seq(ToSet(n.components))
    /\ \A c \in ToSet(n.components) : PartFormed(c)
    /\ n.applied_defaults \in Seq(ToSet(n.applied_defaults))
    /\ \A d \in ToSet(n.applied_defaults) : NamedField(d)

WireFields ==
    {"repeated", "malformed", "unknown", "schema_version", "normalization_profile",
     "documents", "normalized", "diagnostics"}

DocumentFields == {"path", "kind", "digest", "size"}

DocumentFormed(d) == DOMAIN d = DocumentFields /\ d.path \in Paths /\ d.size \in Nat

WireFormed(w) ==
    /\ DOMAIN w = WireFields
    /\ w.documents \in Seq(ToSet(w.documents))
    /\ \A d \in ToSet(w.documents) : DocumentFormed(d)
    /\ w.diagnostics \in Seq(ToSet(w.diagnostics))
    /\ w.normalized = None \/ (w.normalized = Some(w.normalized[1]) /\ RecordFormed(w.normalized[1]))

WireInv == stage \in {"written", "read"} => WireFormed(wire)

StageInv == stage \in {"filling", "written", "refused", "read"} /\ edited \in BOOLEAN

IInv ==
    /\ StageInv /\ DocumentsInv /\ FindingsInv /\ LimitsInv
    /\ OutputInv /\ AnswerInv /\ OwnInv /\ WireInv

-----------------------------------------------------------------------------

(***************************************************************************)
(* What normalization returns of documents that grew as these do.          *)
(***************************************************************************)

Root       == RootPath(documents)[1]
RootObject == documents[Root].json[2]
Taken      == TakeArchitecture(RootObject, Root)

LEMMA NormalizeIs ==
    ASSUME Normalize(documents)[1] = "ok"
    PROVE  /\ Root \in {ModelIndexPath, ConfigPath} /\ Root \in DOMAIN documents
           /\ ModelIndexPath \in DOMAIN documents => Root = ModelIndexPath
           /\ documents[Root].json[1] = "object" /\ Taken # None
           /\ Normalize(documents) = <<"ok", Configuration(RootObject, Root, Taken[1])>>
<1>1. RootPath(documents) # None
  BY DEF Normalize
<1>2. /\ Root \in {ModelIndexPath, ConfigPath} /\ Root \in DOMAIN documents
      /\ ModelIndexPath \in DOMAIN documents => Root = ModelIndexPath
  BY <1>1 DEF RootPath, Root, Some
<1>3. /\ documents[Root].json[1] = "object"
      /\ TakeArchitecture(documents[Root].json[2], Root) # None
      /\ Normalize(documents) =
            <<"ok", Configuration(documents[Root].json[2], Root,
                                  TakeArchitecture(documents[Root].json[2], Root)[1])>>
  BY <1>1 DEF Normalize, Root
<1>. QED
  BY <1>2, <1>3 DEF RootObject, Taken

\* The root object of a repository that normalizes, and where its members
\* are from.
FromMembers(path, object) ==
    /\ IsFiniteSet(DOMAIN object)
    /\ \A name \in DOMAIN object :
          \E m \in Members : m[1] = path /\ m[2] = name /\ m[3] = object[name]

LEMMA RootIsGrown ==
    ASSUME DocumentsInv, Normalize(documents)[1] = "ok"
    PROVE  FromMembers(Root, RootObject) /\ documents[Root].json = Object(RootObject)
BY NormalizeIs DEF DocumentsInv, Grown, RootObject, FromMembers

\* Members are values that the parser accepts below an object.
LEMMA MembersNested ==
    ASSUME NEW path, NEW object, FromMembers(path, object)
    PROVE  \A name \in DOMAIN object : Nested(object[name], MaxNesting - 1)
BY MembersAssumption DEF FromMembers

LEMMA ComponentsAre ==
    ASSUME NEW object, FromMembers(ModelIndexPath, object)
    PROVE  LET names == ComponentNames(object)
               all   == {Component(name, object[name]) : name \in names}
           IN  /\ names \subseteq Nameable
               /\ IsFiniteSet(all) /\ Components(object) = InOrder(all, ByName)
               /\ Components(object) \in Seq(all)
               /\ \A name \in names :
                     \E i \in 1..Len(Components(object)) :
                         Components(object)[i] = Component(name, object[name])
<1> DEFINE names == ComponentNames(object)
           all   == {Component(name, object[name]) : name \in names}
<1>1. names \subseteq Nameable
  BY DEF ComponentNames, Nameable, FromMembers
<1>2. IsFiniteSet(names)
  BY FS_Subset DEF ComponentNames, FromMembers
<1>3. IsFiniteSet(all)
  <2> DEFINE f == [name \in names |-> Component(name, object[name])]
  <2>1. DOMAIN f = names /\ all = {f[name] : name \in DOMAIN f}
    OBVIOUS
  <2> HIDE DEF f, all, names
  <2>. QED
    BY <1>2, <2>1, ImageIsFinite
<1>4. \A name \in names : Component(name, object[name]).name = name
  BY DEF Component
<1> HIDE DEF names
<1>5. \A c \in all : c.name \in Nameable
  BY <1>1, <1>4
<1>6. \A c, d \in all : c.name = d.name => c = d
  BY <1>4
<1>7. Components(object) = InOrder(all, ByName)
  BY DEF Components, names
<1>8. /\ Components(object) \in Seq(all)
      /\ \A c \in all : \E i \in 1..Len(Components(object)) : Components(object)[i] = c
  <2>1. /\ InOrder(all, ByName) \in Seq(all)
        /\ Len(InOrder(all, ByName)) = Cardinality(all)
        /\ \A c \in all : \E i \in 1..Len(InOrder(all, ByName)) : InOrder(all, ByName)[i] = c
    <3> HIDE DEF all
    <3>. QED
      BY <1>3, <1>5, <1>6, NamesOrder, Zenon
  <2>. QED
    BY <1>7, <2>1
<1>. QED
  BY <1>1, <1>3, <1>7, <1>8 DEF names

\* The components whose path is derived.
Derived(object) == {name \in ComponentNames(object) : Component(name, object[name]).path # None}

LEMMA DefaultsAre ==
    ASSUME NEW object, FromMembers(ModelIndexPath, object)
    PROVE  LET all == {Default(name) : name \in Derived(object)}
           IN  /\ IsFiniteSet(all) /\ AppliedDefaults(object) = InOrder(all, ByField)
               /\ \A d \in all : d.field \in DefaultFields
               /\ \A c, d \in all : c.field = d.field => c = d
               /\ AppliedDefaults(object) \in Seq({Default(name) : name \in ComponentNames(object)})
<1> DEFINE names   == ComponentNames(object)
           derived == {name \in names : Component(name, object[name]).path # None}
           all     == {Default(name) : name \in derived}
<1>0. derived = Derived(object)
  BY DEF Derived
<1>1. names \subseteq Nameable
  BY ComponentsAre
<1>2. IsFiniteSet(derived)
  <2>1. derived \subseteq DOMAIN object
    BY DEF ComponentNames
  <2>. QED
    BY <2>1, FS_Subset DEF FromMembers
<1>3. IsFiniteSet(all)
  <2> DEFINE f == [name \in derived |-> Default(name)]
  <2>1. DOMAIN f = derived /\ all = {f[name] : name \in DOMAIN f}
    OBVIOUS
  <2> HIDE DEF f, all, derived
  <2>. QED
    BY <1>2, <2>1, ImageIsFinite
<1>4. \A name \in derived : Default(name).field = Field(name)
  BY DEF Default
<1>5. \A a, b \in derived : Field(a) = Field(b) => a = b
  BY DEF Field
<1>6. derived \subseteq names
  OBVIOUS
<1>7. AppliedDefaults(object) = InOrder(all, ByField)
  BY DEF AppliedDefaults
<1> HIDE DEF derived, names
<1>8. \A c \in all : c.field \in DefaultFields
  BY <1>1, <1>4, <1>6 DEF DefaultFields
<1>9. \A c, d \in all : c.field = d.field => c = d
  BY <1>4, <1>5
<1>10. AppliedDefaults(object) \in Seq(all)
  BY ONLY <1>3, <1>7, <1>8, <1>9, FieldsOrder
<1>11. all \subseteq {Default(name) : name \in names}
  BY <1>6
<1>. QED
  BY <1>0, <1>3, <1>7, <1>8, <1>9, <1>10, <1>11 DEF names

\* The parts of a value that nests as deep as values may are formed.
LEMMA PartsAreFormed ==
    ASSUME NEW value, Nested(value, MaxNesting - 1)
    PROVE  Formed(value) /\ \A v \in Inside(value) : Formed(v)
<1>1. 0 \in 0..MaxNesting - 1
  BY NestingAssumption
<1>2. value \in Levels(value)[0]
  BY LevelsAre
<1>3. value \in Within(value) /\ \A v \in Inside(value) : v \in Within(value)
  BY <1>1, <1>2, InsideWithin
<1>. QED
  BY <1>3 DEF Nested

\* What the architecture is taken from holds it.
LEMMA ArchitectureIsTaken ==
    ASSUME NEW object, NEW root, TakeArchitecture(object, root) # None,
           \A name \in DOMAIN object : Nested(object[name], MaxNesting - 1)
    PROVE  LET taken == TakeArchitecture(object, root)[1]
           IN  \A name \in taken.used :
                   \/ name = <<"_class_name">> /\ taken.id = object[name][2]
                   \/ /\ name = <<"architectures">>
                      /\ \E i \in 1..Len(object[name][2]) : object[name][2][i] = Text(taken.id)
<1> DEFINE taken  == TakeArchitecture(object, root)[1]
           usable == UsableArchitectures(object)
           list   == Architectures(object)
<1>1. CASE root = ModelIndexPath
  BY <1>1 DEF TakeArchitecture, Some, None
<1>2. CASE root # ModelIndexPath /\ usable = {}
  <2>1. CASE Given(object, <<"_class_name">>)
    BY <1>2, <2>1 DEF TakeArchitecture, Some
  <2>2. CASE ~Given(object, <<"_class_name">>)
    BY <1>2, <2>2 DEF TakeArchitecture, Some, None
  <2>. QED
    BY <2>1, <2>2
<1>3. CASE root # ModelIndexPath /\ usable # {}
  <2>1. taken.id = list[Min(usable)][2] /\ taken.used \subseteq {<<"architectures">>}
    BY <1>3 DEF TakeArchitecture, Some
  <2>2. Min(usable) \in usable
    <3>1. usable \in SUBSET Nat
      BY DEF UsableArchitectures
    <3>2. PICK n \in usable : \A m \in usable : n <= m
      BY <1>3, <3>1, Least
    <3> HIDE DEF usable
    <3>. QED
      BY <3>2 DEF Min
  <2>3. Min(usable) \in 1..Len(list) /\ IsText(list[Min(usable)])
    BY <2>2 DEF UsableArchitectures
  <2>4. /\ <<"architectures">> \in DOMAIN object
        /\ object[<<"architectures">>][1] = "list" /\ list = object[<<"architectures">>][2]
    <3>1. <<>> # list
      BY <2>3
    <3>. QED
      BY <3>1 DEF Architectures
  <2> DEFINE v == list[Min(usable)]
  <2>5. v \in Inside(object[<<"architectures">>])
    BY <2>3, <2>4 DEF Inside
  <2>6. Formed(v)
    BY <2>4, <2>5, PartsAreFormed
  <2>7. v = Text(v[2])
    BY <2>3, <2>6 DEF Formed, IsText
  <2>. QED
    BY <2>1, <2>3, <2>4, <2>7
<1>. QED
  BY <1>1, <1>2, <1>3

\* Normalization loses no member.
LEMMA AccountedFor ==
    ASSUME DocumentsInv
    PROVE  EveryMemberIsAccountedFor
<1>1. SUFFICES ASSUME Normalize(documents)[1] = "ok"
               PROVE  LET n == Normalize(documents)[2]
                          root == documents[n.source_path].json[2]
                      IN  \A name \in DOMAIN root :
                              \/ Member(n.extra, name, root[name])
                              \/ name \notin DOMAIN n.extra /\ Consumed(name, root[name], n)
  BY DEF EveryMemberIsAccountedFor
<1> DEFINE object == RootObject
           taken  == Taken[1]
           index  == Root = ModelIndexPath
           n      == Configuration(object, Root, taken)
           texts  == {<<"model_type">>, <<"transformers_version">>, <<"_diffusers_version">>}
           strings == UNION {Used(object, name) : name \in texts}
           parts  == IF index THEN ComponentNames(object) ELSE {}
           used   == strings \cup TaskName(object) \cup parts
<1>2. /\ Normalize(documents)[2] = n
      /\ Taken # None
  BY <1>1, NormalizeIs
<1>3. FromMembers(Root, object)
  BY <1>1, RootIsGrown
<1>4a. n.extra = Restrict(object, (DOMAIN object \ taken.used) \ used)
  BY DEF Configuration
<1>4. /\ n.source_path = Root
      /\ n.extra = Restrict(object, (DOMAIN object \ taken.used) \ used)
      /\ n.architecture = taken.id
      /\ n.model_type = StringOf(object, <<"model_type">>)
      /\ n.transformers_version = StringOf(object, <<"transformers_version">>)
      /\ n.diffusers_version = StringOf(object, <<"_diffusers_version">>)
      /\ n.components = IF index THEN Components(object) ELSE <<>>
      /\ n.task = LET name == TaskName(object)
                  IN  IF name = {} THEN None
                      ELSE IF <<"pipeline_tag">> \in name
                      THEN Some(TaskKind(object[<<"pipeline_tag">>][2]))
                      ELSE Some(TaskKind(object[<<"task">>][2]))
  BY <1>4a DEF Configuration
<1>5. documents[n.source_path].json[2] = object
  BY <1>4 DEF RootObject
<1> HIDE DEF object, n, strings, parts
<1>6. SUFFICES ASSUME NEW name \in DOMAIN object
               PROVE  \/ Member(n.extra, name, object[name])
                      \/ name \notin DOMAIN n.extra /\ Consumed(name, object[name], n)
  BY <1>2, <1>5
<1>7. CASE name \notin taken.used /\ name \notin used
  BY <1>4, <1>7 DEF Member, Restrict
<1>8. name \in taken.used \cup used => name \notin DOMAIN n.extra
  BY <1>4 DEF Restrict
<1>9. CASE name \in taken.used
  <2>1. \/ name = <<"_class_name">> /\ taken.id = object[name][2]
        \/ /\ name = <<"architectures">>
           /\ \E i \in 1..Len(object[name][2]) : object[name][2][i] = Text(taken.id)
    <3>1. \A m \in DOMAIN object : Nested(object[m], MaxNesting - 1)
      BY <1>3, MembersNested
    <3>2. TakeArchitecture(object, Root) # None /\ taken = TakeArchitecture(object, Root)[1]
      BY <1>2 DEF Taken, object
    <3>. QED
      BY <1>9, <3>1, <3>2, ArchitectureIsTaken
  <2>2. Consumed(name, object[name], n)
    BY <1>4, <2>1 DEF Consumed
  <2>. QED
    BY <1>8, <1>9, <2>2
<1>10. CASE \E m \in texts :
               name \in Used(object, m)
  <2>1. /\ name \in {<<"model_type">>, <<"transformers_version">>, <<"_diffusers_version">>}
        /\ Given(object, name)
    BY <1>10 DEF Used
  <2>2. StringOf(object, name) = Some(object[name][2])
    BY <2>1 DEF StringOf
  <2>3. Consumed(name, object[name], n)
    BY <1>4, <2>1, <2>2 DEF Consumed
  <2>4. name \in used
    BY <1>10 DEF strings
  <2>. QED
    BY <1>8, <2>3, <2>4
<1>11. CASE name \in TaskName(object)
  <2>1. /\ name \in {<<"pipeline_tag">>, <<"task">>}
        /\ TaskName(object) = {name}
    BY <1>11 DEF TaskName
  <2>2. n.task = Some(TaskKind(object[name][2]))
    BY <1>4, <2>1
  <2>3. Consumed(name, object[name], n)
    BY <2>1, <2>2 DEF Consumed
  <2>4. name \in used
    BY <1>11
  <2>. QED
    BY <1>8, <2>3, <2>4
<1>12. CASE index /\ name \in ComponentNames(object)
  <2>1. FromMembers(ModelIndexPath, object)
    BY <1>3, <1>12
  <2>2. PICK i \in 1..Len(Components(object)) : Components(object)[i] = Component(name, object[name])
    BY <1>12, <2>1, ComponentsAre
  <2>3. n.components = Components(object)
    BY <1>4, <1>12
  <2>4. Component(name, object[name]).name = name
    BY DEF Component
  <2>5. Consumed(name, object[name], n)
    BY <2>2, <2>3, <2>4 DEF Consumed
  <2>6. name \in used
    BY <1>12 DEF parts
  <2>. QED
    BY <1>8, <2>5, <2>6
<1>13. CASE name \in used
  <2>1. name \in strings => \E m \in texts :
                               name \in Used(object, m)
    BY DEF strings
  <2>2. name \in parts => index /\ name \in ComponentNames(object)
    BY DEF parts
  <2>. QED
    BY <1>10, <1>11, <1>12, <1>13, <2>1, <2>2
<1>. QED
  BY <1>7, <1>9, <1>13

-----------------------------------------------------------------------------

(***************************************************************************)
(* What is written: the findings.                                          *)
(***************************************************************************)

FindingFormed(f) ==
    f = [level |-> f.level, code |-> f.code, message |-> f.message,
         document_path |-> f.document_path, json_path |-> f.json_path,
         related_path |-> f.related_path]

\* A finding either stays as it is or loses its message; what it has left
\* may be shown.
LEMMA RedactFindingIs ==
    ASSUME NEW f, FindingFormed(f)
    PROVE  LET g == RedactFinding(f)
           IN  /\ g.code = f.code /\ g.level = f.level
               /\ ~SensitiveMessage(g.message) /\ ~Of(g.document_path, SensitivePath)
               /\ ~Of(g.related_path, SensitivePath) /\ ~Of(g.json_path, SensitivePointer)
               /\ \/ g = f
                  \/ /\ g.message = RedactedMessage
                     /\ g.document_path \in {None, f.document_path}
                     /\ g.related_path \in {None, f.related_path}
                     /\ g.json_path \in {None, f.json_path}
<1> DEFINE g        == RedactFinding(f)
           document == Of(f.document_path, SensitivePath)
           related  == Of(f.related_path, SensitivePath)
           pointer  == Of(f.json_path, SensitivePointer)
           gone     == document \/ related \/ pointer \/ SensitiveMessage(f.message)
<1> HIDE DEF document, related, pointer
<1>1. g = [level |-> f.level, code |-> f.code,
           message |-> IF gone THEN RedactedMessage ELSE f.message,
           document_path |-> Unless(document, f.document_path),
           json_path |-> Unless(pointer, f.json_path),
           related_path |-> Unless(related, f.related_path)]
  <2>1. g = [f EXCEPT
                !.document_path = Unless(document, f.document_path),
                !.related_path  = Unless(related, f.related_path),
                !.json_path     = Unless(pointer, f.json_path),
                !.message       = IF gone THEN RedactedMessage ELSE f.message]
    BY DEF RedactFinding, document, related, pointer
  <2> HIDE DEF g, gone
  <2>. QED
    BY <2>1 DEF FindingFormed
<1> HIDE DEF g
<1>2. /\ g.code = f.code /\ g.level = f.level
      /\ g.message = IF gone THEN RedactedMessage ELSE f.message
      /\ g.document_path = Unless(document, f.document_path)
      /\ g.related_path = Unless(related, f.related_path)
      /\ g.json_path = Unless(pointer, f.json_path)
  BY <1>1
<1>3. ~SensitiveMessage(g.message)
  BY <1>2, MarkersAssumption
<1>4. ~Of(g.related_path, SensitivePath)
  <2>1. CASE related
    BY <1>2, <2>1 DEF Unless, Of, None
  <2>2. CASE ~related
    BY <1>2, <2>2 DEF Unless, related
  <2>. QED
    BY <2>1, <2>2
<1>7. ~Of(g.document_path, SensitivePath)
  <2>1. CASE document
    BY <1>2, <2>1 DEF Unless, Of, None
  <2>2. CASE ~document
    BY <1>2, <2>2 DEF Unless, document
  <2>. QED
    BY <2>1, <2>2
<1>8. ~Of(g.json_path, SensitivePointer)
  <2>1. CASE pointer
    BY <1>2, <2>1 DEF Unless, Of, None
  <2>2. CASE ~pointer
    BY <1>2, <2>2 DEF Unless, pointer
  <2>. QED
    BY <2>1, <2>2
<1>5. CASE ~gone
  <2>1. g = [level |-> f.level, code |-> f.code, message |-> f.message,
             document_path |-> f.document_path, json_path |-> f.json_path,
             related_path |-> f.related_path]
    BY <1>1, <1>5 DEF Unless
  <2>2. g = f
    BY <2>1 DEF FindingFormed
  <2>. QED
    BY <1>2, <1>3, <1>4, <1>7, <1>8, <2>2 DEF g
<1>6. CASE gone
  <2>1. /\ g.document_path \in {None, f.document_path}
        /\ g.related_path \in {None, f.related_path}
        /\ g.json_path \in {None, f.json_path}
    BY <1>2 DEF Unless
  <2>. QED
    BY <1>2, <1>3, <1>4, <1>6, <1>7, <1>8, <2>1 DEF g
<1>. QED
  BY <1>5, <1>6

\* The parts of FromRepository.
Projection ==
    IF Normalize(documents)[1] = "ok" THEN ManifestSafe(Normalize(documents)[2]) ELSE None

Omission ==
    IF Normalize(documents)[1] = "ok" /\ Projection = None
    THEN <<OmittedFinding(Normalize(documents)[2].source_path)>> ELSE <<>>

AllFindings == NormalizationFinding \o findings \o Omission

Shortened == [i \in 1..Len(AllFindings) |-> RedactFinding(AllFindings[i])]

LEMMA ManifestIs ==
    ASSUME OutputInv, Written
    PROVE  /\ manifest.normalized = Projection
           /\ manifest.diagnostics = Sorted(Shortened)
           /\ manifest.documents = InOrder({Recorded(path) : path \in DOMAIN documents}, ByPath)
           /\ manifest = [documents   |-> manifest.documents, normalized |-> manifest.normalized,
                          diagnostics |-> manifest.diagnostics]
           /\ \A path \in DOMAIN documents : ~SensitivePath(path)
<1>1. FromRepository = <<"ok", manifest>>
  BY DEF OutputInv, Written
<1>2. FromRepository =
        IF \E path \in DOMAIN documents : SensitivePath(path)
        THEN <<"error", "ManifestSensitivePath">>
        ELSE <<"ok",
               [documents   |-> InOrder({Recorded(path) : path \in DOMAIN documents}, ByPath),
                normalized  |-> Projection,
                diagnostics |-> Sorted(Shortened)]>>
  BY DEF FromRepository, Projection, Omission, AllFindings, Shortened
<1>3. <<"error", "ManifestSensitivePath">> # <<"ok", manifest>>
  OBVIOUS
<1>. QED
  BY <1>1, <1>2, <1>3

\* All that is reported, and where it comes from.
AllReports == Reports \cup ToSet(NormalizationFinding) \cup ToSet(Omission)

LEMMA FindingsAre ==
    ASSUME FindingsInv
    PROVE  /\ AllFindings \in Seq(AllReports)
           /\ \A f \in AllReports : FindingFormed(f)
           /\ \A i \in 1..Len(findings) : \E k \in 1..Len(AllFindings) : AllFindings[k] = findings[i]
           /\ \A i \in 1..Len(Omission) : \E k \in 1..Len(AllFindings) : AllFindings[k] = Omission[i]
           /\ Omission = <<>> /\ Normalize(documents)[1] = "ok" =>
                 \A f \in AllReports : f.code # "manifest_sensitive_data_omitted"
<1> DEFINE a == NormalizationFinding
           b == findings
           c == Omission
<1>1. a = <<>> \/ \E f : FindingFormed(f) /\ a = <<f>>
  BY DEF NormalizationFinding, Finding, FindingFormed
<1>2. c = <<>> \/ \E f : FindingFormed(f) /\ c = <<f>>
  BY DEF Omission, OmittedFinding, Finding, FindingFormed
<1>3. Normalize(documents)[1] = "ok" => a = <<>>
  BY DEF NormalizationFinding
<1>4. AllFindings = (a \o b) \o c
  BY DEF AllFindings
<1>5. AllReports = (Reports \cup ToSet(a)) \cup ToSet(c)
  BY DEF AllReports
<1>6. b \in Seq(Reports)
  BY DEF FindingsInv
<1> HIDE DEF a, c
<1>7. a \in Seq(ToSet(a)) /\ \A f \in ToSet(a) : FindingFormed(f)
  <2>1. CASE a = <<>>
    BY <2>1 DEF ToSet
  <2>2. ASSUME NEW f, FindingFormed(f), a = <<f>>
        PROVE  a \in Seq(ToSet(a)) /\ \A g \in ToSet(a) : FindingFormed(g)
    <3>1. ToSet(a) = {f}
      BY <2>2 DEF ToSet
    <3>. QED
      BY <2>2, <3>1
  <2>. QED
    BY <1>1, <2>1, <2>2
<1>8. c \in Seq(ToSet(c)) /\ \A f \in ToSet(c) : FindingFormed(f)
  <2>1. CASE c = <<>>
    BY <2>1 DEF ToSet
  <2>2. ASSUME NEW f, FindingFormed(f), c = <<f>>
        PROVE  c \in Seq(ToSet(c)) /\ \A g \in ToSet(c) : FindingFormed(g)
    <3>1. ToSet(c) = {f}
      BY <2>2 DEF ToSet
    <3>. QED
      BY <2>2, <3>1
  <2>. QED
    BY <1>2, <2>1, <2>2
<1>9. a \in Seq(AllReports) /\ b \in Seq(AllReports) /\ c \in Seq(AllReports)
  BY <1>5, <1>6, <1>7, <1>8
<1>10. \A f \in AllReports : FindingFormed(f)
  BY <1>5, <1>7, <1>8, ReportsAssumption DEF FindingFormed
<1>11. /\ Len(AllFindings) = Len(a) + Len(b) + Len(c)
       /\ AllFindings \in Seq(AllReports)
       /\ Len(a) \in Nat /\ Len(b) \in Nat /\ Len(c) \in Nat
       /\ \A i \in 1..Len(b) : AllFindings[Len(a) + i] = b[i]
       /\ \A i \in 1..Len(c) : AllFindings[Len(a) + Len(b) + i] = c[i]
  <2> HIDE DEF b
  <2>. QED
    BY <1>4, <1>9
<1>12. \A i \in 1..Len(b) : \E k \in 1..Len(AllFindings) : AllFindings[k] = b[i]
  <2>1. \A i \in 1..Len(b) : Len(a) + i \in 1..Len(AllFindings)
    BY <1>11
  <2>. QED
    BY <1>11, <2>1
<1>13. \A i \in 1..Len(c) : \E k \in 1..Len(AllFindings) : AllFindings[k] = c[i]
  <2>1. \A i \in 1..Len(c) : Len(a) + Len(b) + i \in 1..Len(AllFindings)
    BY <1>11
  <2>. QED
    BY <1>11, <2>1
<1>14. ASSUME c = <<>>, a = <<>>
       PROVE  \A f \in AllReports : f.code # "manifest_sensitive_data_omitted"
  <2>1. ToSet(a) = {} /\ ToSet(c) = {}
    BY <1>14 DEF ToSet
  <2>. QED
    BY <1>5, <2>1, ReportsAssumption
<1>. QED
  BY <1>3, <1>10, <1>11, <1>12, <1>13, <1>14 DEF c

\* What is written of them, and of all of them something.
LEMMA WrittenFindings ==
    ASSUME OutputInv, FindingsInv, Written
    PROVE  /\ \A j \in 1..Len(manifest.diagnostics) :
                 \E f \in AllReports : manifest.diagnostics[j] = RedactFinding(f)
           /\ \A k \in 1..Len(AllFindings) :
                 \E j \in 1..Len(manifest.diagnostics) :
                     manifest.diagnostics[j] = RedactFinding(AllFindings[k])
<1> DEFINE T == {RedactFinding(f) : f \in AllReports}
<1>1. AllFindings \in Seq(AllReports) /\ Len(AllFindings) \in Nat
  BY FindingsAre
<1>2. \A i \in 1..Len(AllFindings) : AllFindings[i] \in AllReports
  BY <1>1
<1>3. Shortened \in [1..Len(AllFindings) -> T]
  BY <1>2 DEF Shortened
<1>4. \A i \in 1..Len(AllFindings) : Shortened[i] = RedactFinding(AllFindings[i])
  BY DEF Shortened
<1> HIDE DEF T
<1>5. Shortened \in Seq(T) /\ Len(Shortened) = Len(AllFindings)
  BY <1>1, <1>3
<1>6. /\ Sorted(Shortened) \in Seq(T)
      /\ \A i \in 1..Len(Sorted(Shortened)) : \E k \in 1..Len(Shortened) : Sorted(Shortened)[i] = Shortened[k]
      /\ \A k \in 1..Len(Shortened) : \E i \in 1..Len(Sorted(Shortened)) : Sorted(Shortened)[i] = Shortened[k]
  BY <1>5, SortedIs
<1>7. manifest.diagnostics = Sorted(Shortened)
  BY ManifestIs
<1> DEFINE s == manifest.diagnostics
<1>8. /\ \A i \in 1..Len(s) : \E k \in 1..Len(AllFindings) : s[i] = RedactFinding(AllFindings[k])
      /\ \A k \in 1..Len(AllFindings) : \E i \in 1..Len(s) : s[i] = RedactFinding(AllFindings[k])
  BY <1>4, <1>5, <1>6, <1>7
<1> HIDE DEF s
<1>9. \A i \in 1..Len(s) : \E f \in AllReports : s[i] = RedactFinding(f)
  BY <1>2, <1>8
<1>. QED
  BY <1>8, <1>9 DEF s

\* Every finding stays, with its code; of the message and the locations it
\* loses only what may not be shown.
LEMMA Kept ==
    ASSUME OutputInv, FindingsInv
    PROVE  FindingsAreKept
<1>1. SUFFICES ASSUME Written, NEW i \in 1..Len(findings)
               PROVE  \E j \in 1..Len(manifest.diagnostics) :
                         LET f == findings[i]
                             g == manifest.diagnostics[j]
                         IN  /\ g.code = f.code /\ g.level = f.level
                             /\ \/ g = f
                                \/ /\ g.message = RedactedMessage
                                   /\ g.document_path \in {None, f.document_path}
                                   /\ g.related_path \in {None, f.related_path}
  BY DEF FindingsAreKept
<1>2. PICK k \in 1..Len(AllFindings) : AllFindings[k] = findings[i]
  BY FindingsAre
<1>3. PICK j \in 1..Len(manifest.diagnostics) : manifest.diagnostics[j] = RedactFinding(findings[i])
  BY <1>1, <1>2, WrittenFindings
<1>4. FindingFormed(findings[i])
  <2>1. AllFindings[k] \in AllReports
    BY FindingsAre
  <2>. QED
    BY <1>2, <2>1, FindingsAre
<1>. QED
  BY <1>3, <1>4, RedactFindingIs

-----------------------------------------------------------------------------

(***************************************************************************)
(* What is written: the record.                                            *)
(***************************************************************************)

\* A string has one level.
LEMMA TextIsNested ==
    ASSUME NEW string
    PROVE  Nested(Text(string), MaxNesting - 1)
<1> DEFINE value == Text(string)
           D     == {n \in 0..MaxNesting : ~ (Levels(value)[n] \subseteq {value})}
<1>1. value[1] = "text" /\ value[2] = string /\ Inside(value) = {} /\ Formed(value)
  BY DEF Text, Inside, Formed
<1> HIDE DEF value
<1>2. D = {}
  <2>1. SUFFICES ASSUME D # {} PROVE FALSE
    OBVIOUS
  <2>2. D \in SUBSET Nat
    BY NestingAssumption
  <2> HIDE DEF D
  <2>3. PICK n \in D : \A m \in D : n <= m
    BY <2>1, <2>2, Least
  <2>4. n \in 0..MaxNesting /\ ~ (Levels(value)[n] \subseteq {value})
    BY <2>3 DEF D
  <2>5. n # 0
    BY <2>4, LevelsAre
  <2>6. n \in 1..MaxNesting /\ n - 1 \in 0..MaxNesting /\ ~ (n <= n - 1)
    BY <2>4, <2>5, NestingAssumption
  <2>7. Levels(value)[n - 1] \subseteq {value}
    BY <2>3, <2>6 DEF D
  <2>8. Levels(value)[n] = UNION {Inside(v) : v \in Levels(value)[n - 1]}
    BY <2>6, LevelsAre
  <2>. QED
    BY <1>1, <2>4, <2>7, <2>8
<1>3. \A n \in 0..MaxNesting : Levels(value)[n] \subseteq {value}
  BY <1>2
<1>4. MaxNesting - 1 \in 0..MaxNesting
  BY NestingAssumption
<1>5. \A v \in Within(value) : v = value
  BY <1>3 DEF Within
<1>6. \A v \in Levels(value)[MaxNesting - 1] : v = value
  BY <1>3, <1>4
<1>. QED
  BY <1>1, <1>5, <1>6 DEF Nested, value

\* The configuration that normalization returns.
LEMMA ConfigurationIs ==
    ASSUME DocumentsInv, Normalize(documents)[1] = "ok"
    PROVE  LET config == Normalize(documents)[2]
           IN  /\ DOMAIN config = RecordFields
               /\ config.source_path = Root
               /\ config.components \in Seq({Component(name, RootObject[name]) : name \in Nameable})
               /\ config.applied_defaults \in Seq({Default(name) : name \in Nameable})
               /\ DOMAIN config.extra \subseteq DOMAIN RootObject
               /\ \A name \in DOMAIN config.extra :
                     /\ config.extra[name] = RootObject[name]
                     /\ Nested(config.extra[name], MaxNesting - 1)
<1> DEFINE object == RootObject
           taken  == Taken[1]
           index  == Root = ModelIndexPath
           config == Configuration(object, Root, taken)
<1>1. Normalize(documents)[2] = config
  BY NormalizeIs
<1>2. FromMembers(Root, object)
  BY RootIsGrown
<1>3. /\ DOMAIN config = RecordFields
      /\ config.source_path = Root
      /\ config.components = IF index THEN Components(object) ELSE <<>>
      /\ config.applied_defaults = IF index THEN AppliedDefaults(object) ELSE <<>>
      /\ \E kept : kept \subseteq DOMAIN object /\ config.extra = Restrict(object, kept)
  <2> DEFINE texts == {<<"model_type">>, <<"transformers_version">>, <<"_diffusers_version">>}
             used  == (UNION {Used(object, name) : name \in texts}) \cup TaskName(object)
                      \cup (IF index THEN ComponentNames(object) ELSE {})
             kept  == (DOMAIN object \ taken.used) \ used
  <2>1. config.extra = Restrict(object, kept)
    BY DEF Configuration
  <2>2. /\ DOMAIN config = RecordFields
        /\ config.source_path = Root
        /\ config.components = IF index THEN Components(object) ELSE <<>>
        /\ config.applied_defaults = IF index THEN AppliedDefaults(object) ELSE <<>>
    BY DEF Configuration, RecordFields
  <2>3. kept \subseteq DOMAIN object
    OBVIOUS
  <2> HIDE DEF config, kept
  <2>. QED
    BY <2>1, <2>2, <2>3
<1> HIDE DEF config, object
<1> DEFINE parts  == {Component(name, object[name]) : name \in Nameable}
           fields == {Default(name) : name \in Nameable}
<1>4. config.components \in Seq(parts) /\ config.applied_defaults \in Seq(fields)
  <2>1. CASE index
    <3>1. FromMembers(ModelIndexPath, object)
      BY <1>2, <2>1
    <3>2. ComponentNames(object) \subseteq Nameable
      BY <3>1, ComponentsAre
    <3>3. /\ Components(object) \in Seq({Component(name, object[name]) : name \in ComponentNames(object)})
          /\ AppliedDefaults(object) \in Seq({Default(name) : name \in ComponentNames(object)})
      BY <3>1, ComponentsAre, DefaultsAre
    <3>4. /\ {Component(name, object[name]) : name \in ComponentNames(object)} \subseteq parts
          /\ {Default(name) : name \in ComponentNames(object)} \subseteq fields
      BY <3>2
    <3> HIDE DEF parts, fields
    <3>. QED
      BY <1>3, <2>1, <3>3, <3>4
  <2>2. CASE ~index
    BY <1>3, <2>2
  <2>. QED
    BY <2>1, <2>2
<1>5. /\ DOMAIN config.extra \subseteq DOMAIN object
      /\ \A name \in DOMAIN config.extra : config.extra[name] = object[name]
  BY <1>3 DEF Restrict
<1>6. \A name \in DOMAIN object : Nested(object[name], MaxNesting - 1)
  BY <1>2, MembersNested
<1>. QED
  BY <1>1, <1>3, <1>4, <1>5, <1>6 DEF object

\* What a manifest shows of it.
LEMMA ProjectionIs ==
    ASSUME DocumentsInv, Projection # None
    PROVE  LET config == Normalize(documents)[2]
               n      == Projection[1]
               shown  == {name \in DOMAIN config.extra : Shown(name)}
               list   == config.applied_defaults
               defaults == AtPlaces(list, {i \in 1..Len(list) : ShownDefault(list[i])})
           IN  /\ Normalize(documents)[1] = "ok" /\ ~SensitiveIdentity(config)
               /\ Projection = Some(n) /\ DOMAIN n = RecordFields
               /\ n = [field \in RecordFields |-> n[field]]
               /\ \A field \in RecordFields \ {"extra", "applied_defaults"} : n[field] = config[field]
               /\ n.extra = [name \in shown |-> Redact(config.extra[name])]
               /\ n.applied_defaults =
                     [i \in 1..Len(defaults) |-> [defaults[i] EXCEPT !.value = Redact(@)]]
               /\ n.applied_defaults \in
                     Seq({[Default(name) EXCEPT !.value = Redact(@)] : name \in Nameable})
<1> DEFINE config   == Normalize(documents)[2]
           n        == Projection[1]
           shown    == {name \in DOMAIN config.extra : Shown(name)}
           list     == config.applied_defaults
           defaults == AtPlaces(list, {i \in 1..Len(list) : ShownDefault(list[i])})
           redacted == [i \in 1..Len(defaults) |-> [defaults[i] EXCEPT !.value = Redact(@)]]
           extra    == [name \in shown |-> Redact(config.extra[name])]
           T        == {Default(name) : name \in Nameable}
           U        == {[Default(name) EXCEPT !.value = Redact(@)] : name \in Nameable}
<1>1. Normalize(documents)[1] = "ok" /\ ManifestSafe(config) # None /\ Projection = ManifestSafe(config)
  BY DEF Projection
<1>2. /\ ~SensitiveIdentity(config)
      /\ Projection = Some([config EXCEPT !.extra = extra, !.applied_defaults = redacted])
  BY <1>1 DEF ManifestSafe
<1>3. DOMAIN config = RecordFields /\ list \in Seq(T)
  BY <1>1, ConfigurationIs
<1>4. defaults \in Seq(T)
  <2> HIDE DEF T, config
  <2>. QED
    BY <1>3, AtPlacesIs
<1>5. redacted \in Seq(U)
  <2> DEFINE m == Len(defaults)
  <2>1. m \in Nat /\ \A i \in 1..m : defaults[i] \in T
    <3> HIDE DEF T, defaults
    <3>. QED
      BY <1>4
  <2>2. \A i \in 1..m : redacted[i] \in U
    <3> HIDE DEF defaults
    <3>. QED
      BY <2>1
  <2> HIDE DEF U, defaults
  <2>3. redacted \in [1..m -> U]
    BY <2>2
  <2>. QED
    BY <2>1, <2>3
<1> HIDE DEF config, redacted, extra, U
<1>6. /\ n = [config EXCEPT !.extra = extra, !.applied_defaults = redacted]
      /\ Projection = Some(n)
  BY <1>2 DEF Some
<1> HIDE DEF n
<1>7. /\ DOMAIN n = RecordFields /\ n = [field \in RecordFields |-> n[field]]
      /\ \A field \in RecordFields \ {"extra", "applied_defaults"} : n[field] = config[field]
      /\ n.extra = extra /\ n.applied_defaults = redacted
  BY <1>3, <1>6 DEF RecordFields
<1>. QED
  BY <1>1, <1>2, <1>5, <1>6, <1>7 DEF config, extra, redacted, U, n

\* No value that is written holds anything sensitive.
LEMMA ValuesAreSafe ==
    ASSUME DocumentsInv, Projection # None, NEW value \in Values(Projection[1])
    PROVE  Safe(value)
<1> DEFINE config == Normalize(documents)[2]
           n      == Projection[1]
           shown  == {name \in DOMAIN config.extra : Shown(name)}
           U      == {[Default(name) EXCEPT !.value = Redact(@)] : name \in Nameable}
<1>1. /\ Normalize(documents)[1] = "ok"
      /\ n.extra = [name \in shown |-> Redact(config.extra[name])]
      /\ n.applied_defaults \in Seq(U)
  BY ProjectionIs
<1>2. \A name \in DOMAIN config.extra : Nested(config.extra[name], MaxNesting - 1)
  BY <1>1, ConfigurationIs
<1>3. \A u \in U : Safe(u.value)
  <2>1. SUFFICES ASSUME NEW name \in Nameable PROVE Safe([Default(name) EXCEPT !.value = Redact(@)].value)
    OBVIOUS
  <2>2. [Default(name) EXCEPT !.value = Redact(@)].value = Redact(Text(name))
    BY DEF Default
  <2>3. Safe(Redact(Text(name)))
    BY TextIsNested, RedactIsSafe
  <2>. QED
    BY <2>2, <2>3
<1> HIDE DEF n, U, config
<1>4. CASE value \in {n.extra[name] : name \in DOMAIN n.extra}
  <2>1. PICK name \in DOMAIN config.extra : value = Redact(config.extra[name])
    BY <1>1, <1>4
  <2>. QED
    BY <1>2, <2>1, RedactIsSafe
<1>5. CASE value \in {n.applied_defaults[i].value : i \in 1..Len(n.applied_defaults)}
  <2>1. PICK i \in 1..Len(n.applied_defaults) : value = n.applied_defaults[i].value
    BY <1>5
  <2>2. n.applied_defaults[i] \in U
    BY <1>1
  <2>. QED
    BY <1>3, <2>1, <2>2
<1>. QED
  BY <1>4, <1>5 DEF Values, n

\* Nothing that is written is sensitive.
LEMMA WrittenIsSafe ==
    ASSUME DocumentsInv, FindingsInv, OutputInv
    PROVE  NothingSensitiveIsWritten
<1> DEFINE n == Projection[1]
           Part1(m) == DOMAIN m.extra \cap {name \in DOMAIN m.extra : SensitiveKey(name)} = {}
           Part2(m) == \A value \in Values(m) :
                           /\ \A string \in Strings(value) : ~SensitiveMessage(string)
                           /\ \A name \in Names(value) : ~SensitiveKey(name)
           Part3(m) == \A i \in 1..Len(m.components) :
                           LET c == m.components[i]
                           IN  \A text \in {c.name} \cup ToSet(c.library) \cup ToSet(c.architecture) :
                                   ~SensitiveText(text)
<1>1. SUFFICES ASSUME Written
               PROVE  /\ \A i \in 1..Len(manifest.diagnostics) :
                            LET f == manifest.diagnostics[i]
                            IN  ~SensitiveMessage(f.message) /\ ~Of(f.related_path, SensitivePath)
                      /\ Projection # None => Part1(n) /\ Part2(n) /\ Part3(n)
  <2>1. Written => manifest.normalized = Projection
    BY ManifestIs
  <2>. QED
    BY <2>1, Zenon DEF NothingSensitiveIsWritten, Of
<1>2. ASSUME NEW i \in 1..Len(manifest.diagnostics)
      PROVE  LET f == manifest.diagnostics[i]
             IN  ~SensitiveMessage(f.message) /\ ~Of(f.related_path, SensitivePath)
  <2>1. PICK f \in AllReports : manifest.diagnostics[i] = RedactFinding(f)
    BY <1>1, WrittenFindings
  <2>2. FindingFormed(f)
    BY FindingsAre
  <2>. QED
    BY <2>1, <2>2, RedactFindingIs
<1>3. ASSUME Projection # None
      PROVE  Part1(n) /\ Part2(n) /\ Part3(n)
  <2> DEFINE config == Normalize(documents)[2]
             shown  == {name \in DOMAIN config.extra : Shown(name)}
             T      == {Component(name, RootObject[name]) : name \in Nameable}
  <2>1. /\ Normalize(documents)[1] = "ok" /\ ~SensitiveIdentity(config)
        /\ n.components = config.components
        /\ n.extra = [name \in shown |-> Redact(config.extra[name])]
    <3>1. "components" \in RecordFields \ {"extra", "applied_defaults"}
      BY DEF RecordFields
    <3>. QED
      BY <1>3, <3>1, ProjectionIs
  <2>2. config.components \in Seq(T)
    BY <2>1, ConfigurationIs
  <2> HIDE DEF config
  <2>3. Part1(n)
    BY <2>1 DEF Shown
  <2>4. Part2(n)
    BY <1>3, ValuesAreSafe DEF Safe
  <2>5. Part3(n)
    <3>1. SUFFICES ASSUME NEW i \in 1..Len(config.components), NEW c, c = config.components[i],
                          NEW text \in {c.name} \cup ToSet(c.library) \cup ToSet(c.architecture)
                   PROVE  ~SensitiveText(text)
      BY <2>1
    <3>2. c \in T /\ c \in ToSet(config.components)
      <4> HIDE DEF T
      <4>. QED
        BY <2>2, <3>1 DEF ToSet
    <3>3. /\ ~SensitiveText(c.name) /\ ~Of(c.library, SensitiveText)
          /\ ~Of(c.architecture, SensitiveText)
      BY <2>1, <3>2 DEF SensitiveIdentity
    <3>4. PICK name \in Nameable : c = Component(name, RootObject[name])
      BY <3>2
    <3> DEFINE Option(o) == o = None \/ \E x : o = Some(x)
    <3>5. Option(c.library) /\ Option(c.architecture)
      <4>1. c.library = IF IsText(RootObject[name][2][1]) THEN Some(RootObject[name][2][1][2]) ELSE None
        BY <3>4 DEF Component
      <4>2. c.architecture = IF IsText(RootObject[name][2][2]) THEN Some(RootObject[name][2][2][2]) ELSE None
        BY <3>4 DEF Component
      <4>. QED
        BY <4>1, <4>2
    <3>6. ASSUME NEW o, Option(o), ~Of(o, SensitiveText), NEW x \in ToSet(o)
          PROVE  ~SensitiveText(x)
      <4>1. o = None => ToSet(o) = {}
        BY DEF ToSet, None
      <4>2. PICK y : o = <<y>>
        BY <3>6, <4>1 DEF Some
      <4>3. x = y
        BY <3>6, <4>2 DEF ToSet
      <4>. QED
        BY <3>6, <4>2, <4>3 DEF Of, None
    <3> HIDE DEF Option
    <3>7. CASE text = c.name
      BY <3>3, <3>7
    <3>8. CASE text \in ToSet(c.library)
      BY <3>3, <3>5, <3>6, <3>8
    <3>9. CASE text \in ToSet(c.architecture)
      BY <3>3, <3>5, <3>6, <3>9
    <3>. QED
      BY <3>1, <3>7, <3>8, <3>9
  <2>. QED
    BY <2>3, <2>4, <2>5
<1>. QED
  BY <1>2, <1>3

\* Nothing else is left out.
LEMMA NothingElse ==
    ASSUME DocumentsInv, FindingsInv, OutputInv
    PROVE  NothingElseIsOmitted
<1> DEFINE config  == Normalize(documents)[2]
           n       == Projection[1]
           omitted == \E i \in 1..Len(manifest.diagnostics) :
                         manifest.diagnostics[i].code = "manifest_sensitive_data_omitted"
<1>1. SUFFICES ASSUME Written, Normalize(documents)[1] = "ok"
               PROVE  /\ Projection = None => omitted
                      /\ Projection # None =>
                            /\ ~omitted
                            /\ n.components = config.components
                            /\ n.architecture = config.architecture /\ n.task = config.task
                            /\ Faithful(Object(config.extra), Object(n.extra))
  <2>1. Written => manifest.normalized = Projection
    BY ManifestIs
  <2>. QED
    BY <2>1 DEF NothingElseIsOmitted
<1>2. ASSUME Projection = None
      PROVE  omitted
  <2> DEFINE f == OmittedFinding(config.source_path)
  <2>1. Omission = <<f>>
    BY <1>1, <1>2 DEF Omission
  <2>2. f.code = "manifest_sensitive_data_omitted"
    BY DEF OmittedFinding, Finding
  <2> HIDE DEF f
  <2>3. PICK k \in 1..Len(AllFindings) : AllFindings[k] = f
    <3>1. 1 \in 1..Len(Omission) /\ Omission[1] = f
      BY <2>1
    <3>. QED
      BY <3>1, FindingsAre
  <2>4. FindingFormed(f)
    <3>1. AllFindings[k] \in AllReports
      BY FindingsAre
    <3>. QED
      BY <2>3, <3>1, FindingsAre
  <2>5. RedactFinding(f).code = f.code
    BY <2>4, RedactFindingIs
  <2>. QED
    BY <1>1, <2>2, <2>3, <2>5, WrittenFindings
<1>3. ASSUME Projection # None
      PROVE  ~omitted
  <2>1. Omission = <<>>
    BY <1>3 DEF Omission
  <2>2. SUFFICES ASSUME NEW i \in 1..Len(manifest.diagnostics)
                 PROVE  manifest.diagnostics[i].code # "manifest_sensitive_data_omitted"
    OBVIOUS
  <2>3. PICK f \in AllReports : manifest.diagnostics[i] = RedactFinding(f)
    BY <1>1, WrittenFindings
  <2>4. FindingFormed(f) /\ f.code # "manifest_sensitive_data_omitted"
    BY <1>1, <2>1, FindingsAre
  <2>. QED
    BY <2>3, <2>4, RedactFindingIs
<1>4. ASSUME Projection # None
      PROVE  /\ n.components = config.components
             /\ n.architecture = config.architecture /\ n.task = config.task
             /\ Faithful(Object(config.extra), Object(n.extra))
  <2> DEFINE shown  == {name \in DOMAIN config.extra : Shown(name)}
             object == config.extra
  <2>1. {"components", "architecture", "task"} \subseteq RecordFields \ {"extra", "applied_defaults"}
    BY DEF RecordFields
  <2>2. /\ n.components = config.components
        /\ n.architecture = config.architecture /\ n.task = config.task
        /\ n.extra = [name \in shown |-> Redact(object[name])]
    BY <1>4, <2>1, ProjectionIs
  <2>3. \A name \in DOMAIN object : Nested(object[name], MaxNesting - 1)
    BY <1>1, ConfigurationIs
  <2>4. Showable(object) \subseteq shown
    BY DEF Showable, Shown, SensitiveMessage
  <2> HIDE DEF object, shown
  <2>5. Faithful(Object(object), Object([name \in shown |-> Redact(object[name])]))
    BY <2>3, <2>4, RedactIsFaithful
  <2>. QED
    BY <2>2, <2>5 DEF object
<1>. QED
  BY <1>2, <1>3, <1>4

-----------------------------------------------------------------------------

(***************************************************************************)
(* The text stays well formed, whatever is edited.                         *)
(***************************************************************************)

LEMMA ListFormed ==
    ASSUME NEW T, NEW s \in Seq(T)
    PROVE  s \in Seq(ToSet(s)) /\ ToSet(s) \subseteq T
<1>1. Len(s) \in Nat /\ DOMAIN s = 1..Len(s)
  OBVIOUS
<1>2. \A i \in 1..Len(s) : s[i] \in ToSet(s) /\ s[i] \in T
  BY <1>1 DEF ToSet
<1>3. s \in [1..Len(s) -> ToSet(s)]
  BY <1>1, <1>2
<1>4. s \in Seq(ToSet(s))
  BY <1>1, <1>3, SeqDef
<1>5. ToSet(s) \subseteq T
  BY <1>1, <1>2 DEF ToSet
<1>. QED
  BY <1>4, <1>5

LEMMA ChangedIs ==
    ASSUME NEW T, NEW list \in Seq(T), NEW i \in 1..Len(list), NEW others \in SUBSET T,
           NEW l \in Changed(list, i, others)
    PROVE  l \in Seq(T)
<1>1. Len(list) \in Nat /\ i \in Nat /\ list[i] \in T
  OBVIOUS
<1>2. RemoveAt(list, i) \in Seq(T)
  <2>1. SubSeq(list, 1, i - 1) \in Seq(T)
    BY <1>1, SubSeqProperties
  <2>2. SubSeq(list, i + 1, Len(list)) \in Seq(T)
    BY <1>1, SubSeqProperties
  <2>. QED
    BY <2>1, <2>2 DEF RemoveAt
<1>3. Append(list, list[i]) \in Seq(T)
  BY <1>1
<1>4. \A x \in others : [list EXCEPT ![i] = x] \in Seq(T)
  OBVIOUS
<1>. QED
  BY <1>2, <1>3, <1>4 DEF Changed

LEMMA ReverseIs ==
    ASSUME NEW T, NEW list \in Seq(T)
    PROVE  Reverse(list) \in Seq(T)
<1>1. Len(list) \in Nat
  OBVIOUS
<1>2. \A i \in 1..Len(list) : (Len(list) - i) + 1 \in 1..Len(list)
  BY <1>1
<1>3. Reverse(list) \in [1..Len(list) -> T]
  BY <1>1, <1>2 DEF Reverse
<1>. QED
  BY <1>1, <1>3, SeqDef

\* A record whose lists are made of parts of a formed one and of others.
LEMMA RecordFrom ==
    ASSUME NEW n, DOMAIN n = RecordFields, ScalarsFormed(n),
           NEW S, n.components \in Seq(S), \A c \in S : PartFormed(c),
           NEW T, n.applied_defaults \in Seq(T), \A d \in T : NamedField(d)
    PROVE  RecordFormed(n)
<1>1. /\ n.components \in Seq(ToSet(n.components)) /\ ToSet(n.components) \subseteq S
      /\ n.applied_defaults \in Seq(ToSet(n.applied_defaults)) /\ ToSet(n.applied_defaults) \subseteq T
  BY ListFormed
<1>. QED
  BY <1>1 DEF RecordFormed

LEMMA SameLists ==
    ASSUME NEW n, RecordFormed(n), NEW m, DOMAIN m = RecordFields, ScalarsFormed(m),
           m.components = n.components, m.applied_defaults = n.applied_defaults
    PROVE  RecordFormed(m)
BY DEF RecordFormed

LEMMA ReorderedScalars ==
    ASSUME NEW n, DOMAIN n = RecordFields, ScalarsFormed(n), NEW a, NEW b
    PROVE  ScalarsFormed([n EXCEPT !.components = a, !.applied_defaults = b])
<1> DEFINE m == [n EXCEPT !.components = a, !.applied_defaults = b]
<1>1. /\ m = [field \in RecordFields |-> m[field]]
      /\ m.model_type = n.model_type /\ m.transformers_version = n.transformers_version
      /\ m.diffusers_version = n.diffusers_version /\ m.task = n.task /\ m.extra = n.extra
  BY DEF RecordFields
<1> HIDE DEF m
<1>2. ScalarsFormed(m)
  BY <1>1 DEF ScalarsFormed
<1>. QED
  BY <1>2 DEF m

LEMMA OneListScalars ==
    ASSUME NEW n, DOMAIN n = RecordFields, ScalarsFormed(n), NEW a
    PROVE  ScalarsFormed([n EXCEPT !.components = a]) /\ ScalarsFormed([n EXCEPT !.applied_defaults = a])
<1> DEFINE l == [n EXCEPT !.components = a]
           m == [n EXCEPT !.applied_defaults = a]
<1>1. /\ l = [field \in RecordFields |-> l[field]]
      /\ l.model_type = n.model_type /\ l.transformers_version = n.transformers_version
      /\ l.diffusers_version = n.diffusers_version /\ l.task = n.task /\ l.extra = n.extra
  BY DEF RecordFields
<1>2. /\ m = [field \in RecordFields |-> m[field]]
      /\ m.model_type = n.model_type /\ m.transformers_version = n.transformers_version
      /\ m.diffusers_version = n.diffusers_version /\ m.task = n.task /\ m.extra = n.extra
  BY DEF RecordFields
<1> HIDE DEF l, m
<1>3. ScalarsFormed(l)
  BY <1>1 DEF ScalarsFormed
<1>4. ScalarsFormed(m)
  BY <1>2 DEF ScalarsFormed
<1>. QED
  BY <1>3, <1>4 DEF l, m

LEMMA ConfigFormed ==
    ASSUME NEW w, WireFormed(w), NEW m, RecordFormed(m)
    PROVE  WireFormed([w EXCEPT !.normalized = Some(m)])
<1>1. Some(m)[1] = m
  BY DEF Some
<1>. QED
  BY <1>1 DEF WireFormed, WireFields

LEMMA ReversedFormed ==
    ASSUME NEW w, WireFormed(w)
    PROVE  WireFormed(Reversed(w))
<1> DEFINE r == Reversed(w)
           n == w.normalized[1]
           m == Backwards(n)
<1>1. DOMAIN w = WireFields
  BY DEF WireFormed
<1>2. /\ DOMAIN r = WireFields
      /\ r.normalized = IF w.normalized = None THEN None ELSE Some(m)
      /\ r.documents = Reverse(w.documents) /\ r.diagnostics = Reverse(w.diagnostics)
  <2> DEFINE a == Reverse(w.documents)
             b == Reverse(w.diagnostics)
             c == IF w.normalized = None THEN None ELSE Some(m)
  <2>1. r = [w EXCEPT !.documents = a, !.diagnostics = b, !.normalized = c]
    BY DEF Reversed
  <2> HIDE DEF a, b, c, r
  <2>2. DOMAIN r = WireFields /\ r.normalized = c /\ r.documents = a /\ r.diagnostics = b
    BY <1>1, <2>1 DEF WireFields
  <2>. QED
    BY <2>2 DEF a, b, c
<1>5. /\ r.documents \in Seq(ToSet(r.documents)) /\ ToSet(r.documents) \subseteq ToSet(w.documents)
      /\ r.diagnostics \in Seq(ToSet(r.diagnostics))
  <2>1. /\ w.documents \in Seq(ToSet(w.documents))
        /\ w.diagnostics \in Seq(ToSet(w.diagnostics))
    BY DEF WireFormed
  <2>2. /\ Reverse(w.documents) \in Seq(ToSet(w.documents))
        /\ Reverse(w.diagnostics) \in Seq(ToSet(w.diagnostics))
    BY <2>1, ReverseIs
  <2>. QED
    BY <1>2, <2>2, ListFormed
<1>6. \A d \in ToSet(r.documents) : DocumentFormed(d)
  BY <1>5 DEF WireFormed
<1>3. CASE w.normalized = None
  BY <1>2, <1>3, <1>5, <1>6 DEF WireFormed
<1>4. CASE w.normalized # None
  <2>1. RecordFormed(n)
    BY <1>4 DEF WireFormed
  <2> HIDE DEF n
  <2>2. /\ DOMAIN n = RecordFields
        /\ n.components \in Seq(ToSet(n.components))
        /\ n.applied_defaults \in Seq(ToSet(n.applied_defaults))
    BY <2>1 DEF RecordFormed
  <2>3. /\ DOMAIN m = RecordFields
        /\ m.components = Reverse(n.components)
        /\ m.applied_defaults = Reverse(n.applied_defaults)
    BY <2>2 DEF RecordFields, Backwards
  <2>4. /\ m.components \in Seq(ToSet(n.components))
        /\ m.applied_defaults \in Seq(ToSet(n.applied_defaults))
    BY <2>2, <2>3, ReverseIs
  <2> HIDE DEF m
  <2>5. /\ \A c \in ToSet(n.components) : PartFormed(c)
        /\ \A d \in ToSet(n.applied_defaults) : NamedField(d)
    BY <2>1 DEF RecordFormed
  <2>8. ScalarsFormed(m)
    BY <2>1, ReorderedScalars DEF RecordFormed, m, Backwards
  <2>6. RecordFormed(m)
    BY <2>3, <2>4, <2>5, <2>8, RecordFrom
  <2>7. r.normalized = Some(m) /\ Some(m)[1] = m
    BY <1>2, <1>4 DEF m, n, Some
  <2>. QED
    BY <1>2, <1>5, <1>6, <2>6, <2>7 DEF WireFormed
<1>. QED
  BY <1>3, <1>4

LEMMA PutFormed ==
    ASSUME NEW w, WireFormed(w), Put(w)
    PROVE  WireFormed(wire')
BY ReversedFormed DEF Put

LEMMA EditEnvelopeFormed ==
    ASSUME WireFormed(wire), EditEnvelope
    PROVE  WireFormed(wire')
<1>1. ASSUME NEW w, DOMAIN w = WireFields, w.normalized = wire.normalized,
             w.documents = wire.documents, w.diagnostics = wire.diagnostics
      PROVE  WireFormed(w)
  BY <1>1 DEF WireFormed
<1>2. DOMAIN wire = WireFields
  BY DEF WireFormed
<1>3. CASE Put(wire)
  BY <1>3, PutFormed
<1>4. CASE Put([wire EXCEPT !.repeated = TRUE])
  <2>1. WireFormed([wire EXCEPT !.repeated = TRUE])
    BY <1>1, <1>2 DEF WireFields
  <2>. QED
    BY <1>4, <2>1, PutFormed
<1>5. CASE Put([wire EXCEPT !.malformed = TRUE])
  <2>1. WireFormed([wire EXCEPT !.malformed = TRUE])
    BY <1>1, <1>2 DEF WireFields
  <2>. QED
    BY <1>5, <2>1, PutFormed
<1>6. CASE Put([wire EXCEPT !.schema_version = 2])
  <2>1. WireFormed([wire EXCEPT !.schema_version = 2])
    BY <1>1, <1>2 DEF WireFields
  <2>. QED
    BY <1>6, <2>1, PutFormed
<1>7. ASSUME NEW profile, Put([wire EXCEPT !.normalization_profile = profile])
      PROVE  WireFormed(wire')
  <2>1. WireFormed([wire EXCEPT !.normalization_profile = profile])
    BY <1>1, <1>2 DEF WireFields
  <2>. QED
    BY <1>7, <2>1, PutFormed
<1>8. ASSUME NEW value, Put([wire EXCEPT !.unknown = value])
      PROVE  WireFormed(wire')
  <2>1. WireFormed([wire EXCEPT !.unknown = value])
    BY <1>1, <1>2 DEF WireFields
  <2>. QED
    BY <1>8, <2>1, PutFormed
<1>. QED
  BY <1>3, <1>4, <1>5, <1>6, <1>7, <1>8 DEF EditEnvelope

LEMMA EditDocumentFormed ==
    ASSUME WireFormed(wire), NEW i \in 1..Len(wire.documents), EditDocument(i)
    PROVE  WireFormed(wire')
<1> DEFINE d      == wire.documents[i]
           others == {[d EXCEPT !.kind = <<"tokenizer_config.json">>], [d EXCEPT !.digest = "upper"],
                      [d EXCEPT !.size = MaxSource + 1], [d EXCEPT !.size = MaxSource]}
                     \cup {[d EXCEPT !.path = p, !.kind = Name(p)] : p \in Paths}
           T      == ToSet(wire.documents) \cup others
<1> HIDE DEF others
<1>1. PICK list \in Changed(wire.documents, i, others) : Put([wire EXCEPT !.documents = list])
  BY DEF EditDocument, others
<1>2. /\ DOMAIN wire = WireFields /\ wire.documents \in Seq(ToSet(wire.documents))
      /\ \A x \in ToSet(wire.documents) : DocumentFormed(x)
  BY DEF WireFormed
<1>3. DocumentFormed(d)
  <2>1. d \in ToSet(wire.documents)
    <3>1. DOMAIN wire.documents = 1..Len(wire.documents)
      BY <1>2
    <3>. QED
      BY <3>1 DEF ToSet
  <2>. QED
    BY <1>2, <2>1
<1>4. \A x \in others : DocumentFormed(x)
  <2>1. MaxSource \in Nat
    BY InputsAssumption
  <2>2. DOMAIN d = {"path", "kind", "digest", "size"} /\ d.path \in Paths /\ d.size \in Nat
    BY <1>3 DEF DocumentFormed, DocumentFields
  <2> HIDE DEF d
  <2>3. /\ DocumentFormed([d EXCEPT !.kind = <<"tokenizer_config.json">>])
        /\ DocumentFormed([d EXCEPT !.digest = "upper"])
    BY <2>2 DEF DocumentFormed, DocumentFields
  <2>4. \A k \in Nat : DocumentFormed([d EXCEPT !.size = k])
    BY <2>2 DEF DocumentFormed, DocumentFields
  <2>5. \A q \in Paths : DocumentFormed([d EXCEPT !.path = q, !.kind = Name(q)])
    BY <2>2 DEF DocumentFormed, DocumentFields
  <2>6. MaxSource + 1 \in Nat
    BY ONLY <2>1
  <2>. QED
    BY <2>1, <2>3, <2>4, <2>5, <2>6 DEF others
<1> HIDE DEF d
<1>5. list \in Seq(T)
  <2>1. wire.documents \in Seq(T) /\ others \in SUBSET T
    BY <1>2
  <2> HIDE DEF T
  <2>. QED
    BY <1>1, <2>1, ChangedIs
<1>6. \A x \in T : DocumentFormed(x)
  BY <1>2, <1>4
<1> HIDE DEF T
<1>7. list \in Seq(ToSet(list)) /\ \A x \in ToSet(list) : DocumentFormed(x)
  BY <1>5, <1>6, ListFormed
<1>8. WireFormed([wire EXCEPT !.documents = list])
  BY <1>2, <1>7 DEF WireFormed, WireFields
<1>. QED
  BY <1>1, <1>8, PutFormed

LEMMA EditFindingFormed ==
    ASSUME WireFormed(wire), NEW i \in 1..Len(wire.diagnostics), EditFinding(i)
    PROVE  WireFormed(wire')
<1> DEFINE f      == wire.diagnostics[i]
           others == {[f EXCEPT !.level = "info"], [f EXCEPT !.code = "unknown", !.level = "info"]}
                     \cup {[f EXCEPT !.message = text] : text \in Renames \cup LongTexts}
                     \cup {[f EXCEPT !.document_path = Some(p)] : p \in Paths}
                     \cup {[f EXCEPT !.related_path = Some(p)] : p \in Paths}
                     \cup {[f EXCEPT !.json_path = Some(<<form, <<>>>>)] : form \in {"text", "pointer"}}
           T      == ToSet(wire.diagnostics) \cup others
<1>1. PICK list \in Changed(wire.diagnostics, i, others) : Put([wire EXCEPT !.diagnostics = list])
  BY DEF EditFinding
<1> HIDE DEF f, others
<1>2. DOMAIN wire = WireFields /\ wire.diagnostics \in Seq(ToSet(wire.diagnostics))
  BY DEF WireFormed
<1>3. list \in Seq(T)
  <2>1. wire.diagnostics \in Seq(T) /\ others \in SUBSET T
    BY <1>2
  <2> HIDE DEF T
  <2>. QED
    BY <1>1, <2>1, ChangedIs
<1> HIDE DEF T
<1>4. list \in Seq(ToSet(list))
  BY <1>3, ListFormed
<1>5. WireFormed([wire EXCEPT !.diagnostics = list])
  BY <1>2, <1>4 DEF WireFormed, WireFields
<1>. QED
  BY <1>1, <1>5, PutFormed

LEMMA PutConfigFormed ==
    ASSUME WireFormed(wire), NEW n, RecordFormed(n), PutConfig(n)
    PROVE  WireFormed(wire')
BY ConfigFormed, PutFormed DEF PutConfig

LEMMA EditScalarFormed ==
    ASSUME WireFormed(wire), wire.normalized # None, EditScalar
    PROVE  WireFormed(wire')
<1> DEFINE n == wire.normalized[1]
<1>1. RecordFormed(n)
  BY DEF WireFormed
<1>2. DOMAIN n = RecordFields
  BY <1>1 DEF RecordFormed
<1>3. CASE Put([wire EXCEPT !.normalized = None])
  <2>1. WireFormed([wire EXCEPT !.normalized = None])
    BY DEF WireFormed, WireFields
  <2>. QED
    BY <1>3, <2>1, PutFormed
<1> HIDE DEF n
<1>4. ASSUME NEW x, PutConfig([n EXCEPT !.source_path = x])
      PROVE  WireFormed(wire')
  <2>2. ScalarsFormed([n EXCEPT !.source_path = x])
    BY <1>1, <1>2 DEF RecordFormed, ScalarsFormed, RecordFields
  <2>1. RecordFormed([n EXCEPT !.source_path = x])
    BY <1>1, <1>2, <2>2, SameLists DEF RecordFields
  <2>. QED
    BY <1>4, <2>1, PutConfigFormed
<1>5. ASSUME NEW x, PutConfig([n EXCEPT !.architecture = x])
      PROVE  WireFormed(wire')
  <2>2. ScalarsFormed([n EXCEPT !.architecture = x])
    BY <1>1, <1>2 DEF RecordFormed, ScalarsFormed, RecordFields
  <2>1. RecordFormed([n EXCEPT !.architecture = x])
    BY <1>1, <1>2, <2>2, SameLists DEF RecordFields
  <2>. QED
    BY <1>5, <2>1, PutConfigFormed
<1>6. ASSUME NEW x, PutConfig([n EXCEPT !.model_type = Some(x)])
      PROVE  WireFormed(wire')
  <2> DEFINE m == [n EXCEPT !.model_type = Some(x)]
  <2>2. /\ m = [field \in RecordFields |-> m[field]] /\ m.model_type = Some(x)
        /\ m.transformers_version = n.transformers_version
        /\ m.diffusers_version = n.diffusers_version /\ m.task = n.task /\ m.extra = n.extra
        /\ DOMAIN m = RecordFields /\ m.components = n.components
        /\ m.applied_defaults = n.applied_defaults
    BY <1>2 DEF RecordFields
  <2> HIDE DEF m
  <2>3. Optional(Some(x))
    BY DEF Optional, Some
  <2>4. ScalarsFormed(m)
    BY <1>1, <2>2, <2>3 DEF RecordFormed, ScalarsFormed
  <2>5. RecordFormed(m)
    BY <1>1, <2>2, <2>4, SameLists
  <2>1. RecordFormed([n EXCEPT !.model_type = Some(x)])
    BY <2>5 DEF m
  <2>. QED
    BY <1>6, <2>1, PutConfigFormed
<1>7. ASSUME NEW x, PutConfig([n EXCEPT !.task = Some(<<"other", x>>)])
      PROVE  WireFormed(wire')
  <2> DEFINE m == [n EXCEPT !.task = Some(<<"other", x>>)]
  <2>2. /\ m = [field \in RecordFields |-> m[field]] /\ m.task = Some(<<"other", x>>)
        /\ m.transformers_version = n.transformers_version
        /\ m.diffusers_version = n.diffusers_version /\ m.model_type = n.model_type /\ m.extra = n.extra
        /\ DOMAIN m = RecordFields /\ m.components = n.components
        /\ m.applied_defaults = n.applied_defaults
    BY <1>2 DEF RecordFields
  <2> HIDE DEF m
  <2>3. TaskFormed(Some(<<"other", x>>))
    BY Zenon DEF TaskFormed
  <2>4. ScalarsFormed(m)
    BY <1>1, <2>2, <2>3 DEF RecordFormed, ScalarsFormed
  <2>5. RecordFormed(m)
    BY <1>1, <2>2, <2>4, SameLists
  <2>1. RecordFormed([n EXCEPT !.task = Some(<<"other", x>>)])
    BY <2>5 DEF m
  <2>. QED
    BY <1>7, <2>1, PutConfigFormed
<1>8. CASE PutConfig([n EXCEPT !.model_type = None, !.task = None])
  <2> DEFINE m == [n EXCEPT !.model_type = None, !.task = None]
  <2>2. /\ m = [field \in RecordFields |-> m[field]] /\ m.task = None /\ m.model_type = None
        /\ m.transformers_version = n.transformers_version
        /\ m.diffusers_version = n.diffusers_version /\ m.extra = n.extra
        /\ DOMAIN m = RecordFields /\ m.components = n.components
        /\ m.applied_defaults = n.applied_defaults
    BY <1>2 DEF RecordFields
  <2> HIDE DEF m
  <2>3. Optional(None) /\ TaskFormed(None)
    BY DEF Optional, TaskFormed
  <2>4. ScalarsFormed(m)
    BY <1>1, <2>2, <2>3 DEF RecordFormed, ScalarsFormed
  <2>5. RecordFormed(m)
    BY <1>1, <2>2, <2>4, SameLists
  <2>1. RecordFormed([n EXCEPT !.model_type = None, !.task = None])
    BY <2>5 DEF m
  <2>. QED
    BY <1>8, <2>1, PutConfigFormed
<1>9. ASSUME NEW x, PutConfig([n EXCEPT !.architecture_source = x])
      PROVE  WireFormed(wire')
  <2>2. ScalarsFormed([n EXCEPT !.architecture_source = x])
    BY <1>1, <1>2 DEF RecordFormed, ScalarsFormed, RecordFields
  <2>1. RecordFormed([n EXCEPT !.architecture_source = x])
    BY <1>1, <1>2, <2>2, SameLists DEF RecordFields
  <2>. QED
    BY <1>9, <2>1, PutConfigFormed
<1>. QED
  BY <1>3, <1>4, <1>5, <1>6, <1>7, <1>8, <1>9 DEF EditScalar, n

LEMMA EditExtraFormed ==
    ASSUME WireFormed(wire), wire.normalized # None, EditExtra
    PROVE  WireFormed(wire')
<1> DEFINE n == wire.normalized[1]
<1>1. RecordFormed(n) /\ DOMAIN n = RecordFields
  BY DEF WireFormed, RecordFormed
<1>2. \E x : x = [name \in DOMAIN x |-> x[name]] /\ PutConfig([n EXCEPT !.extra = x])
  <2>1. ASSUME NEW m \in Members, PutConfig([n EXCEPT !.extra = With(@, m[2], m[3])])
        PROVE  \E x : x = [name \in DOMAIN x |-> x[name]] /\ PutConfig([n EXCEPT !.extra = x])
    <3> DEFINE x == With(n.extra, m[2], m[3])
    <3>1. x = [name \in DOMAIN x |-> x[name]]
      BY DEF With
    <3>2. PutConfig([n EXCEPT !.extra = x])
      BY <2>1
    <3>. QED
      BY <3>1, <3>2
  <2>2. ASSUME NEW a \in DOMAIN n.extra,
               PutConfig([n EXCEPT !.extra = Restrict(@, DOMAIN @ \ {a})])
        PROVE  \E x : x = [name \in DOMAIN x |-> x[name]] /\ PutConfig([n EXCEPT !.extra = x])
    <3> DEFINE x == Restrict(n.extra, DOMAIN n.extra \ {a})
    <3>1. x = [name \in DOMAIN x |-> x[name]]
      BY DEF Restrict
    <3>2. PutConfig([n EXCEPT !.extra = x])
      BY <2>2
    <3>. QED
      BY <3>1, <3>2
  <2>. QED
    BY <2>1, <2>2 DEF EditExtra
<1> HIDE DEF n
<1>3. PICK x : x = [name \in DOMAIN x |-> x[name]] /\ PutConfig([n EXCEPT !.extra = x])
  BY <1>2
<1> DEFINE m == [n EXCEPT !.extra = x]
<1>5. /\ m = [field \in RecordFields |-> m[field]] /\ m.task = n.task /\ m.model_type = n.model_type
      /\ m.transformers_version = n.transformers_version
      /\ m.diffusers_version = n.diffusers_version /\ m.extra = x
      /\ DOMAIN m = RecordFields /\ m.components = n.components
      /\ m.applied_defaults = n.applied_defaults
  BY <1>1 DEF RecordFields
<1> HIDE DEF m
<1>6. ScalarsFormed(m)
  BY <1>1, <1>3, <1>5 DEF RecordFormed, ScalarsFormed
<1>4. RecordFormed(m)
  BY <1>1, <1>5, <1>6, SameLists
<1>. QED
  BY <1>3, <1>4, PutConfigFormed DEF m

LEMMA EditComponentFormed ==
    ASSUME WireFormed(wire), wire.normalized # None,
           NEW i \in 1..Len(wire.normalized[1].components), EditComponent(i)
    PROVE  WireFormed(wire')
<1> DEFINE n      == wire.normalized[1]
           c      == n.components[i]
           others == {[c EXCEPT !.path = None], [c EXCEPT !.library = None],
                      [c EXCEPT !.architecture = None], [c EXCEPT !.optional = ~@],
                      [c EXCEPT !.requires_code = ~@]}
                     \cup {[c EXCEPT !.name = name] : name \in Renames}
                     \cup {[c EXCEPT !.name = name, !.path = Some(<<name>>)] : name \in Renames}
           T      == ToSet(n.components) \cup others
<1>1. RecordFormed(n)
  BY DEF WireFormed
<1>2. PICK list \in Changed(n.components, i, others) : PutConfig([n EXCEPT !.components = list])
  BY DEF EditComponent
<1> HIDE DEF n, others
<1>3. /\ DOMAIN n = RecordFields /\ n.components \in Seq(ToSet(n.components))
      /\ n.applied_defaults \in Seq(ToSet(n.applied_defaults))
      /\ \A x \in ToSet(n.components) : PartFormed(x)
      /\ \A x \in ToSet(n.applied_defaults) : NamedField(x)
  BY <1>1 DEF RecordFormed
<1>4. PartFormed(c)
  BY <1>3 DEF n
<1>5. \A x \in others : PartFormed(x)
  <2> HIDE DEF c
  <2>1. \A name \in Renames : name \in Nameable
    BY DEF Nameable
  <2>2. PartFormed([c EXCEPT !.path = None])
    BY <1>4 DEF PartFormed
  <2>5. ASSUME NEW name \in Renames
        PROVE  /\ PartFormed([c EXCEPT !.name = name])
               /\ PartFormed([c EXCEPT !.name = name, !.path = Some(<<name>>)])
    <3>1. PartFormed([c EXCEPT !.name = name])
      BY <1>4, <2>1 DEF PartFormed
    <3> DEFINE d == [c EXCEPT !.name = name]
    <3> HIDE DEF d
    <3>6. PartFormed(d)
      BY <3>1 DEF d
    <3>4. PartFormed([d EXCEPT !.path = Some(<<name>>)])
      BY <3>6 DEF PartFormed
    <3>5. [d EXCEPT !.path = Some(<<name>>)] = [c EXCEPT !.name = name, !.path = Some(<<name>>)]
      BY DEF d
    <3>2. PartFormed([c EXCEPT !.name = name, !.path = Some(<<name>>)])
      BY <3>4, <3>5
    <3>. QED
      BY <3>1, <3>2
  <2>3. PartFormed([c EXCEPT !.library = None]) /\ PartFormed([c EXCEPT !.architecture = None])
    BY <1>4 DEF PartFormed, Optional
  <2>4. PartFormed([c EXCEPT !.optional = ~@]) /\ PartFormed([c EXCEPT !.requires_code = ~@])
    BY <1>4 DEF PartFormed
  <2>. QED
    BY <2>2, <2>3, <2>4, <2>5 DEF others
<1>6. list \in Seq(T)
  <2>1. n.components \in Seq(T) /\ others \in SUBSET T /\ i \in 1..Len(n.components)
    BY <1>3 DEF n
  <2> HIDE DEF T
  <2>. QED
    BY <1>2, <2>1, ChangedIs
<1> DEFINE m == [n EXCEPT !.components = list]
<1>7. DOMAIN m = RecordFields /\ m.components = list /\ m.applied_defaults = n.applied_defaults
  BY <1>3 DEF RecordFields
<1> HIDE DEF m
<1>8. \A x \in T : PartFormed(x)
  BY <1>3, <1>5
<1>10. ScalarsFormed(m)
  BY <1>1, <1>3, OneListScalars DEF RecordFormed, m
<1>9. RecordFormed(m)
  <2> HIDE DEF T
  <2>. QED
    BY <1>3, <1>6, <1>7, <1>8, <1>10, RecordFrom
<1>. QED
  BY <1>2, <1>9, PutConfigFormed DEF m

LEMMA EditDefaultFormed ==
    ASSUME WireFormed(wire), wire.normalized # None,
           NEW i \in 1..Len(wire.normalized[1].applied_defaults), EditDefault(i)
    PROVE  WireFormed(wire')
<1> DEFINE n      == wire.normalized[1]
           d      == n.applied_defaults[i]
           others == {[d EXCEPT !.rule = <<"other">>], [d EXCEPT !.value = Null],
                      [d EXCEPT !.field = NoField]}
                     \cup {Default(name) : name \in Renames}
           T      == ToSet(n.applied_defaults) \cup others
<1>1. RecordFormed(n)
  BY DEF WireFormed
<1>2. PICK list \in Changed(n.applied_defaults, i, others) :
               PutConfig([n EXCEPT !.applied_defaults = list])
  BY DEF EditDefault
<1> HIDE DEF n, others
<1>3. /\ DOMAIN n = RecordFields /\ n.components \in Seq(ToSet(n.components))
      /\ n.applied_defaults \in Seq(ToSet(n.applied_defaults))
      /\ \A x \in ToSet(n.components) : PartFormed(x)
      /\ \A x \in ToSet(n.applied_defaults) : NamedField(x)
  BY <1>1 DEF RecordFormed
<1>4. NamedField(d)
  BY <1>3 DEF n
<1>5. \A x \in others : NamedField(x)
  <2> HIDE DEF d
  <2>1. NoField \in DefaultFields
    BY DEF DefaultFields
  <2>2. \A name \in Renames : NamedField(Default(name))
    BY DEF NamedField, Default, DefaultFields, Nameable
  <2>. QED
    BY <1>4, <2>1, <2>2 DEF others, NamedField
<1>6. list \in Seq(T)
  <2>1. n.applied_defaults \in Seq(T) /\ others \in SUBSET T /\ i \in 1..Len(n.applied_defaults)
    BY <1>3 DEF n
  <2> HIDE DEF T
  <2>. QED
    BY <1>2, <2>1, ChangedIs
<1> DEFINE m == [n EXCEPT !.applied_defaults = list]
<1>7. DOMAIN m = RecordFields /\ m.applied_defaults = list /\ m.components = n.components
  BY <1>3 DEF RecordFields
<1> HIDE DEF m
<1>8. \A x \in T : NamedField(x)
  BY <1>3, <1>5
<1>10. ScalarsFormed(m)
  BY <1>1, <1>3, OneListScalars DEF RecordFormed, m
<1>9. RecordFormed(m)
  <2> HIDE DEF T
  <2>. QED
    BY <1>3, <1>6, <1>7, <1>8, <1>10, RecordFrom
<1>. QED
  BY <1>2, <1>9, PutConfigFormed DEF m

LEMMA EditFormed ==
    ASSUME WireInv, Edit
    PROVE  WireFormed(wire')
<1>1. WireFormed(wire)
  BY DEF WireInv, Edit
<1>. QED
  BY <1>1, EditEnvelopeFormed, EditDocumentFormed, EditFindingFormed, EditScalarFormed,
     EditExtraFormed, EditComponentFormed, EditDefaultFormed DEF Edit

\* The kind of a task is spelled as one.
LEMMA KindSpelled ==
    ASSUME NEW spelling
    PROVE  TaskFormed(Some(TaskKind(spelling)))
<1>1. \A t \in {"inpainting", "video-generation", "audio-generation"} : TaskKind(<<t>>) = <<"kind", t>>
  BY DEF TaskKind, KnownTasks
<1>2. CASE spelling \in KnownTasks
            /\ spelling \notin {<<"image-inpainting">>, <<"text-to-video">>, <<"image-to-video">>,
                                <<"text-to-audio">>}
  <2>1. PICK t : spelling = <<t>>
    BY <1>2 DEF KnownTasks
  <2>2. TaskKind(<<t>>) = <<"kind", t>>
    BY <1>2, <2>1 DEF TaskKind
  <2>. QED
    BY <2>1, <2>2 DEF TaskFormed
<1>3. \/ TaskKind(spelling) = <<"other", spelling>>
      \/ \E t \in {"inpainting", "video-generation", "audio-generation"} : TaskKind(spelling) = <<"kind", t>>
      \/ /\ spelling \in KnownTasks
         /\ spelling \notin {<<"image-inpainting">>, <<"text-to-video">>, <<"image-to-video">>,
                             <<"text-to-audio">>}
  BY DEF TaskKind
<1>. QED
  BY <1>1, <1>2, <1>3, Zenon DEF TaskFormed

\* What a configuration takes from the root document.
LEMMA ConfigurationHas ==
    ASSUME NEW object, NEW root, NEW taken
    PROVE  LET config == Configuration(object, root, taken)
               index  == root = ModelIndexPath
           IN  /\ config.source_path = root
               /\ config.architecture = taken.id /\ config.architecture_source = taken.source
               /\ config.model_type = StringOf(object, <<"model_type">>)
               /\ config.transformers_version = StringOf(object, <<"transformers_version">>)
               /\ config.diffusers_version = StringOf(object, <<"_diffusers_version">>)
               /\ config.components = IF index THEN Components(object) ELSE <<>>
               /\ config.applied_defaults = IF index THEN AppliedDefaults(object) ELSE <<>>
BY DEF Configuration

\* What a configuration keeps besides.
LEMMA ExtraHas ==
    ASSUME NEW object, NEW root, NEW taken
    PROVE  LET config == Configuration(object, root, taken)
               texts  == {<<"model_type">>, <<"transformers_version">>, <<"_diffusers_version">>}
           IN  /\ DOMAIN config.extra \subseteq DOMAIN object
               /\ DOMAIN config.extra \cap taken.used = {}
               /\ \A name \in texts : DOMAIN config.extra \cap Used(object, name) = {}
               /\ root = ModelIndexPath => DOMAIN config.extra \cap ComponentNames(object) = {}
               /\ \A name \in DOMAIN config.extra : config.extra[name] = object[name]
               /\ config.task # None =>
                     \E spelling : spelling # <<>> /\ config.task = Some(TaskKind(spelling))
<1> DEFINE config == Configuration(object, root, taken)
           texts  == {<<"model_type">>, <<"transformers_version">>, <<"_diffusers_version">>}
           used   == (UNION {Used(object, name) : name \in texts}) \cup TaskName(object)
                       \cup (IF root = ModelIndexPath THEN ComponentNames(object) ELSE {})
           kept   == (DOMAIN object \ taken.used) \ used
<1>1. config.extra = Restrict(object, kept)
  BY DEF Configuration
<1>2. config.task =
        IF TaskName(object) = {} THEN None
        ELSE IF <<"pipeline_tag">> \in TaskName(object)
        THEN Some(TaskKind(object[<<"pipeline_tag">>][2]))
        ELSE Some(TaskKind(object[<<"task">>][2]))
  BY DEF Configuration
<1> HIDE DEF config
<1>3. DOMAIN config.extra \subseteq kept /\ \A name \in DOMAIN config.extra : config.extra[name] = object[name]
  <2> HIDE DEF kept
  <2>. QED
    BY <1>1 DEF Restrict
<1>4. config.task # None => \E spelling : spelling # <<>> /\ config.task = Some(TaskKind(spelling))
  <2>1. CASE Given(object, <<"pipeline_tag">>)
    <3>1. config.task = Some(TaskKind(object[<<"pipeline_tag">>][2]))
      BY <1>2, <2>1 DEF TaskName
    <3>. QED
      BY <2>1, <3>1 DEF Given
  <2>2. CASE ~Given(object, <<"pipeline_tag">>) /\ Given(object, <<"task">>)
    <3>1. TaskName(object) = {<<"task">>}
      BY <2>2 DEF TaskName
    <3>2. <<"pipeline_tag">> # <<"task">>
      OBVIOUS
    <3>3. config.task = Some(TaskKind(object[<<"task">>][2]))
      BY <1>2, <3>1, <3>2
    <3>. QED
      BY <2>2, <3>3 DEF Given
  <2>3. CASE ~Given(object, <<"pipeline_tag">>) /\ ~Given(object, <<"task">>)
    BY <1>2, <2>3 DEF TaskName
  <2>. QED
    BY <2>1, <2>2, <2>3
<1>. QED
  BY <1>3, <1>4 DEF config

LEMMA ProjectionScalars ==
    ASSUME DocumentsInv, Projection # None
    PROVE  ScalarsFormed(Projection[1])
<1> DEFINE n      == Projection[1]
           config == Normalize(documents)[2]
           shown  == {name \in DOMAIN config.extra : Shown(name)}
           texts  == {"model_type", "transformers_version", "diffusers_version", "task"}
<1>1. /\ Normalize(documents)[1] = "ok" /\ n = [field \in RecordFields |-> n[field]]
      /\ \A field \in RecordFields \ {"extra", "applied_defaults"} : n[field] = config[field]
      /\ n.extra = [name \in shown |-> Redact(config.extra[name])]
  BY ProjectionIs
<1>2. config = Configuration(RootObject, Root, Taken[1])
  BY <1>1, NormalizeIs
<1>3. texts \subseteq RecordFields \ {"extra", "applied_defaults"}
  BY DEF RecordFields
<1>4. /\ n.model_type = config.model_type /\ n.transformers_version = config.transformers_version
      /\ n.diffusers_version = config.diffusers_version /\ n.task = config.task
  BY <1>1, <1>3
<1> HIDE DEF n, config
<1>5. /\ config.model_type = StringOf(RootObject, <<"model_type">>)
      /\ config.transformers_version = StringOf(RootObject, <<"transformers_version">>)
      /\ config.diffusers_version = StringOf(RootObject, <<"_diffusers_version">>)
      /\ \/ config.task = None
         \/ \E spelling : config.task = Some(TaskKind(spelling))
  <2>1. /\ config.model_type = StringOf(RootObject, <<"model_type">>)
        /\ config.transformers_version = StringOf(RootObject, <<"transformers_version">>)
        /\ config.diffusers_version = StringOf(RootObject, <<"_diffusers_version">>)
    BY <1>2, ConfigurationHas
  <2>2. config.task # None => \E spelling : spelling # <<>> /\ config.task = Some(TaskKind(spelling))
    BY <1>2, ExtraHas
  <2>. QED
    BY <2>1, <2>2
<1>6. \A object, name : Optional(StringOf(object, name))
  BY DEF Optional, StringOf, Some
<1>7. TaskFormed(config.task)
  BY <1>5, KindSpelled DEF TaskFormed
<1>8. n.extra = [name \in DOMAIN n.extra |-> n.extra[name]]
  BY <1>1
<1>9. ScalarsFormed(n)
  BY <1>1, <1>4, <1>5, <1>6, <1>7, <1>8 DEF ScalarsFormed
<1>. QED
  BY <1>9 DEF n

LEMMA ProjectionFormed ==
    ASSUME DocumentsInv, Projection # None
    PROVE  Projection = Some(Projection[1]) /\ RecordFormed(Projection[1])
<1> DEFINE n == Projection[1]
           S == {Component(name, RootObject[name]) : name \in Nameable}
           T == {[Default(name) EXCEPT !.value = Redact(@)] : name \in Nameable}
<1>1. /\ Projection = Some(n) /\ DOMAIN n = RecordFields
      /\ n.components = Normalize(documents)[2].components
      /\ n.applied_defaults \in Seq(T)
      /\ Normalize(documents)[1] = "ok"
  <2>1. "components" \in RecordFields \ {"extra", "applied_defaults"}
    BY DEF RecordFields
  <2>. QED
    BY <2>1, ProjectionIs
<1>2. n.components \in Seq(S)
  BY <1>1, ConfigurationIs
<1>3. \A c \in S : PartFormed(c)
  <2>1. ASSUME NEW name \in Nameable, NEW value PROVE PartFormed(Component(name, value))
    BY DEF PartFormed, Component, Optional, None, Some
  <2>. QED
    BY <2>1
<1>4. \A d \in T : NamedField(d)
  BY DEF NamedField, Default, DefaultFields
<1> HIDE DEF n, S, T
<1>6. ScalarsFormed(n)
  BY ProjectionScalars DEF n
<1>5. RecordFormed(n)
  BY <1>1, <1>2, <1>3, <1>4, <1>6, RecordFrom
<1>. QED
  BY <1>1, <1>5 DEF n

LEMMA DocumentsFormed ==
    ASSUME DocumentsInv
    PROVE  LET s == InOrder({Recorded(path) : path \in DOMAIN documents}, ByPath)
           IN  s \in Seq(ToSet(s)) /\ \A d \in ToSet(s) : DocumentFormed(d)
<1> DEFINE S == {Recorded(path) : path \in DOMAIN documents}
           s == InOrder(S, ByPath)
<1>1. DOMAIN documents \in SUBSET Paths /\ IsFiniteSet(DOMAIN documents)
  BY PathsAssumption, FS_Subset DEF DocumentsInv
<1>2. \A d \in S : DocumentFormed(d)
  BY <1>1, InputsAssumption DEF Recorded, DocumentFormed, DocumentFields
<1>3. IsFiniteSet(S)
  <2> DEFINE f == [path \in DOMAIN documents |-> Recorded(path)]
  <2>1. DOMAIN f = DOMAIN documents /\ S = {f[path] : path \in DOMAIN f}
    OBVIOUS
  <2> HIDE DEF f, S
  <2>. QED
    BY <1>1, <2>1, ImageIsFinite
<1>4. \A c, d \in S : c.path = d.path => c = d
  BY DEF Recorded
<1> HIDE DEF S
<1>5. s \in Seq(S)
  <2>1. \A d \in S : d.path \in Paths
    BY <1>2 DEF DocumentFormed
  <2>. QED
    BY <1>3, <1>4, <2>1, PathsOrder, Zenon
<1> HIDE DEF s
<1>6. s \in Seq(ToSet(s)) /\ ToSet(s) \subseteq S
  BY <1>5, ListFormed
<1>7. \A d \in ToSet(s) : DocumentFormed(d)
  BY <1>2, <1>6
<1>. QED
  BY <1>6, <1>7 DEF s, S

LEMMA FindingsFormed ==
    ASSUME FindingsInv
    PROVE  Sorted(Shortened) \in Seq(ToSet(Sorted(Shortened)))
<1> DEFINE T == {RedactFinding(f) : f \in AllReports}
<1>1. AllFindings \in Seq(AllReports) /\ Len(AllFindings) \in Nat
  BY FindingsAre
<1>2. \A i \in 1..Len(AllFindings) : AllFindings[i] \in AllReports
  BY <1>1
<1>3. Shortened \in [1..Len(AllFindings) -> T]
  BY <1>2 DEF Shortened
<1> HIDE DEF T
<1>4. Shortened \in Seq(T)
  BY <1>1, <1>3
<1>. QED
  BY <1>4, SortedIs, ListFormed

LEMMA WriteFormed ==
    ASSUME DocumentsInv, FindingsInv, FromRepository[1] = "ok"
    PROVE  /\ FromRepository = <<"ok", FromRepository[2]>>
           /\ WireFormed(ToWire(FromRepository[2]))
<1> DEFINE a == InOrder({Recorded(path) : path \in DOMAIN documents}, ByPath)
           b == Sorted(Shortened)
           m == [documents |-> a, normalized |-> Projection, diagnostics |-> b]
           w == ToWire(m)
<1>1. FromRepository =
        IF \E path \in DOMAIN documents : SensitivePath(path)
        THEN <<"error", "ManifestSensitivePath">> ELSE <<"ok", m>>
  BY DEF FromRepository, Projection, Omission, AllFindings, Shortened
<1>2. FromRepository = <<"ok", m>>
  BY <1>1
<1>3. a \in Seq(ToSet(a)) /\ (\A d \in ToSet(a) : DocumentFormed(d)) /\ b \in Seq(ToSet(b))
  BY DocumentsFormed, FindingsFormed
<1> HIDE DEF a, b
<1>4. /\ DOMAIN w = WireFields /\ w.normalized = Projection
      /\ w.documents = a /\ w.diagnostics = b
  BY DEF ToWire, WireFields
<1> HIDE DEF m
<1>5. WireFormed(w)
  BY <1>3, <1>4, ProjectionFormed DEF WireFormed
<1>. QED
  BY <1>2, <1>5

-----------------------------------------------------------------------------

(***************************************************************************)
(* Every step keeps the invariant.                                         *)
(***************************************************************************)

LEMMA EmptyGrown ==
    ASSUME NEW path
    PROVE  Grown(path, Empty) /\ Empty.repeated \in BOOLEAN
<1>1. /\ DOMAIN Empty = {"json", "repeated"} /\ Empty.repeated = FALSE
      /\ Empty.json = Object(<<>>)
  BY DEF Empty
<1>2. Object(<<>>)[2] = <<>> /\ DOMAIN <<>> = {}
  BY DEF Object
<1>3. IsFiniteSet({})
  BY FS_EmptySet
<1>. QED
  BY <1>1, <1>2, <1>3 DEF Grown

LEMMA MemberGrown ==
    ASSUME NEW m \in Members, NEW d, Grown(m[1], d), d.json[1] = "object"
    PROVE  Grown(m[1], [d EXCEPT !.json = Object(With(@[2], m[2], m[3]))])
<1> DEFINE old == d.json[2]
           new == With(old, m[2], m[3])
           e   == [d EXCEPT !.json = Object(With(@[2], m[2], m[3]))]
<1>1. /\ IsFiniteSet(DOMAIN old)
      /\ \A name \in DOMAIN old : \E k \in Members : k[1] = m[1] /\ k[2] = name /\ k[3] = old[name]
      /\ DOMAIN d = {"json", "repeated"}
  BY DEF Grown
<1>2. DOMAIN e = {"json", "repeated"} /\ e.json = Object(new)
  BY <1>1
<1>3. e.json[2] = new
  BY <1>2 DEF Object
<1> HIDE DEF old
<1>4. /\ DOMAIN new = DOMAIN old \cup {m[2]}
      /\ \A name \in DOMAIN new : new[name] = IF name = m[2] THEN m[3] ELSE old[name]
  BY DEF With
<1> HIDE DEF new, e
<1>5. IsFiniteSet(DOMAIN new)
  BY <1>1, <1>4, FS_AddElement
<1>6. \A name \in DOMAIN new : \E k \in Members : k[1] = m[1] /\ k[2] = name /\ k[3] = new[name]
  BY <1>1, <1>4
<1>. QED
  BY <1>2, <1>3, <1>5, <1>6 DEF Grown, e

LEMMA SpoiltGrown ==
    ASSUME NEW path, NEW d, Grown(path, d)
    PROVE  /\ Grown(path, [json |-> Null, repeated |-> FALSE])
           /\ Grown(path, [d EXCEPT !.repeated = TRUE])
           /\ [d EXCEPT !.repeated = TRUE].repeated = TRUE
<1>1. Null[1] # "object"
  BY DEF Null
<1>2. DOMAIN d = {"json", "repeated"}
  BY DEF Grown
<1>3. [d EXCEPT !.repeated = TRUE].json = d.json
  BY <1>2
<1>. QED
  BY <1>1, <1>2, <1>3 DEF Grown

\* While the repository is filled, only documents and findings change.
LEMMA FillingKeeps ==
    ASSUME IInv, Parts, DocumentsInv', FindingsInv', LimitsInv'
    PROVE  IInv'
BY DEF IInv, Parts, StageInv, OutputInv, AnswerInv, OwnInv, WireInv

\* Documents stay documents while their members change.
LEMMA SameLimits ==
    ASSUME LimitsInv, DOMAIN documents' = DOMAIN documents, UNCHANGED findings
    PROVE  LimitsInv'
BY DEF LimitsInv, Constructible, Recorded

LEMMA NothingIsConstructible == Constructible({})
<1> DEFINE S == {Recorded(path) : path \in {}}
           s == InOrder(S, ByPath)
<1>1. S = {} /\ UNION {Ancestors(path) : path \in {}} = {}
  OBVIOUS
<1>2. Cardinality({}) = 0
  BY FS_EmptySet
<1>3. s = <<>>
  <2>1. s = [i \in 1..Cardinality(S) |->
                CHOOSE x \in S : Cardinality({y \in S : ByPath(y, x)}) = i - 1]
    BY DEF InOrder
  <2>2. 1..Cardinality(S) = 1..0
    BY <1>1, <1>2
  <2> DEFINE e(i) == CHOOSE x \in S : Cardinality({y \in S : ByPath(y, x)}) = i - 1
  <2>3. s = [i \in 1..0 |-> e(i)]
    BY <2>1, <2>2
  <2> HIDE DEF e, s
  <2>4. s \in [1..0 -> {}]
    BY <2>3
  <2>. QED
    BY <2>4
<1>4. TotalBytes(s) = 0
  BY <1>3, TotalOfNone
<1>5. ~Collides({}, {})
  BY DEF Collides
<1> HIDE DEF s, S
<1>. QED
  BY <1>1, <1>2, <1>4, <1>5, LimitsAssumption DEF Constructible, EntryCount, s, S

LEMMA Initial ==
    ASSUME Init
    PROVE  IInv
<1>1. DOMAIN <<>> = {}
  OBVIOUS
<1>2. DocumentsInv
  BY <1>1 DEF Init, DocumentsInv
<1>3. FindingsInv
  BY DEF Init, FindingsInv
<1>4. LimitsInv
  BY <1>1, NothingIsConstructible, InputsAssumption DEF Init, LimitsInv
<1>. QED
  BY <1>2, <1>3, <1>4 DEF Init, IInv, StageInv, OutputInv, AnswerInv, OwnInv, WireInv

LEMMA AddDocumentKeeps ==
    ASSUME IInv, NEW path \in {ModelIndexPath, ConfigPath} \cup OtherDocuments, AddDocument(path)
    PROVE  IInv'
<1>1. DocumentsInv
  BY DEF IInv
<1>2. /\ DOMAIN documents' = DOMAIN documents \cup {path}
      /\ \A p \in DOMAIN documents' : documents'[p] = IF p = path THEN Empty ELSE documents[p]
  BY DEF AddDocument, With
<1>3. path \in Paths
  BY InputsAssumption
<1>4. DocumentsInv'
  BY <1>1, <1>2, <1>3, EmptyGrown DEF DocumentsInv
<1>5. FindingsInv'
  BY DEF IInv, FindingsInv, AddDocument
<1>6. LimitsInv'
  <2>1. LimitsInv /\ UNCHANGED findings /\ Constructible(DOMAIN documents \cup {path})
    BY DEF IInv, AddDocument
  <2>2. Constructible(DOMAIN documents)'
    BY <1>2, <2>1 DEF Constructible, Recorded
  <2>. QED
    BY <1>2, <2>1, <2>2 DEF LimitsInv
<1>. QED
  BY <1>4, <1>5, <1>6, FillingKeeps DEF AddDocument

LEMMA AddMemberKeeps ==
    ASSUME IInv, NEW m \in Members, AddMember(m[1], m[2], m[3])
    PROVE  IInv'
<1>1. DocumentsInv
  BY DEF IInv
<1>2. m[1] \in DOMAIN documents /\ documents[m[1]].json[1] = "object"
  BY DEF AddMember, Roots
<1> DEFINE d == documents[m[1]]
           e == [d EXCEPT !.json = Object(With(@[2], m[2], m[3]))]
<1>3. documents' = [documents EXCEPT ![m[1]] = e]
  BY DEF AddMember
<1>4. Grown(m[1], d) /\ d.repeated \in BOOLEAN
  BY <1>1, <1>2 DEF DocumentsInv
<1>5. Grown(m[1], e)
  BY <1>2, <1>4, MemberGrown
<1>6. e.repeated = d.repeated
  BY <1>4 DEF Grown
<1> HIDE DEF e
<1>7. DocumentsInv'
  BY <1>1, <1>3, <1>4, <1>5, <1>6 DEF DocumentsInv
<1>8. FindingsInv'
  BY DEF IInv, FindingsInv, AddMember
<1>9. LimitsInv'
  BY <1>3, SameLimits DEF IInv, AddMember
<1>. QED
  BY <1>7, <1>8, <1>9, FillingKeeps DEF AddMember

LEMMA SpoilKeeps ==
    ASSUME IInv, NEW root, NEW spoiled \in BOOLEAN, Spoil(root, spoiled)
    PROVE  IInv'
<1>1. DocumentsInv
  BY DEF IInv
<1> DEFINE d == documents[root]
           e == IF spoiled THEN [json |-> Null, repeated |-> FALSE] ELSE [d EXCEPT !.repeated = TRUE]
<1>2. root \in DOMAIN documents
  BY DEF Spoil, Roots
<1>3. documents' = [documents EXCEPT ![root] = e]
  BY DEF Spoil
<1>4. Grown(root, d)
  BY <1>1, <1>2 DEF DocumentsInv
<1>5. Grown(root, e) /\ e.repeated \in BOOLEAN
  BY <1>4, SpoiltGrown
<1> HIDE DEF e
<1>6. DocumentsInv'
  BY <1>1, <1>3, <1>5 DEF DocumentsInv
<1>7. FindingsInv'
  BY DEF IInv, FindingsInv, Spoil
<1>8. LimitsInv'
  BY <1>3, SameLimits DEF IInv, Spoil
<1>. QED
  BY <1>6, <1>7, <1>8, FillingKeeps DEF Spoil

LEMMA ReportKeeps ==
    ASSUME IInv, NEW f \in Reports, Report(f)
    PROVE  IInv'
<1>1. FindingsInv'
  BY DEF IInv, FindingsInv, Report
<1>2. DocumentsInv'
  BY DEF IInv, DocumentsInv, Report
<1>3. LimitsInv'
  <2>1. /\ LimitsInv /\ findings \in Seq(Reports) /\ UNCHANGED documents
        /\ findings' = Append(findings, f) /\ Len(findings) < MaxFindings - 1
        /\ f.document_path = None \/ f.document_path[1] \in DOMAIN documents
    BY DEF IInv, FindingsInv, Report, Of
  <2>2. /\ Len(findings) \in Nat /\ Len(findings') = Len(findings) + 1
        /\ \A i \in 1..Len(findings') : findings'[i] = IF i <= Len(findings) THEN findings[i] ELSE f
    BY <2>1
  <2>3. Constructible(DOMAIN documents)'
    BY <2>1 DEF LimitsInv, Constructible, Recorded
  <2>4. \A i \in 1..Len(findings') :
           findings'[i].document_path = None \/ findings'[i].document_path[1] \in DOMAIN documents
    BY <2>1, <2>2 DEF LimitsInv
  <2>5. Len(findings') <= MaxFindings - 1
    BY <2>1, <2>2, InputsAssumption
  <2>. QED
    BY <2>1, <2>3, <2>4, <2>5 DEF LimitsInv
<1>. QED
  BY <1>1, <1>2, <1>3, FillingKeeps DEF Report

\* FromRepository looks at the documents and the findings only.
LEMMA SameOutput ==
    ASSUME UNCHANGED <<documents, findings>>
    PROVE  FromRepository' = FromRepository
BY DEF FromRepository, NormalizationFinding

LEMMA WriteKeeps ==
    ASSUME IInv, Write
    PROVE  IInv'
<1>1. DocumentsInv /\ FindingsInv /\ StageInv
  BY DEF IInv
<1>2. FromRepository' = FromRepository
  BY SameOutput DEF Write
<1>3. DocumentsInv' /\ FindingsInv' /\ LimitsInv'
  BY <1>1, SameLimits DEF IInv, DocumentsInv, FindingsInv, Write
<1>4. CASE FromRepository[1] = "ok"
  <2>1. /\ stage' = "written" /\ manifest' = FromRepository[2]
        /\ wire' = ToWire(FromRepository[2]) /\ UNCHANGED edited
    BY <1>4 DEF Write
  <2>2. FromRepository' = <<"ok", manifest'>> /\ WireFormed(wire')
    BY <1>1, <1>2, <1>4, <2>1, WriteFormed
  <2>. QED
    BY <1>1, <1>3, <2>1, <2>2 DEF IInv, StageInv, OutputInv, AnswerInv, OwnInv, WireInv
<1>5. CASE FromRepository[1] # "ok"
  <2>1. stage' = "refused" /\ UNCHANGED edited
    BY <1>5 DEF Write
  <2>. QED
    BY <1>1, <1>3, <2>1 DEF IInv, StageInv, OutputInv, AnswerInv, OwnInv, WireInv
<1>. QED
  BY <1>4, <1>5

LEMMA EditKeeps ==
    ASSUME IInv, Edit
    PROVE  IInv'
<1>1. /\ stage = "written" /\ edited' = TRUE
      /\ UNCHANGED <<stage, documents, findings, manifest, answer>>
  BY DEF Edit, EditEnvelope, EditDocument, EditFinding, EditScalar, EditExtra, EditComponent,
         EditDefault, PutConfig, Put
<1>2. WireFormed(wire')
  BY EditFormed DEF IInv
<1>3. FromRepository' = FromRepository
  BY <1>1, SameOutput
<1>4. DocumentsInv' /\ FindingsInv' /\ LimitsInv'
  BY <1>1, SameLimits DEF IInv, DocumentsInv, FindingsInv
<1>. QED
  BY <1>1, <1>2, <1>3, <1>4 DEF IInv, StageInv, OutputInv, AnswerInv, OwnInv, WireInv

LEMMA ReadKeeps ==
    ASSUME IInv, Read
    PROVE  IInv'
<1>1. FromRepository' = FromRepository
  BY SameOutput DEF Read
<1>2. DocumentsInv' /\ FindingsInv' /\ LimitsInv'
  BY SameLimits DEF IInv, DocumentsInv, FindingsInv, Read
<1>. QED
  BY <1>1, <1>2 DEF IInv, StageInv, OutputInv, AnswerInv, OwnInv, WireInv, Read

LEMMA Inductive ==
    ASSUME IInv, [Next]_vars
    PROVE  IInv'
<1>1. CASE UNCHANGED vars
  <2>1. FromRepository' = FromRepository
    BY <1>1, SameOutput DEF vars
  <2>2. DocumentsInv' /\ FindingsInv' /\ LimitsInv'
    BY <1>1, SameLimits DEF IInv, DocumentsInv, FindingsInv, vars
  <2>. QED
    BY <1>1, <2>1, <2>2 DEF IInv, StageInv, OutputInv, AnswerInv, OwnInv, WireInv, vars
<1>. QED
  BY <1>1, AddDocumentKeeps, AddMemberKeeps, SpoilKeeps, ReportKeeps, WriteKeeps, EditKeeps,
     ReadKeeps DEF Next, Ended

THEOREM Invariance == Spec => []IInv
<1>1. Init => IInv
  BY Initial
<1>2. IInv /\ [Next]_vars => IInv'
  BY Inductive
<1>. QED
  BY <1>1, <1>2, PTL DEF Spec

-----------------------------------------------------------------------------

(***************************************************************************)
(* What is accepted.                                                       *)
(***************************************************************************)

\* Checks that all pass.
LEMMA FirstIs ==
    ASSUME NEW checks, Len(checks) \in Nat, First(checks) = "ok"
    PROVE  \A i \in 1..Len(checks) : checks[i] = "ok"
<1> DEFINE failed == {i \in 1..Len(checks) : checks[i] # "ok"}
<1>1. SUFFICES ASSUME failed # {} PROVE FALSE
  OBVIOUS
<1>2. First(checks) = checks[Min(failed)]
  BY <1>1 DEF First
<1>3. failed \in SUBSET Nat
  OBVIOUS
<1>4. Min(failed) \in failed
  <2> HIDE DEF failed
  <2>1. PICK n \in failed : \A m \in failed : n <= m
    BY <1>1, <1>3, Least
  <2>. QED
    BY <2>1 DEF Min
<1>. QED
  BY <1>2, <1>4

\* Of several checks none fails when the first that fails does not exist.
LEMMA FirstIff ==
    ASSUME NEW checks, Len(checks) \in Nat
    PROVE  First(checks) = "ok" <=> \A i \in 1..Len(checks) : checks[i] = "ok"
<1>1. ASSUME \A i \in 1..Len(checks) : checks[i] = "ok"
      PROVE  First(checks) = "ok"
  <2>1. {i \in 1..Len(checks) : checks[i] # "ok"} = {}
    BY <1>1
  <2>. QED
    BY <2>1 DEF First
<1>. QED
  BY <1>1, FirstIs

TextOk(w) ==
    /\ ~SensitiveScan(w) /\ ~w.repeated /\ w.schema_version = 1
    /\ w.normalization_profile = Profile /\ ~w.malformed

LEMMA TextIs ==
    ASSUME NEW w
    PROVE  TextCheck(w) = "ok" <=> TextOk(w)
<1> DEFINE checks == <<Check(SensitiveScan(w), "SensitiveContent"),
                       Check(w.repeated, "DuplicateObjectMember"),
                       Check(w.schema_version # 1, "UnsupportedSchemaVersion"),
                       Check(w.normalization_profile = <<>>, "InvalidNormalizationProfile"),
                       Check(w.normalization_profile # Profile, "UnsupportedNormalizationProfile"),
                       Check(w.malformed, "Json")>>
<1>1. TextCheck(w) = First(checks)
  BY DEF TextCheck
<1>2. /\ Len(checks) = 6
      /\ checks[1] = Check(SensitiveScan(w), "SensitiveContent")
      /\ checks[2] = Check(w.repeated, "DuplicateObjectMember")
      /\ checks[3] = Check(w.schema_version # 1, "UnsupportedSchemaVersion")
      /\ checks[4] = Check(w.normalization_profile = <<>>, "InvalidNormalizationProfile")
      /\ checks[5] = Check(w.normalization_profile # Profile, "UnsupportedNormalizationProfile")
      /\ checks[6] = Check(w.malformed, "Json")
  OBVIOUS
<1> HIDE DEF checks
<1>3. First(checks) = "ok" <=> \A i \in 1..6 : checks[i] = "ok"
  BY <1>2, FirstIff
<1>4. (\A i \in 1..6 : checks[i] = "ok") <=>
         /\ checks[1] = "ok" /\ checks[2] = "ok" /\ checks[3] = "ok"
         /\ checks[4] = "ok" /\ checks[5] = "ok" /\ checks[6] = "ok"
  OBVIOUS
<1>5. /\ checks[1] = "ok" <=> ~SensitiveScan(w)
      /\ checks[2] = "ok" <=> ~w.repeated
      /\ checks[3] = "ok" <=> w.schema_version = 1
      /\ checks[4] = "ok" <=> w.normalization_profile # <<>>
      /\ checks[5] = "ok" <=> w.normalization_profile = Profile
      /\ checks[6] = "ok" <=> ~w.malformed
  BY <1>2 DEF Check
<1>6. Profile # <<>>
  BY DEF Profile
<1>. QED
  BY <1>1, <1>3, <1>4, <1>5, <1>6 DEF TextOk

\* The paths of one finding.
FindingPaths(f) ==
    First(<<PathCheck(f.document_path, "InvalidDiagnosticPath"),
            PathCheck(f.related_path, "InvalidDiagnosticPath")>>)

ConversionOk(w) ==
    /\ \A i \in 1..Len(w.diagnostics) : FindingPaths(w.diagnostics[i]) = "ok"
    /\ w.normalized # None =>
          /\ PathCheck(Some(w.normalized[1].source_path), "InvalidNormalizedSourcePath") = "ok"
          /\ \A i \in 1..Len(w.normalized[1].components) :
                PathCheck(w.normalized[1].components[i].path, "InvalidDinomlV1Normalization") = "ok"

\* Checks one after the other.
LEMMA FirstOfBoth ==
    ASSUME NEW S, NEW s \in Seq(S), NEW T, NEW t \in Seq(T)
    PROVE  First(s \o t) = "ok" <=> First(s) = "ok" /\ First(t) = "ok"
<1> DEFINE U == S \cup T
           b == s \o t
<1>1. s \in Seq(U) /\ t \in Seq(U) /\ Len(s) \in Nat /\ Len(t) \in Nat
  OBVIOUS
<1>2. /\ b \in Seq(U) /\ Len(b) = Len(s) + Len(t)
      /\ \A i \in 1..Len(s) : b[i] = s[i]
      /\ \A i \in 1..Len(t) : b[Len(s) + i] = t[i]
  BY <1>1, ConcatProperties
<1> HIDE DEF b
<1>3. \A i \in 1..Len(b) : i \in 1..Len(s) \/ \E j \in 1..Len(t) : i = Len(s) + j
  <2>1. SUFFICES ASSUME NEW i \in 1..Len(b), i \notin 1..Len(s)
                 PROVE  \E j \in 1..Len(t) : i = Len(s) + j
    OBVIOUS
  <2>2. i - Len(s) \in 1..Len(t) /\ i = Len(s) + (i - Len(s))
    BY <1>1, <1>2, <2>1
  <2>. QED
    BY <2>2
<1>4. \A i \in 1..Len(s) : i \in 1..Len(b)
  BY <1>1, <1>2
<1>5. \A i \in 1..Len(t) : Len(s) + i \in 1..Len(b)
  BY <1>1, <1>2
<1>6. (\A i \in 1..Len(b) : b[i] = "ok") <=>
        (\A i \in 1..Len(s) : s[i] = "ok") /\ (\A i \in 1..Len(t) : t[i] = "ok")
  <2>1. ASSUME \A i \in 1..Len(b) : b[i] = "ok"
        PROVE  (\A i \in 1..Len(s) : s[i] = "ok") /\ (\A i \in 1..Len(t) : t[i] = "ok")
    BY <1>2, <1>4, <1>5, <2>1
  <2>2. ASSUME \A i \in 1..Len(s) : s[i] = "ok", \A i \in 1..Len(t) : t[i] = "ok"
        PROVE  \A i \in 1..Len(b) : b[i] = "ok"
    BY <1>2, <1>3, <2>2
  <2>. QED
    BY <2>1, <2>2
<1>7. Len(b) \in Nat
  BY <1>1, <1>2
<1>8. First(b) = "ok" <=> First(s) = "ok" /\ First(t) = "ok"
  BY <1>1, <1>6, <1>7, FirstIff
<1>. QED
  BY <1>8 DEF b

LEMMA OneCheck ==
    ASSUME NEW x
    PROVE  First(<<x>>) = "ok" <=> x = "ok"
<1>1. Len(<<x>>) = 1 /\ <<x>>[1] = x
  OBVIOUS
<1>2. First(<<x>>) = "ok" <=> \A i \in 1..1 : <<x>>[i] = "ok"
  BY <1>1, FirstIff
<1>. QED
  BY <1>1, <1>2

LEMMA ConversionIs ==
    ASSUME NEW w, Len(w.diagnostics) \in Nat,
           w.normalized # None => Len(w.normalized[1].components) \in Nat
    PROVE  ConversionCheck(w) = "ok" <=> ConversionOk(w)
<1> DEFINE n    == w.normalized[1]
           a(i) == FindingPaths(w.diagnostics[i])
           b    == PathCheck(Some(n.source_path), "InvalidNormalizedSourcePath")
           c(i) == PathCheck(n.components[i].path, "InvalidDinomlV1Normalization")
           A    == [i \in 1..Len(w.diagnostics) |-> a(i)]
           C    == [i \in 1..Len(n.components) |-> c(i)]
           SA   == {a(i) : i \in 1..Len(w.diagnostics)}
           SC   == {c(i) : i \in 1..Len(n.components)}
<1>1. ConversionCheck(w) = First(A \o IF w.normalized = None THEN <<>> ELSE <<b>> \o C)
  BY DEF ConversionCheck, FindingPaths
<1> HIDE DEF b, a, c
<1>2. A \in [1..Len(w.diagnostics) -> SA] /\ \A i \in 1..Len(w.diagnostics) : A[i] = a(i)
  OBVIOUS
<1>3. A \in Seq(SA) /\ Len(A) = Len(w.diagnostics)
  <2> HIDE DEF A, SA
  <2>. QED
    BY <1>2
<1> HIDE DEF A, SA
<1>4. First(A) = "ok" <=> \A i \in 1..Len(w.diagnostics) : a(i) = "ok"
  BY <1>2, <1>3, FirstIff
<1>5. CASE w.normalized = None
  <2>1. ConversionCheck(w) = First(A \o <<>>)
    BY <1>1, <1>5
  <2>2. A \o <<>> = A
    BY <1>3
  <2>. QED
    BY <1>4, <1>5, <2>1, <2>2 DEF ConversionOk, a
<1>6. CASE w.normalized # None
  <2>1. ConversionCheck(w) = First(A \o (<<b>> \o C))
    BY <1>1, <1>6
  <2>2. C \in [1..Len(n.components) -> SC] /\ \A i \in 1..Len(n.components) : C[i] = c(i)
    OBVIOUS
  <2>3. C \in Seq(SC) /\ Len(C) = Len(n.components)
    <3> HIDE DEF C, SC
    <3>. QED
      BY <1>6, <2>2
  <2> HIDE DEF C, SC
  <2>4. First(C) = "ok" <=> \A i \in 1..Len(n.components) : c(i) = "ok"
    BY <1>6, <2>2, <2>3, FirstIff
  <2>5. <<b>> \in Seq({b}) /\ <<b>> \o C \in Seq({b} \cup SC)
    BY <2>3
  <2>6. First(<<b>> \o C) = "ok" <=> b = "ok" /\ First(C) = "ok"
    BY <2>3, <2>5, FirstOfBoth, OneCheck
  <2>7. First(A \o (<<b>> \o C)) = "ok" <=> First(A) = "ok" /\ First(<<b>> \o C) = "ok"
    BY <1>3, <2>5, FirstOfBoth
  <2>. QED
    BY <1>4, <1>6, <2>1, <2>4, <2>6, <2>7 DEF ConversionOk, a, b, c
<1>. QED
  BY <1>5, <1>6

WireOk(w) ==
    /\ ~(Len(w.documents) > MaxDocuments) /\ ~(Len(w.diagnostics) > MaxFindings)
    /\ \A i \in 1..Len(w.diagnostics) : FindingCheck(w.diagnostics[i]) = "ok"
    /\ ~(w.normalized # None /\ Each(w.normalized[1].applied_defaults, LongDefault))
    /\ ~(w.normalized # None /\ ~ManifestIsSafe(w.normalized[1]))
    /\ ~Each(w.diagnostics, SensitiveFinding)

LEMMA WireIs ==
    ASSUME NEW w, Len(w.diagnostics) \in Nat
    PROVE  WireCheck(w) = "ok" <=> WireOk(w)
<1> DEFINE unsafe == \/ w.normalized # None /\ ~ManifestIsSafe(w.normalized[1])
                     \/ Each(w.diagnostics, SensitiveFinding)
           long   == w.normalized # None /\ Each(w.normalized[1].applied_defaults, LongDefault)
           A      == [i \in 1..Len(w.diagnostics) |-> FindingCheck(w.diagnostics[i])]
           checks == <<Check(Len(w.documents) > MaxDocuments, "DocumentLimit"),
                       Check(Len(w.diagnostics) > MaxFindings, "DiagnosticLimit"),
                       First(A), Check(long, "NormalizedTextTooLarge"),
                       Check(unsafe, "SensitiveContent")>>
<1>1. WireCheck(w) = First(checks)
  BY DEF WireCheck
<1>2. /\ Len(checks) = 5
      /\ checks[1] = Check(Len(w.documents) > MaxDocuments, "DocumentLimit")
      /\ checks[2] = Check(Len(w.diagnostics) > MaxFindings, "DiagnosticLimit")
      /\ checks[3] = First(A)
      /\ checks[4] = Check(long, "NormalizedTextTooLarge")
      /\ checks[5] = Check(unsafe, "SensitiveContent")
  OBVIOUS
<1> HIDE DEF checks, long, unsafe
<1>3. First(checks) = "ok" <=> \A i \in 1..5 : checks[i] = "ok"
  <2>1. Len(checks) = 5 /\ 5 \in Nat
    BY <1>2
  <2>. QED
    BY ONLY <2>1, FirstIff
<1>4. (\A i \in 1..5 : checks[i] = "ok") <=>
         /\ checks[1] = "ok" /\ checks[2] = "ok" /\ checks[3] = "ok"
         /\ checks[4] = "ok" /\ checks[5] = "ok"
  OBVIOUS
<1>5. First(A) = "ok" <=> \A i \in 1..Len(w.diagnostics) : FindingCheck(w.diagnostics[i]) = "ok"
  <2>1. Len(A) = Len(w.diagnostics)
    OBVIOUS
  <2>2. \A i \in 1..Len(w.diagnostics) : A[i] = FindingCheck(w.diagnostics[i])
    OBVIOUS
  <2> HIDE DEF A
  <2>. QED
    BY <2>1, <2>2, FirstIff
<1> HIDE DEF A
<1>6. /\ checks[1] = "ok" <=> ~(Len(w.documents) > MaxDocuments)
      /\ checks[2] = "ok" <=> ~(Len(w.diagnostics) > MaxFindings)
      /\ checks[4] = "ok" <=> ~long
      /\ checks[5] = "ok" <=> ~unsafe
  BY <1>2 DEF Check
<1>7. WireOk(w) <=>
         /\ ~(Len(w.documents) > MaxDocuments) /\ ~(Len(w.diagnostics) > MaxFindings)
         /\ \A i \in 1..Len(w.diagnostics) : FindingCheck(w.diagnostics[i]) = "ok"
         /\ ~long /\ ~unsafe
  BY DEF WireOk, long, unsafe
<1>. QED
  BY <1>1, <1>2, <1>3, <1>4, <1>5, <1>6, <1>7

OrderOk(n) ==
    /\ \A i, j \in 1..Len(n.components) : n.components[i].name = n.components[j].name => i = j
    /\ \A i, j \in 1..Len(n.applied_defaults) :
          n.applied_defaults[i].field = n.applied_defaults[j].field => i = j

LEMMA OrderIs ==
    ASSUME NEW n
    PROVE  OrderCheck(n) = "ok" <=> OrderOk(n)
<1> DEFINE names  == \E i, j \in 1..Len(n.components) :
                        i # j /\ n.components[i].name = n.components[j].name
           fields == \E i, j \in 1..Len(n.applied_defaults) :
                        i # j /\ n.applied_defaults[i].field = n.applied_defaults[j].field
           checks == <<Check(names, "DuplicateNormalizedComponentName"),
                       Check(fields, "DuplicateAppliedDefaultField")>>
<1>1. OrderCheck(n) = First(checks)
  BY DEF OrderCheck
<1>2. OrderOk(n) <=> ~names /\ ~fields
  BY DEF OrderOk
<1> HIDE DEF names, fields
<1>3. /\ Len(checks) = 2 /\ 2 \in Nat
      /\ checks[1] = Check(names, "DuplicateNormalizedComponentName")
      /\ checks[2] = Check(fields, "DuplicateAppliedDefaultField")
  OBVIOUS
<1> HIDE DEF checks
<1>4. First(checks) = "ok" <=> \A i \in 1..2 : checks[i] = "ok"
  <2>1. Len(checks) = 2 /\ 2 \in Nat
    BY <1>3
  <2>. QED
    BY ONLY <2>1, FirstIff
<1>5. (\A i \in 1..2 : checks[i] = "ok") <=> checks[1] = "ok" /\ checks[2] = "ok"
  OBVIOUS
<1>6. (checks[1] = "ok" <=> ~names) /\ (checks[2] = "ok" <=> ~fields)
  BY <1>3 DEF Check
<1>. QED
  BY <1>1, <1>2, <1>4, <1>5, <1>6

\* All checks that an accepted text has passed, and what becomes of it.
LEMMA AcceptedIs ==
    ASSUME NEW w, FromJson(w)[1] = "ok"
    PROVE  LET n == IF w.normalized = None THEN None ELSE Some(Canonical(w.normalized[1]))
           IN  /\ TextCheck(w) = "ok" /\ ConversionCheck(w) = "ok" /\ WireCheck(w) = "ok"
               /\ DocumentsCheck(w.documents) = "ok" /\ RelationCheck(w, n) = "ok"
               /\ w.normalized # None => OrderCheck(w.normalized[1]) = "ok"
               /\ FromJson(w) = <<"ok", [documents   |-> InOrder(ToSet(w.documents), ByPath),
                                         normalized  |-> n,
                                         diagnostics |-> Sorted(w.diagnostics)]>>
<1> DEFINE order  == IF w.normalized = None THEN "ok" ELSE OrderCheck(w.normalized[1])
           checks == <<TextCheck(w), ConversionCheck(w), WireCheck(w), DocumentsCheck(w.documents), order>>
           n      == IF w.normalized = None THEN None ELSE Some(Canonical(w.normalized[1]))
           m      == [documents   |-> InOrder(ToSet(w.documents), ByPath),
                      normalized  |-> n,
                      diagnostics |-> Sorted(w.diagnostics)]
           check  == IF First(checks) # "ok" THEN First(checks) ELSE RelationCheck(w, n)
<1>1. FromJson(w) = IF check # "ok" THEN <<"error", check>> ELSE <<"ok", m>>
  BY DEF FromJson
<1> HIDE DEF order, n, m
<1>2. First(checks) = "ok" /\ RelationCheck(w, n) = "ok" /\ FromJson(w) = <<"ok", m>>
  BY <1>1
<1>3. /\ Len(checks) = 5 /\ checks[1] = TextCheck(w) /\ checks[2] = ConversionCheck(w)
      /\ checks[3] = WireCheck(w) /\ checks[4] = DocumentsCheck(w.documents) /\ checks[5] = order
  OBVIOUS
<1> HIDE DEF checks
<1>4. \A i \in 1..5 : checks[i] = "ok"
  BY <1>2, <1>3, FirstIs
<1>5. /\ checks[1] = "ok" /\ checks[2] = "ok" /\ checks[3] = "ok" /\ checks[4] = "ok" /\ checks[5] = "ok"
  BY <1>4
<1>. QED
  BY <1>2, <1>3, <1>5 DEF order, n, m

LEMMA ToSetIsFinite ==
    ASSUME NEW T, NEW s \in Seq(T)
    PROVE  IsFiniteSet(ToSet(s))
<1>1. DOMAIN s = 1..Len(s) /\ Len(s) \in Nat
  OBVIOUS
<1>2. IsFiniteSet(DOMAIN s)
  BY <1>1, FS_Interval
<1>. QED
  BY <1>2, ImageIsFinite DEF ToSet

\* Canonical only reorders.
LEMMA CanonicalIs ==
    ASSUME NEW n, RecordFormed(n), OrderCheck(n) = "ok"
    PROVE  LET c == Canonical(n)
           IN  /\ DOMAIN c = RecordFields
               /\ \A field \in RecordFields \ {"components", "applied_defaults"} : c[field] = n[field]
               /\ c.components \in Seq(ToSet(n.components))
               /\ c.applied_defaults \in Seq(ToSet(n.applied_defaults))
<1> DEFINE S == ToSet(n.components)
           T == ToSet(n.applied_defaults)
<1>1. /\ DOMAIN n = RecordFields
      /\ n.components \in Seq(S) /\ \A c \in S : c.name \in Nameable
      /\ n.applied_defaults \in Seq(T) /\ \A d \in T : d.field \in DefaultFields
  BY DEF RecordFormed, PartFormed, NamedField
<1>9. OrderOk(n)
  BY OrderIs
<1>2. IsFiniteSet(S) /\ IsFiniteSet(T)
  BY <1>1, ToSetIsFinite
<1>3. \A x, y \in S : x.name = y.name => x = y
  <2>1. SUFFICES ASSUME NEW x \in S, NEW y \in S, x.name = y.name PROVE x = y
    OBVIOUS
  <2>. DEFINE w == n.components
  <2>2. S = {w[i] : i \in DOMAIN w} /\ DOMAIN w = 1..Len(w)
    BY <1>1 DEF ToSet
  <2>3. PICK i \in 1..Len(w) : x = w[i]
    BY <2>2
  <2>4. PICK j \in 1..Len(w) : y = w[j]
    BY <2>2
  <2>. QED
    BY <1>9, <2>1, <2>3, <2>4 DEF OrderOk
<1>4. \A x, y \in T : x.field = y.field => x = y
  <2>1. SUFFICES ASSUME NEW x \in T, NEW y \in T, x.field = y.field PROVE x = y
    OBVIOUS
  <2>. DEFINE w == n.applied_defaults
  <2>2. T = {w[i] : i \in DOMAIN w} /\ DOMAIN w = 1..Len(w)
    BY <1>1 DEF ToSet
  <2>3. PICK i \in 1..Len(w) : x = w[i]
    BY <2>2
  <2>4. PICK j \in 1..Len(w) : y = w[j]
    BY <2>2
  <2>. QED
    BY <1>9, <2>1, <2>3, <2>4 DEF OrderOk
<1> DEFINE a == InOrder(S, ByName)
           b == InOrder(T, ByField)
<1>5. Canonical(n) = [n EXCEPT !.components = a, !.applied_defaults = b]
  BY DEF Canonical
<1> HIDE DEF S, T
<1>6. a \in Seq(S)
  BY <1>1, <1>2, <1>3, NamesOrder, Zenon
<1>7. b \in Seq(T)
  BY <1>1, <1>2, <1>4, FieldsOrder, Zenon
<1> HIDE DEF a, b
<1> DEFINE c == Canonical(n)
<1>8. /\ DOMAIN c = RecordFields
      /\ \A field \in RecordFields \ {"components", "applied_defaults"} : c[field] = n[field]
      /\ c.components = a /\ c.applied_defaults = b
  BY <1>1, <1>5 DEF RecordFields
<1>. QED
  BY <1>6, <1>7, <1>8 DEF S, T

LEMMA CanonicalIsSafe ==
    ASSUME NEW n, RecordFormed(n), OrderCheck(n) = "ok", ManifestIsSafe(n)
    PROVE  ManifestIsSafe(Canonical(n))
<1> DEFINE c == Canonical(n)
<1>1. /\ \A field \in RecordFields \ {"components", "applied_defaults"} : c[field] = n[field]
      /\ c.components \in Seq(ToSet(n.components))
      /\ c.applied_defaults \in Seq(ToSet(n.applied_defaults))
  BY CanonicalIs
<1>2. /\ c.source_path = n.source_path /\ c.architecture = n.architecture
      /\ c.model_type = n.model_type /\ c.transformers_version = n.transformers_version
      /\ c.diffusers_version = n.diffusers_version /\ c.task = n.task /\ c.extra = n.extra
  BY <1>1 DEF RecordFields
<1>3. /\ ToSet(c.components) \subseteq ToSet(n.components)
      /\ ToSet(c.applied_defaults) \subseteq ToSet(n.applied_defaults)
  BY <1>1, ListFormed
<1> HIDE DEF c
<1>4. ~SensitiveIdentity(c)
  BY <1>2, <1>3 DEF ManifestIsSafe, SensitiveIdentity
<1>. QED
  BY <1>2, <1>3, <1>4 DEF ManifestIsSafe, c

LEMMA AcceptedSafe ==
    ASSUME AnswerInv, WireInv
    PROVE  AcceptedIsSafe
<1>1. SUFFICES ASSUME Accepted
               PROVE  /\ ~SensitiveScan(wire)
                      /\ ~Of(answer[2].normalized, LAMBDA n : ~ManifestIsSafe(n))
  BY DEF AcceptedIsSafe
<1>2. answer = FromJson(wire) /\ WireFormed(wire)
  BY <1>1 DEF Accepted, AnswerInv, WireInv
<1>3. FromJson(wire)[1] = "ok"
  BY <1>1, <1>2 DEF Accepted
<1> DEFINE n == wire.normalized[1]
<1>4. /\ TextCheck(wire) = "ok" /\ WireCheck(wire) = "ok"
      /\ wire.normalized # None => OrderCheck(n) = "ok"
      /\ answer[2].normalized = IF wire.normalized = None THEN None ELSE Some(Canonical(n))
  BY <1>2, <1>3, AcceptedIs
<1>5. ~SensitiveScan(wire)
  BY <1>4, TextIs DEF TextOk
<1>6. CASE wire.normalized = None
  BY <1>4, <1>5, <1>6 DEF Of
<1>7. CASE wire.normalized # None
  <2>1. ManifestIsSafe(n) /\ RecordFormed(n)
    BY <1>2, <1>4, <1>7, WireIs, LenProperties DEF WireFormed, WireOk
  <2>2. ManifestIsSafe(Canonical(n))
    BY <1>4, <1>7, <2>1, CanonicalIsSafe
  <2>3. answer[2].normalized[1] = Canonical(n)
    BY <1>4, <1>7 DEF Some
  <2>. QED
    BY <1>5, <2>2, <2>3 DEF Of
<1>. QED
  BY <1>6, <1>7

-----------------------------------------------------------------------------

(***************************************************************************)
(* The order of the lists does not matter.                                 *)
(***************************************************************************)

ListsDocuments(list) == list \in Seq(ToSet(list)) /\ \A d \in ToSet(list) : DocumentFormed(d)

\* The documents of a list, as TotalBytes looks at them.
Measures(list) == [i \in 1..Len(list) |-> [path |-> list[i].path, size |-> list[i].size]]

LEMMA ListedFormed ==
    ASSUME NEW list, ListsDocuments(list)
    PROVE  /\ Len(list) \in Nat /\ DOMAIN list = 1..Len(list)
           /\ \A i \in 1..Len(list) : list[i] \in ToSet(list) /\ list[i].path \in Paths /\ list[i].size \in Nat
<1>1. Len(list) \in Nat /\ DOMAIN list = 1..Len(list)
  BY LenProperties DEF ListsDocuments
<1>2. \A i \in 1..Len(list) : list[i] \in ToSet(list)
  BY <1>1 DEF ToSet
<1>. QED
  BY <1>1, <1>2 DEF ListsDocuments, DocumentFormed

LEMMA MeasuresAre ==
    ASSUME NEW list, ListsDocuments(list)
    PROVE  /\ Measures(list) \in Seq(Measured) /\ Len(Measures(list)) = Len(list)
           /\ \A i \in 1..Len(list) : Measures(list)[i] = [path |-> list[i].path, size |-> list[i].size]
           /\ TotalBytes(Measures(list)) = TotalBytes(list)
<1> DEFINE m == Measures(list)
           N == Len(list)
<1>1. N \in Nat /\ \A i \in 1..N : list[i].path \in Paths /\ list[i].size \in Nat
  BY ListedFormed
<1>2. \A i \in 1..N : m[i] = [path |-> list[i].path, size |-> list[i].size]
  BY DEF Measures
<1>3. m \in [1..N -> Measured]
  BY <1>1 DEF Measures, Measured
<1> HIDE DEF m, N
<1>4. m \in Seq(Measured) /\ Len(m) = N
  BY <1>1, <1>3
<1>5. ASSUME NEW n \in 1..N PROVE m[n].size = list[n].size
  <2>1. m[n] = [path |-> list[n].path, size |-> list[n].size]
    BY <1>2
  <2>. QED
    BY <2>1
<1>6. \A g : IsSum(m, N, g) <=> IsSum(list, N, g)
  <2>1. \A n \in 0..N : n = 0 \/ n \in 1..N
    BY <1>1
  <2>2. ASSUME NEW g
        PROVE  [n \in 0..N |-> IF n = 0 THEN 0 ELSE g[n - 1] + m[n].size] =
               [n \in 0..N |-> IF n = 0 THEN 0 ELSE g[n - 1] + list[n].size]
    BY <1>5, <2>1
  <2>. QED
    BY <2>2 DEF IsSum
<1>7. TotalBytes(m) = (CHOOSE g : IsSum(m, N, g))[N]
  BY <1>4 DEF TotalBytes, IsSum
<1>8. TotalBytes(list) = (CHOOSE g : IsSum(list, N, g))[N]
  BY DEF TotalBytes, IsSum, N
<1>9. (CHOOSE g : IsSum(m, N, g)) = (CHOOSE g : IsSum(list, N, g))
  BY <1>6
<1>. QED
  BY <1>2, <1>4, <1>7, <1>8, <1>9 DEF m, N

\* A part of the documents is no larger than all of them.
LEMMA TotalOfPart ==
    ASSUME NEW list, ListsDocuments(list), NEW k \in 1..Len(list)
    PROVE  /\ TotalBytes(list) \in Nat /\ TotalBytes(SubSeq(list, 1, k)) \in Nat
           /\ TotalBytes(SubSeq(list, 1, k)) <= TotalBytes(list)
<1> DEFINE part == SubSeq(list, 1, k)
           m    == Measures(list)
           q    == SubSeq(m, 1, k)
           S    == ToSet(list)
<1>1. Len(list) \in Nat /\ k \in Nat /\ k <= Len(list) /\ \A i \in 1..k : i \in 1..Len(list)
  BY ListedFormed
<1>2. /\ m \in Seq(Measured) /\ Len(m) = Len(list) /\ TotalBytes(m) = TotalBytes(list)
      /\ \A i \in 1..Len(list) : m[i] = [path |-> list[i].path, size |-> list[i].size]
  BY MeasuresAre
<1>3. list \in Seq(S) /\ \A d \in S : DocumentFormed(d)
  BY DEF ListsDocuments
<1> HIDE DEF S, m
<1>4. part \in Seq(S) /\ Len(part) = k /\ \A i \in 1..k : part[i] = list[i]
  <2>1. \A i \in 1..k : list[i] \in S
    BY <1>1, <1>3, ElementOfSeq
  <2>. QED
    BY <1>1, <2>1, SubSeqProperties
<1>5. q \in Seq(Measured) /\ Len(q) = k /\ \A i \in 1..k : q[i] = m[i]
  <2>1. \A i \in 1..k : m[i] \in Measured
    BY <1>1, <1>2, ElementOfSeq
  <2>. QED
    BY <1>1, <2>1, SubSeqProperties
<1>6. TotalBytes(q) <= TotalBytes(m)
  BY <1>2, TotalOfPrefix
<1>7. TotalBytes(q) \in Nat /\ TotalBytes(m) \in Nat
  BY <1>2, <1>5, TotalIsNat
<1> HIDE DEF part, q
<1>8. ListsDocuments(part)
  <2>1. part \in Seq(ToSet(part)) /\ ToSet(part) \subseteq S
    BY <1>4, ListFormed
  <2>. QED
    BY <1>3, <2>1 DEF ListsDocuments
<1>9. /\ Measures(part) \in Seq(Measured) /\ Len(Measures(part)) = k
      /\ \A i \in 1..k : Measures(part)[i] = [path |-> part[i].path, size |-> part[i].size]
      /\ TotalBytes(Measures(part)) = TotalBytes(part)
  BY <1>4, <1>8, MeasuresAre
<1>10. \A i \in 1..k : Measures(part)[i] = q[i]
  BY <1>1, <1>2, <1>4, <1>5, <1>9
<1>11. Measures(part) = q
  BY <1>5, <1>9, <1>10, SeqEqual
<1>. QED
  BY <1>2, <1>6, <1>7, <1>9, <1>11 DEF part

\* Nor does their order matter.
LEMMA TotalOfReordered ==
    ASSUME NEW list, ListsDocuments(list), NEW l, Rearranges(l, list)
    PROVE  ListsDocuments(l) /\ TotalBytes(l) = TotalBytes(list) /\ TotalBytes(list) \in Nat
<1> DEFINE m == Measures(list)
           N == Len(list)
<1>1. N \in Nat
  BY ListedFormed
<1>2. /\ m \in Seq(Measured) /\ Len(m) = N /\ TotalBytes(m) = TotalBytes(list)
      /\ \A i \in 1..N : m[i] = [path |-> list[i].path, size |-> list[i].size]
  BY MeasuresAre
<1>3. l \in Seq(ToSet(list)) /\ Len(l) = N /\ ToSet(l) = ToSet(list)
  BY RearrangedIs DEF ListsDocuments
<1>4. ListsDocuments(l)
  BY <1>3 DEF ListsDocuments
<1>5. PICK p \in Bijection(1..N, 1..N) : l = [i \in 1..N |-> list[p[i]]]
  BY DEF Rearranges
<1> HIDE DEF m, N
<1>6. /\ p \in [1..N -> 1..N]
      /\ \A i, j \in 1..N : p[i] = p[j] => i = j
      /\ \A k \in 1..N : \E i \in 1..N : p[i] = k
  BY <1>1, BijectionIs
<1> DEFINE q == [i \in 1..N |-> m[p[i]]]
<1>7. TotalBytes(q) = TotalBytes(m)
  <2>1. TotalBytes([i \in 1..Len(m) |-> m[p[i]]]) = TotalBytes(m)
    <3>1. /\ p \in [1..Len(m) -> 1..Len(m)]
          /\ \A i, j \in 1..Len(m) : p[i] = p[j] => i = j
          /\ \A k \in 1..Len(m) : \E i \in 1..Len(m) : p[i] = k
      BY <1>2, <1>6
    <3>2. m \in Seq(Measured)
      BY <1>2
    <3>. QED
      BY ONLY <3>1, <3>2, TotalOfRearranged, Zenon
  <2>. QED
    BY <1>2, <2>1
<1>8. /\ Measures(l) \in Seq(Measured) /\ Len(Measures(l)) = N
      /\ \A i \in 1..N : Measures(l)[i] = [path |-> l[i].path, size |-> l[i].size]
      /\ TotalBytes(Measures(l)) = TotalBytes(l)
  BY <1>3, <1>4, MeasuresAre
<1>9. Measures(l) = q
  <2>1. \A i \in 1..N : l[i] = list[p[i]] /\ p[i] \in 1..N
    BY <1>5, <1>6
  <2>2. \A i \in 1..N : Measures(l)[i] = m[p[i]]
    BY <1>2, <1>8, <2>1
  <2>3. Measures(l) \in [1..N -> Measured]
    BY <1>8
  <2>. QED
    BY <2>2, <2>3
<1>10. TotalBytes(m) \in Nat
  BY <1>2, TotalIsNat
<1>. QED
  BY <1>2, <1>4, <1>7, <1>8, <1>9, <1>10

-----------------------------------------------------------------------------

DocumentAlone(d) ==
    /\ ~SensitivePath(d.path) /\ Portable(d.path) /\ ~(d.size > MaxSource)
    /\ Recognized(d.path) /\ d.kind = Name(d.path) /\ d.digest = "hex"

Parents(list, i) == UNION {Ancestors(list[j].path) : j \in 1..i}

LEMMA DocumentIs ==
    ASSUME NEW list, NEW i
    PROVE  DocumentCheck(list, i) = "ok" <=>
              /\ DocumentAlone(list[i])
              /\ ~\E j \in 1..i - 1 : list[j].path = list[i].path
              /\ ~(TotalBytes(SubSeq(list, 1, i)) > MaxBytes)
              /\ ~(Len(list) + Cardinality(Parents(list, i)) > MaxEntries)
<1> DEFINE d        == list[i]
           repeated == \E j \in 1..i - 1 : list[j].path = d.path
           large    == TotalBytes(SubSeq(list, 1, i)) > MaxBytes
           many     == Len(list) + Cardinality(Parents(list, i)) > MaxEntries
           checks   == <<Check(SensitivePath(d.path), "SensitiveContent"),
                         Check(~Portable(d.path), "UnsafeDocumentPath"),
                         Check(d.size > MaxSource, "DocumentSourceTooLarge"),
                         Check(~Recognized(d.path), "UnsupportedDocumentPath"),
                         Check(d.kind # Name(d.path), "DocumentKindMismatch"),
                         Check(repeated, "DuplicateDocumentPath"),
                         Check(d.digest # "hex", "InvalidDocumentDigest"),
                         Check(large, "AggregateDocumentBytesLimit"),
                         Check(many, "RepositoryEntryLimit")>>
<1>1. DocumentCheck(list, i) = First(checks)
  BY DEF DocumentCheck, Parents
<1> HIDE DEF d, repeated, large, many
<1>2. /\ Len(checks) = 9 /\ 9 \in Nat
      /\ checks[1] = Check(SensitivePath(d.path), "SensitiveContent")
      /\ checks[2] = Check(~Portable(d.path), "UnsafeDocumentPath")
      /\ checks[3] = Check(d.size > MaxSource, "DocumentSourceTooLarge")
      /\ checks[4] = Check(~Recognized(d.path), "UnsupportedDocumentPath")
      /\ checks[5] = Check(d.kind # Name(d.path), "DocumentKindMismatch")
      /\ checks[6] = Check(repeated, "DuplicateDocumentPath")
      /\ checks[7] = Check(d.digest # "hex", "InvalidDocumentDigest")
      /\ checks[8] = Check(large, "AggregateDocumentBytesLimit")
      /\ checks[9] = Check(many, "RepositoryEntryLimit")
  OBVIOUS
<1> HIDE DEF checks
<1>3. First(checks) = "ok" <=> \A k \in 1..9 : checks[k] = "ok"
  <2>1. Len(checks) = 9 /\ 9 \in Nat
    BY <1>2
  <2>. QED
    BY ONLY <2>1, FirstIff
<1>4. (\A k \in 1..9 : checks[k] = "ok") <=>
         /\ checks[1] = "ok" /\ checks[2] = "ok" /\ checks[3] = "ok"
         /\ checks[4] = "ok" /\ checks[5] = "ok" /\ checks[6] = "ok"
         /\ checks[7] = "ok" /\ checks[8] = "ok" /\ checks[9] = "ok"
  OBVIOUS
<1>5. /\ checks[1] = "ok" <=> ~SensitivePath(d.path)
      /\ checks[2] = "ok" <=> Portable(d.path)
      /\ checks[3] = "ok" <=> ~(d.size > MaxSource)
      /\ checks[4] = "ok" <=> Recognized(d.path)
      /\ checks[5] = "ok" <=> d.kind = Name(d.path)
      /\ checks[6] = "ok" <=> ~repeated
      /\ checks[7] = "ok" <=> d.digest = "hex"
      /\ checks[8] = "ok" <=> ~large
      /\ checks[9] = "ok" <=> ~many
  BY <1>2 DEF Check
<1>6. First(checks) = "ok" <=> DocumentAlone(d) /\ ~repeated /\ ~large /\ ~many
  BY <1>3, <1>4, <1>5 DEF DocumentAlone
<1>. QED
  BY <1>1, <1>6 DEF d, repeated, large, many

Above(list) == UNION {Ancestors(p) : p \in DocumentPaths(list)}

DocumentsOk(list) ==
    /\ \A i \in 1..Len(list) : DocumentAlone(list[i])
    /\ \A i, j \in 1..Len(list) : list[i].path = list[j].path => i = j
    /\ TotalBytes(list) <= MaxBytes
    /\ Len(list) + Cardinality(Above(list)) <= MaxEntries
    /\ ~Collides(DocumentPaths(list), Above(list))

LEMMA ParentsGrow ==
    ASSUME NEW list, ListsDocuments(list), NEW i \in 1..Len(list)
    PROVE  /\ IsFiniteSet(Above(list)) /\ Cardinality(Above(list)) \in Nat
           /\ Cardinality(Parents(list, i)) \in Nat
           /\ Cardinality(Parents(list, i)) <= Cardinality(Above(list))
           /\ i = Len(list) => Parents(list, i) = Above(list)
<1>1. Len(list) \in Nat /\ \A j \in 1..Len(list) : list[j].path \in Paths
  BY ListedFormed
<1>2. Above(list) \subseteq Paths
  BY <1>1, PathsAssumption DEF Above, DocumentPaths
<1>3. IsFiniteSet(Above(list)) /\ Cardinality(Above(list)) \in Nat
  BY <1>2, PathsAssumption, FS_Subset, FS_CardinalityType
<1>4. \A j \in 1..i : j \in 1..Len(list)
  BY <1>1
<1>5. Parents(list, i) \in SUBSET Above(list)
  BY <1>4 DEF Parents, Above, DocumentPaths
<1>6. i = Len(list) => Parents(list, i) = Above(list)
  BY DEF Parents, Above, DocumentPaths
<1>7. /\ IsFiniteSet(Parents(list, i))
      /\ Cardinality(Parents(list, i)) <= Cardinality(Above(list))
  BY <1>3, <1>5, FS_Subset
<1>. QED
  BY <1>3, <1>6, <1>7, FS_CardinalityType

LEMMA DocumentsAre ==
    ASSUME NEW list, ListsDocuments(list)
    PROVE  DocumentsCheck(list) = "ok" <=> DocumentsOk(list)
<1> DEFINE N        == Len(list)
           collides == Collides(DocumentPaths(list), Above(list))
           A        == [i \in 1..N |-> DocumentCheck(list, i)]
           S        == {DocumentCheck(list, i) : i \in 1..N}
           b        == Check(collides, "NonPortableDocumentPaths")
<1>1. N \in Nat
  BY ListedFormed
<1>2. DocumentsCheck(list) = First(A \o <<b>>)
  BY DEF DocumentsCheck, Above
<1> HIDE DEF collides, N
<1>3. A \in [1..N -> S] /\ \A i \in 1..N : A[i] = DocumentCheck(list, i)
  OBVIOUS
<1>4. A \in Seq(S) /\ Len(A) = N
  <2> HIDE DEF A, S
  <2>. QED
    BY <1>1, <1>3
<1> HIDE DEF A, S
<1>5. First(A) = "ok" <=> \A i \in 1..N : DocumentCheck(list, i) = "ok"
  BY <1>1, <1>3, <1>4, FirstIff
<1>6. b = "ok" <=> ~collides
  BY DEF Check
<1> HIDE DEF b
<1>7. <<b>> \in Seq({b})
  OBVIOUS
<1>8. First(A \o <<b>>) = "ok" <=> First(A) = "ok" /\ b = "ok"
  BY <1>4, <1>7, FirstOfBoth, OneCheck
<1> DEFINE each == \A i \in 1..N : DocumentCheck(list, i) = "ok"
<1>9. DocumentsCheck(list) = "ok" <=> each /\ ~collides
  BY <1>2, <1>5, <1>6, <1>8
<1>10. ASSUME each, ~collides PROVE DocumentsOk(list)
  <2>1. \A i \in 1..N :
           /\ DocumentAlone(list[i])
           /\ ~\E j \in 1..i - 1 : list[j].path = list[i].path
           /\ ~(TotalBytes(SubSeq(list, 1, i)) > MaxBytes)
           /\ ~(N + Cardinality(Parents(list, i)) > MaxEntries)
    BY <1>10, DocumentIs DEF N
  <2>2. \A i, j \in 1..N : list[i].path = list[j].path => i = j
    <3>1. SUFFICES ASSUME NEW i \in 1..N, NEW j \in 1..N, list[i].path = list[j].path, i # j
                   PROVE  FALSE
      OBVIOUS
    <3>2. i \in 1..j - 1 \/ j \in 1..i - 1
      BY <1>1, <3>1
    <3>. QED
      BY <2>1, <3>1, <3>2
  <2>3. TotalBytes(list) <= MaxBytes /\ N + Cardinality(Above(list)) <= MaxEntries
    <3>1. CASE N = 0
      <4>1. list = <<>>
        BY <3>1, EmptySeq DEF N, ListsDocuments
      <4>2. TotalBytes(list) = 0
        BY <4>1, TotalOfNone
      <4>3. Above(list) = {}
        BY <3>1 DEF Above, DocumentPaths, N
      <4>4. Cardinality(Above(list)) = 0
        BY <4>3, FS_EmptySet
      <4>. QED
        BY <3>1, <4>2, <4>4, LimitsAssumption
    <3>2. CASE N # 0
      <4>1. N \in 1..N
        BY <1>1, <3>2
      <4>2. SubSeq(list, 1, N) = list
        BY SubSeqFull DEF N, ListsDocuments
      <4>3. TotalBytes(list) \in Nat
        BY <4>1, TotalOfPart DEF N
      <4>4. /\ Cardinality(Above(list)) \in Nat
            /\ Parents(list, N) = Above(list)
        BY <4>1, ParentsGrow DEF N
      <4>5. ~(TotalBytes(list) > MaxBytes) /\ ~(N + Cardinality(Above(list)) > MaxEntries)
        BY <2>1, <4>1, <4>2, <4>4
      <4>. QED
        BY <1>1, <4>3, <4>4, <4>5, LimitsAssumption
    <3>. QED
      BY <3>1, <3>2
  <2>. QED
    BY <1>10, <2>1, <2>2, <2>3 DEF DocumentsOk, collides, N
<1>11. ASSUME DocumentsOk(list) PROVE each /\ ~collides
  <2>1. /\ \A i \in 1..N : DocumentAlone(list[i])
        /\ \A i, j \in 1..N : list[i].path = list[j].path => i = j
        /\ TotalBytes(list) <= MaxBytes
        /\ N + Cardinality(Above(list)) <= MaxEntries
        /\ ~collides
    BY <1>11 DEF DocumentsOk, collides, N
  <2>2. ASSUME NEW i \in 1..N PROVE DocumentCheck(list, i) = "ok"
    <3>1. ~\E j \in 1..i - 1 : list[j].path = list[i].path
      <4>1. \A j \in 1..i - 1 : j \in 1..N /\ j # i
        BY <1>1
      <4>. QED
        BY <2>1, <4>1
    <3>2. ~(TotalBytes(SubSeq(list, 1, i)) > MaxBytes)
      <4>1. /\ TotalBytes(list) \in Nat /\ TotalBytes(SubSeq(list, 1, i)) \in Nat
            /\ TotalBytes(SubSeq(list, 1, i)) <= TotalBytes(list)
        BY TotalOfPart DEF N
      <4>. QED
        BY <2>1, <4>1, LimitsAssumption
    <3>3. ~(N + Cardinality(Parents(list, i)) > MaxEntries)
      <4>1. /\ Cardinality(Above(list)) \in Nat /\ Cardinality(Parents(list, i)) \in Nat
            /\ Cardinality(Parents(list, i)) <= Cardinality(Above(list))
        BY ParentsGrow DEF N
      <4>. QED
        BY <1>1, <2>1, <4>1, LimitsAssumption
    <3>. QED
      BY <2>1, <3>1, <3>2, <3>3, DocumentIs DEF N
  <2>. QED
    BY <2>1, <2>2
<1>. QED
  BY <1>9, <1>10, <1>11

\* The order of the documents does not matter.
LEMMA DocumentsReordered ==
    ASSUME NEW list, ListsDocuments(list), NEW l, Rearranges(l, list), DocumentsOk(list)
    PROVE  ListsDocuments(l) /\ DocumentsOk(l)
<1>1. /\ Len(l) = Len(list) /\ Len(list) \in Nat
      /\ \A i \in 1..Len(l) : \E k \in 1..Len(list) : l[i] = list[k]
      /\ \A k \in 1..Len(list) : \E i \in 1..Len(l) : l[i] = list[k]
  BY RearrangedIs DEF ListsDocuments
<1>2. ListsDocuments(l) /\ TotalBytes(l) = TotalBytes(list)
  BY TotalOfReordered
<1>3. DocumentPaths(l) = DocumentPaths(list)
  <2>1. \A x \in DocumentPaths(l) : x \in DocumentPaths(list)
    BY <1>1 DEF DocumentPaths
  <2>2. \A x \in DocumentPaths(list) : x \in DocumentPaths(l)
    BY <1>1 DEF DocumentPaths
  <2>. QED
    BY <2>1, <2>2
<1>4. Above(l) = Above(list)
  BY <1>3 DEF Above
<1>5. \A i \in 1..Len(l) : DocumentAlone(l[i])
  BY <1>1 DEF DocumentsOk
<1>6. \A i, j \in 1..Len(l) : l[i].path = l[j].path => i = j
  <2> DEFINE n == Len(list)
  <2>1. PICK p \in Bijection(1..n, 1..n) : l = [i \in 1..n |-> list[p[i]]]
    BY DEF Rearranges
  <2>2. n \in Nat /\ Len(l) = n /\ \A i, j \in 1..n : list[i].path = list[j].path => i = j
    BY <1>1 DEF DocumentsOk
  <2> HIDE DEF n
  <2>3. \A i \in 1..n : p[i] \in 1..n /\ l[i] = list[p[i]]
    BY <2>1, <2>2, BijectionIs
  <2>4. \A i, j \in 1..n : p[i] = p[j] => i = j
    BY <2>2, BijectionIs
  <2>. QED
    BY <2>2, <2>3, <2>4
<1>. QED
  BY <1>1, <1>2, <1>3, <1>4, <1>5, <1>6 DEF DocumentsOk

-----------------------------------------------------------------------------

\* Two records that differ in the order of their lists at most.
SameRecord(m, n) ==
    /\ \A field \in RecordFields \ {"components", "applied_defaults"} : m[field] = n[field]
    /\ Rearranges(m.components, n.components)
    /\ Rearranges(m.applied_defaults, n.applied_defaults)

\* Two texts that differ in the order of their lists, and one perhaps in
\* fields that the other does not have.
Resembles(v, w) ==
    /\ ~v.repeated /\ ~v.malformed /\ v.schema_version = 1 /\ v.normalization_profile = Profile
    /\ SensitiveValue(v.unknown) => SensitiveValue(w.unknown)
    /\ Rearranges(v.documents, w.documents)
    /\ Rearranges(v.diagnostics, w.diagnostics)
    /\ v.normalized = None <=> w.normalized = None
    /\ w.normalized # None => SameRecord(v.normalized[1], w.normalized[1])

LEMMA SameRecordIs ==
    ASSUME NEW n, RecordFormed(n), NEW m, SameRecord(m, n)
    PROVE  /\ m.source_path = n.source_path /\ m.architecture = n.architecture
           /\ m.architecture_source = n.architecture_source
           /\ m.model_type = n.model_type /\ m.transformers_version = n.transformers_version
           /\ m.diffusers_version = n.diffusers_version /\ m.task = n.task /\ m.extra = n.extra
           /\ m.components \in Seq(ToSet(n.components)) /\ Len(m.components) \in Nat
           /\ Len(m.components) = Len(n.components)
           /\ ToSet(m.components) = ToSet(n.components)
           /\ \A i \in 1..Len(m.components) : \E k \in 1..Len(n.components) : m.components[i] = n.components[k]
           /\ m.applied_defaults \in Seq(ToSet(n.applied_defaults))
           /\ ToSet(m.applied_defaults) = ToSet(n.applied_defaults)
           /\ \A i \in 1..Len(m.applied_defaults) :
                 \E k \in 1..Len(n.applied_defaults) : m.applied_defaults[i] = n.applied_defaults[k]
<1>1. /\ n.components \in Seq(ToSet(n.components))
      /\ n.applied_defaults \in Seq(ToSet(n.applied_defaults))
  BY DEF RecordFormed
<1>2. /\ Rearranges(m.components, n.components)
      /\ Rearranges(m.applied_defaults, n.applied_defaults)
      /\ \A field \in RecordFields \ {"components", "applied_defaults"} : m[field] = n[field]
  BY DEF SameRecord
<1>3. /\ m.components \in Seq(ToSet(n.components))
      /\ Len(m.components) = Len(n.components) /\ Len(n.components) \in Nat
      /\ ToSet(m.components) = ToSet(n.components)
      /\ \A i \in 1..Len(m.components) : \E k \in 1..Len(n.components) : m.components[i] = n.components[k]
  <2> DEFINE s == m.components
             t == n.components
             T == ToSet(t)
  <2>1. t \in Seq(T) /\ Rearranges(s, t)
    BY <1>1, <1>2
  <2> HIDE DEF s, t, T
  <2>2. /\ s \in Seq(T) /\ Len(s) = Len(t) /\ Len(t) \in Nat /\ ToSet(s) = ToSet(t)
        /\ \A i \in 1..Len(s) : \E k \in 1..Len(t) : s[i] = t[k]
    BY <2>1, RearrangedIs
  <2>. QED
    BY <2>2 DEF s, t, T
<1>4. /\ m.applied_defaults \in Seq(ToSet(n.applied_defaults))
      /\ ToSet(m.applied_defaults) = ToSet(n.applied_defaults)
      /\ \A i \in 1..Len(m.applied_defaults) :
            \E k \in 1..Len(n.applied_defaults) : m.applied_defaults[i] = n.applied_defaults[k]
  <2> DEFINE s == m.applied_defaults
             t == n.applied_defaults
             T == ToSet(t)
  <2>1. t \in Seq(T) /\ Rearranges(s, t)
    BY <1>1, <1>2
  <2> HIDE DEF s, t, T
  <2>2. /\ s \in Seq(T) /\ Len(s) = Len(t) /\ Len(t) \in Nat /\ ToSet(s) = ToSet(t)
        /\ \A i \in 1..Len(s) : \E k \in 1..Len(t) : s[i] = t[k]
    BY <2>1, RearrangedIs
  <2>. QED
    BY <2>2 DEF s, t, T
<1>5. /\ m.source_path = n.source_path /\ m.architecture = n.architecture
      /\ m.architecture_source = n.architecture_source
      /\ m.model_type = n.model_type /\ m.transformers_version = n.transformers_version
      /\ m.diffusers_version = n.diffusers_version /\ m.task = n.task /\ m.extra = n.extra
  BY <1>2 DEF RecordFields
<1>. QED
  BY <1>3, <1>4, <1>5

\* Where the elements of a list were in the other.
LEMMA Placement ==
    ASSUME NEW T, NEW t \in Seq(T), NEW s, Rearranges(s, t)
    PROVE  \E p : /\ \A i \in 1..Len(s) : p[i] \in 1..Len(t) /\ s[i] = t[p[i]]
                  /\ \A i, j \in 1..Len(s) : p[i] = p[j] => i = j
<1> DEFINE N == Len(t)
<1>1. PICK p \in Bijection(1..N, 1..N) : s = [i \in 1..N |-> t[p[i]]]
  BY DEF Rearranges
<1>2. N \in Nat /\ Len(s) = N
  BY RearrangedIs
<1> HIDE DEF N
<1>3. \A i \in 1..N : p[i] \in 1..N /\ s[i] = t[p[i]]
  BY <1>1, <1>2, BijectionIs
<1>4. \A i, j \in 1..N : p[i] = p[j] => i = j
  BY <1>2, BijectionIs
<1>. QED
  BY <1>2, <1>3, <1>4 DEF N

\* A list in another order has its names and fields once, if the list has.
LEMMA SameOrder ==
    ASSUME NEW n, RecordFormed(n), NEW m, SameRecord(m, n), OrderOk(n)
    PROVE  OrderOk(m)
<1>1. /\ n.components \in Seq(ToSet(n.components)) /\ Rearranges(m.components, n.components)
      /\ n.applied_defaults \in Seq(ToSet(n.applied_defaults))
      /\ Rearranges(m.applied_defaults, n.applied_defaults)
  BY DEF RecordFormed, SameRecord
<1>2. ASSUME NEW i \in 1..Len(m.components), NEW j \in 1..Len(m.components),
             m.components[i].name = m.components[j].name
      PROVE  i = j
  <2> DEFINE s == m.components
             t == n.components
             T == ToSet(t)
  <2>1. t \in Seq(T) /\ Rearranges(s, t)
    BY <1>1
  <2>2. \A k, l \in 1..Len(t) : t[k].name = t[l].name => k = l
    BY DEF OrderOk
  <2>3. i \in 1..Len(s) /\ j \in 1..Len(s) /\ s[i].name = s[j].name
    BY <1>2
  <2> HIDE DEF s, t, T
  <2>4. PICK p : /\ \A k \in 1..Len(s) : p[k] \in 1..Len(t) /\ s[k] = t[p[k]]
                 /\ \A k, l \in 1..Len(s) : p[k] = p[l] => k = l
    BY <2>1, Placement
  <2>5. p[i] \in 1..Len(t) /\ p[j] \in 1..Len(t) /\ t[p[i]].name = t[p[j]].name
    BY <2>3, <2>4
  <2>. QED
    BY <2>2, <2>3, <2>4, <2>5
<1>3. ASSUME NEW i \in 1..Len(m.applied_defaults), NEW j \in 1..Len(m.applied_defaults),
             m.applied_defaults[i].field = m.applied_defaults[j].field
      PROVE  i = j
  <2> DEFINE s == m.applied_defaults
             t == n.applied_defaults
             T == ToSet(t)
  <2>1. t \in Seq(T) /\ Rearranges(s, t)
    BY <1>1
  <2>2. \A k, l \in 1..Len(t) : t[k].field = t[l].field => k = l
    BY DEF OrderOk
  <2>3. i \in 1..Len(s) /\ j \in 1..Len(s) /\ s[i].field = s[j].field
    BY <1>3
  <2> HIDE DEF s, t, T
  <2>4. PICK p : /\ \A k \in 1..Len(s) : p[k] \in 1..Len(t) /\ s[k] = t[p[k]]
                 /\ \A k, l \in 1..Len(s) : p[k] = p[l] => k = l
    BY <2>1, Placement
  <2>5. p[i] \in 1..Len(t) /\ p[j] \in 1..Len(t) /\ t[p[i]].field = t[p[j]].field
    BY <2>3, <2>4
  <2>. QED
    BY <2>2, <2>3, <2>4, <2>5
<1>. QED
  BY <1>2, <1>3 DEF OrderOk

LEMMA SameCanonical ==
    ASSUME NEW n, RecordFormed(n), NEW m, RecordFormed(m), SameRecord(m, n)
    PROVE  Canonical(m) = Canonical(n)
<1> DEFINE a == InOrder(ToSet(n.components), ByName)
           b == InOrder(ToSet(n.applied_defaults), ByField)
<1>1. ToSet(m.components) = ToSet(n.components) /\ ToSet(m.applied_defaults) = ToSet(n.applied_defaults)
  BY SameRecordIs
<1>2. Canonical(n) = [n EXCEPT !.components = a, !.applied_defaults = b]
  BY DEF Canonical
<1>3. Canonical(m) = [m EXCEPT !.components = a, !.applied_defaults = b]
  BY <1>1 DEF Canonical
<1> HIDE DEF a, b
<1>4. DOMAIN m = RecordFields /\ DOMAIN n = RecordFields
  BY DEF RecordFormed
<1> DEFINE c == Canonical(m)
           d == Canonical(n)
<1>5. /\ DOMAIN c = RecordFields /\ DOMAIN d = RecordFields
      /\ c = [field \in DOMAIN c |-> c[field]] /\ d = [field \in DOMAIN d |-> d[field]]
  BY <1>2, <1>3, <1>4
<1>6. \A field \in RecordFields : c[field] = d[field]
  <2>1. SUFFICES ASSUME NEW field \in RecordFields PROVE c[field] = d[field]
    OBVIOUS
  <2>2. field \notin {"components", "applied_defaults"} => m[field] = n[field]
    BY DEF SameRecord
  <2>. QED
    BY <1>2, <1>3, <1>4, <2>2
<1>. QED
  BY <1>5, <1>6

LEMMA SameSafety ==
    ASSUME NEW n, RecordFormed(n), NEW m, SameRecord(m, n)
    PROVE  /\ ManifestIsSafe(n) => ManifestIsSafe(m)
           /\ SensitiveConfigTexts(m) => SensitiveConfigTexts(n)
           /\ Each(m.applied_defaults, LongDefault) => Each(n.applied_defaults, LongDefault)
<1>1. /\ m.source_path = n.source_path /\ m.architecture = n.architecture
      /\ m.model_type = n.model_type /\ m.transformers_version = n.transformers_version
      /\ m.diffusers_version = n.diffusers_version /\ m.task = n.task /\ m.extra = n.extra
  BY SameRecordIs
<1>2. /\ ToSet(m.components) = ToSet(n.components)
      /\ ToSet(m.applied_defaults) = ToSet(n.applied_defaults)
      /\ \A i \in 1..Len(m.components) : \E k \in 1..Len(n.components) : m.components[i] = n.components[k]
      /\ \A i \in 1..Len(m.applied_defaults) :
            \E k \in 1..Len(n.applied_defaults) : m.applied_defaults[i] = n.applied_defaults[k]
  BY SameRecordIs
<1>3. SensitiveIdentity(m) <=> SensitiveIdentity(n)
  BY <1>1, <1>2 DEF SensitiveIdentity
<1>4. ManifestIsSafe(n) => ManifestIsSafe(m)
  BY <1>1, <1>2, <1>3 DEF ManifestIsSafe
<1>5. Each(m.components, SensitiveComponentTexts) => Each(n.components, SensitiveComponentTexts)
  BY <1>2 DEF Each
<1>6. Each(m.applied_defaults, SensitiveDefaultTexts) => Each(n.applied_defaults, SensitiveDefaultTexts)
  BY <1>2 DEF Each
<1>7. Each(m.applied_defaults, LongDefault) => Each(n.applied_defaults, LongDefault)
  BY <1>2 DEF Each
<1>8. SensitiveConfigTexts(m) => SensitiveConfigTexts(n)
  BY <1>1, <1>5, <1>6 DEF SensitiveConfigTexts
<1>. QED
  BY <1>4, <1>7, <1>8

Reordered(w) == IF w.normalized = None THEN None ELSE Some(Canonical(w.normalized[1]))

\* A text that passes every check is accepted.
LEMMA PassesIs ==
    ASSUME NEW w, TextCheck(w) = "ok", ConversionCheck(w) = "ok", WireCheck(w) = "ok",
           DocumentsCheck(w.documents) = "ok",
           w.normalized # None => OrderCheck(w.normalized[1]) = "ok",
           RelationCheck(w, Reordered(w)) = "ok"
    PROVE  FromJson(w) = <<"ok", [documents   |-> InOrder(ToSet(w.documents), ByPath),
                                  normalized  |-> Reordered(w),
                                  diagnostics |-> Sorted(w.diagnostics)]>>
<1> DEFINE order  == IF w.normalized = None THEN "ok" ELSE OrderCheck(w.normalized[1])
           checks == <<TextCheck(w), ConversionCheck(w), WireCheck(w), DocumentsCheck(w.documents), order>>
           m      == [documents   |-> InOrder(ToSet(w.documents), ByPath),
                      normalized  |-> Reordered(w),
                      diagnostics |-> Sorted(w.diagnostics)]
           check  == IF First(checks) # "ok" THEN First(checks) ELSE RelationCheck(w, Reordered(w))
<1>1. FromJson(w) = IF check # "ok" THEN <<"error", check>> ELSE <<"ok", m>>
  BY DEF FromJson, Reordered
<1> HIDE DEF m
<1>2. order = "ok"
  OBVIOUS
<1> HIDE DEF order
<1>3. /\ Len(checks) = 5 /\ 5 \in Nat /\ checks[1] = "ok" /\ checks[2] = "ok" /\ checks[3] = "ok"
      /\ checks[4] = "ok" /\ checks[5] = "ok"
  BY <1>2
<1> HIDE DEF checks
<1>4. \A i \in 1..5 : checks[i] = "ok"
  BY <1>3
<1>5. First(checks) = "ok"
  BY <1>3, <1>4, FirstIff
<1>. QED
  BY <1>1, <1>5 DEF m

LEMMA SameListings ==
    ASSUME NEW w, WireFormed(w), NEW v, Resembles(v, w)
    PROVE  /\ v.diagnostics \in Seq(ToSet(w.diagnostics))
           /\ Len(v.diagnostics) = Len(w.diagnostics) /\ Len(w.diagnostics) \in Nat
           /\ \A i \in 1..Len(v.diagnostics) : \E k \in 1..Len(w.diagnostics) : v.diagnostics[i] = w.diagnostics[k]
           /\ \A k \in 1..Len(w.diagnostics) : \E i \in 1..Len(v.diagnostics) : v.diagnostics[i] = w.diagnostics[k]
           /\ Sorted(v.diagnostics) = Sorted(w.diagnostics)
           /\ ListsDocuments(w.documents) /\ Rearranges(v.documents, w.documents)
           /\ Len(v.documents) = Len(w.documents)
           /\ ToSet(v.documents) = ToSet(w.documents)
           /\ DocumentPaths(v.documents) = DocumentPaths(w.documents)
<1>1. /\ w.diagnostics \in Seq(ToSet(w.diagnostics)) /\ ListsDocuments(w.documents)
      /\ w.documents \in Seq(ToSet(w.documents))
      /\ Rearranges(v.documents, w.documents) /\ Rearranges(v.diagnostics, w.diagnostics)
  BY DEF WireFormed, Resembles, ListsDocuments
<1>2. /\ v.diagnostics \in Seq(ToSet(w.diagnostics))
      /\ Len(v.diagnostics) = Len(w.diagnostics) /\ Len(w.diagnostics) \in Nat
      /\ \A i \in 1..Len(v.diagnostics) : \E k \in 1..Len(w.diagnostics) : v.diagnostics[i] = w.diagnostics[k]
      /\ \A k \in 1..Len(w.diagnostics) : \E i \in 1..Len(v.diagnostics) : v.diagnostics[i] = w.diagnostics[k]
      /\ Sorted(v.diagnostics) = Sorted(w.diagnostics)
  <2> DEFINE s == v.diagnostics
             t == w.diagnostics
             T == ToSet(t)
  <2>1. t \in Seq(T) /\ Rearranges(s, t)
    BY <1>1
  <2> HIDE DEF s, t, T
  <2>2. /\ s \in Seq(T) /\ Len(s) = Len(t) /\ Len(t) \in Nat
        /\ \A i \in 1..Len(s) : \E k \in 1..Len(t) : s[i] = t[k]
        /\ \A k \in 1..Len(t) : \E i \in 1..Len(s) : s[i] = t[k]
    BY <2>1, RearrangedIs
  <2>3. Sorted(s) = Sorted(t)
    BY <2>1, SortedForgets
  <2>. QED
    BY <2>2, <2>3 DEF s, t, T
<1>3. /\ Len(v.documents) = Len(w.documents) /\ ToSet(v.documents) = ToSet(w.documents)
      /\ DocumentPaths(v.documents) = DocumentPaths(w.documents)
  <2> DEFINE s == v.documents
             t == w.documents
             T == ToSet(t)
  <2>1. t \in Seq(T) /\ Rearranges(s, t)
    BY <1>1
  <2> HIDE DEF s, t, T
  <2>2. /\ Len(s) = Len(t) /\ Len(t) \in Nat /\ ToSet(s) = ToSet(t)
        /\ \A i \in 1..Len(s) : \E k \in 1..Len(t) : s[i] = t[k]
        /\ \A k \in 1..Len(t) : \E i \in 1..Len(s) : s[i] = t[k]
    BY <2>1, RearrangedIs
  <2>3. \A x \in DocumentPaths(s) : x \in DocumentPaths(t)
    BY <2>2 DEF DocumentPaths
  <2>4. \A x \in DocumentPaths(t) : x \in DocumentPaths(s)
    BY <2>2 DEF DocumentPaths
  <2>5. DocumentPaths(s) = DocumentPaths(t)
    BY <2>3, <2>4
  <2>. QED
    BY <2>2, <2>5 DEF s, t, T
<1>. QED
  BY <1>1, <1>2, <1>3

LEMMA SameText ==
    ASSUME NEW w, WireFormed(w), NEW v, Resembles(v, w), TextOk(w)
    PROVE  TextOk(v)
<1>1. ~SensitiveScan(w)
  BY DEF TextOk
<1>2. /\ ~SensitiveMessage(w.normalization_profile) /\ w.normalization_profile = Profile
      /\ ~\E path \in DocumentPaths(w.documents) : SensitivePathText(path)
      /\ ~Of(w.normalized, SensitiveConfigTexts)
      /\ ~Each(w.diagnostics, SensitiveFindingTexts)
      /\ ~SensitiveValue(w.unknown)
  BY <1>1 DEF TextOk, SensitiveScan
<1>3. DocumentPaths(v.documents) = DocumentPaths(w.documents)
  BY SameListings
<1>4. ~Each(v.diagnostics, SensitiveFindingTexts)
  BY <1>2, SameListings DEF Each
<1>5. ~Of(v.normalized, SensitiveConfigTexts)
  <2>1. CASE w.normalized = None
    BY <2>1 DEF Of, Resembles
  <2>2. CASE w.normalized # None
    <3>1. /\ ~SensitiveConfigTexts(w.normalized[1]) /\ RecordFormed(w.normalized[1])
          /\ SameRecord(v.normalized[1], w.normalized[1])
      BY <1>2, <2>2 DEF Of, Resembles, WireFormed
    <3>2. ~SensitiveConfigTexts(v.normalized[1])
      BY <3>1, SameSafety
    <3>. QED
      BY <3>2 DEF Of
  <2>. QED
    BY <2>1, <2>2
<1>6. /\ v.normalization_profile = Profile /\ ~v.repeated /\ ~v.malformed /\ v.schema_version = 1
      /\ ~SensitiveValue(v.unknown)
  BY <1>2 DEF Resembles
<1>7. ~SensitiveScan(v)
  BY <1>2, <1>3, <1>4, <1>5, <1>6 DEF SensitiveScan
<1>. QED
  BY <1>6, <1>7 DEF TextOk

LEMMA SameConversion ==
    ASSUME NEW w, WireFormed(w), NEW v, Resembles(v, w), ConversionOk(w)
    PROVE  ConversionOk(v)
<1>1. \A i \in 1..Len(v.diagnostics) : FindingPaths(v.diagnostics[i]) = "ok"
  BY SameListings DEF ConversionOk
<1>2. ASSUME v.normalized # None
      PROVE  /\ PathCheck(Some(v.normalized[1].source_path), "InvalidNormalizedSourcePath") = "ok"
             /\ \A i \in 1..Len(v.normalized[1].components) :
                   PathCheck(v.normalized[1].components[i].path, "InvalidDinomlV1Normalization") = "ok"
  <2> DEFINE m == v.normalized[1]
             n == w.normalized[1]
  <2>1. w.normalized # None /\ RecordFormed(n) /\ SameRecord(m, n)
    BY <1>2 DEF Resembles, WireFormed
  <2>2. /\ PathCheck(Some(n.source_path), "InvalidNormalizedSourcePath") = "ok"
        /\ \A i \in 1..Len(n.components) :
              PathCheck(n.components[i].path, "InvalidDinomlV1Normalization") = "ok"
    BY <2>1 DEF ConversionOk
  <2> HIDE DEF m, n
  <2>3. /\ m.source_path = n.source_path
        /\ \A i \in 1..Len(m.components) : \E k \in 1..Len(n.components) : m.components[i] = n.components[k]
    BY <2>1, SameRecordIs
  <2>4. \A i \in 1..Len(m.components) :
           PathCheck(m.components[i].path, "InvalidDinomlV1Normalization") = "ok"
    BY <2>2, <2>3
  <2>. QED
    BY <2>2, <2>3, <2>4 DEF m
<1>. QED
  BY <1>1, <1>2 DEF ConversionOk

LEMMA SameWire ==
    ASSUME NEW w, WireFormed(w), NEW v, Resembles(v, w), WireOk(w)
    PROVE  WireOk(v)
<1>1. /\ ~(Len(v.documents) > MaxDocuments) /\ ~(Len(v.diagnostics) > MaxFindings)
      /\ \A i \in 1..Len(v.diagnostics) : FindingCheck(v.diagnostics[i]) = "ok"
  BY SameListings DEF WireOk
<1>2. ~Each(v.diagnostics, SensitiveFinding)
  BY SameListings DEF WireOk, Each
<1>3. ASSUME v.normalized # None
      PROVE  /\ ~Each(v.normalized[1].applied_defaults, LongDefault)
             /\ ManifestIsSafe(v.normalized[1])
  <2>1. /\ w.normalized # None /\ RecordFormed(w.normalized[1])
        /\ SameRecord(v.normalized[1], w.normalized[1])
    BY <1>3 DEF Resembles, WireFormed
  <2>2. /\ ~Each(w.normalized[1].applied_defaults, LongDefault)
        /\ ManifestIsSafe(w.normalized[1])
    BY <2>1 DEF WireOk
  <2>. QED
    BY <2>1, <2>2, SameSafety
<1>. QED
  BY <1>1, <1>2, <1>3 DEF WireOk

LEMMA SameRelation ==
    ASSUME NEW w, WireFormed(w), NEW v, Resembles(v, w), NEW n
    PROVE  RelationCheck(v, n) = RelationCheck(w, n)
<1> DEFINE P          == DocumentPaths(w.documents)
           outside(u) == \E i \in 1..Len(u) : u[i].document_path # None /\ u[i].document_path[1] \notin P
           kind       == IF n = None THEN <<>> ELSE Name(n[1].source_path)
           sources    == IF kind = <<"config.json">>
                         THEN {"config_architectures", "config_class_name", "config_model_type"}
                         ELSE {"model_index_class_name"}
           rest       == IF n = None THEN "ok"
                         ELSE First(<<Check(n[1].source_path \notin P, "MissingNormalizedSourceDocument"),
                                      Check(kind \notin {<<"config.json">>, <<"model_index.json">>},
                                            "InvalidNormalizedSourceKind"),
                                      Check(Len(n[1].source_path) # 1, "InvalidNormalizedSourcePath"),
                                      Check(n[1].architecture = <<>>, "InvalidNormalizedArchitecture"),
                                      Check(kind = <<"config.json">> /\ ModelIndexPath \in P,
                                            "NormalizedSourcePrecedenceMismatch"),
                                      Check(n[1].architecture_source \notin sources, "ArchitectureSourceMismatch"),
                                      Check(~Possible(n[1], kind), "InvalidDinomlV1Normalization")>>)
<1>1. DocumentPaths(v.documents) = P
  BY SameListings
<1>2. RelationCheck(w, n) = IF outside(w.diagnostics) THEN "MissingDiagnosticSourceDocument" ELSE rest
  BY DEF RelationCheck, Each
<1>3. RelationCheck(v, n) = IF outside(v.diagnostics) THEN "MissingDiagnosticSourceDocument" ELSE rest
  BY <1>1 DEF RelationCheck, Each
<1> HIDE DEF P, rest
<1>4. outside(v.diagnostics) <=> outside(w.diagnostics)
  <2> DEFINE s == v.diagnostics
             t == w.diagnostics
  <2>1. /\ \A i \in 1..Len(s) : \E k \in 1..Len(t) : s[i] = t[k]
        /\ \A k \in 1..Len(t) : \E i \in 1..Len(s) : s[i] = t[k]
    BY SameListings
  <2> HIDE DEF s, t
  <2>2. ASSUME outside(s) PROVE outside(t)
    BY <2>1, <2>2
  <2>3. ASSUME outside(t) PROVE outside(s)
    BY <2>1, <2>3
  <2>. QED
    BY <2>2, <2>3 DEF s, t
<1>. QED
  BY <1>2, <1>3, <1>4

\* A text that differs from an accepted one in its order only is accepted,
\* as the same manifest.
LEMMA OrderIsForgotten ==
    ASSUME NEW w, WireFormed(w), NEW v, WireFormed(v), Resembles(v, w), FromJson(w)[1] = "ok"
    PROVE  FromJson(v) = FromJson(w)
<1> DEFINE n == w.normalized[1]
           m == v.normalized[1]
<1>1. /\ TextCheck(w) = "ok" /\ ConversionCheck(w) = "ok" /\ WireCheck(w) = "ok"
      /\ DocumentsCheck(w.documents) = "ok" /\ RelationCheck(w, Reordered(w)) = "ok"
      /\ w.normalized # None => OrderCheck(n) = "ok"
      /\ FromJson(w) = <<"ok", [documents   |-> InOrder(ToSet(w.documents), ByPath),
                                normalized  |-> Reordered(w),
                                diagnostics |-> Sorted(w.diagnostics)]>>
  BY AcceptedIs DEF Reordered
<1>2. /\ ToSet(v.documents) = ToSet(w.documents) /\ Sorted(v.diagnostics) = Sorted(w.diagnostics)
      /\ Len(v.diagnostics) = Len(w.diagnostics) /\ Len(w.diagnostics) \in Nat
      /\ ListsDocuments(w.documents) /\ Rearranges(v.documents, w.documents)
  BY SameListings
<1>3. /\ v.normalized = None <=> w.normalized = None
      /\ w.normalized # None =>
            RecordFormed(m) /\ RecordFormed(n) /\ SameRecord(m, n)
  BY DEF Resembles, WireFormed
<1>4. /\ w.normalized # None => Len(n.components) \in Nat
      /\ v.normalized # None => Len(m.components) \in Nat
  BY <1>3, SameRecordIs
<1> HIDE DEF m, n
<1>5. TextCheck(v) = "ok"
  BY <1>1, TextIs, SameText
<1>6. ConversionCheck(v) = "ok"
  <2>1. ConversionOk(w)
    BY <1>1, <1>2, <1>4, ConversionIs DEF n
  <2>2. ConversionOk(v)
    BY <2>1, SameConversion
  <2>. QED
    BY <1>2, <1>4, <2>2, ConversionIs DEF m
<1>7. WireCheck(v) = "ok"
  <2>1. WireOk(v)
    BY <1>1, <1>2, WireIs, SameWire
  <2>. QED
    BY <1>2, <2>1, WireIs
<1>8. DocumentsCheck(v.documents) = "ok"
  <2>1. DocumentsOk(w.documents)
    BY <1>1, <1>2, DocumentsAre
  <2>2. ListsDocuments(v.documents) /\ DocumentsOk(v.documents)
    BY <1>2, <2>1, DocumentsReordered
  <2>. QED
    BY <2>2, DocumentsAre
<1>9. v.normalized # None => OrderCheck(m) = "ok" /\ Canonical(m) = Canonical(n)
  <2>1. SUFFICES ASSUME v.normalized # None PROVE OrderCheck(m) = "ok" /\ Canonical(m) = Canonical(n)
    OBVIOUS
  <2>2. RecordFormed(m) /\ RecordFormed(n) /\ SameRecord(m, n) /\ OrderCheck(n) = "ok"
    BY <1>1, <1>3, <2>1
  <2>3. OrderOk(m)
    BY <2>2, OrderIs, SameOrder
  <2>4. Canonical(m) = Canonical(n)
    BY <2>2, SameCanonical
  <2>. QED
    BY <2>3, <2>4, OrderIs
<1>10. Reordered(v) = Reordered(w)
  BY <1>3, <1>9 DEF Reordered, m, n
<1>11. RelationCheck(v, Reordered(v)) = "ok"
  BY <1>1, <1>10, SameRelation
<1>12. FromJson(v) = <<"ok", [documents   |-> InOrder(ToSet(v.documents), ByPath),
                              normalized  |-> Reordered(v),
                              diagnostics |-> Sorted(v.diagnostics)]>>
  <2>1. v.normalized # None => OrderCheck(v.normalized[1]) = "ok"
    BY <1>9 DEF m
  <2>. QED
    BY <1>5, <1>6, <1>7, <1>8, <1>11, <2>1, PassesIs
<1>. QED
  BY <1>1, <1>2, <1>10, <1>12

LEMMA NullIsSafe == ~SensitiveValue(Null)
<1> DEFINE Bad == {n \in 0..MaxNesting : ~(Levels(Null)[n] \subseteq {Null})}
<1>1. Bad = {}
  <2>1. SUFFICES ASSUME Bad # {} PROVE FALSE
    OBVIOUS
  <2>2. Bad \in SUBSET Nat
    OBVIOUS
  <2> HIDE DEF Bad
  <2>3. PICK n \in Bad : \A m \in Bad : n <= m
    BY <2>1, <2>2, Least
  <2>4. n \in 0..MaxNesting /\ ~(Levels(Null)[n] \subseteq {Null})
    BY DEF Bad
  <2>5. n # 0
    BY <2>4, LevelsAre
  <2>6. n \in 1..MaxNesting /\ n - 1 \in 0..MaxNesting /\ n - 1 \notin Bad
    BY <2>2, <2>3, <2>4, <2>5, NestingAssumption
  <2>7. Levels(Null)[n - 1] \subseteq {Null}
    BY <2>6 DEF Bad
  <2>8. Levels(Null)[n] = UNION {Inside(v) : v \in Levels(Null)[n - 1]}
    BY <2>6, LevelsAre
  <2>9. Inside(Null) = {}
    BY DEF Inside, Null
  <2>. QED
    BY <2>4, <2>7, <2>8, <2>9
<1>2. Within(Null) \subseteq {Null}
  BY <1>1 DEF Within
<1>3. Strings(Null) = {} /\ Names(Null) = {}
  BY <1>2 DEF Strings, Names, Null
<1>. QED
  BY <1>3 DEF SensitiveValue

LEMMA ReversedResembles ==
    ASSUME NEW w, WireFormed(w), TextOk(w)
    PROVE  Resembles(Reversed(w), w)
<1> DEFINE r == Reversed(w)
           n == w.normalized[1]
           m == Backwards(n)
           a == Reverse(w.documents)
           b == Reverse(w.diagnostics)
           c == IF w.normalized = None THEN None ELSE Some(m)
<1>1. DOMAIN w = WireFields
  BY DEF WireFormed
<1>2. r = [w EXCEPT !.documents = a, !.diagnostics = b, !.normalized = c]
  BY DEF Reversed
<1>3. /\ r.documents = a /\ r.diagnostics = b /\ r.normalized = c
      /\ r.repeated = w.repeated /\ r.malformed = w.malformed
      /\ r.schema_version = w.schema_version /\ r.unknown = w.unknown
      /\ r.normalization_profile = w.normalization_profile
  <2> HIDE DEF a, b, c, r
  <2>. QED
    BY <1>1, <1>2 DEF WireFields
<1>4. Rearranges(a, w.documents) /\ Rearranges(b, w.diagnostics)
  BY ReverseRearranges DEF WireFormed
<1>5. w.normalized # None => SameRecord(m, n)
  <2>1. SUFFICES ASSUME w.normalized # None PROVE SameRecord(m, n)
    OBVIOUS
  <2>2. RecordFormed(n)
    BY <2>1 DEF WireFormed
  <2> HIDE DEF n
  <2>3. /\ DOMAIN n = RecordFields
        /\ n.components \in Seq(ToSet(n.components))
        /\ n.applied_defaults \in Seq(ToSet(n.applied_defaults))
    BY <2>2 DEF RecordFormed
  <2>4. m = [n EXCEPT !.components = Reverse(n.components),
                      !.applied_defaults = Reverse(n.applied_defaults)]
    BY DEF Backwards
  <2>5. /\ m.components = Reverse(n.components)
        /\ m.applied_defaults = Reverse(n.applied_defaults)
        /\ \A field \in RecordFields \ {"components", "applied_defaults"} : m[field] = n[field]
    BY <2>3, <2>4 DEF RecordFields
  <2> HIDE DEF m
  <2>6. /\ Rearranges(m.components, n.components)
        /\ Rearranges(m.applied_defaults, n.applied_defaults)
    BY <2>3, <2>5, ReverseRearranges
  <2>. QED
    BY <2>5, <2>6 DEF SameRecord
<1>6. /\ w.normalized = None => c = None
      /\ w.normalized # None => c # None /\ c[1] = m
  BY DEF None, Some
<1> HIDE DEF r, a, b, c, m, n
<1>7. r.normalized = None <=> w.normalized = None
  BY <1>3, <1>6
<1>8. w.normalized # None => SameRecord(r.normalized[1], w.normalized[1])
  BY <1>3, <1>5, <1>6 DEF n
<1>9. Resembles(r, w)
  BY <1>3, <1>4, <1>7, <1>8 DEF Resembles, TextOk
<1>. QED
  BY <1>9 DEF r

\* A record and what canonicalization makes of it.
LEMMA CanonicalResembles ==
    ASSUME NEW n, RecordFormed(n), OrderCheck(n) = "ok"
    PROVE  RecordFormed(Canonical(n)) /\ SameRecord(Canonical(n), n)
<1> DEFINE c == Canonical(n)
           S == ToSet(n.components)
           T == ToSet(n.applied_defaults)
           a == InOrder(S, ByName)
           b == InOrder(T, ByField)
<1>1. /\ DOMAIN c = RecordFields
      /\ \A field \in RecordFields \ {"components", "applied_defaults"} : c[field] = n[field]
      /\ c.components \in Seq(S) /\ c.applied_defaults \in Seq(T)
  BY CanonicalIs
<1>2. /\ DOMAIN n = RecordFields /\ n.components \in Seq(S) /\ n.applied_defaults \in Seq(T)
      /\ \A x \in S : PartFormed(x) /\ x.name \in Nameable
      /\ \A x \in T : NamedField(x) /\ x.field \in DefaultFields
  BY DEF RecordFormed, PartFormed, NamedField
<1>3. OrderOk(n)
  BY OrderIs
<1>4. c = [n EXCEPT !.components = a, !.applied_defaults = b]
  BY DEF Canonical
<1>5. c.components = a /\ c.applied_defaults = b
  <2> HIDE DEF a, b
  <2>. QED
    BY <1>2, <1>4 DEF RecordFields
<1>6. IsFiniteSet(S) /\ IsFiniteSet(T)
  BY <1>2, ToSetIsFinite
<1>7. Rearranges(a, n.components)
  <2> DEFINE t == n.components
  <2>1. /\ t \in Seq(S) /\ S = ToSet(t)
        /\ \A i, j \in 1..Len(t) : t[i].name = t[j].name => i = j
    BY <1>2, <1>3 DEF OrderOk
  <2> HIDE DEF t, S
  <2>2. S = {t[i] : i \in 1..Len(t)}
    BY <2>1, LenProperties DEF ToSet
  <2>3. \A x, y \in S : x.name = y.name => x = y
    BY <2>1, <2>2
  <2>4. \A x \in S : x.name \in Nameable
    BY <1>2
  <2>5. /\ a \in Seq(S) /\ Len(a) = Cardinality(S)
        /\ \A x \in S : \E i \in 1..Len(a) : a[i] = x
    BY <1>6, <2>3, <2>4, NamesOrder, Zenon
  <2>6. \A i, j \in 1..Len(t) : t[i] = t[j] => i = j
    BY <2>1
  <2> HIDE DEF a
  <2>7. Rearranges(a, t)
    BY <2>1, <2>5, <2>6, EnumerationRearranges
  <2>. QED
    BY <2>7 DEF t
<1>8. Rearranges(b, n.applied_defaults)
  <2> DEFINE t == n.applied_defaults
  <2>1. /\ t \in Seq(T) /\ T = ToSet(t)
        /\ \A i, j \in 1..Len(t) : t[i].field = t[j].field => i = j
    BY <1>2, <1>3 DEF OrderOk
  <2> HIDE DEF t, T
  <2>2. T = {t[i] : i \in 1..Len(t)}
    BY <2>1, LenProperties DEF ToSet
  <2>3. \A x, y \in T : x.field = y.field => x = y
    BY <2>1, <2>2
  <2>4. \A x \in T : x.field \in DefaultFields
    BY <1>2
  <2>5. /\ b \in Seq(T) /\ Len(b) = Cardinality(T)
        /\ \A x \in T : \E i \in 1..Len(b) : b[i] = x
    BY <1>6, <2>3, <2>4, FieldsOrder, Zenon
  <2>6. \A i, j \in 1..Len(t) : t[i] = t[j] => i = j
    BY <2>1
  <2> HIDE DEF b
  <2>7. Rearranges(b, t)
    BY <2>1, <2>5, <2>6, EnumerationRearranges
  <2>. QED
    BY <2>7 DEF t
<1>11. ScalarsFormed(c)
  <2> HIDE DEF a, b
  <2>1. DOMAIN n = RecordFields /\ ScalarsFormed(n)
    BY DEF RecordFormed
  <2>2. ScalarsFormed([n EXCEPT !.components = a, !.applied_defaults = b])
    BY <2>1, ReorderedScalars
  <2> HIDE DEF c
  <2>. QED
    BY <1>4, <2>2
<1> HIDE DEF c, S, T, a, b
<1>9. RecordFormed(c)
  BY <1>1, <1>2, <1>11, RecordFrom
<1>10. SameRecord(c, n)
  BY <1>1, <1>5, <1>7, <1>8 DEF SameRecord
<1>. QED
  BY <1>9, <1>10 DEF c

\* An accepted text and the one that is written of what was read.
LEMMA WrittenResembles ==
    ASSUME NEW w, WireFormed(w), FromJson(w)[1] = "ok"
    PROVE  WireFormed(ToWire(FromJson(w)[2])) /\ Resembles(ToWire(FromJson(w)[2]), w)
<1> DEFINE n == w.normalized[1]
           S == ToSet(w.documents)
           a == InOrder(S, ByPath)
           b == Sorted(w.diagnostics)
           m == [documents |-> a, normalized |-> Reordered(w), diagnostics |-> b]
           v == ToWire(m)
<1>1. /\ DocumentsCheck(w.documents) = "ok"
      /\ w.normalized # None => OrderCheck(n) = "ok"
      /\ FromJson(w) = <<"ok", m>>
  BY AcceptedIs DEF Reordered
<1>2. /\ v.repeated = FALSE /\ v.malformed = FALSE /\ v.unknown = Null /\ v.schema_version = 1
      /\ v.normalization_profile = Profile /\ v.documents = a /\ v.diagnostics = b
      /\ v.normalized = Reordered(w) /\ DOMAIN v = WireFields
  <2> HIDE DEF a, b
  <2>. QED
    BY DEF ToWire, WireFields
<1>3. FromJson(w)[2] = m
  BY <1>1
<1> HIDE DEF m, v
<1>4. /\ ListsDocuments(w.documents) /\ w.documents \in Seq(S) /\ S = ToSet(w.documents)
      /\ \A d \in S : DocumentFormed(d)
      /\ w.diagnostics \in Seq(ToSet(w.diagnostics))
  BY DEF WireFormed, ListsDocuments
<1>5. DocumentsOk(w.documents)
  BY <1>1, <1>4, DocumentsAre
<1>6. Rearranges(a, w.documents)
  <2> DEFINE t == w.documents
  <2>1. /\ t \in Seq(S) /\ S = ToSet(t)
        /\ \A i, j \in 1..Len(t) : t[i].path = t[j].path => i = j
    BY <1>4, <1>5 DEF DocumentsOk
  <2> HIDE DEF t, S
  <2>2. S = {t[i] : i \in 1..Len(t)}
    BY <2>1, LenProperties DEF ToSet
  <2>3. \A x, y \in S : x.path = y.path => x = y
    BY <2>1, <2>2
  <2>4. IsFiniteSet(S) /\ \A x \in S : x.path \in Paths
    BY <1>4, <2>1, ToSetIsFinite DEF DocumentFormed
  <2>5. /\ a \in Seq(S) /\ Len(a) = Cardinality(S)
        /\ \A x \in S : \E i \in 1..Len(a) : a[i] = x
    BY <2>3, <2>4, PathsOrder, Zenon
  <2>6. \A i, j \in 1..Len(t) : t[i] = t[j] => i = j
    BY <2>1
  <2> HIDE DEF a
  <2>7. Rearranges(a, t)
    BY <2>1, <2>5, <2>6, EnumerationRearranges
  <2>. QED
    BY <2>7 DEF t
<1>7. Rearranges(b, w.diagnostics)
  BY <1>4, SortedRearranges
<1> HIDE DEF a, b, S
<1>8. ListsDocuments(a)
  BY <1>4, <1>6, TotalOfReordered
<1>9. b \in Seq(ToSet(b))
  BY <1>4, <1>7, RearrangedIs, ListFormed
<1>10. ASSUME w.normalized # None
       PROVE  /\ Reordered(w) # None /\ Reordered(w) = Some(Reordered(w)[1])
              /\ RecordFormed(Reordered(w)[1]) /\ SameRecord(Reordered(w)[1], n)
  <2>1. RecordFormed(n) /\ OrderCheck(n) = "ok"
    BY <1>1, <1>10 DEF WireFormed
  <2>2. Reordered(w) = Some(Canonical(n))
    BY <1>10 DEF Reordered
  <2>3. /\ Some(Canonical(n))[1] = Canonical(n) /\ Some(Canonical(n)) # None
    BY DEF Some, None
  <2> HIDE DEF n
  <2>. QED
    BY <2>1, <2>2, <2>3, CanonicalResembles
<1>11. w.normalized = None => Reordered(w) = None
  BY DEF Reordered
<1>12. WireFormed(v)
  BY <1>2, <1>8, <1>9, <1>10, <1>11 DEF WireFormed, ListsDocuments
<1>13. Resembles(v, w)
  BY <1>2, <1>6, <1>7, <1>10, <1>11, NullIsSafe DEF Resembles, n
<1>. QED
  BY <1>3, <1>12, <1>13 DEF v

LEMMA Forgotten ==
    ASSUME AnswerInv, WireInv
    PROVE  OrderIsIrrelevant
<1>1. SUFFICES ASSUME Accepted
               PROVE  /\ FromJson(Reversed(wire)) = answer
                      /\ FromJson(Reversed(ToWire(answer[2]))) = answer
  BY DEF OrderIsIrrelevant
<1>2. answer = FromJson(wire) /\ WireFormed(wire) /\ FromJson(wire)[1] = "ok"
  BY <1>1 DEF Accepted, AnswerInv, WireInv
<1>3. ASSUME NEW w, WireFormed(w), FromJson(w)[1] = "ok"
      PROVE  FromJson(Reversed(w)) = FromJson(w)
  <2>1. TextOk(w)
    BY <1>3, AcceptedIs, TextIs
  <2>. QED
    BY <1>3, <2>1, ReversedFormed, ReversedResembles, OrderIsForgotten
<1>4. FromJson(Reversed(wire)) = answer
  BY <1>2, <1>3
<1> DEFINE v == ToWire(answer[2])
<1>5. WireFormed(v) /\ FromJson(v) = FromJson(wire)
  BY <1>2, WrittenResembles, OrderIsForgotten
<1> HIDE DEF v
<1>6. FromJson(Reversed(v)) = FromJson(v)
  BY <1>2, <1>3, <1>5
<1>. QED
  BY <1>2, <1>4, <1>5, <1>6 DEF v

\* What the documents of a text say of its findings and of its record, what
\* the record says of itself aside.
Related(w, n) ==
    LET paths   == DocumentPaths(w.documents)
        kind    == Name(n[1].source_path)
        sources == IF kind = <<"config.json">>
                   THEN {"config_architectures", "config_class_name", "config_model_type"}
                   ELSE {"model_index_class_name"}
    IN  /\ \A i \in 1..Len(w.diagnostics) :
              w.diagnostics[i].document_path # None => w.diagnostics[i].document_path[1] \in paths
        /\ n # None =>
              /\ n[1].source_path \in paths
              /\ kind \in {<<"config.json">>, <<"model_index.json">>}
              /\ Len(n[1].source_path) = 1
              /\ n[1].architecture # <<>>
              /\ ~(kind = <<"config.json">> /\ ModelIndexPath \in paths)
              /\ n[1].architecture_source \in sources

Producible(n) == n # None => Possible(n[1], Name(n[1].source_path))

LEMMA SevenChecks ==
    ASSUME NEW checks, Len(checks) = 7
    PROVE  /\ First(checks) = "ok" <=> \A i \in 1..7 : checks[i] = "ok"
           /\ (\A i \in 1..6 : checks[i] = "ok") => First(checks) = checks[7]
<1>1. First(checks) = "ok" <=> \A i \in 1..7 : checks[i] = "ok"
  <2>1. Len(checks) = 7 /\ 7 \in Nat
    OBVIOUS
  <2>. QED
    BY ONLY <2>1, FirstIff
<1>2. ASSUME \A i \in 1..6 : checks[i] = "ok", checks[7] # "ok"
      PROVE  First(checks) = checks[7]
  <2> DEFINE failed == {i \in 1..Len(checks) : checks[i] # "ok"}
  <2>1. failed = {7}
    <3>1. \A i \in 1..7 : i \in 1..6 \/ i = 7
      OBVIOUS
    <3>. QED
      BY <1>2, <3>1
  <2>2. First(checks) = checks[Min(failed)]
    BY <2>1 DEF First
  <2>3. Min({7}) = 7
    BY DEF Min
  <2>. QED
    BY <2>1, <2>2, <2>3
<1>3. (\A i \in 1..6 : checks[i] = "ok") /\ checks[7] = "ok" => First(checks) = "ok"
  <2>1. \A i \in 1..7 : i \in 1..6 \/ i = 7
    OBVIOUS
  <2>. QED
    BY <1>1, <2>1
<1>. QED
  BY <1>1, <1>2, <1>3

LEMMA RelationIs ==
    ASSUME NEW w, NEW n
    PROVE  /\ RelationCheck(w, n) = "ok" <=> Related(w, n) /\ Producible(n)
           /\ Related(w, n) /\ ~Producible(n) => RelationCheck(w, n) = "InvalidDinomlV1Normalization"
<1> DEFINE P       == DocumentPaths(w.documents)
           outside == \E i \in 1..Len(w.diagnostics) :
                         w.diagnostics[i].document_path # None /\ w.diagnostics[i].document_path[1] \notin P
           kind0   == IF n = None THEN <<>> ELSE Name(n[1].source_path)
           kind    == Name(n[1].source_path)
           S(k)    == IF k = <<"config.json">>
                      THEN {"config_architectures", "config_class_name", "config_model_type"}
                      ELSE {"model_index_class_name"}
           list(k) == <<Check(n[1].source_path \notin P, "MissingNormalizedSourceDocument"),
                        Check(k \notin {<<"config.json">>, <<"model_index.json">>},
                              "InvalidNormalizedSourceKind"),
                        Check(Len(n[1].source_path) # 1, "InvalidNormalizedSourcePath"),
                        Check(n[1].architecture = <<>>, "InvalidNormalizedArchitecture"),
                        Check(k = <<"config.json">> /\ ModelIndexPath \in P,
                              "NormalizedSourcePrecedenceMismatch"),
                        Check(n[1].architecture_source \notin S(k), "ArchitectureSourceMismatch"),
                        Check(~Possible(n[1], k), "InvalidDinomlV1Normalization")>>
           source  == n[1].source_path \in P
           known   == kind \in {<<"config.json">>, <<"model_index.json">>}
           root    == Len(n[1].source_path) = 1
           named   == n[1].architecture # <<>>
           shadow  == kind = <<"config.json">> /\ ModelIndexPath \in P
           from    == n[1].architecture_source \in S(kind)
           fine    == Possible(n[1], kind)
<1>1. RelationCheck(w, n) = IF outside THEN "MissingDiagnosticSourceDocument"
                            ELSE IF n = None THEN "ok" ELSE First(list(kind0))
  BY DEF RelationCheck, Each
<1>2. Producible(n) <=> (n # None => fine)
  BY DEF Producible
<1>3. Related(w, n) <=>
         ~outside /\ (n # None => source /\ known /\ root /\ named /\ ~shadow /\ from)
  BY DEF Related
<1> DEFINE checks == list(kind)
<1>4. n # None => list(kind0) = checks
  OBVIOUS
<1>5. /\ Len(checks) = 7
      /\ checks[1] = Check(~source, "MissingNormalizedSourceDocument")
      /\ checks[2] = Check(~known, "InvalidNormalizedSourceKind")
      /\ checks[3] = Check(~root, "InvalidNormalizedSourcePath")
      /\ checks[4] = Check(~named, "InvalidNormalizedArchitecture")
      /\ checks[5] = Check(shadow, "NormalizedSourcePrecedenceMismatch")
      /\ checks[6] = Check(~from, "ArchitectureSourceMismatch")
      /\ checks[7] = Check(~fine, "InvalidDinomlV1Normalization")
  BY DEF Check
<1>6. n # None => RelationCheck(w, n) = IF outside THEN "MissingDiagnosticSourceDocument" ELSE First(checks)
  BY <1>1, <1>4
<1>7. n = None => RelationCheck(w, n) = IF outside THEN "MissingDiagnosticSourceDocument" ELSE "ok"
  BY <1>1
<1> HIDE DEF checks, source, known, root, named, shadow, from, outside, fine
<1>9. /\ First(checks) = "ok" <=> \A i \in 1..7 : checks[i] = "ok"
      /\ (\A i \in 1..6 : checks[i] = "ok") => First(checks) = checks[7]
  BY <1>5, SevenChecks, Zenon
<1>10. /\ (\A i \in 1..6 : checks[i] = "ok") <=>
             /\ checks[1] = "ok" /\ checks[2] = "ok" /\ checks[3] = "ok"
             /\ checks[4] = "ok" /\ checks[5] = "ok" /\ checks[6] = "ok"
       /\ (\A i \in 1..7 : checks[i] = "ok") <=>
             /\ checks[1] = "ok" /\ checks[2] = "ok" /\ checks[3] = "ok"
             /\ checks[4] = "ok" /\ checks[5] = "ok" /\ checks[6] = "ok" /\ checks[7] = "ok"
  OBVIOUS
<1>11. /\ checks[1] = "ok" <=> source
       /\ checks[2] = "ok" <=> known
       /\ checks[3] = "ok" <=> root
       /\ checks[4] = "ok" <=> named
       /\ checks[5] = "ok" <=> ~shadow
       /\ checks[6] = "ok" <=> from
       /\ checks[7] = "ok" <=> fine
       /\ checks[7] = "ok" \/ checks[7] = "InvalidDinomlV1Normalization"
  BY <1>5 DEF Check
<1>12. CASE n = None
  BY <1>2, <1>3, <1>7, <1>12
<1>13. CASE n # None
  <2>1. First(checks) = "ok" <=> source /\ known /\ root /\ named /\ ~shadow /\ from /\ fine
    BY <1>9, <1>10, <1>11
  <2>2. source /\ known /\ root /\ named /\ ~shadow /\ from /\ ~fine =>
           First(checks) = "InvalidDinomlV1Normalization"
    BY <1>9, <1>10, <1>11
  <2>. QED
    BY <1>2, <1>3, <1>6, <1>13, <2>1, <2>2
<1>. QED
  BY <1>12, <1>13

\* The record that is written is of the authoritative root, and so is the
\* one that is read.
LEMMA Authoritative ==
    ASSUME DocumentsInv, OutputInv, AnswerInv, WireInv
    PROVE  IndexIsAuthoritative
<1>1. ASSUME Written, ModelIndexPath \in DOMAIN documents, manifest.normalized # None
      PROVE  manifest.normalized[1].source_path = ModelIndexPath
  <2>1. manifest.normalized = Projection
    BY <1>1, ManifestIs
  <2>2. "source_path" \in RecordFields \ {"extra", "applied_defaults"}
    BY DEF RecordFields
  <2>3. /\ Normalize(documents)[1] = "ok"
        /\ Projection[1].source_path = Normalize(documents)[2].source_path
    BY <1>1, <2>1, <2>2, ProjectionIs
  <2>4. Normalize(documents)[2].source_path = Root
    BY <2>3, ConfigurationIs
  <2>. QED
    BY <1>1, <2>1, <2>3, <2>4, NormalizeIs
<1>2. ASSUME Accepted, ModelIndexPath \in DocumentPaths(answer[2].documents),
             answer[2].normalized # None
      PROVE  answer[2].normalized[1].source_path = ModelIndexPath
  <2>1. answer = FromJson(wire) /\ WireFormed(wire) /\ FromJson(wire)[1] = "ok"
    BY <1>2 DEF Accepted, AnswerInv, WireInv
  <2> DEFINE v == ToWire(answer[2])
             n == Reordered(wire)
  <2>2. v.documents = answer[2].documents
    BY DEF ToWire
  <2>3. Resembles(v, wire)
    BY <2>1, WrittenResembles
  <2> HIDE DEF v
  <2>4. DocumentPaths(answer[2].documents) = DocumentPaths(wire.documents)
    BY <2>1, <2>2, <2>3, SameListings
  <2>5. RelationCheck(wire, n) = "ok" /\ answer[2].normalized = n
    BY <2>1, AcceptedIs DEF Reordered
  <2> HIDE DEF n
  <2>6. Related(wire, n)
    BY <2>5, RelationIs
  <2> DEFINE path == n[1].source_path
  <2>7. /\ path \in DocumentPaths(wire.documents) /\ Len(path) = 1
        /\ Name(path) \in {<<"config.json">>, <<"model_index.json">>}
        /\ ~(Name(path) = <<"config.json">> /\ ModelIndexPath \in DocumentPaths(wire.documents))
    BY <1>2, <2>5, <2>6 DEF Related
  <2> HIDE DEF path
  <2>8. Name(path) = <<"model_index.json">>
    BY <1>2, <2>4, <2>7
  <2>9. path \in Paths
    BY <2>1, <2>7, ListedFormed DEF DocumentPaths, WireFormed, ListsDocuments
  <2>10. path \in Seq(Segments) /\ path[1] = <<"model_index.json">>
    BY <2>7, <2>8, <2>9, PathsAssumption DEF Name
  <2>11. path = <<path[1]>>
    BY <2>7, <2>10
  <2>. QED
    BY <2>5, <2>10, <2>11 DEF path, ModelIndexPath
<1>. QED
  BY <1>1, <1>2 DEF IndexIsAuthoritative, Of

\* What is called safe makes a portable path of one segment.
LEMMA DerivedPath ==
    ASSUME NEW name, NEW value
    PROVE  LET path == Component(name, value).path
           IN  path = None \/ (path = Some(<<name>>) /\ Portable(path[1]))
<1>1. PathOf(name) = None \/ (PathOf(name) = Some(<<name>>) /\ SafeName(name))
  BY DEF PathOf
<1>2. SafeName(name) => Portable(<<name>>)
  BY DEF SafeName, Portable
<1>3. Some(<<name>>)[1] = <<name>>
  BY DEF Some
<1>4. Component(name, value).path = IF value[2][2] = Null THEN None ELSE PathOf(name)
  BY DEF Component
<1>. QED
  BY <1>1, <1>2, <1>3, <1>4

LEMMA Typed ==
    ASSUME IInv
    PROVE  TypeOK
<1>1. /\ stage \in {"filling", "written", "refused", "read"} /\ edited \in BOOLEAN
      /\ DOMAIN documents \subseteq Paths
      /\ \A path \in DOMAIN documents : documents[path].repeated \in BOOLEAN
      /\ \A i \in 1..Len(findings) : findings[i] \in Reports
  BY DEF IInv, StageInv, DocumentsInv, FindingsInv
<1>2. ASSUME Written, NEW n \in ToSet(manifest.normalized), NEW c \in ToSet(n.components)
      PROVE  c.path = None \/ Portable(c.path[1])
  <2>1. manifest.normalized = Projection
    BY <1>2, ManifestIs DEF IInv
  <2>2. Projection # None
    BY <1>2, <2>1 DEF None, ToSet
  <2>3. "components" \in RecordFields \ {"extra", "applied_defaults"}
    BY DEF RecordFields
  <2>4. /\ Normalize(documents)[1] = "ok" /\ Projection = Some(Projection[1])
        /\ Projection[1].components = Normalize(documents)[2].components
    BY <2>2, <2>3, ProjectionIs DEF IInv
  <2>5. n = Projection[1]
    <3>1. ToSet(Some(Projection[1])) = {Projection[1]}
      BY DEF ToSet, Some
    <3>. QED
      BY <1>2, <2>1, <2>4, <3>1
  <2> DEFINE S == {Component(name, RootObject[name]) : name \in Nameable}
  <2>6. n.components \in Seq(S)
    BY <2>4, <2>5, ConfigurationIs DEF IInv
  <2>7. c \in S
    <3> HIDE DEF S
    <3>. QED
      BY <1>2, <2>6, ListFormed
  <2>. QED
    BY <2>7, DerivedPath
<1>3. stage = "read" => answer[1] \in {"ok", "error"}
  <2>1. ASSUME NEW w PROVE FromJson(w)[1] \in {"ok", "error"}
    <3> DEFINE m == [documents   |-> InOrder(ToSet(w.documents), ByPath),
                     normalized  |-> Reordered(w),
                     diagnostics |-> Sorted(w.diagnostics)]
               early == First(<<TextCheck(w), ConversionCheck(w), WireCheck(w), DocumentsCheck(w.documents),
                                IF w.normalized = None THEN "ok" ELSE OrderCheck(w.normalized[1])>>)
               check == IF early # "ok" THEN early ELSE RelationCheck(w, Reordered(w))
    <3>1. FromJson(w) = IF check # "ok" THEN <<"error", check>> ELSE <<"ok", m>>
      BY DEF FromJson, Reordered
    <3> HIDE DEF m, check
    <3>. QED
      BY <3>1
  <2>. QED
    BY <2>1 DEF IInv, AnswerInv
<1>. QED
  BY <1>1, <1>2, <1>3 DEF TypeOK, Written

-----------------------------------------------------------------------------

(***************************************************************************)
(* Two lists of one set in one strict order are one list.                  *)
(***************************************************************************)

\* A place before one of a list is one of it, and not behind it.
LEMMA Earlier ==
    ASSUME NEW m \in Nat, NEW n \in Nat, NEW i \in 1..m, i <= n, NEW j \in 1..i - 1
    PROVE  j \in 1..m /\ j <= n /\ ~ (i <= j)
OBVIOUS

\* The elements of a list are of its set.
LEMMA Elements ==
    ASSUME NEW S, NEW a \in Seq(S)
    PROVE  Len(a) \in Nat /\ \A i \in 1..Len(a) : a[i] \in S
OBVIOUS

\* Two lists of one set in one order: where they first differ, the element
\* of the one comes before that of the other.
LEMMA FirstApart ==
    ASSUME NEW S, NEW R, Orders(R, S), NEW a \in Seq(S), NEW b \in Seq(S),
           NEW i \in 1..Len(a), i <= Len(b),
           \A j \in 1..i - 1 : a[j] = b[j],
           \A x \in S : \E k \in 1..Len(b) : b[k] = x,
           \A j, k \in 1..Len(a) : j < k => <<a[j], a[k]>> \in R,
           \A j, k \in 1..Len(b) : j < k => <<b[j], b[k]>> \in R,
           a[i] # b[i]
    PROVE  <<b[i], a[i]>> \in R
<1>1. Len(a) \in Nat /\ Len(b) \in Nat /\ a[i] \in S /\ i \in 1..Len(b)
  <2>1. /\ Len(a) \in Nat /\ \A k \in 1..Len(a) : a[k] \in S
        /\ Len(b) \in Nat
    BY Elements, Zenon
  <2>2. i \in 1..Len(a) /\ i <= Len(b)
    OBVIOUS
  <2>. QED
    BY ONLY <2>1, <2>2
<1>2. \A x \in S : <<x, x>> \notin R
  BY DEF Orders
<1>3. PICK k \in 1..Len(b) : b[k] = a[i]
  BY <1>1
<1>4. ~(k < i)
  <2>1. SUFFICES ASSUME k < i PROVE FALSE
    OBVIOUS
  <2>2. k \in 1..i - 1 /\ k \in 1..Len(a)
    BY <1>1, <1>3, <2>1
  <2>3. a[k] = a[i] /\ <<a[k], a[i]>> \in R
    BY <1>3, <2>1, <2>2
  <2>. QED
    BY <1>1, <1>2, <2>3
<1>5. i < k
  BY <1>1, <1>3, <1>4
<1>. QED
  BY <1>1, <1>3, <1>5

\* Neither of two such lists is longer than the other and agrees with it.
LEMMA NoneLeft ==
    ASSUME NEW S, NEW R, Orders(R, S), NEW a \in Seq(S), NEW b \in Seq(S),
           Len(a) < Len(b),
           \A j \in 1..Len(a) : a[j] = b[j],
           \A x \in S : \E k \in 1..Len(a) : a[k] = x,
           \A j, k \in 1..Len(b) : j < k => <<b[j], b[k]>> \in R
    PROVE  FALSE
<1>1. /\ Len(a) \in Nat /\ Len(b) \in Nat
      /\ Len(a) + 1 \in 1..Len(b) /\ b[Len(a) + 1] \in S
  <2>1. /\ Len(a) \in Nat
        /\ Len(b) \in Nat /\ \A k \in 1..Len(b) : b[k] \in S
    BY Elements, Zenon
  <2>2. Len(a) < Len(b)
    OBVIOUS
  <2>. QED
    BY ONLY <2>1, <2>2
<1>2. \A x \in S : <<x, x>> \notin R
  BY DEF Orders
<1>3. PICK k \in 1..Len(a) : a[k] = b[Len(a) + 1]
  BY <1>1
<1>4. k < Len(a) + 1 /\ k \in 1..Len(b)
  <2>1. Len(a) < Len(b) /\ k \in 1..Len(a)
    BY <1>3
  <2>. QED
    BY ONLY <1>1, <2>1
<1>5. b[k] = b[Len(a) + 1] /\ <<b[k], b[Len(a) + 1]>> \in R
  BY <1>1, <1>3, <1>4
<1>. QED
  BY <1>1, <1>2, <1>5

\* s lists the elements of S as R orders them.
Lists(s, S, R) ==
    /\ s \in Seq(S)
    /\ \A x \in S : \E i \in 1..Len(s) : s[i] = x
    /\ \A i, j \in 1..Len(s) : i < j => <<s[i], s[j]>> \in R

\* There is one such list.
LEMMA OneOrder ==
    ASSUME NEW S, NEW R, Orders(R, S), NEW s, Lists(s, S, R), NEW t, Lists(t, S, R)
    PROVE  s = t
<1>0. /\ s \in Seq(S) /\ t \in Seq(S)
      /\ \A x \in S : \E i \in 1..Len(s) : s[i] = x
      /\ \A x \in S : \E i \in 1..Len(t) : t[i] = x
      /\ \A i, j \in 1..Len(s) : i < j => <<s[i], s[j]>> \in R
      /\ \A i, j \in 1..Len(t) : i < j => <<t[i], t[j]>> \in R
  BY DEF Lists
<1>1. /\ Len(s) \in Nat /\ \A i \in 1..Len(s) : s[i] \in S
      /\ Len(t) \in Nat /\ \A i \in 1..Len(t) : t[i] \in S
  BY <1>0
<1>2. /\ \A x \in S : <<x, x>> \notin R
      /\ \A x, y \in S : ~(<<x, y>> \in R /\ <<y, x>> \in R)
  BY DEF Orders
<1> DEFINE D == {i \in 1..Len(s) : i <= Len(t) /\ s[i] # t[i]}
<1>4. D = {}
  <2>1. SUFFICES ASSUME D # {} PROVE FALSE
    OBVIOUS
  <2>2. D \in SUBSET Nat
    BY <1>1
  <2> HIDE DEF D
  <2>3. PICK i \in D : \A j \in D : i <= j
    BY <2>1, <2>2, Least
  <2>4. i \in 1..Len(s) /\ i <= Len(t) /\ s[i] # t[i] /\ i \in 1..Len(t)
    BY <1>1, <2>3 DEF D
  <2>5. \A j \in 1..i - 1 : s[j] = t[j]
    <3>1. SUFFICES ASSUME NEW j \in 1..i - 1, s[j] # t[j] PROVE FALSE
      OBVIOUS
    <3>2. j \in 1..Len(s) /\ j <= Len(t) /\ ~ (i <= j)
      BY <1>1, <2>4, Earlier
    <3>. QED
      BY <2>3, <3>1, <3>2 DEF D
  <2>6. <<t[i], s[i]>> \in R
    <3>1. \A j \in 1..i - 1 : s[j] = t[j]
      BY <2>5
    <3>. QED
      BY <1>0, <1>1, <2>4, <3>1, FirstApart, Zenon
  <2>7. <<s[i], t[i]>> \in R
    <3>1. (\A j \in 1..i - 1 : t[j] = s[j]) /\ i <= Len(s) /\ t[i] # s[i]
      BY <1>1, <2>4, <2>5
    <3>. QED
      BY <1>0, <1>1, <2>4, <3>1, FirstApart, Zenon
  <2>. QED
    BY <1>1, <1>2, <2>4, <2>6, <2>7
<1>6. \A j \in 1..Len(s) : j <= Len(t) => s[j] = t[j]
  BY <1>4
<1>7. CASE Len(s) < Len(t)
  <2>1. \A j \in 1..Len(s) : s[j] = t[j]
    BY <1>1, <1>6, <1>7
  <2>. QED
    BY <1>0, <1>7, <2>1, NoneLeft
<1>8. CASE Len(t) < Len(s)
  <2>1. \A j \in 1..Len(t) : t[j] = s[j]
    BY <1>1, <1>6, <1>8
  <2>. QED
    BY <1>0, <1>8, <2>1, NoneLeft
<1>9. CASE Len(s) = Len(t)
  BY <1>0, <1>1, <1>6, <1>9, SeqEqual
<1>. QED
  BY <1>1, <1>7, <1>8, <1>9

\* The elements at some places have their order in the list; the ones at all
\* places are the list.
LEMMA AtPlacesOrder ==
    ASSUME NEW T, NEW list \in Seq(T), NEW places \in SUBSET (1..Len(list))
    PROVE  LET s == AtPlaces(list, places)
               p == InOrder(places, Below)
           IN  /\ s \in Seq(T) /\ Len(s) \in Nat
               /\ \A i \in 1..Len(s) : p[i] \in places /\ s[i] = list[p[i]]
               /\ \A k \in places : \E i \in 1..Len(s) : p[i] = k
               /\ \A i, j \in 1..Len(s) : i < j => p[i] < p[j]
               /\ places = 1..Len(list) => s = list
<1> DEFINE s     == AtPlaces(list, places)
           n     == Cardinality(places)
           order == InOrder(places, Below)
<1>1. IsFiniteSet(places) /\ places \in SUBSET Nat /\ Len(list) \in Nat
  <2>1. Len(list) \in Nat
    OBVIOUS
  <2>2. IsFiniteSet(1..Len(list))
    BY <2>1, FS_Interval
  <2>3. IsFiniteSet(places)
    BY <2>2, FS_Subset
  <2>4. \A i \in places : i \in Nat
    BY <2>1
  <2>. QED
    BY <2>1, <2>3, <2>4
<1>2. /\ order \in Seq(places) /\ Len(order) = n
      /\ \A k \in places : \E i \in 1..Len(order) : order[i] = k
      /\ \A i, j \in 1..Len(order) : i < j => Below(order[i], order[j])
  BY <1>1, NumbersOrder, Zenon
<1>3. n \in Nat
  BY <1>1, FS_CardinalityType
<1>4. s = [i \in 1..n |-> list[order[i]]]
  BY DEF AtPlaces
<1> HIDE DEF s, order, n
<1>5. \A i \in 1..n : order[i] \in places
  BY <1>2, <1>3
<1>6. \A k \in places : list[k] \in T
  OBVIOUS
<1>7. s \in [1..n -> T]
  BY <1>4, <1>5, <1>6
<1>8. s \in Seq(T) /\ Len(s) = n
  BY <1>3, <1>7
<1>9. \A i, j \in 1..n : i < j => order[i] < order[j]
  BY <1>2 DEF Below
<1>10. ASSUME places = 1..Len(list) PROVE s = list
  <2> DEFINE N == Len(list)
             R == {p \in places \X places : p[1] < p[2]}
             t == [i \in 1..N |-> i]
  <2>1. N \in Nat /\ places = 1..N /\ places \in SUBSET Nat
    BY <1>1, <1>10
  <2> HIDE DEF N
  <2>2. t \in Seq(places) /\ Len(t) = N /\ \A i \in 1..N : t[i] = i
    <3>1. t \in [1..N -> places]
      BY <2>1
    <3>. QED
      BY <2>1, <3>1
  <2> HIDE DEF t
  <2>3. \A i, j \in places : <<i, j>> \in R <=> i < j
    OBVIOUS
  <2> HIDE DEF R
  <2>4. Orders(R, places)
    BY <2>1, <2>3 DEF Orders
  <2>5. \A i, j \in 1..Len(order) : i < j => <<order[i], order[j]>> \in R
    BY <1>2, <1>5, <1>9, <2>3
  <2>6. /\ \A i, j \in 1..Len(t) : i < j => <<t[i], t[j]>> \in R
        /\ \A k \in places : \E i \in 1..Len(t) : t[i] = k
    BY <2>1, <2>2, <2>3
  <2>7. order = t
    <3>1. Lists(order, places, R)
      BY <1>2, <2>5 DEF Lists
    <3>2. Lists(t, places, R)
      BY <2>2, <2>6 DEF Lists
    <3>. QED
      BY ONLY <2>4, <3>1, <3>2, OneOrder
  <2>8. n = N
    BY <1>2, <2>2, <2>7
  <2>9. \A i \in 1..Len(s) : s[i] = list[i]
    BY <1>4, <1>8, <2>2, <2>7, <2>8
  <2>. QED
    BY <1>8, <2>8, <2>9, SeqEqual DEF N
<1>. QED
  BY <1>2, <1>3, <1>4, <1>5, <1>8, <1>9, <1>10 DEF s, order

-----------------------------------------------------------------------------

(***************************************************************************)
(* What the crate wrote of a repository passes the reader's checks.  First *)
(* its documents.                                                          *)
(***************************************************************************)

\* A list of a set's elements that is as long as there are elements.
LEMMA Enumerated ==
    ASSUME NEW S, IsFiniteSet(S), NEW s \in Seq(S), Len(s) = Cardinality(S),
           \A x \in S : \E i \in 1..Len(s) : s[i] = x
    PROVE  /\ ToSet(s) = S
           /\ \A i, j \in 1..Len(s) : s[i] = s[j] => i = j
<1> DEFINE n == Len(s)
<1>1. n \in Nat /\ DOMAIN s = 1..n /\ \A i \in 1..n : s[i] \in S
  OBVIOUS
<1>2. s \in [1..n -> S]
  BY <1>1
<1>3. ToSet(s) = S
  <2>1. ToSet(s) = {s[i] : i \in 1..n}
    BY <1>1 DEF ToSet
  <2>2. \A x \in S : \E i \in 1..n : s[i] = x
    OBVIOUS
  <2> HIDE DEF n
  <2>. QED
    BY <1>1, <2>1, <2>2
<1>4. IsFiniteSet(1..n) /\ Cardinality(1..n) = n
  <2>1. n >= 0
    BY <1>1
  <2>2. Cardinality(1..n) = n
    BY <1>1, FS_Interval
  <2>. QED
    BY <1>1, <2>2, FS_Interval
<1>5. s \in Surjection(1..n, S)
  <2>1. \A x \in S : \E i \in 1..n : s[i] = x
    OBVIOUS
  <2> HIDE DEF n
  <2>. QED
    BY <1>2, <2>1 DEF Surjection
<1>6. Cardinality(1..n) = Cardinality(S)
  BY <1>4
<1>7. s \in Injection(1..n, S)
  <2> HIDE DEF n
  <2>. QED
    BY <1>4, <1>5, <1>6, FS_SurjSameCardinalityImpliesInj
<1>8. \A i, j \in 1..n : s[i] = s[j] => i = j
  <2> HIDE DEF n
  <2>. QED
    BY <1>7 DEF Injection, IsInjective
<1>. QED
  BY <1>3, <1>8

\* The documents of a repository, as they are written.
Listing == InOrder({Recorded(path) : path \in DOMAIN documents}, ByPath)

\* The documents are listed once each, by their paths, as the reader would
\* list them.
LEMMA ListingIs ==
    ASSUME DocumentsInv
    PROVE  /\ ListsDocuments(Listing)
           /\ Len(Listing) = Cardinality(DOMAIN documents) /\ Len(Listing) \in Nat
           /\ ToSet(Listing) = {Recorded(path) : path \in DOMAIN documents}
           /\ \A i \in 1..Len(Listing) :
                 \E path \in DOMAIN documents : Listing[i] = Recorded(path)
           /\ \A i, j \in 1..Len(Listing) : Listing[i].path = Listing[j].path => i = j
           /\ DocumentPaths(Listing) = DOMAIN documents
           /\ InOrder(ToSet(Listing), ByPath) = Listing
<1> DEFINE D == DOMAIN documents
           S == {Recorded(path) : path \in D}
           s == Listing
           f == [path \in D |-> Recorded(path)]
<1>1. IsFiniteSet(D) /\ D \subseteq Paths
  BY PathsAssumption, FS_Subset DEF DocumentsInv
<1>2. \A path \in D : f[path] = Recorded(path) /\ Recorded(path).path = path
  BY DEF Recorded
<1>3. S = {f[path] : path \in D} /\ DOMAIN f = D
  OBVIOUS
<1>4. \A c \in S : c.path \in Paths /\ c.path \in D /\ c = Recorded(c.path)
  BY <1>1, <1>2
<1>5. \A c, d \in S : c.path = d.path => c = d
  BY <1>4
<1> HIDE DEF f
<1>6. f \in Bijection(D, S)
  <2>1. f \in [D -> S]
    BY <1>2, <1>3 DEF f
  <2>2. \A a, b \in D : f[a] = f[b] => a = b
    BY <1>2
  <2>3. \A c \in S : \E a \in D : f[a] = c
    BY <1>3
  <2> HIDE DEF D, S
  <2>. QED
    BY <2>1, <2>2, <2>3 DEF Bijection, Injection, Surjection, IsInjective
<1> HIDE DEF S
<1>7. IsFiniteSet(S) /\ Cardinality(S) = Cardinality(D)
  <2> HIDE DEF D
  <2>. QED
    BY <1>1, <1>6, FS_Bijection DEF ExistsBijection
<1>8. /\ s \in Seq(S) /\ Len(s) = Cardinality(S)
      /\ \A c \in S : \E i \in 1..Len(s) : s[i] = c
  <2>1. s = InOrder(S, ByPath)
    BY DEF Listing, S
  <2>2. \A c \in S : c.path \in Paths
    BY <1>4
  <2>. QED
    BY <1>5, <1>7, <2>1, <2>2, PathsOrder, Zenon
<1> HIDE DEF s
<1>9. ToSet(s) = S /\ \A i, j \in 1..Len(s) : s[i] = s[j] => i = j
  BY <1>7, <1>8, Enumerated, Zenon
<1>10. Len(s) \in Nat /\ \A i \in 1..Len(s) : s[i] \in S
  BY <1>8
<1>11. \A i, j \in 1..Len(s) : s[i].path = s[j].path => i = j
  BY <1>5, <1>9, <1>10
<1>12. \A i \in 1..Len(s) : \E path \in D : s[i] = Recorded(path)
  BY <1>10 DEF S
<1>13. DocumentPaths(s) = D
  <2>1. \A i \in 1..Len(s) : s[i].path \in D
    BY <1>4, <1>10
  <2>2. ASSUME NEW path \in D PROVE \E i \in 1..Len(s) : path = s[i].path
    <3>1. Recorded(path) \in S
      BY DEF S
    <3>2. PICK i \in 1..Len(s) : s[i] = Recorded(path)
      BY <1>8, <3>1
    <3>. QED
      BY <1>2, <3>2
  <2> HIDE DEF D
  <2>. QED
    BY <2>1, <2>2 DEF DocumentPaths
<1>14. InOrder(ToSet(s), ByPath) = s
  BY <1>9 DEF s, S, Listing
<1>15. \A c \in S : DocumentFormed(c)
  <2>1. ASSUME NEW path \in D PROVE DocumentFormed(Recorded(path))
    <3>1. Sizes[path] \in Nat
      BY <1>1, InputsAssumption
    <3>. QED
      BY <1>1, <3>1 DEF DocumentFormed, DocumentFields, Recorded
  <2>. QED
    BY <2>1 DEF S
<1>16. ListsDocuments(s)
  BY <1>8, <1>9, <1>15 DEF ListsDocuments
<1>. QED
  BY <1>7, <1>8, <1>9, <1>10, <1>11, <1>12, <1>13, <1>14, <1>16 DEF s, S, D

\* The documents of a repository pass the checks of a manifest: the limits
\* that they kept when it was built are those of the reader.
LEMMA ListingIsRead ==
    ASSUME DocumentsInv, LimitsInv, \A path \in DOMAIN documents : ~SensitivePath(path)
    PROVE  DocumentsCheck(Listing) = "ok" /\ ~(Len(Listing) > MaxDocuments)
<1> DEFINE D == DOMAIN documents
           s == Listing
           P == UNION {Ancestors(path) : path \in D}
<1>1. /\ ListsDocuments(s) /\ Len(s) = Cardinality(D) /\ Len(s) \in Nat
      /\ \A i \in 1..Len(s) : \E path \in D : s[i] = Recorded(path)
      /\ \A i, j \in 1..Len(s) : s[i].path = s[j].path => i = j
      /\ DocumentPaths(s) = D
  BY ListingIs
<1>2. /\ \A path \in D : Portable(path) /\ Recognized(path) /\ Sizes[path] <= MaxSource
      /\ ~Collides(D, P)
      /\ EntryCount(D, P) <= MaxEntries
      /\ Cardinality(D) <= MaxDocuments
      /\ TotalBytes(s) <= MaxBytes
  BY DEF LimitsInv, Constructible, Listing
<1> HIDE DEF s
<1>3. Above(s) = P
  BY <1>1 DEF Above
<1>4. \A path \in D : Sizes[path] \in Nat
  BY InputsAssumption DEF DocumentsInv
<1>5. \A i \in 1..Len(s) : DocumentAlone(s[i])
  <2>1. ASSUME NEW path \in D PROVE DocumentAlone(Recorded(path))
    <3>1. ~(Sizes[path] > MaxSource)
      BY <1>2, <1>4, InputsAssumption
    <3>2. /\ Recorded(path).path = path /\ Recorded(path).kind = Name(path)
          /\ Recorded(path).digest = "hex" /\ Recorded(path).size = Sizes[path]
      BY DEF Recorded
    <3>. QED
      BY <1>2, <3>1, <3>2 DEF DocumentAlone
  <2>. QED
    BY <1>1, <2>1
<1>6. Len(s) + Cardinality(Above(s)) <= MaxEntries
  BY <1>1, <1>2, <1>3 DEF EntryCount
<1>7. DocumentsOk(s)
  BY <1>1, <1>2, <1>3, <1>5, <1>6 DEF DocumentsOk
<1>8. ~(Len(s) > MaxDocuments)
  BY <1>1, <1>2, LimitsAssumption
<1>. QED
  BY <1>1, <1>7, <1>8, DocumentsAre DEF s

(***************************************************************************)
(* Its findings.                                                           *)
(***************************************************************************)

\* What a finding has before it is redacted.
Presentable(f) ==
    /\ FindingFormed(f)
    /\ f.document_path = None \/ f.document_path[1] \in DOMAIN documents
    /\ f.related_path = None \/ Portable(f.related_path[1])
    /\ ~Of(f.json_path, LongPointer) /\ ~Of(f.json_path, NotPointer)
    /\ f.message \notin LongTexts
    /\ ExpectedLevel(f.code) \in {None, Some(f.level)}

\* A path that is portable and not sensitive passes.
LEMMA PathPasses ==
    ASSUME NEW option, NEW kind, option # None => Portable(option[1]), ~Of(option, SensitivePath)
    PROVE  PathCheck(option, kind) = "ok"
<1>1. CASE option = None
  BY <1>1 DEF PathCheck
<1>2. CASE option # None
  <2>1. ~SensitivePath(option[1]) /\ Portable(option[1])
    BY <1>2 DEF Of
  <2> DEFINE checks == <<Check(SensitivePath(option[1]), "SensitiveContent"),
                         Check(~Portable(option[1]), kind)>>
  <2>2. PathCheck(option, kind) = First(checks)
    BY <1>2 DEF PathCheck
  <2>3. Len(checks) = 2 /\ checks[1] = "ok" /\ checks[2] = "ok"
    BY <2>1 DEF Check
  <2> HIDE DEF checks
  <2>4. Len(checks) \in Nat /\ \A i \in 1..Len(checks) : checks[i] = "ok"
    BY <2>3
  <2>. QED
    BY <2>2, <2>4, FirstIff
<1>. QED
  BY <1>1, <1>2

\* A finding passes its checks once it is redacted.
LEMMA FindingIsRead ==
    ASSUME LimitsInv, NEW f, Presentable(f)
    PROVE  LET g == RedactFinding(f)
           IN  /\ FindingPaths(g) = "ok" /\ FindingCheck(g) = "ok" /\ ~SensitiveFinding(g)
               /\ g.document_path # None => g.document_path[1] \in DOMAIN documents
<1> DEFINE g == RedactFinding(f)
<1>1. /\ g.code = f.code /\ g.level = f.level
      /\ ~SensitiveMessage(g.message) /\ ~Of(g.document_path, SensitivePath)
      /\ ~Of(g.related_path, SensitivePath) /\ ~Of(g.json_path, SensitivePointer)
      /\ \/ g = f
         \/ /\ g.message = RedactedMessage
            /\ g.document_path \in {None, f.document_path}
            /\ g.related_path \in {None, f.related_path}
            /\ g.json_path \in {None, f.json_path}
  BY RedactFindingIs DEF Presentable
<1> HIDE DEF g
<1>2. /\ g.message \in {RedactedMessage, f.message}
      /\ g.document_path \in {None, f.document_path}
      /\ g.related_path \in {None, f.related_path}
      /\ g.json_path \in {None, f.json_path}
  BY <1>1
<1>3. g.document_path # None =>
         g.document_path[1] \in DOMAIN documents /\ Portable(g.document_path[1])
  BY <1>2 DEF Presentable, LimitsInv, Constructible
<1>4. g.related_path # None => Portable(g.related_path[1])
  BY <1>2 DEF Presentable
<1>5. ASSUME NEW option, NEW kind, option # None => Portable(option[1]), ~Of(option, SensitivePath)
      PROVE  PathCheck(option, kind) = "ok"
  BY <1>5, PathPasses
<1>6. FindingPaths(g) = "ok"
  <2> DEFINE checks == <<PathCheck(g.document_path, "InvalidDiagnosticPath"),
                         PathCheck(g.related_path, "InvalidDiagnosticPath")>>
  <2>1. Len(checks) = 2 /\ checks[1] = "ok" /\ checks[2] = "ok"
    BY <1>1, <1>3, <1>4, <1>5
  <2>2. FindingPaths(g) = First(checks)
    BY DEF FindingPaths
  <2> HIDE DEF checks
  <2>3. Len(checks) \in Nat /\ \A i \in 1..Len(checks) : checks[i] = "ok"
    BY <2>1
  <2>. QED
    BY <2>2, <2>3, FirstIff
<1>7. FindingCheck(g) = "ok"
  <2>1. g.message \notin LongTexts
    BY <1>2, LimitsKept DEF Presentable
  <2>2. ~Of(g.json_path, LongPointer) /\ ~Of(g.json_path, NotPointer)
    <3>1. ~Of(None, LongPointer) /\ ~Of(None, NotPointer)
      BY DEF Of
    <3>. QED
      BY <1>2, <3>1 DEF Presentable
  <2>3. ~(ExpectedLevel(g.code) # None /\ ExpectedLevel(g.code) # Some(g.level))
    BY <1>1 DEF Presentable
  <2> DEFINE checks == <<Check(g.message \in LongTexts, "DiagnosticTextTooLarge"),
                         Check(Of(g.json_path, LongPointer), "DiagnosticTextTooLarge"),
                         Check(Of(g.json_path, NotPointer), "InvalidDiagnosticJsonPointer"),
                         Check(ExpectedLevel(g.code) # None /\ ExpectedLevel(g.code) # Some(g.level),
                               "InvalidDiagnosticLevel")>>
  <2>4. /\ Len(checks) = 4 /\ checks[1] = "ok" /\ checks[2] = "ok"
        /\ checks[3] = "ok" /\ checks[4] = "ok"
    BY <2>1, <2>2, <2>3 DEF Check
  <2>5. FindingCheck(g) = First(checks)
    BY DEF FindingCheck
  <2> HIDE DEF checks
  <2>6. Len(checks) \in Nat /\ \A i \in 1..Len(checks) : checks[i] = "ok"
    BY <2>4
  <2>. QED
    BY <2>5, <2>6, FirstIff
<1>8. ~SensitiveFinding(g)
  BY <1>1 DEF SensitiveFinding
<1>. QED
  BY <1>3, <1>6, <1>7, <1>8 DEF g

\* What the crate finds itself.
LEMMA OwnFindings ==
    ASSUME DocumentsInv, FindingsInv, LimitsInv
    PROVE  /\ \A f \in ToSet(NormalizationFinding) \cup ToSet(Omission) : Presentable(f)
           /\ \A i \in 1..Len(findings) : Presentable(findings[i])
           /\ Len(NormalizationFinding) + Len(Omission) <= 1
           /\ Len(NormalizationFinding) \in Nat /\ Len(Omission) \in Nat
           /\ NormalizationFinding \in Seq(ToSet(NormalizationFinding))
           /\ Omission \in Seq(ToSet(Omission))
<1>1. ASSUME NEW level, NEW code \in WriterCodes, NEW option,
             option = None \/ option[1] \in DOMAIN documents,
             ExpectedLevel(code) \in {None, Some(level)}
      PROVE  Presentable(Finding(level, code, option))
  <2> DEFINE f == Finding(level, code, option)
  <2>1. /\ f.level = level /\ f.code = code /\ f.message = <<code>> /\ f.document_path = option
        /\ f.json_path = None /\ f.related_path = None /\ FindingFormed(f)
    BY DEF Finding, FindingFormed
  <2> HIDE DEF f
  <2>2. <<code>> \notin LongTexts
    BY LimitsKept
  <2>3. ~Of(None, LongPointer) /\ ~Of(None, NotPointer)
    BY DEF Of
  <2>. QED
    BY <1>1, <2>1, <2>2, <2>3 DEF Presentable, f
<1>2. RootPath(documents) = None \/ RootPath(documents)[1] \in DOMAIN documents
  BY DEF RootPath, Some
<1>3. /\ NormalizationFinding = <<>> \/ \E f : Presentable(f) /\ NormalizationFinding = <<f>>
      /\ Normalize(documents)[1] = "ok" => NormalizationFinding = <<>>
  <2>1. CASE Normalize(documents)[1] = "ok"
    BY <2>1 DEF NormalizationFinding
  <2>2. CASE Normalize(documents)[1] # "ok"
    <3> DEFINE code == Normalize(documents)[2]
    <3>1. NormalizationFinding = <<Finding("error", code, RootPath(documents))>>
      BY <2>2 DEF NormalizationFinding
    <3>2. code \in {"MissingRootConfig", "DuplicateKeys", "ExpectedObject", "MissingArchitecture"}
      <4> DEFINE root         == RootPath(documents)[1]
                 document     == documents[root]
                 architecture == TakeArchitecture(document.json[2], root)
                 config       == Configuration(document.json[2], root, architecture[1])
      <4>1. Normalize(documents) =
              IF RootPath(documents) = None THEN <<"error", "MissingRootConfig">>
              ELSE IF document.repeated THEN <<"error", "DuplicateKeys">>
              ELSE IF document.json[1] # "object" THEN <<"error", "ExpectedObject">>
              ELSE IF architecture = None THEN <<"error", "MissingArchitecture">>
              ELSE <<"ok", config>>
        BY DEF Normalize
      <4> HIDE DEF architecture, config, document
      <4>. QED
        BY <2>2, <4>1
    <3>3. code \in WriterCodes
      BY <3>2 DEF WriterCodes
    <3>4. ExpectedLevel(code) = Some("error")
      BY <3>2 DEF ExpectedLevel
    <3> HIDE DEF code
    <3>. QED
      BY <1>1, <1>2, <2>2, <3>1, <3>3, <3>4
  <2>. QED
    BY <2>1, <2>2
<1>4. /\ Omission = <<>> \/ \E f : Presentable(f) /\ Omission = <<f>>
      /\ Normalize(documents)[1] # "ok" => Omission = <<>>
  <2>1. CASE Omission = <<>>
    BY <2>1
  <2>2. CASE Omission # <<>>
    <3> DEFINE option == Some(Normalize(documents)[2].source_path)
    <3>1. /\ Normalize(documents)[1] = "ok"
          /\ Omission = <<OmittedFinding(Normalize(documents)[2].source_path)>>
      BY <2>2 DEF Omission
    <3>2. Omission = <<Finding("warning", "manifest_sensitive_data_omitted", option)>>
      BY <3>1 DEF OmittedFinding
    <3>3. option[1] \in DOMAIN documents
      BY <3>1, NormalizeIs, ConfigurationIs DEF Some
    <3> HIDE DEF option
    <3>4. ExpectedLevel("manifest_sensitive_data_omitted") = Some("warning")
      BY DEF ExpectedLevel
    <3>5. "manifest_sensitive_data_omitted" \in WriterCodes
      BY DEF WriterCodes
    <3>. QED
      BY <1>1, <3>1, <3>2, <3>3, <3>4, <3>5
  <2>. QED
    BY <2>1, <2>2
<1>5. ASSUME NEW s, s = <<>> \/ \E f : Presentable(f) /\ s = <<f>>
      PROVE  /\ \A f \in ToSet(s) : Presentable(f)
             /\ Len(s) \in 0..1 /\ (s = <<>> => Len(s) = 0)
             /\ s \in Seq(ToSet(s))
  <2>1. CASE s = <<>>
    BY <2>1 DEF ToSet
  <2>2. ASSUME NEW f, Presentable(f), s = <<f>>
        PROVE  /\ \A g \in ToSet(s) : Presentable(g)
               /\ Len(s) \in 0..1 /\ (s = <<>> => Len(s) = 0)
               /\ s \in Seq(ToSet(s))
    <3>1. ToSet(s) = {f} /\ Len(s) = 1 /\ s # <<>>
      BY <2>2 DEF ToSet
    <3>2. s \in Seq({f})
      BY <2>2
    <3>. QED
      BY <2>2, <3>1, <3>2
  <2>. QED
    BY <1>5, <2>1, <2>2
<1>6. /\ \A f \in ToSet(NormalizationFinding) \cup ToSet(Omission) : Presentable(f)
      /\ Len(NormalizationFinding) \in 0..1 /\ Len(Omission) \in 0..1
      /\ NormalizationFinding = <<>> => Len(NormalizationFinding) = 0
      /\ Omission = <<>> => Len(Omission) = 0
      /\ NormalizationFinding \in Seq(ToSet(NormalizationFinding))
      /\ Omission \in Seq(ToSet(Omission))
  BY <1>3, <1>4, <1>5
<1>7. Len(NormalizationFinding) + Len(Omission) <= 1
  <2> DEFINE a == Len(NormalizationFinding)
             c == Len(Omission)
  <2>1. a = 0 \/ c = 0
    BY <1>3, <1>4, <1>6
  <2>2. a \in 0..1 /\ c \in 0..1
    BY <1>6
  <2> HIDE DEF a, c
  <2>3. a + c <= 1
    BY <2>1, <2>2
  <2>. QED
    BY <2>3 DEF a, c
<1>8. ASSUME NEW i \in 1..Len(findings)
      PROVE  Presentable(findings[i])
  <2>1. findings[i] \in Reports
    BY DEF FindingsInv
  <2>2. FindingFormed(findings[i])
    BY <2>1, ReportsAssumption DEF FindingFormed
  <2>3. /\ ExpectedLevel(findings[i].code) \in {None, Some(findings[i].level)}
        /\ findings[i].message \notin LongTexts
        /\ ~Of(findings[i].json_path, LongPointer) /\ ~Of(findings[i].json_path, NotPointer)
        /\ findings[i].related_path = None \/ Portable(findings[i].related_path[1])
    BY <2>1, LimitsKept
  <2>4. findings[i].document_path = None \/ findings[i].document_path[1] \in DOMAIN documents
    BY DEF LimitsInv
  <2>. QED
    BY <2>2, <2>3, <2>4 DEF Presentable
<1>. QED
  BY <1>6, <1>7, <1>8

\* All of it, as it is written.
LEMMA FindingsAreRead ==
    ASSUME DocumentsInv, FindingsInv, LimitsInv
    PROVE  LET s == Sorted(Shortened)
           IN  /\ s \in Seq(ToSet(s)) /\ Len(s) \in Nat /\ Len(s) <= MaxFindings
               /\ Sorted(s) = s
               /\ \A i \in 1..Len(s) :
                     /\ FindingPaths(s[i]) = "ok" /\ FindingCheck(s[i]) = "ok"
                     /\ ~SensitiveFinding(s[i])
                     /\ s[i].document_path # None => s[i].document_path[1] \in DOMAIN documents
<1> DEFINE a == NormalizationFinding
           b == findings
           c == Omission
           T == {RedactFinding(AllFindings[i]) : i \in 1..Len(AllFindings)}
           s == Sorted(Shortened)
<1>1. AllFindings = (a \o b) \o c
  BY DEF AllFindings
<1>2. AllFindings \in Seq(AllReports)
  BY FindingsAre
<1>3. a \in Seq(AllReports) /\ b \in Seq(AllReports) /\ c \in Seq(AllReports)
  <2>1. a \in Seq(ToSet(a))
    BY OwnFindings
  <2>2. c \in Seq(ToSet(c))
    BY OwnFindings
  <2> HIDE DEF a, c
  <2>3. a \in Seq(AllReports) /\ c \in Seq(AllReports)
    BY <2>1, <2>2 DEF AllReports, a, c
  <2>. QED
    BY <2>3 DEF FindingsInv, AllReports
<1>4. /\ \A i \in 1..Len(a) : Presentable(a[i])
      /\ \A i \in 1..Len(c) : Presentable(c[i])
      /\ \A i \in 1..Len(b) : Presentable(b[i])
      /\ Len(a) + Len(c) <= 1 /\ Len(a) \in Nat /\ Len(c) \in Nat /\ Len(b) \in Nat
      /\ Len(b) <= MaxFindings - 1
  <2>1. (\A i \in 1..Len(a) : a[i] \in ToSet(a)) /\ (\A i \in 1..Len(c) : c[i] \in ToSet(c))
    <3>1. DOMAIN a = 1..Len(a) /\ DOMAIN c = 1..Len(c)
      BY <1>3
    <3> HIDE DEF a, c
    <3>. QED
      BY <3>1 DEF ToSet
  <2>2. Len(b) \in Nat
    BY <1>3
  <2>. QED
    BY <2>1, <2>2, OwnFindings DEF LimitsInv
<1> HIDE DEF a, b, c
<1>5. Len(AllFindings) = Len(a) + Len(b) + Len(c)
  BY <1>1, <1>3
<1>6. \A i \in 1..Len(AllFindings) :
         \/ i \in 1..Len(a) /\ AllFindings[i] = a[i]
         \/ i - Len(a) \in 1..Len(b) /\ AllFindings[i] = b[i - Len(a)]
         \/ i - Len(a) - Len(b) \in 1..Len(c) /\ AllFindings[i] = c[i - Len(a) - Len(b)]
  BY <1>1, <1>3, <1>4
<1>7. \A i \in 1..Len(AllFindings) : Presentable(AllFindings[i])
  BY <1>4, <1>6
<1>8. Len(AllFindings) \in Nat /\ Len(AllFindings) <= MaxFindings
  BY <1>4, <1>5, InputsAssumption
<1>9. /\ Shortened \in [1..Len(AllFindings) -> T]
      /\ \A i \in 1..Len(AllFindings) : Shortened[i] = RedactFinding(AllFindings[i])
  BY DEF Shortened
<1>10. Shortened \in Seq(T) /\ Len(Shortened) = Len(AllFindings)
  <2> HIDE DEF T
  <2>. QED
    BY <1>8, <1>9
<1>11. Rearranges(s, Shortened) /\ Sorted(s) = s
  <2>1. Rearranges(s, Shortened)
    BY <1>10, SortedRearranges
  <2>. QED
    BY <1>10, <2>1, SortedForgets
<1> HIDE DEF s, T
<1>12. s \in Seq(T) /\ Len(s) = Len(Shortened)
  BY <1>10, <1>11, RearrangedIs
<1>13. ASSUME NEW i \in 1..Len(s)
       PROVE  /\ FindingPaths(s[i]) = "ok" /\ FindingCheck(s[i]) = "ok"
              /\ ~SensitiveFinding(s[i])
              /\ s[i].document_path # None => s[i].document_path[1] \in DOMAIN documents
  <2>1. s[i] \in T
    BY <1>12
  <2>2. PICK k \in 1..Len(AllFindings) : s[i] = RedactFinding(AllFindings[k])
    BY <2>1 DEF T
  <2>. QED
    BY <1>7, <2>2, FindingIsRead
<1>14. s \in Seq(ToSet(s)) /\ Len(s) \in Nat /\ Len(s) <= MaxFindings
  BY <1>8, <1>10, <1>12, ListFormed
<1>. QED
  BY <1>11, <1>13, <1>14 DEF s

(***************************************************************************)
(* The defaults of its record.  Components sort by their names, defaults   *)
(* by their fields, in which a slash follows the name.                     *)
(***************************************************************************)

\* Three by three, for a function defined as FlattenSeq defines its own.
LEMMA ThreeSums ==
    ASSUME NEW s, NEW f, f = [i \in 1..3 |-> IF i = 1 THEN s[i] ELSE f[i - 1] \o s[i]]
    PROVE  f[3] = (s[1] \o s[2]) \o s[3]
<1>1. \A i \in 1..3 : f[i] = IF i = 1 THEN s[i] ELSE f[i - 1] \o s[i]
  OBVIOUS
<1>2. 1 \in 1..3 /\ 2 \in 1..3 /\ 3 \in 1..3 /\ 2 # 1 /\ 3 # 1 /\ 2 - 1 = 1 /\ 3 - 1 = 2
  OBVIOUS
<1>3. f[1] = s[1]
  BY ONLY <1>1, <1>2
<1>4. f[2] = f[2 - 1] \o s[2] /\ f[3] = f[3 - 1] \o s[3]
  BY ONLY <1>1, <1>2
<1>. QED
  BY ONLY <1>2, <1>3, <1>4

\* The three sums of a concatenation exist.
LEMMA SumsExist ==
    ASSUME NEW s
    PROVE  \E f : f = [i \in 1..3 |-> IF i = 1 THEN s[i] ELSE f[i - 1] \o s[i]]
<1> DEFINE F(i) == IF i = 1 THEN s[1] ELSE IF i = 2 THEN s[1] \o s[2] ELSE (s[1] \o s[2]) \o s[3]
           f == [i \in 1..3 |-> F(i)]
           g == [i \in 1..3 |-> IF i = 1 THEN s[i] ELSE f[i - 1] \o s[i]]
<1>1. F(1) = s[1] /\ F(2) = s[1] \o s[2] /\ F(3) = (s[1] \o s[2]) \o s[3]
  OBVIOUS
<1> HIDE DEF F
<1>2. f[1] = F(1) /\ f[2] = F(2) /\ f[3] = F(3)
  OBVIOUS
<1> HIDE DEF f
<1>3. ASSUME NEW i \in 1..3
      PROVE  F(i) = IF i = 1 THEN s[i] ELSE f[i - 1] \o s[i]
  <2>1. i = 1 \/ i = 2 \/ i = 3
    OBVIOUS
  <2>2. 2 # 1 /\ 3 # 1 /\ 2 - 1 = 1 /\ 3 - 1 = 2
    OBVIOUS
  <2>3. CASE i = 1
    BY ONLY <2>3, <1>1
  <2>4. CASE i = 2
    BY ONLY <2>2, <2>4, <1>1, <1>2
  <2>5. CASE i = 3
    BY ONLY <2>2, <2>5, <1>1, <1>2
  <2>. QED
    BY ONLY <2>1, <2>3, <2>4, <2>5
<1>4. f = g
  BY <1>3 DEF f
<1>. QED
  BY <1>4

\* A list of three lists is their concatenation.
LEMMA FlattenThree ==
    ASSUME NEW s, Len(s) = 3
    PROVE  FlattenSeq(s) = (s[1] \o s[2]) \o s[3]
<1> DEFINE Sums(f) == f = [i \in 1..3 |-> IF i = 1 THEN s[i] ELSE f[i - 1] \o s[i]]
           f        == CHOOSE f : Sums(f)
<1>1. FlattenSeq(s) = f[3]
  BY DEF FlattenSeq
<1>2. Sums(f)
  <2>1. \E x : Sums(x)
    BY SumsExist
  <2> HIDE DEF Sums
  <2>. QED
    BY <2>1
<1> HIDE DEF f
<1>. QED
  BY <1>1, <1>2, ThreeSums

\* The bytes of the field of a default.
LEMMA FieldBytesAre ==
    ASSUME NEW name
    PROVE  FieldBytes(Field(name)) =
              ((<<Slash>> \o Bytes(<<"components">>)) \o (<<Slash>> \o Bytes(name)))
                 \o (<<Slash>> \o Bytes(<<"path">>))
<1> DEFINE path == <<<<"components">>, name, <<"path">>>>
           x == <<Slash>> \o Bytes(<<"components">>)
           y == <<Slash>> \o Bytes(name)
           z == <<Slash>> \o Bytes(<<"path">>)
           s == [i \in 1..3 |-> <<Slash>> \o Bytes(path[i])]
<1>1. Len(path) = 3 /\ path[1] = <<"components">> /\ path[2] = name /\ path[3] = <<"path">>
  OBVIOUS
<1>2. FieldBytes(Field(name)) = FlattenSeq(s)
  <2>1. Field(name)[1] = "pointer" /\ Field(name)[2] = path
    BY DEF Field
  <2>. QED
    BY <1>1, <2>1 DEF FieldBytes
<1>3. s[1] = x /\ s[2] = y /\ s[3] = z
  BY <1>1
<1>4. Len(s) = 3
  OBVIOUS
<1> HIDE DEF x, y, z, s
<1>5. FlattenSeq(s) = (x \o y) \o z
  BY <1>3, <1>4, FlattenThree
<1>. QED
  BY <1>2, <1>5 DEF x, y, z

\* a precedes b; between the same bytes and with a slash behind, it does so
\* still, unless b goes on where a ends with a byte below the slash.
Overtakes(a, b) == StartsAs(a, b) /\ b[Len(a) + 1] < Slash

\* a lies behind the first k bytes of v, and a slash behind it.
Wraps(v, k, a) ==
    /\ Len(v) > k + Len(a) /\ v[k + Len(a) + 1] = Slash
    /\ \A i \in 1..Len(a) : v[k + i] = a[i]

\* Two sequences start with the same k bytes.
SameStart(v, w, k) == \A i \in 1..k : v[i] = w[i]

\* A name without a slash.
NoSlash(b) == \A i \in 1..Len(b) : b[i] # Slash

\* Two sequences that start alike and go on alike start alike for longer.
LEMMA StartsLonger ==
    ASSUME NEW a \in Seq(Nat), NEW b \in Seq(Nat), NEW k \in Nat,
           NEW v \in Seq(Nat), NEW w \in Seq(Nat),
           Wraps(v, k, a), Wraps(w, k, b), SameStart(v, w, k),
           NEW n \in Nat, SameStart(a, b, n), n <= Len(a), n <= Len(b)
    PROVE  SameStart(v, w, k + n)
<1>1. SUFFICES ASSUME NEW j \in 1..k + n PROVE v[j] = w[j]
  BY DEF SameStart
<1>2. CASE j \in 1..k
  BY <1>2 DEF SameStart
<1>3. CASE j \notin 1..k
  <2>1. Len(a) \in Nat /\ Len(b) \in Nat
    BY Elements
  <2> DEFINE m == j - k
  <2>2. m \in 1..n /\ j = k + m /\ m \in 1..Len(a) /\ m \in 1..Len(b)
    BY <1>3, <2>1
  <2> HIDE DEF m
  <2>3. v[k + m] = a[m] /\ w[k + m] = b[m] /\ a[m] = b[m]
    BY <2>2 DEF Wraps, SameStart
  <2>. QED
    BY <2>2, <2>3
<1>. QED
  BY <1>2, <1>3

\* Where names differ, the sequences that hold them differ the same way.
LEMMA LessBehind ==
    ASSUME NEW a \in Seq(Nat), NEW b \in Seq(Nat), NEW k \in Nat,
           NEW v \in Seq(Nat), NEW w \in Seq(Nat),
           Wraps(v, k, a), Wraps(w, k, b), SameStart(v, w, k),
           NEW i \in 1..Len(a), i <= Len(b), LessAt(a, b, i)
    PROVE  Before(v, w)
<1>1. /\ Len(a) \in Nat /\ Len(b) \in Nat /\ Len(v) \in Nat /\ Len(w) \in Nat
  BY Elements
<1> DEFINE n == i - 1
<1>2. /\ i \in Nat /\ n \in Nat /\ n <= Len(a) /\ n <= Len(b) /\ i \in 1..Len(b)
      /\ i \in 1..Len(a) /\ k + i - 1 = k + n
  BY <1>1
<1> HIDE DEF n
<1>3. SameStart(a, b, n) /\ a[i] < b[i]
  BY DEF LessAt, SameStart, n
<1>4. SameStart(v, w, k + n)
  BY <1>2, <1>3, StartsLonger
<1>5. v[k + i] < w[k + i]
  <2>1. v[k + i] = a[i] /\ w[k + i] = b[i]
    BY <1>2 DEF Wraps
  <2>. QED
    BY <1>3, <2>1
<1>6. LessAt(v, w, k + i)
  BY <1>2, <1>4, <1>5 DEF LessAt, SameStart
<1>7. k + i \in 1..Len(v) /\ k + i <= Len(w)
  <2>1. Len(v) > k + Len(a) /\ Len(w) > k + Len(b) /\ i <= Len(a) /\ i <= Len(b)
    BY <1>2 DEF Wraps
  <2>2. k \in Nat /\ i \in Nat /\ 1 <= i
    BY <1>2
  <2>3. \A x, y, z \in Nat : z > k + x /\ i <= x => k + i <= z
    BY ONLY <2>2
  <2>4. k + i <= Len(v) /\ k + i <= Len(w)
    BY ONLY <1>1, <2>1, <2>3
  <2>. QED
    BY ONLY <1>1, <2>2, <2>4
<1>. QED
  BY <1>6, <1>7, BeforeIs

\* A slash behind two names keeps their order, unless one goes on where the
\* other ends, with a byte below the slash.
LEMMA WrappedOrder ==
    ASSUME NEW a \in Seq(Nat), NEW b \in Seq(Nat), NEW k \in Nat,
           NEW v \in Seq(Nat), NEW w \in Seq(Nat),
           Wraps(v, k, a), Wraps(w, k, b), SameStart(v, w, k), NoSlash(b)
    PROVE  /\ Before(a, b) => Before(v, w) \/ Overtakes(a, b)
           /\ Overtakes(a, b) => Before(w, v)
<1>1. /\ Len(a) \in Nat /\ Len(b) \in Nat /\ Len(v) \in Nat /\ Len(w) \in Nat
      /\ \A i \in 1..Len(b) : b[i] \in Nat
  BY Elements, Zenon
<1>2. Slash \in Nat
  BY DEF Slash
<1>3. k \in Nat
  OBVIOUS
<1> DEFINE p == k + Len(a) + 1
<1>4. ASSUME StartsAs(a, b)
      PROVE  /\ \A j \in 1..p - 1 : v[j] = w[j]
             /\ v[p] = Slash /\ w[p] = b[Len(a) + 1]
             /\ b[Len(a) + 1] \in Nat /\ b[Len(a) + 1] # Slash
             /\ p \in 1..Len(v) /\ p \in 1..Len(w) /\ p <= Len(v) /\ p <= Len(w)
  <2>1. Len(a) < Len(b) /\ SameStart(a, b, Len(a))
    BY <1>4 DEF StartsAs, SameStart
  <2>2. SameStart(v, w, k + Len(a))
    <3>1. Len(a) <= Len(a) /\ Len(a) <= Len(b)
      BY ONLY <1>1, <2>1
    <3>. QED
      BY <1>1, <2>1, <3>1, StartsLonger
  <2>3. Len(a) + 1 \in 1..Len(b) /\ p - 1 = k + Len(a) /\ k + (Len(a) + 1) = p
    BY ONLY <1>1, <1>3, <2>1
  <2>4. v[p] = Slash /\ w[p] = b[Len(a) + 1] /\ b[Len(a) + 1] \in Nat /\ b[Len(a) + 1] # Slash
    BY <1>1, <2>3 DEF Wraps, NoSlash
  <2>5. Len(v) > k + Len(a) /\ Len(w) > k + Len(b)
    BY DEF Wraps
  <2>6. p \in 1..Len(v) /\ p \in 1..Len(w) /\ p <= Len(v) /\ p <= Len(w)
    BY ONLY <1>1, <1>3, <2>1, <2>5
  <2>. QED
    BY <2>2, <2>3, <2>4, <2>6 DEF SameStart
<1> HIDE DEF p
<1>5. ASSUME StartsAs(a, b), ~(b[Len(a) + 1] < Slash)
      PROVE  Before(v, w)
  <2>1. Slash < b[Len(a) + 1]
    BY <1>2, <1>4, <1>5
  <2>2. LessAt(v, w, p)
    BY <1>4, <1>5, <2>1 DEF LessAt
  <2>. QED
    BY <1>4, <1>5, <2>2, BeforeIs
<1>6. ASSUME StartsAs(a, b), b[Len(a) + 1] < Slash
      PROVE  Before(w, v)
  <2>1. LessAt(w, v, p)
    BY <1>4, <1>6 DEF LessAt
  <2>. QED
    BY <1>4, <1>6, <2>1, BeforeIs
<1>7. Before(a, b) => StartsAs(a, b) \/ \E i \in 1..Len(a) : i <= Len(b) /\ LessAt(a, b, i)
  BY BeforeIs
<1>8. ASSUME NEW i \in 1..Len(a), i <= Len(b), LessAt(a, b, i)
      PROVE  Before(v, w)
  BY <1>8, LessBehind
<1>. QED
  BY <1>5, <1>6, <1>7, <1>8 DEF Overtakes

\* The elements of a concatenation.
LEMMA ElementsJoined ==
    ASSUME NEW T, NEW s \in Seq(T), NEW t \in Seq(T)
    PROVE  /\ s \o t \in Seq(T) /\ Len(s \o t) = Len(s) + Len(t)
           /\ Len(s) \in Nat /\ Len(t) \in Nat
           /\ \A i \in 1..Len(s) + Len(t) :
                 (s \o t)[i] = IF i <= Len(s) THEN s[i] ELSE t[i - Len(s)]
OBVIOUS

\* The fields of two names are in the order of the names, unless one
\* overtakes the other.
LEMMA FieldOrder ==
    ASSUME NEW m \in Nameable, NEW n \in Nameable, SafeName(m), SafeName(n)
    PROVE  LET a == Bytes(m)
               b == Bytes(n)
               v == FieldBytes(Field(m))
               w == FieldBytes(Field(n))
           IN  /\ Before(a, b) => Before(v, w) \/ Overtakes(a, b)
               /\ Overtakes(a, b) => Before(w, v)
<1> DEFINE C == Bytes(<<"components">>)
           P == Bytes(<<"path">>)
           a == Bytes(m)
           b == Bytes(n)
           F(x) == ((<<Slash>> \o C) \o (<<Slash>> \o x)) \o (<<Slash>> \o P)
<1>1. /\ C \in Seq(Nat) /\ P \in Seq(Nat) /\ a \in Seq(Nat) /\ b \in Seq(Nat)
      /\ Slash \notin ToSet(a) /\ Slash \notin ToSet(b)
  BY BytesAssumption
<1>2. FieldBytes(Field(m)) = F(a) /\ FieldBytes(Field(n)) = F(b)
  BY FieldBytesAre
<1>3. Slash \in Nat
  BY DEF Slash
<1> HIDE DEF C, P, a, b
<1> DEFINE k == Len(C) + 2
           head == (<<Slash>> \o C) \o <<Slash>>
<1>4. ASSUME NEW x \in Seq(Nat)
      PROVE  /\ F(x) \in Seq(Nat) /\ Wraps(F(x), k, x)
             /\ SameStart(F(x), head, k)
  <2> DEFINE s == <<Slash>> \o C
             t == <<Slash>> \o x
             u == <<Slash>> \o P
             r == s \o t
             f == r \o u
  <2>1. <<Slash>>[1] = Slash /\ <<Slash>> \in Seq(Nat) /\ Len(<<Slash>>) = 1
    BY <1>3
  <2>2. s \in Seq(Nat) /\ Len(s) = 1 + Len(C) /\ Len(C) \in Nat
    BY <1>1, <2>1, ElementsJoined, Zenon
  <2>3. /\ t \in Seq(Nat) /\ Len(t) = 1 + Len(x) /\ Len(x) \in Nat
        /\ \A i \in 1..1 + Len(x) : t[i] = IF i <= 1 THEN <<Slash>>[i] ELSE x[i - 1]
    BY <1>1, <2>1, ElementsJoined, Zenon
  <2>4. /\ u \in Seq(Nat) /\ Len(u) = 1 + Len(P) /\ Len(P) \in Nat
        /\ \A i \in 1..1 + Len(P) : u[i] = IF i <= 1 THEN <<Slash>>[i] ELSE P[i - 1]
    BY <1>1, <2>1, ElementsJoined, Zenon
  <2>5. \A i \in 1..Len(s) + Len(<<Slash>>) :
            head[i] = IF i <= Len(s) THEN s[i] ELSE <<Slash>>[i - Len(s)]
    BY <2>1, <2>2, ElementsJoined, Zenon
  <2>6. f = F(x)
    OBVIOUS
  <2> HIDE DEF s, t, u, head
  <2>7. /\ r \in Seq(Nat) /\ Len(r) = Len(s) + Len(t)
        /\ \A i \in 1..Len(s) + Len(t) : r[i] = IF i <= Len(s) THEN s[i] ELSE t[i - Len(s)]
    BY <2>2, <2>3, ElementsJoined, Zenon
  <2> HIDE DEF r
  <2>8. /\ f \in Seq(Nat) /\ Len(f) = Len(r) + Len(u)
        /\ \A i \in 1..Len(r) + Len(u) : f[i] = IF i <= Len(r) THEN r[i] ELSE u[i - Len(r)]
    <3>1. r \in Seq(Nat) /\ u \in Seq(Nat)
      BY <2>4, <2>7
    <3>. QED
      BY ONLY <3>1, ElementsJoined, Zenon DEF f
  <2> HIDE DEF f, F
  <2>9. /\ Len(s) = 1 + Len(C) /\ Len(t) = 1 + Len(x) /\ Len(u) = 1 + Len(P)
        /\ Len(r) = Len(C) + Len(x) + 2 /\ Len(f) = Len(C) + Len(x) + Len(P) + 3
        /\ Len(C) \in Nat /\ Len(x) \in Nat /\ Len(P) \in Nat
    BY ONLY <2>2, <2>3, <2>4, <2>7, <2>8
  <2>10. ASSUME NEW i \in 1..k
         PROVE  f[i] = head[i]
    <3>0. i \in 1..k
      OBVIOUS
    <3>1. /\ i \in 1..Len(r) + Len(u) /\ i <= Len(r) /\ i \in 1..Len(s) + Len(t)
          /\ i \in 1..Len(s) + Len(<<Slash>>)
          /\ ~(i <= Len(s)) => i - Len(s) = 1
      BY ONLY <2>1, <2>9, <3>0
    <3>2. 1 \in 1..1 + Len(x)
      BY ONLY <2>9
    <3>3. f[i] = r[i] /\ r[i] = IF i <= Len(s) THEN s[i] ELSE t[i - Len(s)]
      BY ONLY <2>7, <2>8, <3>1
    <3>4. head[i] = IF i <= Len(s) THEN s[i] ELSE <<Slash>>[i - Len(s)]
      BY ONLY <2>5, <3>1
    <3>5. t[1] = <<Slash>>[1]
      BY ONLY <2>3, <3>2
    <3>. QED
      BY ONLY <3>1, <3>3, <3>4, <3>5
  <2>11. ASSUME NEW i \in 1..Len(x)
         PROVE  f[k + i] = x[i]
    <3> DEFINE j == k + i
    <3>0. i \in 1..Len(x)
      OBVIOUS
    <3>1. /\ j \in 1..Len(r) + Len(u) /\ j <= Len(r) /\ j \in 1..Len(s) + Len(t)
          /\ ~(j <= Len(s)) /\ j - Len(s) = i + 1 /\ i + 1 \in 1..1 + Len(x)
          /\ ~(i + 1 <= 1) /\ (i + 1) - 1 = i
      BY ONLY <2>9, <3>0
    <3> HIDE DEF j
    <3>2. f[j] = r[j] /\ r[j] = t[i + 1]
      BY ONLY <2>7, <2>8, <3>1
    <3>3. t[i + 1] = x[i]
      BY ONLY <2>3, <3>1
    <3>. QED
      BY <3>2, <3>3 DEF j
  <2>12. f[k + Len(x) + 1] = Slash
    <3> DEFINE j == k + Len(x) + 1
    <3>1. /\ j \in 1..Len(r) + Len(u) /\ ~(j <= Len(r)) /\ j - Len(r) = 1
          /\ 1 \in 1..1 + Len(P) /\ 1 <= 1
      BY ONLY <2>9
    <3> HIDE DEF j
    <3>2. f[j] = u[j - Len(r)]
      BY ONLY <2>8, <3>1
    <3>3. u[1] = <<Slash>>[1]
      BY ONLY <2>4, <3>1
    <3>. QED
      BY <2>1, <3>1, <3>2, <3>3 DEF j
  <2>13. Len(f) > k + Len(x)
    BY ONLY <2>9
  <2>. QED
    BY <2>6, <2>8, <2>10, <2>11, <2>12, <2>13 DEF Wraps, SameStart
<1> HIDE DEF F, head
<1> DEFINE v == F(a)
           w == F(b)
<1>5. k \in Nat
  BY <1>1, Elements
<1> HIDE DEF k
<1>6. /\ v \in Seq(Nat) /\ w \in Seq(Nat)
      /\ Wraps(v, k, a) /\ Wraps(w, k, b) /\ SameStart(v, w, k)
  BY <1>1, <1>4 DEF SameStart
<1>7. NoSlash(b)
  <2>1. DOMAIN b = 1..Len(b)
    BY <1>1
  <2>. QED
    BY <1>1, <2>1 DEF ToSet, NoSlash
<1> HIDE DEF v, w
<1>8. /\ Before(a, b) => Before(v, w) \/ Overtakes(a, b)
      /\ Overtakes(a, b) => Before(w, v)
  BY <1>1, <1>5, <1>6, <1>7, WrappedOrder, Zenon
<1>. QED
  BY <1>2, <1>8 DEF v, w, a, b

\* Being a strict prefix, with the operator of the proofs.
LEMMA StartsIs ==
    ASSUME NEW a \in Seq(Nat), NEW b \in Seq(Nat)
    PROVE  IsStrictPrefix(a, b) <=> StartsAs(a, b)
<1>1. Len(a) \in Nat /\ Len(b) \in Nat
  OBVIOUS
<1>2. ASSUME Len(a) <= Len(b)
      PROVE  SubSeq(a, 1, Len(a)) = SubSeq(b, 1, Len(a)) <=> \A j \in 1..Len(a) : a[j] = b[j]
  <2>1. SubSeq(a, 1, Len(a)) = [j \in 1..Len(a) |-> a[j]]
    BY <1>1
  <2>2. SubSeq(b, 1, Len(a)) = [j \in 1..Len(a) |-> b[j]]
    BY <1>1, <1>2
  <2>. QED
    BY <2>1, <2>2
<1>3. ASSUME Len(a) = Len(b), \A j \in 1..Len(a) : a[j] = b[j]
      PROVE  a = b
  BY <1>3, SeqEqual
<1>. QED
  BY <1>1, <1>2, <1>3 DEF IsStrictPrefix, IsPrefix, StartsAs

\* Names in the order of the bytes of their fields.
FieldFirst(N) == {p \in N \X N : Before(FieldBytes(Field(p[1])), FieldBytes(Field(p[2])))}

\* The fields of names order the names.
LEMMA FieldFirstIs ==
    ASSUME NEW N \in SUBSET Nameable
    PROVE  /\ Orders(FieldFirst(N), N)
           /\ \A x, y \in N :
                 <<x, y>> \in FieldFirst(N) <=> Before(FieldBytes(Field(x)), FieldBytes(Field(y)))
<1> DEFINE R    == FieldFirst(N)
           b(x) == FieldBytes(Field(x))
<1>1. \A x, y \in N : <<x, y>> \in R <=> Before(b(x), b(y))
  BY DEF FieldFirst
<1>2. \A x \in N : Field(x) \in DefaultFields
  BY DEF DefaultFields
<1>3. \A x \in N : b(x) \in Seq(Nat)
  BY <1>2, BytesAssumption
<1>4. \A x, y \in N : Field(x) = Field(y) => x = y
  BY DEF Field
<1>5. \A x, y \in N : x # y => b(x) # b(y)
  BY <1>2, <1>4, BytesAssumption
<1> HIDE DEF R, b
<1>6. \A x \in N : <<x, x>> \notin R
  BY <1>1, <1>3, BeforeOrders
<1>7. \A x, y \in N : x # y => <<x, y>> \in R \/ <<y, x>> \in R
  BY <1>1, <1>3, <1>5, BeforeOrders
<1>8. \A x, y, z \in N : <<x, y>> \in R /\ <<y, z>> \in R => <<x, z>> \in R
  BY <1>1, <1>3, BeforeOrders
<1>9. Orders(R, N)
  BY <1>6, <1>7, <1>8 DEF Orders
<1>. QED
  BY <1>1, <1>9 DEF R, b

\* Names in the order of their bytes are in that of their fields exactly when
\* none overtakes another.
LEMMA DefaultsMatch ==
    ASSUME NEW N \in SUBSET Nameable, \A name \in N : SafeName(name),
           NEW e \in Seq(N), NEW d \in Seq(N),
           \A x \in N : \E i \in 1..Len(e) : e[i] = x,
           \A x \in N : \E i \in 1..Len(d) : d[i] = x,
           \A i, j \in 1..Len(e) : i < j => Before(Bytes(e[i]), Bytes(e[j])),
           \A i, j \in 1..Len(d) : i < j => Before(FieldBytes(Field(d[i])), FieldBytes(Field(d[j])))
    PROVE  e = d <=> ~ \E x, y \in N : Overtakes(Bytes(x), Bytes(y))
<1> DEFINE R == FieldFirst(N)
<1>1. /\ Len(e) \in Nat /\ Len(d) \in Nat
      /\ \A i \in 1..Len(e) : e[i] \in N
      /\ \A i \in 1..Len(d) : d[i] \in N
  BY Elements
<1>2. /\ Orders(R, N)
      /\ \A x, y \in N : <<x, y>> \in R <=> Before(FieldBytes(Field(x)), FieldBytes(Field(y)))
  BY FieldFirstIs
<1>3. \A x \in N : Bytes(x) \in Seq(Nat)
  BY BytesAssumption
<1>4. \A x, y \in N : /\ Before(Bytes(x), Bytes(y)) =>
                            <<x, y>> \in R \/ Overtakes(Bytes(x), Bytes(y))
                      /\ Overtakes(Bytes(x), Bytes(y)) => <<y, x>> \in R
  <2>1. SUFFICES ASSUME NEW x \in N, NEW y \in N
                 PROVE  /\ Before(Bytes(x), Bytes(y)) =>
                              <<x, y>> \in R \/ Overtakes(Bytes(x), Bytes(y))
                        /\ Overtakes(Bytes(x), Bytes(y)) => <<y, x>> \in R
    OBVIOUS
  <2>2. x \in Nameable /\ y \in Nameable /\ SafeName(x) /\ SafeName(y)
    OBVIOUS
  <2>. QED
    BY <1>2, <2>2, FieldOrder
<1> HIDE DEF R
<1>5. \A i, j \in 1..Len(d) : i < j => <<d[i], d[j]>> \in R
  BY <1>1, <1>2
<1>6. ASSUME ~ \E x, y \in N : Overtakes(Bytes(x), Bytes(y))
      PROVE  e = d
  <2>1. \A i, j \in 1..Len(e) : i < j => <<e[i], e[j]>> \in R
    BY <1>1, <1>4, <1>6
  <2>2. Lists(e, N, R)
    BY <2>1 DEF Lists
  <2>3. Lists(d, N, R)
    BY <1>5 DEF Lists
  <2>. QED
    BY <1>2, <2>2, <2>3, OneOrder
<1>7. ASSUME NEW x \in N, NEW y \in N, Overtakes(Bytes(x), Bytes(y)), e = d
      PROVE  FALSE
  <2>1. <<y, x>> \in R
    BY <1>4, <1>7
  <2>2. Before(Bytes(x), Bytes(y))
    <3>1. StartsAs(Bytes(x), Bytes(y))
      BY <1>7 DEF Overtakes
    <3>. QED
      BY <1>3, <3>1, BeforeIs
  <2>3. PICK i \in 1..Len(e) : e[i] = x
    OBVIOUS
  <2>4. PICK j \in 1..Len(e) : e[j] = y
    OBVIOUS
  <2>5. i < j \/ j < i \/ i = j
    BY <1>1
  <2>6. CASE i < j
    <3>1. <<x, y>> \in R
      BY <1>5, <1>7, <2>3, <2>4, <2>6
    <3>2. <<x, x>> \in R /\ <<x, x>> \notin R
      BY <1>2, <2>1, <3>1 DEF Orders
    <3>. QED
      BY <3>2
  <2>7. CASE j < i
    <3>1. Before(Bytes(y), Bytes(x))
      BY <2>3, <2>4, <2>7
    <3>2. Before(Bytes(x), Bytes(x)) /\ ~Before(Bytes(x), Bytes(x))
      BY <1>3, <2>2, <3>1, BeforeOrders
    <3>. QED
      BY <3>2
  <2>8. CASE i = j
    BY <1>3, <2>2, <2>3, <2>4, <2>8, BeforeOrders
  <2>. QED
    BY <2>5, <2>6, <2>7, <2>8
<1>. QED
  BY <1>6, <1>7

\* The components are listed once each, by their names.
LEMMA ComponentsListed ==
    ASSUME NEW object, FromMembers(ModelIndexPath, object)
    PROVE  LET names == ComponentNames(object)
               list  == Components(object)
           IN  /\ names \subseteq Nameable /\ list \in Seq(ToSet(list)) /\ Len(list) \in Nat
               /\ \A i \in 1..Len(list) :
                     list[i].name \in names /\ list[i] = Component(list[i].name, object[list[i].name])
               /\ \A name \in names : \E i \in 1..Len(list) : list[i].name = name
               /\ \A i, j \in 1..Len(list) :
                     i < j => Before(Bytes(list[i].name), Bytes(list[j].name))
               /\ \A i, j \in 1..Len(list) : list[i].name = list[j].name => i = j
               /\ InOrder(ToSet(list), ByName) = list
<1> DEFINE names == ComponentNames(object)
           list  == Components(object)
           all   == {Component(name, object[name]) : name \in names}
<1>1. names \subseteq Nameable /\ IsFiniteSet(all) /\ list = InOrder(all, ByName)
  BY ComponentsAre
<1>2. \A name \in names : Component(name, object[name]).name = name
  BY DEF Component
<1>3. \A c \in all : c.name \in names /\ c = Component(c.name, object[c.name])
  BY <1>2
<1>4. \A name \in names : \E c \in all : c.name = name
  BY <1>2
<1> HIDE DEF names, all, list
<1>5. \A c \in all : c.name \in Nameable
  BY <1>1, <1>3
<1>6. \A c, d \in all : c.name = d.name => c = d
  BY <1>3
<1>7. /\ list \in Seq(all) /\ Len(list) = Cardinality(all)
      /\ \A c \in all : \E i \in 1..Len(list) : list[i] = c
      /\ \A i, j \in 1..Len(list) : i < j => ByName(list[i], list[j])
  BY ONLY <1>1, <1>5, <1>6, NamesOrder, Zenon
<1>8. ToSet(list) = all /\ \A i, j \in 1..Len(list) : list[i] = list[j] => i = j
  BY <1>1, <1>7, Enumerated
<1>9. Len(list) \in Nat /\ \A i \in 1..Len(list) : list[i] \in all
  BY <1>7, Elements
<1>10. \A i \in 1..Len(list) :
          list[i].name \in names /\ list[i] = Component(list[i].name, object[list[i].name])
  BY <1>3, <1>9
<1>11. \A i, j \in 1..Len(list) : list[i].name = list[j].name => i = j
  BY <1>6, <1>8, <1>9
<1>12. \A name \in names : \E i \in 1..Len(list) : list[i].name = name
  BY <1>4, <1>7
<1>13. \A i, j \in 1..Len(list) : i < j => Before(Bytes(list[i].name), Bytes(list[j].name))
  BY <1>7 DEF ByName
<1>14. InOrder(ToSet(list), ByName) = list /\ list \in Seq(ToSet(list))
  BY <1>1, <1>7, <1>8
<1>. QED
  BY <1>1, <1>9, <1>10, <1>11, <1>12, <1>13, <1>14 DEF names, list

\* The defaults are listed once each, by their fields.
LEMMA DefaultsListed ==
    ASSUME NEW object, FromMembers(ModelIndexPath, object)
    PROVE  LET names == Derived(object)
               list  == AppliedDefaults(object)
           IN  /\ list \in Seq(ToSet(list)) /\ Len(list) \in Nat
               /\ \A i \in 1..Len(list) : \E name \in names : list[i] = Default(name)
               /\ \A name \in names : \E i \in 1..Len(list) : list[i] = Default(name)
               /\ \A i, j \in 1..Len(list) :
                     i < j => Before(FieldBytes(list[i].field), FieldBytes(list[j].field))
               /\ \A i, j \in 1..Len(list) : list[i].field = list[j].field => i = j
               /\ InOrder(ToSet(list), ByField) = list
<1> DEFINE names == Derived(object)
           list  == AppliedDefaults(object)
           all   == {Default(name) : name \in names}
<1>1. /\ IsFiniteSet(all) /\ list = InOrder(all, ByField)
      /\ \A d \in all : d.field \in DefaultFields
      /\ \A c, d \in all : c.field = d.field => c = d
  BY DefaultsAre
<1>2. (\A c \in all : \E name \in names : c = Default(name)) /\ \A name \in names : Default(name) \in all
  OBVIOUS
<1> HIDE DEF names, all, list
<1>7. /\ list \in Seq(all) /\ Len(list) = Cardinality(all)
      /\ \A c \in all : \E i \in 1..Len(list) : list[i] = c
      /\ \A i, j \in 1..Len(list) : i < j => ByField(list[i], list[j])
  BY ONLY <1>1, FieldsOrder, Zenon
<1>8. ToSet(list) = all /\ \A i, j \in 1..Len(list) : list[i] = list[j] => i = j
  BY <1>1, <1>7, Enumerated
<1>9. Len(list) \in Nat /\ \A i \in 1..Len(list) : list[i] \in all
  BY <1>7, Elements
<1>10. \A i \in 1..Len(list) : \E name \in names : list[i] = Default(name)
  BY <1>2, <1>9
<1>11. \A i, j \in 1..Len(list) : list[i].field = list[j].field => i = j
  BY <1>1, <1>8, <1>9
<1>12. \A name \in names : \E i \in 1..Len(list) : list[i] = Default(name)
  BY <1>2, <1>7
<1>13. \A i, j \in 1..Len(list) : i < j => Before(FieldBytes(list[i].field), FieldBytes(list[j].field))
  BY <1>7 DEF ByField
<1>14. InOrder(ToSet(list), ByField) = list /\ list \in Seq(ToSet(list))
  BY <1>1, <1>7, <1>8
<1>. QED
  BY <1>9, <1>10, <1>11, <1>12, <1>13, <1>14 DEF names, list

\* The components of a configuration are those of its root, in their order.
LEMMA RootComponents ==
    ASSUME DocumentsInv, Normalize(documents)[1] = "ok"
    PROVE  LET config == Normalize(documents)[2]
           IN  IF Root = ModelIndexPath
               THEN /\ FromMembers(ModelIndexPath, RootObject)
                    /\ config.components = Components(RootObject)
                    /\ config.applied_defaults = AppliedDefaults(RootObject)
               ELSE config.components = <<>> /\ config.applied_defaults = <<>>
<1> DEFINE config == Configuration(RootObject, Root, Taken[1])
<1>1. Normalize(documents)[2] = config /\ FromMembers(Root, RootObject)
  BY NormalizeIs, RootIsGrown
<1>2. /\ config.components = IF Root = ModelIndexPath THEN Components(RootObject) ELSE <<>>
      /\ config.applied_defaults = IF Root = ModelIndexPath THEN AppliedDefaults(RootObject) ELSE <<>>
  BY ConfigurationHas
<1> HIDE DEF config
<1>. QED
  BY <1>1, <1>2

\* Redaction leaves a string that is not sensitive.
LEMMA TextStays ==
    ASSUME NEW string, ~SensitiveMessage(string)
    PROVE  Redact(Text(string)) = Text(string)
<1> DEFINE v == Text(string)
<1>1. PICK r : IsRedaction(v, r, MaxNesting) /\ Redact(v) = r[MaxNesting][v]
  BY RedactIs
<1>2. MaxNesting \in 0..MaxNesting /\ 0 \in 0..MaxNesting
  BY NestingAssumption
<1>3. v \in Within(v)
  <2>1. Levels(v)[0] = {v}
    BY LevelsAre
  <2>. QED
    BY <1>2, <2>1 DEF Within
<1>4. v[1] = "text" /\ v[2] = string
  BY DEF Text
<1> HIDE DEF v
<1> DEFINE k == MaxNesting
<1>5. /\ v[1] = "text" => r[k][v] = IF SensitiveMessage(v[2]) THEN Text(Redacted) ELSE v
      /\ v[1] = "list" /\ k > 0 => r[k][v] = List([i \in 1..Len(v[2]) |-> r[k - 1][v[2][i]]])
      /\ v[1] = "object" /\ k > 0 =>
            r[k][v] = Object([name \in Showable(v[2]) |-> r[k - 1][v[2][name]]])
      /\ v[1] \notin {"text", "list", "object"} => r[k][v] = v
  <2>1. IsRedaction(v, r, MaxNesting) /\ k \in 0..MaxNesting /\ v \in Within(v)
    BY <1>1, <1>2, <1>3
  <2> HIDE DEF k
  <2>. QED
    BY ONLY <2>1, RedactedTo
<1>. QED
  BY <1>1, <1>4, <1>5 DEF v

\* A default is shown of a component whose name and path are not sensitive.
LEMMA DefaultIsShown ==
    ASSUME NEW name, ~SensitiveText(name), ~SensitivePath(<<name>>)
    PROVE  ShownDefault(Default(name))
<1> DEFINE marks == <<<<"components">>, <<"path">>>>
           path  == <<<<"components">>, name, <<"path">>>>
<1>1. /\ Default(name).field[1] = "pointer" /\ Default(name).field[2] = path
      /\ Default(name).rule = DefaultRule
  BY DEF Default, Field
<1>2. ASSUME NEW segment \in {<<"components">>, name, <<"path">>}
      PROVE  ~SensitiveKey(segment) /\ ~SensitiveText(segment)
  <2>1. Len(marks) = 2 /\ marks[1] = <<"components">> /\ marks[2] = <<"path">>
    OBVIOUS
  <2>2. Len(<<name>>) = 1 /\ <<name>>[1] = name
    OBVIOUS
  <2>3. ~SensitivePath(marks)
    BY MarkersAssumption
  <2> HIDE DEF marks
  <2>4. 1 \in 1..1 /\ 1 \in 1..2 /\ 2 \in 1..2
    OBVIOUS
  <2>5. \A i \in 1..2 : ~SensitiveKey(marks[i]) /\ ~SensitiveText(marks[i])
    BY <2>1, <2>3 DEF SensitivePath
  <2>6. ~SensitiveKey(name)
    BY <2>2, <2>4 DEF SensitivePath
  <2>. QED
    BY <2>1, <2>4, <2>5, <2>6
<1>3. ~SensitivePath(path)
  <2>1. Len(path) = 3 /\ \A i \in 1..3 : path[i] \in {<<"components">>, name, <<"path">>}
    OBVIOUS
  <2> HIDE DEF path
  <2>. QED
    BY <1>2, <2>1 DEF SensitivePath
<1>. QED
  BY <1>1, <1>3, MarkersAssumption DEF ShownDefault, SensitivePointer

\* A component has a path when it is required and its name is safe.
LEMMA PathIsDerived ==
    ASSUME NEW name, NEW value
    PROVE  LET c == Component(name, value)
           IN  /\ c.name = name
               /\ c.path # None <=> ~c.optional /\ SafeName(c.name)
BY DEF Component, PathOf, Some, None

\* What the defaults are of when no text is sensitive.
LEMMA DefaultsAreShown ==
    ASSUME DocumentsInv, Projection # None, ~SensitiveConfigTexts(Projection[1])
    PROVE  LET list == Normalize(documents)[2].applied_defaults
           IN  \A i \in 1..Len(list) :
                  \E name : /\ list[i] = Default(name) /\ ShownDefault(Default(name))
                            /\ ~SensitiveMessage(name) /\ SafeName(name) /\ name \in Nameable
<1> DEFINE config   == Normalize(documents)[2]
           n        == Projection[1]
           list     == config.applied_defaults
           parts    == Components(RootObject)
<1>1. /\ Normalize(documents)[1] = "ok" /\ ~SensitiveIdentity(config)
      /\ n.components = config.components
  BY ProjectionIs DEF RecordFields
<1>2. CASE Root # ModelIndexPath
  BY <1>1, <1>2, RootComponents
<1>3. CASE Root = ModelIndexPath
  <2>1. /\ FromMembers(ModelIndexPath, RootObject)
        /\ config.components = parts /\ list = AppliedDefaults(RootObject)
    BY <1>1, <1>3, RootComponents
  <2> HIDE DEF config, list
  <2>2. ASSUME NEW i \in 1..Len(list)
        PROVE  \E name : /\ list[i] = Default(name) /\ ShownDefault(Default(name))
                         /\ ~SensitiveMessage(name) /\ SafeName(name) /\ name \in Nameable
    <3>1. PICK name \in Derived(RootObject) : list[i] = Default(name)
      BY <2>1, DefaultsListed
    <3>2. /\ name \in ComponentNames(RootObject) /\ name \in Nameable
          /\ Component(name, RootObject[name]).path # None /\ SafeName(name)
      BY <2>1, ComponentsListed, PathIsDerived DEF Derived
    <3>3. PICK k \in 1..Len(parts) : parts[k].name = name
      BY <2>1, <3>2, ComponentsListed
    <3>4. parts[k] = Component(name, RootObject[name])
      BY <2>1, <3>3, ComponentsListed
    <3>5. parts[k].path = Some(<<name>>)
      BY <3>2, <3>4, DerivedPath
    <3>6. parts[k] \in ToSet(config.components)
      <4>1. parts \in Seq(ToSet(parts))
        BY <2>1, ComponentsListed
      <4> HIDE DEF parts
      <4>. QED
        BY <2>1, <4>1
    <3>7. ~SensitiveText(name) /\ ~SensitivePath(<<name>>)
      <4>1. ~SensitiveText(parts[k].name) /\ ~Of(parts[k].path, SensitivePath)
        BY <1>1, <3>6 DEF SensitiveIdentity
      <4>. QED
        BY <3>3, <3>5, <4>1 DEF Of, Some, None
    <3>8. ~SensitiveMessage(name)
      <4>1. ~Each(n.components, SensitiveComponentTexts)
        BY DEF SensitiveConfigTexts
      <4>2. n.components = parts
        BY <1>1, <2>1
      <4>3. ~SensitiveComponentTexts(parts[k])
        BY <4>1, <4>2 DEF Each
      <4>. QED
        BY <3>3, <4>3 DEF SensitiveComponentTexts
    <3>. QED
      BY <3>1, <3>2, <3>7, <3>8, DefaultIsShown
  <2>. QED
    BY <2>2 DEF list, config
<1>. QED
  BY <1>2, <1>3

\* Defaults stay as they are when no text is sensitive.
LEMMA DefaultsStay ==
    ASSUME DocumentsInv, Projection # None, ~SensitiveConfigTexts(Projection[1])
    PROVE  Projection[1].applied_defaults = Normalize(documents)[2].applied_defaults
<1> DEFINE config   == Normalize(documents)[2]
           n        == Projection[1]
           list     == config.applied_defaults
           places   == {i \in 1..Len(list) : ShownDefault(list[i])}
           defaults == AtPlaces(list, places)
           redacted == [i \in 1..Len(defaults) |-> [defaults[i] EXCEPT !.value = Redact(@)]]
           T        == {Default(name) : name \in Nameable}
<1>1. /\ Normalize(documents)[1] = "ok" /\ ~SensitiveIdentity(config)
      /\ n.components = config.components /\ n.applied_defaults = redacted
  BY ProjectionIs DEF RecordFields
<1>2. list \in Seq(T)
  BY <1>1, ConfigurationIs
<1>3. \A i \in 1..Len(list) :
          \E name : /\ list[i] = Default(name) /\ ShownDefault(Default(name))
                    /\ ~SensitiveMessage(name)
  BY DefaultsAreShown
<1>4. defaults = list
  <2>1. places = 1..Len(list)
    BY <1>3
  <2> HIDE DEF list, T
  <2>. QED
    BY <1>2, <2>1, AtPlacesOrder
<1>5. redacted = list
  <2>1. Len(list) \in Nat
    <3> HIDE DEF list, T
    <3>. QED
      BY <1>2
  <2>2. ASSUME NEW i \in 1..Len(list)
        PROVE  [list[i] EXCEPT !.value = Redact(@)] = list[i]
    <3>1. PICK name : list[i] = Default(name) /\ ~SensitiveMessage(name)
      BY <1>3
    <3>2. Redact(Default(name).value) = Default(name).value
      BY <3>1, TextStays DEF Default
    <3>3. [Default(name) EXCEPT !.value = Default(name).value] = Default(name)
      BY DEF Default
    <3>. QED
      BY <3>1, <3>2, <3>3
  <2> HIDE DEF list, defaults
  <2>3. redacted = [i \in 1..Len(list) |-> list[i]]
    BY <1>4, <2>2
  <2>4. list = [i \in 1..Len(list) |-> list[i]]
    <3> HIDE DEF T
    <3>. QED
      BY <1>2
  <2>. QED
    BY <2>3, <2>4
<1>. QED
  BY <1>1, <1>5

\* Defaults of two names are two defaults.
LEMMA NamesApart ==
    ASSUME NEW x, NEW y
    PROVE  /\ Default(x).field = Field(x) /\ Default(x).value[2] = x
           /\ Default(x) = Default(y) => x = y
<1>1. Default(x).value[2] = x /\ Default(y).value[2] = y /\ Default(x).field = Field(x)
  BY DEF Default, Text
<1>. QED
  BY <1>1

\* The rules' defaults are where the reader looks for them, unless their order
\* is not that of the components.
LEMMA DefaultsOrdered ==
    ASSUME NEW object, FromMembers(ModelIndexPath, object),
           NEW n, n.components = Components(object), n.applied_defaults = AppliedDefaults(object)
    PROVE  DefaultsPossible(n) <=> ~Misordered(n)
<1> DEFINE names    == Derived(object)
           list     == n.components
           defaults == n.applied_defaults
           places   == {i \in 1..Len(list) : ~list[i].optional /\ SafeName(list[i].name)}
           derived  == AtPlaces(list, places)
           p        == InOrder(places, Below)
           e        == [i \in 1..Len(derived) |-> derived[i].name]
           d        == [i \in 1..Len(defaults) |-> defaults[i].value[2]]
<1>1. /\ ComponentNames(object) \subseteq Nameable /\ list \in Seq(ToSet(list)) /\ Len(list) \in Nat
      /\ \A i \in 1..Len(list) :
            /\ list[i].name \in ComponentNames(object)
            /\ list[i] = Component(list[i].name, object[list[i].name])
      /\ \A name \in ComponentNames(object) : \E i \in 1..Len(list) : list[i].name = name
      /\ \A i, j \in 1..Len(list) : i < j => Before(Bytes(list[i].name), Bytes(list[j].name))
  BY ComponentsListed
<1>2. /\ defaults \in Seq(ToSet(defaults)) /\ Len(defaults) \in Nat
      /\ \A i \in 1..Len(defaults) : \E name \in names : defaults[i] = Default(name)
      /\ \A name \in names : \E i \in 1..Len(defaults) : defaults[i] = Default(name)
      /\ \A i, j \in 1..Len(defaults) :
            i < j => Before(FieldBytes(defaults[i].field), FieldBytes(defaults[j].field))
  BY DefaultsListed
<1>3. \A i \in 1..Len(list) : i \in places <=> list[i].name \in names
  <2>1. SUFFICES ASSUME NEW i \in 1..Len(list) PROVE i \in places <=> list[i].name \in names
    OBVIOUS
  <2>2. list[i].path # None <=> ~list[i].optional /\ SafeName(list[i].name)
    BY <1>1, PathIsDerived
  <2>. QED
    BY <1>1, <2>2 DEF Derived
<1>4. names \subseteq Nameable /\ \A name \in names : SafeName(name)
  <2>1. \A name \in names : SafeName(name)
    BY PathIsDerived DEF Derived
  <2>. QED
    BY <1>1, <2>1 DEF Derived
<1>5. /\ Len(derived) \in Nat
      /\ \A i \in 1..Len(derived) : p[i] \in places /\ derived[i] = list[p[i]]
      /\ \A k \in places : \E i \in 1..Len(derived) : p[i] = k
      /\ \A i, j \in 1..Len(derived) : i < j => p[i] < p[j]
  <2>1. places \in SUBSET (1..Len(list))
    OBVIOUS
  <2> HIDE DEF places, list
  <2>. QED
    BY <1>1, <2>1, AtPlacesOrder
<1>6. places \subseteq 1..Len(list)
  OBVIOUS
<1>7. /\ Len(e) = Len(derived) /\ \A i \in 1..Len(derived) : e[i] = derived[i].name
      /\ Len(d) = Len(defaults) /\ \A i \in 1..Len(defaults) : d[i] = defaults[i].value[2]
  BY <1>2, <1>5
<1>8. e \in Seq(names)
  <2>1. \A i \in 1..Len(derived) : derived[i].name \in names
    BY <1>3, <1>5, <1>6
  <2> HIDE DEF derived, names
  <2>2. e \in [1..Len(derived) -> names]
    BY <2>1
  <2>. QED
    BY <1>5, <2>2
<1>9. \A i \in 1..Len(defaults) : d[i] \in names /\ defaults[i] = Default(d[i])
  BY <1>2, <1>7, NamesApart
<1>10. d \in Seq(names)
  <2>0. \A i \in 1..Len(defaults) : defaults[i].value[2] \in names
    BY <1>7, <1>9
  <2> HIDE DEF defaults, names
  <2>1. d \in [1..Len(defaults) -> names]
    BY <2>0
  <2>. QED
    BY <1>2, <2>1
<1> HIDE DEF names, list, defaults, places, derived, p, e, d
<1>11. \A x \in names : \E i \in 1..Len(e) : e[i] = x
  <2>1. SUFFICES ASSUME NEW x \in names PROVE \E i \in 1..Len(e) : e[i] = x
    OBVIOUS
  <2>2. PICK k \in 1..Len(list) : list[k].name = x
    BY <1>1 DEF Derived, names
  <2>3. PICK i \in 1..Len(derived) : p[i] = k
    BY <1>3, <1>5, <2>2
  <2>. QED
    BY <1>5, <1>7, <2>2, <2>3
<1>12. \A x \in names : \E i \in 1..Len(d) : d[i] = x
  <2>1. SUFFICES ASSUME NEW x \in names PROVE \E i \in 1..Len(d) : d[i] = x
    OBVIOUS
  <2>2. PICK i \in 1..Len(defaults) : defaults[i] = Default(x)
    BY <1>2
  <2>. QED
    BY <1>7, <2>2, NamesApart
<1>13. \A i, j \in 1..Len(e) : i < j => Before(Bytes(e[i]), Bytes(e[j]))
  <2>1. SUFFICES ASSUME NEW i \in 1..Len(e), NEW j \in 1..Len(e), i < j
                 PROVE  Before(Bytes(e[i]), Bytes(e[j]))
    OBVIOUS
  <2>2. /\ p[i] \in 1..Len(list) /\ p[j] \in 1..Len(list) /\ p[i] < p[j]
        /\ e[i] = list[p[i]].name /\ e[j] = list[p[j]].name
    BY <1>5, <1>6, <1>7, <2>1
  <2>. QED
    BY <1>1, <2>2
<1>14. \A i, j \in 1..Len(d) : i < j => Before(FieldBytes(Field(d[i])), FieldBytes(Field(d[j])))
  <2>1. \A i \in 1..Len(defaults) : defaults[i].field = Field(d[i])
    BY <1>9, NamesApart
  <2>. QED
    BY <1>2, <1>7, <2>1
<1>15. e = d <=> ~ \E x, y \in names : Overtakes(Bytes(x), Bytes(y))
  BY ONLY <1>4, <1>8, <1>10, <1>11, <1>12, <1>13, <1>14, DefaultsMatch
<1>16. DefaultsPossible(n) <=> e = d
  <2>1. DefaultsPossible(n) <=> /\ Len(derived) = Len(defaults)
                                /\ \A i \in 1..Len(derived) : defaults[i] = Default(derived[i].name)
    BY DEF DefaultsPossible, derived, defaults, places, list
  <2>2. ASSUME Len(derived) = Len(defaults),
               \A i \in 1..Len(derived) : defaults[i] = Default(derived[i].name)
        PROVE  e = d
    <3>1. \A i \in 1..Len(e) : e[i] = d[i]
      BY <1>7, <1>9, <2>2, NamesApart
    <3>. QED
      BY <1>7, <1>8, <1>10, <2>2, <3>1, SeqEqual
  <2>3. ASSUME e = d
        PROVE  /\ Len(derived) = Len(defaults)
               /\ \A i \in 1..Len(derived) : defaults[i] = Default(derived[i].name)
    BY <1>7, <1>9, <2>3
  <2>. QED
    BY <2>1, <2>2, <2>3
<1>17. Misordered(n) <=> \E x, y \in names : Overtakes(Bytes(x), Bytes(y))
  <2>1. \A x \in names : Bytes(x) \in Seq(Nat)
    BY <1>4, BytesAssumption
  <2>2. \A x, y \in names : IsStrictPrefix(Bytes(x), Bytes(y)) <=> StartsAs(Bytes(x), Bytes(y))
    BY <2>1, StartsIs
  <2>3. Misordered(n) <=> \E i, j \in 1..Len(defaults) : Overtakes(Bytes(d[i]), Bytes(d[j]))
    <3>1. \A i, j \in 1..Len(defaults) :
              /\ IsStrictPrefix(Bytes(d[i]), Bytes(d[j])) /\ Bytes(d[j])[Len(Bytes(d[i])) + 1] < Slash
              <=> Overtakes(Bytes(d[i]), Bytes(d[j]))
      BY <1>9, <2>2 DEF Overtakes
    <3>. QED
      BY <1>7, <3>1 DEF Misordered, defaults
  <2>. QED
    BY <1>7, <1>9, <1>12, <2>3
<1>. QED
  BY <1>15, <1>16, <1>17

(***************************************************************************)
(* The rest of its record.                                                 *)
(***************************************************************************)

\* Redaction makes no value another kind of value.
LEMMA KindStays ==
    ASSUME NEW value, NEW r, IsRedaction(value, r, MaxNesting),
           NEW n \in 0..MaxNesting, NEW v \in Within(value)
    PROVE  /\ r[n][v][1] = v[1]
           /\ r[n][v] = Null <=> v = Null
<1>1. r[n] = Redacting(value, r[n - 1], n)
  BY DEF IsRedaction
<1> DEFINE b == r[n - 1]
<1>2. r[n][v] =
         CASE v[1] = "text" /\ SensitiveMessage(v[2]) -> Text(Redacted)
           [] v[1] = "list" /\ n > 0 -> List([i \in 1..Len(v[2]) |-> b[v[2][i]]])
           [] v[1] = "object" /\ n > 0 ->
                 Object([name \in Showable(v[2]) |-> b[v[2][name]]])
           [] OTHER -> v
  BY <1>1 DEF Redacting
<1> HIDE DEF b
<1>3. (r[n][v] = v) \/ (r[n][v][1] = v[1] /\ v[1] \in {"text", "list", "object"})
  <2>1. /\ \A x : Text(x)[1] = "text"
        /\ \A x : List(x)[1] = "list"
        /\ \A x : Object(x)[1] = "object"
    BY DEF Text, List, Object
  <2>2. CASE v[1] = "text" /\ SensitiveMessage(v[2])
    BY <1>2, <2>1, <2>2
  <2>3. CASE v[1] = "list" /\ n > 0
    BY <1>2, <2>1, <2>3
  <2>4. CASE v[1] = "object" /\ n > 0
    BY <1>2, <2>1, <2>4
  <2>5. CASE /\ ~(v[1] = "text" /\ SensitiveMessage(v[2])) /\ ~(v[1] = "list" /\ n > 0)
             /\ ~(v[1] = "object" /\ n > 0)
    BY <1>2, <2>5
  <2>. QED
    BY <2>2, <2>3, <2>4, <2>5
<1>4. Null[1] = "null" /\ "null" \notin {"text", "list", "object"}
  BY DEF Null
<1>. QED
  BY <1>3, <1>4

\* A value lies within itself, on the level of the root.
LEMMA WithinItself ==
    ASSUME NEW v
    PROVE  v \in Within(v) /\ v \in Levels(v)[0]
<1>1. 0 \in 0..MaxNesting
  BY NestingAssumption
<1>2. Levels(v)[0] = {v}
  BY LevelsAre
<1>. QED
  BY <1>1, <1>2 DEF Within

\* What is shown of a value is no component's tuple unless the value is.
LEMMA TupleStays ==
    ASSUME NEW value, Nested(value, MaxNesting - 1), ComponentTuple(Redact(value))
    PROVE  ComponentTuple(value)
<1> DEFINE N == MaxNesting
<1>1. PICK r : IsRedaction(value, r, MaxNesting) /\ Redact(value) = r[N][value]
  BY RedactIs
<1>2. N \in 0..MaxNesting /\ N - 1 \in 0..MaxNesting /\ N > 0 /\ 0 \in 0..N - 1
  BY NestingAssumption
<1>3. value \in Within(value) /\ value \in Levels(value)[0]
  BY WithinItself
<1> HIDE DEF N
<1>4. r[N][value][1] = value[1]
  BY ONLY <1>1, <1>2, <1>3, KindStays
<1>5. value[1] = "list" /\ Len(Redact(value)[2]) = 2
  BY <1>1, <1>4 DEF ComponentTuple, IsPair
<1>6. r[N][value] = List([i \in 1..Len(value[2]) |-> r[N - 1][value[2][i]]])
  <2> DEFINE k == N
  <2>1. IsRedaction(value, r, MaxNesting) /\ k \in 0..MaxNesting /\ value \in Within(value)
    BY <1>1, <1>2, <1>3
  <2>2. k > 0
    BY <1>2
  <2> HIDE DEF k
  <2>3. /\ value[1] = "text" => r[k][value] = IF SensitiveMessage(value[2]) THEN Text(Redacted) ELSE value
        /\ value[1] = "list" /\ k > 0 =>
              r[k][value] = List([i \in 1..Len(value[2]) |-> r[k - 1][value[2][i]]])
        /\ value[1] = "object" /\ k > 0 =>
              r[k][value] = Object([name \in Showable(value[2]) |-> r[k - 1][value[2][name]]])
        /\ value[1] \notin {"text", "list", "object"} => r[k][value] = value
    BY ONLY <2>1, RedactedTo
  <2>. QED
    BY <1>5, <2>2, <2>3 DEF k
<1>7. Formed(value)
  BY PartsAreFormed
<1>8. Len(value[2]) \in Nat
  BY <1>5, <1>7 DEF Formed
<1>9. /\ Len(value[2]) = 2
      /\ Redact(value)[2][1] = r[N - 1][value[2][1]] /\ Redact(value)[2][2] = r[N - 1][value[2][2]]
  <2> DEFINE s == [i \in 1..Len(value[2]) |-> r[N - 1][value[2][i]]]
  <2>1. Redact(value)[2] = s
    BY <1>1, <1>6 DEF List
  <2>2. Len(s) = Len(value[2])
    BY <1>8
  <2>. QED
    BY <1>5, <2>1, <2>2
<1>10. value[2][1] \in Within(value) /\ value[2][2] \in Within(value)
  <2>1. value[2][1] \in Inside(value) /\ value[2][2] \in Inside(value)
    BY <1>5, <1>9 DEF Inside
  <2>2. 0 \in 0..MaxNesting - 1
    BY NestingAssumption
  <2>. QED
    BY <1>3, <2>1, <2>2, InsideWithin
<1>11. \A v \in Within(value) : r[N - 1][v][1] = v[1] /\ (r[N - 1][v] = Null <=> v = Null)
  <2> DEFINE m == N - 1
  <2>1. m \in 0..MaxNesting /\ IsRedaction(value, r, MaxNesting)
    BY <1>1, <1>2
  <2> HIDE DEF m
  <2>2. \A v \in Within(value) : r[m][v][1] = v[1] /\ (r[m][v] = Null <=> v = Null)
    BY ONLY <2>1, KindStays
  <2>. QED
    BY <2>2 DEF m
<1>. QED
  BY <1>5, <1>9, <1>10, <1>11 DEF ComponentTuple, IsPair, IsText

\* Where an architecture is from.
LEMMA TakenIs ==
    ASSUME NEW object, NEW root, TakeArchitecture(object, root) # None
    PROVE  LET taken == TakeArchitecture(object, root)[1]
               class == <<"_class_name">>
               model == <<"model_type">>
           IN  /\ taken.id # <<>>
               /\ IF root = ModelIndexPath
                  THEN taken.source = "model_index_class_name" /\ taken.used = {class}
                  ELSE \/ taken.source = "config_architectures"
                       \/ taken.source = "config_class_name" /\ taken.used = {class}
                       \/ /\ taken.source = "config_model_type"
                          /\ Given(object, model) /\ taken.id = object[model][2]
<1> DEFINE taken  == TakeArchitecture(object, root)[1]
           class  == <<"_class_name">>
           model  == <<"model_type">>
           usable == UsableArchitectures(object)
           list   == Architectures(object)
<1>1. CASE root = ModelIndexPath
  <2>1. /\ Given(object, class) /\ taken.id = object[class][2]
        /\ taken.source = "model_index_class_name" /\ taken.used = {class}
    BY <1>1 DEF TakeArchitecture, Some, None
  <2>. QED
    BY <1>1, <2>1 DEF Given
<1>2. CASE root # ModelIndexPath /\ usable # {}
  <2>1. taken.id = list[Min(usable)][2] /\ taken.source = "config_architectures"
    BY <1>2 DEF TakeArchitecture, Some
  <2>2. Min(usable) \in usable
    <3>1. usable \in SUBSET Nat
      BY DEF UsableArchitectures
    <3>2. PICK n \in usable : \A m \in usable : n <= m
      BY <1>2, <3>1, Least
    <3> HIDE DEF usable
    <3>. QED
      BY <3>2 DEF Min
  <2>3. list[Min(usable)][2] # <<>>
    BY <2>2 DEF UsableArchitectures
  <2>. QED
    BY <1>2, <2>1, <2>3
<1>3. CASE root # ModelIndexPath /\ usable = {}
  <2>1. CASE Given(object, class)
    <3>1. /\ taken.id = object[class][2]
          /\ taken.source = "config_class_name" /\ taken.used = {class}
      BY <1>3, <2>1 DEF TakeArchitecture, Some
    <3>. QED
      BY <1>3, <2>1, <3>1 DEF Given
  <2>2. CASE ~Given(object, class)
    <3>1. /\ Given(object, model) /\ taken.id = object[model][2]
          /\ taken.source = "config_model_type"
      BY <1>3, <2>2 DEF TakeArchitecture, Some, None
    <3>. QED
      BY <1>3, <3>1 DEF Given
  <2>. QED
    BY <2>1, <2>2
<1>. QED
  BY <1>1, <1>2, <1>3

\* A task that is not a known one is not spelled like one.
LEMMA TaskIs ==
    ASSUME NEW spelling, TaskKind(spelling)[1] = "other"
    PROVE  TaskKind(spelling)[2] = spelling /\ spelling \notin KnownTasks
<1> DEFINE special == {<<"image-inpainting">>, <<"text-to-video">>, <<"image-to-video">>, <<"text-to-audio">>}
<1>1. TaskKind(spelling) =
        CASE spelling = <<"image-inpainting">>                         -> <<"kind", "inpainting">>
          [] spelling \in {<<"text-to-video">>, <<"image-to-video">>}  -> <<"kind", "video-generation">>
          [] spelling = <<"text-to-audio">>                            -> <<"kind", "audio-generation">>
          [] spelling \in KnownTasks /\ spelling \notin special        -> <<"kind", spelling[1]>>
          [] OTHER                                                     -> <<"other", spelling>>
  BY DEF TaskKind
<1>2. \A x : <<"kind", x>>[1] # "other"
  OBVIOUS
<1>3. CASE spelling = <<"image-inpainting">>
  BY <1>1, <1>2, <1>3
<1>4. CASE spelling \in {<<"text-to-video">>, <<"image-to-video">>}
  BY <1>1, <1>2, <1>4
<1>5. CASE spelling = <<"text-to-audio">>
  BY <1>1, <1>2, <1>5
<1>6. CASE spelling \in KnownTasks /\ spelling \notin special
  BY <1>1, <1>2, <1>6
<1>7. CASE spelling \notin special /\ spelling \notin KnownTasks
  <2>1. TaskKind(spelling) = <<"other", spelling>>
    BY <1>1, <1>7
  <2>. QED
    BY <1>7, <2>1
<1>. QED
  BY <1>3, <1>4, <1>5, <1>6, <1>7

\* A string member is given and not empty, and is then used up.
LEMMA StringIs ==
    ASSUME NEW object, NEW name
    PROVE  /\ StringOf(object, name) # Some(<<>>)
           /\ StringOf(object, name) # None => Given(object, name) /\ Used(object, name) = {name}
           /\ Given(object, name) => StringOf(object, name) = Some(object[name][2])
BY DEF StringOf, Used, Given, Some, None

\* A component of the rules is one that they can produce.
LEMMA ComponentIsPossible ==
    ASSUME NEW object, NEW name \in ComponentNames(object), NEW extra, name \notin DOMAIN extra
    PROVE  ComponentPossible(Component(name, object[name]), extra)
<1> DEFINE value   == object[name]
           library == value[2][1]
           class   == value[2][2]
           c       == Component(name, value)
<1>1. ~Metadata(name) /\ ComponentTuple(value)
  BY DEF ComponentNames
<1>2. \/ IsText(class) /\ (IsText(library) \/ library = Null)
      \/ library = Null /\ class = Null
  BY <1>1 DEF ComponentTuple
<1>3. ~IsText(Null)
  BY DEF IsText, Null
<1>4. /\ c.name = name
      /\ c.path = IF class = Null THEN None ELSE PathOf(name)
      /\ c.library = IF IsText(library) THEN Some(library[2]) ELSE None
      /\ c.architecture = IF IsText(class) THEN Some(class[2]) ELSE None
      /\ c.optional = (class = Null)
      /\ c.requires_code = (class # Null /\ library = Null)
  BY DEF Component
<1>5. \A x : Some(x) # None
  BY DEF Some, None
<1> HIDE DEF value, library, class, c
<1>6. c.optional => c.path = None /\ c.library = None /\ c.architecture = None /\ ~c.requires_code
  BY <1>2, <1>3, <1>4
<1>7. ~c.optional => /\ c.architecture # None
                     /\ c.requires_code <=> c.library = None
                     /\ c.path = PathOf(c.name)
  BY <1>2, <1>3, <1>4, <1>5
<1>8. c.optional \in BOOLEAN
  BY <1>4
<1>9. ComponentPossible(c, extra)
  BY <1>1, <1>4, <1>6, <1>7, <1>8 DEF ComponentPossible
<1>. QED
  BY <1>9 DEF c, value

\* Nothing to list.
LEMMA NothingToOrder ==
    /\ ToSet(<<>>) = {} /\ Len(<<>>) = 0
    /\ InOrder({}, ByName) = <<>> /\ InOrder({}, ByField) = <<>>
<1>1. ToSet(<<>>) = {} /\ Len(<<>>) = 0
  BY DEF ToSet
<1>2. Cardinality({}) = 0 /\ 1..0 = {}
  BY FS_EmptySet
<1>3. InOrder({}, ByName) = <<>>
  BY <1>2 DEF InOrder
<1>4. InOrder({}, ByField) = <<>>
  BY <1>2 DEF InOrder
<1>. QED
  BY <1>1, <1>3, <1>4

\* The lists of a configuration are in their orders, in which nothing repeats.
LEMMA ConfigurationLists ==
    ASSUME DocumentsInv, Normalize(documents)[1] = "ok"
    PROVE  LET config == Normalize(documents)[2]
           IN  /\ OrderOk(config)
               /\ InOrder(ToSet(config.components), ByName) = config.components
               /\ InOrder(ToSet(config.applied_defaults), ByField) = config.applied_defaults
<1> DEFINE config == Normalize(documents)[2]
           parts    == Components(RootObject)
           defaults == AppliedDefaults(RootObject)
<1>1. CASE Root # ModelIndexPath
  <2>1. config.components = <<>> /\ config.applied_defaults = <<>>
    BY <1>1, RootComponents
  <2> HIDE DEF config
  <2>2. OrderOk(config)
    BY <2>1, NothingToOrder DEF OrderOk
  <2>. QED
    BY <2>1, <2>2, NothingToOrder DEF config
<1>2. CASE Root = ModelIndexPath
  <2>1. /\ FromMembers(ModelIndexPath, RootObject)
        /\ config.components = parts /\ config.applied_defaults = defaults
    BY <1>2, RootComponents
  <2>2. /\ \A i, j \in 1..Len(parts) : parts[i].name = parts[j].name => i = j
        /\ InOrder(ToSet(parts), ByName) = parts
    BY <2>1, ComponentsListed
  <2>3. /\ \A i, j \in 1..Len(defaults) : defaults[i].field = defaults[j].field => i = j
        /\ InOrder(ToSet(defaults), ByField) = defaults
    BY <2>1, DefaultsListed
  <2> HIDE DEF config, parts, defaults
  <2>. QED
    BY <2>1, <2>2, <2>3 DEF OrderOk, config
<1>. QED
  BY <1>1, <1>2

\* The default of a safe name keeps the limits of texts.
LEMMA DefaultIsShort ==
    ASSUME NEW name \in Nameable, SafeName(name)
    PROVE  ~LongDefault(Default(name))
<1> DEFINE path == <<<<"components">>, name, <<"path">>>>
<1>1. /\ Default(name).field[1] = "pointer" /\ Default(name).field[2] = path
      /\ Default(name).rule = DefaultRule
  BY DEF Default, Field
<1>2. name \notin LongTexts /\ DefaultRule \notin LongTexts
      /\ <<"components">> \notin LongTexts /\ <<"path">> \notin LongTexts
  BY LimitsKept
<1>3. \A i \in 1..Len(path) : path[i] \notin LongTexts
  <2>1. Len(path) = 3 /\ \A i \in 1..3 : path[i] \in {<<"components">>, name, <<"path">>}
    OBVIOUS
  <2> HIDE DEF path
  <2>. QED
    BY <1>2, <2>1
<1>. QED
  BY <1>1, <1>2, <1>3 DEF LongDefault, LongPointer

\* The record of a repository passes every check but the last.
LEMMA RecordIsRead ==
    ASSUME DocumentsInv, LimitsInv, Projection # None, ~SensitiveConfigTexts(Projection[1]),
           \A path \in DOMAIN documents : ~SensitivePath(path)
    PROVE  LET n == Projection[1]
           IN  /\ PathCheck(Some(n.source_path), "InvalidNormalizedSourcePath") = "ok"
               /\ \A i \in 1..Len(n.components) :
                     PathCheck(n.components[i].path, "InvalidDinomlV1Normalization") = "ok"
               /\ ~Each(n.applied_defaults, LongDefault)
               /\ OrderCheck(n) = "ok" /\ Canonical(n) = n
<1> DEFINE config   == Normalize(documents)[2]
           n        == Projection[1]
<1>1. /\ Normalize(documents)[1] = "ok" /\ ~SensitiveIdentity(config)
      /\ n.components = config.components /\ n.source_path = config.source_path
      /\ n = [field \in RecordFields |-> n[field]]
  BY ProjectionIs DEF RecordFields
<1>2. n.applied_defaults = config.applied_defaults
  BY DefaultsStay
<1>3. /\ OrderOk(config)
      /\ InOrder(ToSet(config.components), ByName) = config.components
      /\ InOrder(ToSet(config.applied_defaults), ByField) = config.applied_defaults
  BY <1>1, ConfigurationLists
<1>4. config.source_path = Root /\ Root \in DOMAIN documents
  BY <1>1, ConfigurationIs, NormalizeIs
<1>5. \A i \in 1..Len(config.components) :
          config.components[i].path # None => Portable(config.components[i].path[1])
  <2>1. CASE Root # ModelIndexPath
    BY <1>1, <2>1, RootComponents, NothingToOrder
  <2>2. CASE Root = ModelIndexPath
    <3> DEFINE parts == Components(RootObject)
    <3>1. FromMembers(ModelIndexPath, RootObject) /\ config.components = parts
      BY <1>1, <2>2, RootComponents
    <3>2. \A i \in 1..Len(parts) : parts[i] = Component(parts[i].name, RootObject[parts[i].name])
      BY <3>1, ComponentsListed
    <3>3. ASSUME NEW i \in 1..Len(parts), parts[i].path # None
          PROVE  Portable(parts[i].path[1])
      <4> DEFINE name == parts[i].name
                 path == Component(name, RootObject[name]).path
      <4>1. path = None \/ (path = Some(<<name>>) /\ Portable(path[1]))
        BY DerivedPath
      <4>2. parts[i].path = path
        BY <3>2
      <4> HIDE DEF path, name, parts
      <4>. QED
        BY <3>3, <4>1, <4>2
    <3> HIDE DEF config, parts
    <3>. QED
      BY <3>1, <3>3
  <2>. QED
    BY <2>1, <2>2
<1>6. \A i \in 1..Len(config.components) : config.components[i] \in ToSet(config.components)
  <2>1. \E T : config.components \in Seq(T)
    BY <1>1, ConfigurationIs
  <2> HIDE DEF config
  <2>. QED
    BY <2>1 DEF ToSet
<1>7. \A i \in 1..Len(config.components) : ~Of(config.components[i].path, SensitivePath)
  BY <1>1, <1>6 DEF SensitiveIdentity
<1>8. \A i \in 1..Len(config.applied_defaults) : ~LongDefault(config.applied_defaults[i])
  BY DefaultsAreShown, DefaultIsShort
<1> HIDE DEF config, n
<1>9. \A i \in 1..Len(n.components) :
          PathCheck(n.components[i].path, "InvalidDinomlV1Normalization") = "ok"
  BY <1>1, <1>5, <1>7, PathPasses
<1>10. PathCheck(Some(n.source_path), "InvalidNormalizedSourcePath") = "ok"
  <2>1. Portable(n.source_path) /\ ~SensitivePath(n.source_path)
    BY <1>1, <1>4 DEF LimitsInv, Constructible
  <2>2. Some(n.source_path)[1] = n.source_path
    BY DEF Some
  <2>. QED
    BY <2>1, <2>2, PathPasses DEF Of
<1>11. ~Each(n.applied_defaults, LongDefault)
  BY <1>2, <1>8 DEF Each
<1>12. OrderCheck(n) = "ok"
  <2>1. OrderOk(n)
    BY <1>1, <1>2, <1>3 DEF OrderOk
  <2>. QED
    BY <2>1, OrderIs
<1>13. Canonical(n) = n
  <2>1. Canonical(n) = [n EXCEPT !.components       = InOrder(ToSet(n.components), ByName),
                                 !.applied_defaults = InOrder(ToSet(n.applied_defaults), ByField)]
    BY DEF Canonical
  <2>2. /\ InOrder(ToSet(n.components), ByName) = n.components
        /\ InOrder(ToSet(n.applied_defaults), ByField) = n.applied_defaults
    BY <1>1, <1>2, <1>3
  <2>3. [n EXCEPT !.components = n.components, !.applied_defaults = n.applied_defaults] = n
    BY <1>1 DEF RecordFields
  <2>. QED
    BY <2>1, <2>2, <2>3
<1>. QED
  BY <1>9, <1>10, <1>11, <1>12, <1>13 DEF n

\* The record that is written is safe, as the reader judges it.
LEMMA RecordIsSafe ==
    ASSUME DocumentsInv, Projection # None, ~SensitiveConfigTexts(Projection[1])
    PROVE  ManifestIsSafe(Projection[1])
<1> DEFINE config   == Normalize(documents)[2]
           n        == Projection[1]
           shown    == {name \in DOMAIN config.extra : Shown(name)}
<1>1. /\ ~SensitiveIdentity(config)
      /\ \A field \in RecordFields \ {"extra", "applied_defaults"} : n[field] = config[field]
      /\ n.extra = [name \in shown |-> Redact(config.extra[name])]
  BY ProjectionIs
<1>2. n.applied_defaults = config.applied_defaults
  BY DefaultsStay
<1>3. \A value \in Values(n) : Safe(value)
  BY ValuesAreSafe
<1>4. \A i \in 1..Len(config.applied_defaults) : ShownDefault(config.applied_defaults[i])
  BY DefaultsAreShown
<1>5. DOMAIN config.applied_defaults = 1..Len(config.applied_defaults)
  <2>1. \E T : config.applied_defaults \in Seq(T)
    BY ProjectionIs, ConfigurationIs
  <2> HIDE DEF config
  <2>. QED
    BY <2>1
<1> HIDE DEF config, n
<1>6. ~SensitiveIdentity(n)
  <2>1. /\ n.source_path = config.source_path /\ n.architecture = config.architecture
        /\ n.model_type = config.model_type
        /\ n.transformers_version = config.transformers_version
        /\ n.diffusers_version = config.diffusers_version
        /\ n.task = config.task /\ n.components = config.components
    BY <1>1 DEF RecordFields
  <2>. QED
    BY <1>1, <2>1 DEF SensitiveIdentity
<1>7. \A name \in DOMAIN n.extra : Shown(name) /\ Safe(n.extra[name])
  BY <1>1, <1>3 DEF Values
<1>8. \A default \in ToSet(n.applied_defaults) : ShownDefault(default) /\ Safe(default.value)
  <2>1. SUFFICES ASSUME NEW i \in 1..Len(n.applied_defaults)
                 PROVE  /\ ShownDefault(n.applied_defaults[i])
                        /\ Safe(n.applied_defaults[i].value)
    BY <1>2, <1>5 DEF ToSet
  <2>. QED
    BY <1>2, <1>3, <1>4 DEF Values
<1>. QED
  BY <1>6, <1>7, <1>8 DEF ManifestIsSafe, n

\* What the record says is in accord with the documents.
LEMMA RecordIsRelated ==
    ASSUME DocumentsInv, Projection # None
    PROVE  LET n       == Projection[1]
               kind    == Name(n.source_path)
               sources == IF kind = <<"config.json">>
                          THEN {"config_architectures", "config_class_name", "config_model_type"}
                          ELSE {"model_index_class_name"}
           IN  /\ n.source_path \in DOMAIN documents
               /\ kind \in {<<"config.json">>, <<"model_index.json">>}
               /\ Len(n.source_path) = 1
               /\ n.architecture # <<>>
               /\ ~(kind = <<"config.json">> /\ ModelIndexPath \in DOMAIN documents)
               /\ n.architecture_source \in sources
               /\ kind = <<"config.json">> <=> Root # ModelIndexPath
<1> DEFINE config == Normalize(documents)[2]
           n      == Projection[1]
<1>1. /\ Normalize(documents)[1] = "ok"
      /\ n.source_path = config.source_path /\ n.architecture = config.architecture
      /\ n.architecture_source = config.architecture_source
  BY ProjectionIs DEF RecordFields
<1>2. /\ Root \in {ModelIndexPath, ConfigPath} /\ Root \in DOMAIN documents
      /\ ModelIndexPath \in DOMAIN documents => Root = ModelIndexPath
      /\ Taken # None /\ config = Configuration(RootObject, Root, Taken[1])
  BY <1>1, NormalizeIs
<1>3. /\ config.source_path = Root /\ config.architecture = Taken[1].id
      /\ config.architecture_source = Taken[1].source
  BY <1>2, ConfigurationHas
<1>4. /\ Taken[1].id # <<>>
      /\ IF Root = ModelIndexPath
         THEN Taken[1].source = "model_index_class_name"
         ELSE Taken[1].source \in {"config_architectures", "config_class_name", "config_model_type"}
  BY <1>2, TakenIs DEF Taken
<1>5. /\ Name(ModelIndexPath) = <<"model_index.json">> /\ Name(ConfigPath) = <<"config.json">>
      /\ Len(ModelIndexPath) = 1 /\ Len(ConfigPath) = 1
      /\ <<"model_index.json">> # <<"config.json">> /\ ModelIndexPath # ConfigPath
  BY DEF Name, ModelIndexPath, ConfigPath
<1> HIDE DEF n, config
<1>. QED
  BY <1>1, <1>2, <1>3, <1>4, <1>5 DEF n

\* What the rules make of a root has the scalars they can produce.
LEMMA ScalarsArePossible ==
    ASSUME NEW object, NEW root, TakeArchitecture(object, root) # None, NEW n,
           LET config == Configuration(object, root, TakeArchitecture(object, root)[1])
           IN  /\ n.architecture = config.architecture
               /\ n.architecture_source = config.architecture_source
               /\ n.model_type = config.model_type
               /\ n.transformers_version = config.transformers_version
               /\ n.diffusers_version = config.diffusers_version
               /\ n.task = config.task
               /\ DOMAIN n.extra \subseteq DOMAIN config.extra
    PROVE  ScalarsPossible(n)
<1> DEFINE taken   == TakeArchitecture(object, root)[1]
           config  == Configuration(object, root, taken)
           model   == <<"model_type">>
           version == <<"transformers_version">>
           other   == <<"_diffusers_version">>
           class   == <<"_class_name">>
<1>1. /\ n.architecture = taken.id /\ n.architecture_source = taken.source
      /\ n.model_type = StringOf(object, model)
      /\ n.transformers_version = StringOf(object, version)
      /\ n.diffusers_version = StringOf(object, other)
  BY ConfigurationHas
<1>2. /\ DOMAIN n.extra \cap taken.used = {}
      /\ DOMAIN n.extra \cap Used(object, model) = {}
      /\ DOMAIN n.extra \cap Used(object, version) = {}
      /\ DOMAIN n.extra \cap Used(object, other) = {}
      /\ n.task # None => \E spelling : spelling # <<>> /\ n.task = Some(TaskKind(spelling))
  <2>1. /\ DOMAIN config.extra \cap taken.used = {}
        /\ \A name \in {model, version, other} : DOMAIN config.extra \cap Used(object, name) = {}
        /\ config.task # None =>
              \E spelling : spelling # <<>> /\ config.task = Some(TaskKind(spelling))
    BY ExtraHas
  <2>2. DOMAIN n.extra \subseteq DOMAIN config.extra /\ n.task = config.task
    OBVIOUS
  <2> HIDE DEF config, taken
  <2>. QED
    BY <2>1, <2>2
<1>3. \/ taken.source = "model_index_class_name" /\ taken.used = {class}
      \/ taken.source = "config_architectures"
      \/ taken.source = "config_class_name" /\ taken.used = {class}
      \/ /\ taken.source = "config_model_type"
         /\ Given(object, model) /\ taken.id = object[model][2]
  BY TakenIs
<1> HIDE DEF taken, model, version, other, class
<1>4. /\ n.model_type # Some(<<>>) /\ n.transformers_version # Some(<<>>)
      /\ n.diffusers_version # Some(<<>>)
      /\ n.model_type # None => model \notin DOMAIN n.extra
      /\ n.transformers_version # None => version \notin DOMAIN n.extra
      /\ n.diffusers_version # None => other \notin DOMAIN n.extra
  BY <1>1, <1>2, StringIs
<1>5. ~ (n.task # None /\ n.task[1][1] = "other" /\ n.task[1][2] \in KnownTasks \cup {<<>>})
  <2>1. SUFFICES ASSUME n.task # None, n.task[1][1] = "other",
                        n.task[1][2] \in KnownTasks \cup {<<>>}
                 PROVE  FALSE
    OBVIOUS
  <2>2. PICK spelling : spelling # <<>> /\ n.task = Some(TaskKind(spelling))
    BY <1>2, <2>1
  <2>3. n.task[1] = TaskKind(spelling)
    BY <2>2 DEF Some
  <2>4. TaskKind(spelling)[2] = spelling /\ spelling \notin KnownTasks
    BY <2>1, <2>3, TaskIs
  <2>. QED
    BY <2>1, <2>2, <2>3, <2>4
<1>6. n.architecture_source = "config_model_type" => n.model_type = Some(n.architecture)
  BY <1>1, <1>3, StringIs
<1>7. n.architecture_source \in {"model_index_class_name", "config_class_name"} =>
         class \notin DOMAIN n.extra
  BY <1>1, <1>2, <1>3
<1>. QED
  BY <1>4, <1>5, <1>6, <1>7 DEF ScalarsPossible, model, version, other, class

\* The record is one the rules can produce, but for the order of its defaults.
LEMMA RecordIsPossible ==
    ASSUME DocumentsInv, Projection # None, ~SensitiveConfigTexts(Projection[1])
    PROVE  LET n == Projection[1]
           IN  Possible(n, Name(n.source_path)) <=> ~Misordered(n)
<1> DEFINE config == Normalize(documents)[2]
           n      == Projection[1]
           kind   == Name(n.source_path)
           object == RootObject
           shown  == {name \in DOMAIN config.extra : Shown(name)}
<1>1. /\ Normalize(documents)[1] = "ok"
      /\ \A field \in RecordFields \ {"extra", "applied_defaults"} : n[field] = config[field]
      /\ n.extra = [name \in shown |-> Redact(config.extra[name])]
  BY ProjectionIs
<1>2. /\ n.architecture = config.architecture
      /\ n.architecture_source = config.architecture_source
      /\ n.model_type = config.model_type
      /\ n.transformers_version = config.transformers_version
      /\ n.diffusers_version = config.diffusers_version
      /\ n.task = config.task /\ n.components = config.components
  BY <1>1 DEF RecordFields
<1>3. n.applied_defaults = config.applied_defaults
  BY DefaultsStay
<1>4. DOMAIN n.extra \subseteq DOMAIN config.extra
  BY <1>1
<1>5. config = Configuration(object, Root, Taken[1]) /\ Taken # None
  BY <1>1, NormalizeIs
<1>6. ScalarsPossible(n)
  <2> HIDE DEF n
  <2>. QED
    BY <1>2, <1>4, <1>5, ScalarsArePossible DEF Taken
<1>7. kind = <<"config.json">> <=> Root # ModelIndexPath
  BY RecordIsRelated
<1>8. CASE Root # ModelIndexPath
  <2>1. n.components = <<>> /\ n.applied_defaults = <<>>
    BY <1>1, <1>2, <1>3, <1>8, RootComponents
  <2> HIDE DEF n
  <2>2. ~Misordered(n)
    BY <2>1, NothingToOrder DEF Misordered
  <2>3. Possible(n, kind) <=> ~Misordered(n)
    BY <1>6, <1>7, <1>8, <2>1, <2>2 DEF Possible
  <2>. QED
    BY <2>3 DEF n
<1>9. CASE Root = ModelIndexPath
  <2>1. /\ FromMembers(ModelIndexPath, object)
        /\ n.components = Components(object) /\ n.applied_defaults = AppliedDefaults(object)
    BY <1>1, <1>2, <1>3, <1>9, RootComponents
  <2>2. DefaultsPossible(n) <=> ~Misordered(n)
    BY <2>1, DefaultsOrdered
  <2>3. /\ DOMAIN config.extra \subseteq DOMAIN object
        /\ DOMAIN config.extra \cap ComponentNames(object) = {}
        /\ \A name \in DOMAIN config.extra :
              config.extra[name] = object[name] /\ Nested(config.extra[name], MaxNesting - 1)
    <3>1. DOMAIN config.extra \cap ComponentNames(object) = {}
      BY <1>5, <1>9, ExtraHas
    <3>. QED
      BY <1>1, <3>1, ConfigurationIs
  <2> HIDE DEF config
  <2>4. \A name \in DOMAIN n.extra : Metadata(name) \/ ~ComponentTuple(n.extra[name])
    <3>1. SUFFICES ASSUME NEW name \in DOMAIN n.extra, ~Metadata(name)
                   PROVE  ~ComponentTuple(n.extra[name])
      OBVIOUS
    <3>2. name \in DOMAIN config.extra /\ n.extra[name] = Redact(object[name])
      BY <1>1, <2>3
    <3>3. ~ComponentTuple(object[name])
      BY <2>3, <3>1, <3>2 DEF ComponentNames
    <3>. QED
      BY <2>3, <3>2, <3>3, TupleStays
  <2>5. \A c \in ToSet(n.components) : ComponentPossible(c, n.extra)
    <3> DEFINE parts == Components(object)
    <3>1. /\ parts \in Seq(ToSet(parts))
          /\ \A i \in 1..Len(parts) : /\ parts[i].name \in ComponentNames(object)
                                      /\ parts[i] = Component(parts[i].name, object[parts[i].name])
      BY <2>1, ComponentsListed
    <3> HIDE DEF parts
    <3>2. ASSUME NEW i \in 1..Len(parts)
          PROVE  ComponentPossible(parts[i], n.extra)
      <4> DEFINE name == parts[i].name
      <4>1. name \in ComponentNames(object) /\ parts[i] = Component(name, object[name])
        BY <3>1
      <4>2. name \notin DOMAIN n.extra
        BY <1>4, <2>3, <4>1
      <4> HIDE DEF name, n
      <4>3. ComponentPossible(Component(name, object[name]), n.extra)
        BY <4>1, <4>2, ComponentIsPossible
      <4>. QED
        BY <4>1, <4>3
    <3>3. DOMAIN parts = 1..Len(parts)
      BY <3>1
    <3>. QED
      BY <2>1, <3>2, <3>3 DEF ToSet, parts
  <2> HIDE DEF n
  <2>6. Possible(n, kind) <=> ~Misordered(n)
    BY <1>6, <1>7, <1>9, <2>2, <2>4, <2>5 DEF Possible
  <2>. QED
    BY <2>6 DEF n
<1>. QED
  BY <1>8, <1>9

\* Of several checks the first decides when it fails.
LEMMA FirstFails ==
    ASSUME NEW checks, Len(checks) \in Nat, 1 <= Len(checks), checks[1] # "ok"
    PROVE  First(checks) = checks[1]
<1> DEFINE failed == {i \in 1..Len(checks) : checks[i] # "ok"}
<1>1. /\ 1 \in failed /\ \A m \in failed : 1 <= m
      /\ failed \subseteq Nat
  OBVIOUS
<1>2. First(checks) = checks[Min(failed)]
  BY <1>1 DEF First
<1> HIDE DEF failed
<1>3. Min(failed) = 1
  <2>1. \A n \in failed : (\A m \in failed : n <= m) => n = 1
    BY <1>1
  <2>. QED
    BY <1>1, <2>1 DEF Min
<1>. QED
  BY <1>2, <1>3

\* A text in which the reader finds something sensitive is refused for it.
LEMMA RefusedEarly ==
    ASSUME NEW w, SensitiveScan(w)
    PROVE  FromJson(w) = <<"error", "SensitiveContent">>
<1>1. TextCheck(w) = "SensitiveContent"
  <2> DEFINE checks == <<Check(SensitiveScan(w), "SensitiveContent"),
                         Check(w.repeated, "DuplicateObjectMember"),
                         Check(w.schema_version # 1, "UnsupportedSchemaVersion"),
                         Check(w.normalization_profile = <<>>, "InvalidNormalizationProfile"),
                         Check(w.normalization_profile # Profile, "UnsupportedNormalizationProfile"),
                         Check(w.malformed, "Json")>>
  <2>1. TextCheck(w) = First(checks)
    BY DEF TextCheck
  <2>2. Len(checks) = 6 /\ checks[1] = "SensitiveContent"
    BY DEF Check
  <2> HIDE DEF checks
  <2>3. Len(checks) \in Nat /\ 1 <= Len(checks) /\ checks[1] # "ok"
    BY <2>2
  <2>. QED
    BY <2>1, <2>2, <2>3, FirstFails
<1> DEFINE order  == IF w.normalized = None THEN "ok" ELSE OrderCheck(w.normalized[1])
           checks == <<TextCheck(w), ConversionCheck(w), WireCheck(w), DocumentsCheck(w.documents), order>>
           m      == [documents   |-> InOrder(ToSet(w.documents), ByPath),
                      normalized  |-> Reordered(w),
                      diagnostics |-> Sorted(w.diagnostics)]
           check  == IF First(checks) # "ok" THEN First(checks) ELSE RelationCheck(w, Reordered(w))
<1>2. FromJson(w) = IF check # "ok" THEN <<"error", check>> ELSE <<"ok", m>>
  BY DEF FromJson, Reordered
<1> HIDE DEF m, order
<1>3. Len(checks) = 5 /\ checks[1] = "SensitiveContent"
  BY <1>1
<1> HIDE DEF checks
<1>4. First(checks) = "SensitiveContent"
  <2>1. Len(checks) \in Nat /\ 1 <= Len(checks) /\ checks[1] # "ok"
    BY <1>3
  <2>. QED
    BY <1>3, <2>1, FirstFails
<1>. QED
  BY <1>2, <1>4

\* A text is refused for its relationships when it passes the other checks.
LEMMA RefusedLate ==
    ASSUME NEW w, TextCheck(w) = "ok", ConversionCheck(w) = "ok", WireCheck(w) = "ok",
           DocumentsCheck(w.documents) = "ok",
           w.normalized # None => OrderCheck(w.normalized[1]) = "ok",
           RelationCheck(w, Reordered(w)) # "ok"
    PROVE  FromJson(w) = <<"error", RelationCheck(w, Reordered(w))>>
<1> DEFINE order  == IF w.normalized = None THEN "ok" ELSE OrderCheck(w.normalized[1])
           checks == <<TextCheck(w), ConversionCheck(w), WireCheck(w), DocumentsCheck(w.documents), order>>
           m      == [documents   |-> InOrder(ToSet(w.documents), ByPath),
                      normalized  |-> Reordered(w),
                      diagnostics |-> Sorted(w.diagnostics)]
           check  == IF First(checks) # "ok" THEN First(checks) ELSE RelationCheck(w, Reordered(w))
<1>1. FromJson(w) = IF check # "ok" THEN <<"error", check>> ELSE <<"ok", m>>
  BY DEF FromJson, Reordered
<1> HIDE DEF m
<1>2. order = "ok"
  OBVIOUS
<1> HIDE DEF order
<1>3. /\ Len(checks) = 5 /\ 5 \in Nat /\ checks[1] = "ok" /\ checks[2] = "ok" /\ checks[3] = "ok"
      /\ checks[4] = "ok" /\ checks[5] = "ok"
  BY <1>2
<1> HIDE DEF checks
<1>4. \A i \in 1..5 : checks[i] = "ok"
  BY <1>3
<1>5. First(checks) = "ok"
  BY <1>3, <1>4, FirstIff
<1>. QED
  BY <1>1, <1>5

\* The text of a manifest as the crate writes it.
OwnText(w) ==
    /\ w.repeated = FALSE /\ w.malformed = FALSE /\ w.schema_version = 1
    /\ w.normalization_profile = Profile
    /\ w.documents = Listing /\ w.normalized = Projection
    /\ w.diagnostics = Sorted(Shortened)

\* Such a text, when nothing in it is taken for sensitive, passes every check
\* but the last, and that one when no two of its components are misordered.
LEMMA OwnChecks ==
    ASSUME DocumentsInv, FindingsInv, LimitsInv,
           \A path \in DOMAIN documents : ~SensitivePath(path),
           NEW w, OwnText(w), ~SensitiveScan(w)
    PROVE  /\ TextCheck(w) = "ok" /\ ConversionCheck(w) = "ok" /\ WireCheck(w) = "ok"
           /\ DocumentsCheck(w.documents) = "ok"
           /\ w.normalized # None => OrderCheck(w.normalized[1]) = "ok"
           /\ Reordered(w) = w.normalized
           /\ \/ RelationCheck(w, w.normalized) = "ok"
              \/ RelationCheck(w, w.normalized) = "InvalidDinomlV1Normalization"
           /\ RelationCheck(w, w.normalized) = "ok" <=>
                 ~(w.normalized # None /\ Misordered(w.normalized[1]))
<1> DEFINE n == Projection[1]
<1>1. /\ w.documents = Listing /\ w.normalized = Projection
      /\ w.diagnostics = Sorted(Shortened)
  BY DEF OwnText
<1>2. Projection # None => Projection = Some(n) /\ ~SensitiveConfigTexts(n)
  <2>1. Projection # None => Projection = Some(n)
    BY ProjectionIs
  <2>2. Projection # None => ~SensitiveConfigTexts(n)
    BY <1>1 DEF SensitiveScan, Of
  <2>. QED
    BY <2>1, <2>2
<1>3. /\ Len(w.diagnostics) \in Nat /\ Len(w.diagnostics) <= MaxFindings
      /\ \A i \in 1..Len(w.diagnostics) :
            /\ FindingPaths(w.diagnostics[i]) = "ok" /\ FindingCheck(w.diagnostics[i]) = "ok"
            /\ ~SensitiveFinding(w.diagnostics[i])
            /\ w.diagnostics[i].document_path # None => w.diagnostics[i].document_path[1] \in DOMAIN documents
  BY <1>1, FindingsAreRead
<1>4. DocumentsCheck(Listing) = "ok" /\ ~(Len(Listing) > MaxDocuments)
  BY ListingIsRead
<1>5. DocumentPaths(Listing) = DOMAIN documents
  BY ListingIs
<1>6. TextCheck(w) = "ok"
  BY TextIs DEF TextOk, OwnText
<1>7. Projection # None =>
         /\ PathCheck(Some(n.source_path), "InvalidNormalizedSourcePath") = "ok"
         /\ \A i \in 1..Len(n.components) :
               PathCheck(n.components[i].path, "InvalidDinomlV1Normalization") = "ok"
         /\ ~Each(n.applied_defaults, LongDefault)
         /\ OrderCheck(n) = "ok" /\ Canonical(n) = n
  BY <1>2, RecordIsRead
<1>8. Projection # None => ManifestIsSafe(n)
  BY <1>2, RecordIsSafe
<1>9. Projection # None => Len(n.components) \in Nat
  <2>1. \A list : list \in Seq(ToSet(list)) => Len(list) \in Nat
    OBVIOUS
  <2>. QED
    BY <2>1, ProjectionFormed DEF RecordFormed
<1>10. ConversionCheck(w) = "ok"
  <2>1. ConversionOk(w)
    BY <1>1, <1>3, <1>7 DEF ConversionOk
  <2>. QED
    BY <1>1, <1>3, <1>9, <2>1, ConversionIs
<1>11. WireCheck(w) = "ok"
  <2>1. ~(Len(w.diagnostics) > MaxFindings)
    BY <1>3, InputsAssumption
  <2>2. ~Each(w.diagnostics, SensitiveFinding)
    BY <1>3 DEF Each
  <2>3. WireOk(w)
    BY <1>1, <1>3, <1>4, <1>7, <1>8, <2>1, <2>2 DEF WireOk
  <2>. QED
    BY <1>3, <2>3, WireIs
<1>12. Reordered(w) = w.normalized
  BY <1>1, <1>2, <1>7 DEF Reordered
<1>13. Related(w, Projection)
  <2> DEFINE paths == DocumentPaths(w.documents)
  <2>1. paths = DOMAIN documents
    BY <1>1, <1>5
  <2>. QED
    BY <1>3, <2>1, RecordIsRelated DEF Related
<1>14. Producible(Projection) <=> ~(Projection # None /\ Misordered(Projection[1]))
  BY <1>2, RecordIsPossible DEF Producible
<1>. QED
  BY <1>1, <1>4, <1>6, <1>7, <1>10, <1>11, <1>12, <1>13, <1>14, RelationIs

\* What the crate writes it reads, in every state.
LEMMA OwnIsRead ==
    ASSUME IInv
    PROVE  OwnManifestIsRead
<1>1. SUFFICES ASSUME Own
               PROVE  IF SensitiveScan(wire) THEN answer = <<"error", "SensitiveContent">>
                      ELSE IF manifest.normalized # None /\ Misordered(manifest.normalized[1])
                      THEN answer = <<"error", "InvalidDinomlV1Normalization">>
                      ELSE answer = <<"ok", manifest>>
  BY DEF OwnManifestIsRead
<1>2. /\ wire = ToWire(manifest) /\ answer = FromJson(wire)
      /\ DocumentsInv /\ FindingsInv /\ LimitsInv /\ OutputInv /\ Written
  BY <1>1 DEF IInv, OwnInv, AnswerInv, Own, Written
<1>3. /\ manifest.normalized = Projection /\ manifest.diagnostics = Sorted(Shortened)
      /\ manifest.documents = Listing
      /\ manifest = [documents   |-> manifest.documents, normalized |-> manifest.normalized,
                     diagnostics |-> manifest.diagnostics]
      /\ \A path \in DOMAIN documents : ~SensitivePath(path)
  BY <1>2, ManifestIs DEF Listing
<1>4. /\ OwnText(wire) /\ wire.documents = manifest.documents
      /\ wire.normalized = manifest.normalized /\ wire.diagnostics = manifest.diagnostics
  BY <1>2, <1>3 DEF OwnText, ToWire
<1>5. CASE SensitiveScan(wire)
  BY <1>2, <1>5, RefusedEarly
<1>6. CASE ~SensitiveScan(wire)
  <2>1. /\ TextCheck(wire) = "ok" /\ ConversionCheck(wire) = "ok" /\ WireCheck(wire) = "ok"
        /\ DocumentsCheck(wire.documents) = "ok"
        /\ wire.normalized # None => OrderCheck(wire.normalized[1]) = "ok"
        /\ Reordered(wire) = wire.normalized
        /\ \/ RelationCheck(wire, wire.normalized) = "ok"
           \/ RelationCheck(wire, wire.normalized) = "InvalidDinomlV1Normalization"
        /\ RelationCheck(wire, wire.normalized) = "ok" <=>
              ~(wire.normalized # None /\ Misordered(wire.normalized[1]))
    BY <1>2, <1>3, <1>4, <1>6, OwnChecks
  <2>2. CASE wire.normalized # None /\ Misordered(wire.normalized[1])
    BY <1>2, <1>4, <1>6, <2>1, <2>2, RefusedLate
  <2>3. CASE ~(wire.normalized # None /\ Misordered(wire.normalized[1]))
    <3>1. FromJson(wire) = <<"ok", [documents   |-> InOrder(ToSet(wire.documents), ByPath),
                                    normalized  |-> Reordered(wire),
                                    diagnostics |-> Sorted(wire.diagnostics)]>>
      BY <2>1, <2>3, PassesIs
    <3>2. InOrder(ToSet(wire.documents), ByPath) = manifest.documents
      BY <1>2, <1>3, <1>4, ListingIs
    <3>3. Sorted(wire.diagnostics) = manifest.diagnostics
      BY <1>2, <1>3, <1>4, FindingsAreRead
    <3>4. FromJson(wire) = <<"ok", manifest>>
      BY <1>3, <1>4, <2>1, <3>1, <3>2, <3>3
    <3>. QED
      BY <1>2, <1>4, <1>6, <2>3, <3>4
  <2>. QED
    BY <2>2, <2>3
<1>. QED
  BY <1>5, <1>6

-----------------------------------------------------------------------------
(***************************************************************************)
(* An accepted record is the work of the rules: the root document that is  *)
(* computed back from it is normalized to it.                              *)
(***************************************************************************)

\* What the reader has established of a record it accepts.
Passed(n) ==
    /\ RecordFormed(n) /\ OrderOk(n)
    /\ n.source_path \in {ModelIndexPath, ConfigPath}
    /\ n.architecture # <<>>
    /\ n.architecture_source \in
          IF n.source_path = ModelIndexPath THEN {"model_index_class_name"}
          ELSE {"config_architectures", "config_class_name", "config_model_type"}
    /\ ScalarsPossible(n)
    /\ IF n.source_path = ModelIndexPath
       THEN /\ \A name \in DOMAIN n.extra : Metadata(name) \/ ~ComponentTuple(n.extra[name])
            /\ \A c \in ToSet(n.components) : ComponentPossible(c, n.extra)
            /\ DefaultsPossible(n)
       ELSE n.components = <<>> /\ n.applied_defaults = <<>>
    /\ n.components = InOrder(ToSet(n.components), ByName)
    /\ n.applied_defaults = InOrder(ToSet(n.applied_defaults), ByField)

TextNames == {<<"model_type">>, <<"transformers_version">>, <<"_diffusers_version">>}
TaskNames == {<<"pipeline_tag">>, <<"task">>}
TaskAt(n) == IF <<"pipeline_tag">> \in DOMAIN n.extra THEN <<"task">> ELSE <<"pipeline_tag">>
PartValue(c) == List(<<TextOrNull(c.library), TextOrNull(c.architecture)>>)

\* The names of the scalar members are of those the rules read.
LEMMA ScalarNames ==
    ASSUME NEW n
    PROVE  /\ \A m \in ClassMember(n) : m[1] \in {<<"architectures">>, <<"_class_name">>}
           /\ \A m \in TaskMember(n) : m[1] \in TaskNames
           /\ \A m \in TextMember(<<"model_type">>, n.model_type) : m[1] = <<"model_type">>
           /\ \A m \in TextMember(<<"transformers_version">>, n.transformers_version) :
                 m[1] = <<"transformers_version">>
           /\ \A m \in TextMember(<<"_diffusers_version">>, n.diffusers_version) :
                 m[1] = <<"_diffusers_version">>
<1>1. \A m \in ClassMember(n) : m[1] \in {<<"architectures">>, <<"_class_name">>}
  BY DEF ClassMember
<1>2. \A m \in TaskMember(n) : m[1] \in TaskNames
  BY DEF TaskMember, TaskNames
<1>3. \A name, option : \A m \in TextMember(name, option) : m[1] = name
  BY DEF TextMember
<1>. QED
  BY <1>1, <1>2, <1>3

LEMMA ScalarsApart ==
    ASSUME NEW n, NEW a \in ScalarMembers(n), NEW b \in ScalarMembers(n), a[1] = b[1]
    PROVE  a = b
<1> DEFINE C == ClassMember(n)
           T == TaskMember(n)
           X == TextMember(<<"model_type">>, n.model_type)
           Y == TextMember(<<"transformers_version">>, n.transformers_version)
           Z == TextMember(<<"_diffusers_version">>, n.diffusers_version)
<1>1. /\ \A x, y \in C : x = y
      /\ \A x, y \in T : x = y
      /\ \A x, y \in X : x = y
      /\ \A x, y \in Y : x = y
      /\ \A x, y \in Z : x = y
  BY DEF ClassMember, TaskMember, TextMember
<1>2. /\ \A m \in C : m[1] \in {<<"architectures">>, <<"_class_name">>}
      /\ \A m \in T : m[1] \in {<<"pipeline_tag">>, <<"task">>}
      /\ \A m \in X : m[1] = <<"model_type">>
      /\ \A m \in Y : m[1] = <<"transformers_version">>
      /\ \A m \in Z : m[1] = <<"_diffusers_version">>
  BY ScalarNames DEF TaskNames
<1>3. ScalarMembers(n) = C \cup T \cup X \cup Y \cup Z
  BY DEF ScalarMembers
<1> HIDE DEF C, T, X, Y, Z
<1>4. CASE a \in C
  BY <1>1, <1>2, <1>3, <1>4
<1>5. CASE a \in T
  BY <1>1, <1>2, <1>3, <1>5
<1>6. CASE a \in X
  BY <1>1, <1>2, <1>3, <1>6
<1>7. CASE a \in Y
  BY <1>1, <1>2, <1>3, <1>7
<1>8. CASE a \in Z
  BY <1>1, <1>2, <1>3, <1>8
<1>. QED
  BY <1>3, <1>4, <1>5, <1>6, <1>7, <1>8

\* They are not among the extras.
LEMMA ExtrasApart ==
    ASSUME NEW n, Passed(n), ~Unconsumed(n), NEW a \in ScalarMembers(n)
    PROVE  a[1] \notin DOMAIN n.extra
<1> DEFINE E == DOMAIN n.extra
<1>1. /\ n.model_type # None => <<"model_type">> \notin E
      /\ n.transformers_version # None => <<"transformers_version">> \notin E
      /\ n.diffusers_version # None => <<"_diffusers_version">> \notin E
      /\ n.architecture_source \in {"model_index_class_name", "config_class_name"} => <<"_class_name">> \notin E
      /\ n.architecture_source \in {"model_index_class_name", "config_architectures",
                                    "config_class_name", "config_model_type"}
  BY DEF Passed, ScalarsPossible
<1>2. /\ n.architecture_source # "model_index_class_name" => <<"architectures">> \notin E
      /\ n.task # None => ~({<<"pipeline_tag">>, <<"task">>} \subseteq E)
  BY DEF Unconsumed
<1> HIDE DEF E
<1>3. CASE a \in ClassMember(n)
  <2>1. \/ a[1] = <<"architectures">> /\ n.architecture_source = "config_architectures"
        \/ a[1] = <<"_class_name">> /\ n.architecture_source \in {"model_index_class_name", "config_class_name"}
    BY <1>1, <1>3 DEF ClassMember
  <2>. QED
    BY <1>1, <1>2, <2>1 DEF E
<1>4. CASE a \in TaskMember(n)
  <2>1. n.task # None /\ a[1] = TaskAt(n)
    BY <1>4 DEF TaskMember, TaskAt
  <2>. QED
    BY <1>2, <2>1 DEF TaskAt, E
<1>5. \A name, option : a \in TextMember(name, option) => a[1] = name /\ option # None
  BY DEF TextMember
<1>. QED
  BY <1>1, <1>3, <1>4, <1>5 DEF ScalarMembers, E

LEMMA ElementAt ==
    ASSUME NEW T, NEW s \in Seq(T), NEW x \in ToSet(s)
    PROVE  \E i \in 1..Len(s) : x = s[i]
<1>1. DOMAIN s = 1..Len(s)
  OBVIOUS
<1>. QED
  BY <1>1 DEF ToSet

LEMMA PartsNamed ==
    ASSUME NEW n, Passed(n), NEW c \in ToSet(n.components), NEW d \in ToSet(n.components), c.name = d.name
    PROVE  c = d
<1>1. OrderOk(n) /\ n.components \in Seq(ToSet(n.components))
  BY DEF Passed, RecordFormed
<1>2. PICK i \in 1..Len(n.components) : c = n.components[i]
  BY <1>1, ElementAt
<1>3. PICK j \in 1..Len(n.components) : d = n.components[j]
  BY <1>1, ElementAt
<1>. QED
  BY <1>1, <1>2, <1>3 DEF OrderOk

\* Components are neither.
LEMMA PartsApart ==
    ASSUME NEW n, Passed(n), ~Unconsumed(n), NEW c \in ToSet(n.components)
    PROVE  /\ n.source_path = ModelIndexPath /\ ComponentPossible(c, n.extra)
           /\ ~Metadata(c.name) /\ c.name \notin DOMAIN n.extra
           /\ \A a \in ScalarMembers(n) : a[1] # c.name
<1>1. n.source_path = ModelIndexPath /\ ComponentPossible(c, n.extra)
  <2>1. ToSet(<<>>) = {}
    BY DEF ToSet
  <2>. QED
    BY <2>1 DEF Passed
<1>2. ~Metadata(c.name) /\ c.name \notin DOMAIN n.extra
  BY <1>1 DEF ComponentPossible
<1>3. /\ c.name \notin {<<"_class_name">>, <<"_diffusers_version">>, <<"pipeline_tag">>, <<"task">>}
  BY <1>2, UnderscoredAssumption DEF Metadata
<1>4. n.architecture_source = "model_index_class_name"
  <2>1. ModelIndexPath # <<>>
    BY DEF ModelIndexPath
  <2>. QED
    BY <1>1 DEF Passed
<1>5. /\ c.name = <<"model_type">> => n.model_type = None
      /\ c.name = <<"transformers_version">> => n.transformers_version = None
  <2>1. PICK i \in 1..Len(n.components) : c = n.components[i]
    BY ElementAt DEF Passed, RecordFormed
  <2>. QED
    BY <2>1 DEF Unconsumed
<1>6. \A a \in ClassMember(n) : a[1] = <<"_class_name">>
  BY <1>4 DEF ClassMember
<1>7. \A a \in TaskMember(n) : a[1] \in TaskNames
  BY ScalarNames
<1>8. \A name, option : \A a \in TextMember(name, option) : a[1] = name /\ option # None
  BY DEF TextMember
<1>9. \A a \in ScalarMembers(n) : a[1] # c.name
  <2> SUFFICES ASSUME NEW a \in ScalarMembers(n) PROVE a[1] # c.name
    OBVIOUS
  <2>1. CASE a \in ClassMember(n)
    BY <1>3, <1>6, <2>1
  <2>2. CASE a \in TaskMember(n)
    BY <1>3, <1>7, <2>2 DEF TaskNames
  <2>3. CASE a \in TextMember(<<"model_type">>, n.model_type)
    BY <1>5, <1>8, <2>3
  <2>4. CASE a \in TextMember(<<"transformers_version">>, n.transformers_version)
    BY <1>5, <1>8, <2>4
  <2>5. CASE a \in TextMember(<<"_diffusers_version">>, n.diffusers_version)
    BY <1>3, <1>8, <2>5
  <2>. QED
    BY <2>1, <2>2, <2>3, <2>4, <2>5 DEF ScalarMembers
<1>. QED
  BY <1>1, <1>2, <1>9

\* No two members of the rebuilt root have one name, so each has its value.
LEMMA MembersApart ==
    ASSUME NEW n, Passed(n), ~Unconsumed(n),
           NEW a \in MembersOf(n), NEW b \in MembersOf(n), a[1] = b[1]
    PROVE  a = b
<1> DEFINE E == ExtraMembers(n)
           S == ScalarMembers(n)
           P == PartMembers(n)
<1>1. MembersOf(n) = E \cup S \cup P
  BY DEF MembersOf
<1>2. \A m \in E : m[1] \in DOMAIN n.extra /\ m = <<m[1], n.extra[m[1]]>>
  BY DEF ExtraMembers
<1>3. \A m \in P : \E c \in ToSet(n.components) : m[1] = c.name /\ m = <<c.name, PartValue(c)>>
  BY DEF PartMembers, PartValue
<1>4. \A m \in S : m[1] \notin DOMAIN n.extra
  BY ExtrasApart
<1>5. \A c \in ToSet(n.components) : c.name \notin DOMAIN n.extra /\ \A m \in S : m[1] # c.name
  BY PartsApart
<1>6. \A x, y \in S : x[1] = y[1] => x = y
  BY ScalarsApart
<1>7. \A c, d \in ToSet(n.components) : c.name = d.name => c = d
  BY PartsNamed
<1> HIDE DEF E, S, P
<1>8. CASE a \in E
  BY <1>1, <1>2, <1>3, <1>4, <1>5, <1>8
<1>9. CASE a \in S
  <2>1. b \notin E
    BY <1>2, <1>4, <1>9
  <2>2. b \notin P
    BY <1>3, <1>5, <1>9
  <2>. QED
    BY <1>1, <1>6, <1>9, <2>1, <2>2
<1>10. CASE a \in P
  <2>1. PICK c \in ToSet(n.components) : a[1] = c.name /\ a = <<c.name, PartValue(c)>>
    BY <1>3, <1>10
  <2>2. b \notin E /\ b \notin S
    BY <1>2, <1>5, <2>1
  <2>3. PICK d \in ToSet(n.components) : b[1] = d.name /\ b = <<d.name, PartValue(d)>>
    BY <1>1, <1>3, <2>2
  <2>4. c = d
    BY <1>7, <2>1, <2>3
  <2>. QED
    BY <2>1, <2>3, <2>4
<1>. QED
  BY <1>1, <1>8, <1>9, <1>10

\* A root that has just those members.
IsRebuilt(o, n) ==
    /\ \A name \in DOMAIN n.extra : name \in DOMAIN o /\ o[name] = n.extra[name]
    /\ \A c \in ToSet(n.components) : c.name \in DOMAIN o /\ o[c.name] = PartValue(c)
    /\ \A m \in ScalarMembers(n) : m[1] \in DOMAIN o /\ o[m[1]] = m[2]
    /\ \A name \in DOMAIN o :
          \/ name \in DOMAIN n.extra
          \/ \E c \in ToSet(n.components) : name = c.name
          \/ \E m \in ScalarMembers(n) : name = m[1]

LEMMA RebuiltIs ==
    ASSUME NEW n, Passed(n), ~Unconsumed(n)
    PROVE  IsRebuilt(Rebuilt(n), n)
<1> DEFINE M == MembersOf(n)
           o == Rebuilt(n)
<1>1. o = [name \in {m[1] : m \in M} |-> (CHOOSE m \in M : m[1] = name)[2]]
  BY DEF Rebuilt
<1>2. \A x, y \in M : x[1] = y[1] => x = y
  BY MembersApart
<1>3. /\ \A name \in DOMAIN n.extra : <<name, n.extra[name]>> \in M
      /\ \A c \in ToSet(n.components) : <<c.name, PartValue(c)>> \in M
      /\ \A m \in ScalarMembers(n) : m \in M
      /\ \A m \in M : \/ m[1] \in DOMAIN n.extra
                      \/ \E c \in ToSet(n.components) : m[1] = c.name
                      \/ m \in ScalarMembers(n)
  <2>1. /\ \A name \in DOMAIN n.extra : <<name, n.extra[name]>> \in ExtraMembers(n)
        /\ \A m \in ExtraMembers(n) : m[1] \in DOMAIN n.extra
    BY DEF ExtraMembers
  <2>2. /\ \A c \in ToSet(n.components) : <<c.name, PartValue(c)>> \in PartMembers(n)
        /\ \A m \in PartMembers(n) : \E c \in ToSet(n.components) : m[1] = c.name
    <3>1. PartMembers(n) = {<<c.name, PartValue(c)>> : c \in ToSet(n.components)}
      BY DEF PartMembers, PartValue
    <3>. QED
      BY <3>1
  <2>. QED
    BY <2>1, <2>2 DEF MembersOf
<1> HIDE DEF M, o
<1>4. \A m \in M : m[1] \in DOMAIN o /\ o[m[1]] = m[2]
  <2>1. SUFFICES ASSUME NEW m \in M PROVE m[1] \in DOMAIN o /\ o[m[1]] = m[2]
    OBVIOUS
  <2>2. m[1] \in DOMAIN o /\ o[m[1]] = (CHOOSE x \in M : x[1] = m[1])[2]
    BY <1>1
  <2>3. (CHOOSE x \in M : x[1] = m[1]) = m
    BY <1>2, Zenon
  <2>. QED
    BY <2>2, <2>3
<1>5. \A name \in DOMAIN o : \E m \in M : name = m[1]
  BY <1>1
<1>6. /\ \A name \in DOMAIN n.extra : name \in DOMAIN o /\ o[name] = n.extra[name]
      /\ \A c \in ToSet(n.components) : c.name \in DOMAIN o /\ o[c.name] = PartValue(c)
  <2>1. \A x, y : <<x, y>>[1] = x /\ <<x, y>>[2] = y
    OBVIOUS
  <2>. QED
    BY <1>3, <1>4, <2>1
<1>7. \A m \in ScalarMembers(n) : m[1] \in DOMAIN o /\ o[m[1]] = m[2]
  BY <1>3, <1>4
<1>8. \A name \in DOMAIN o :
          \/ name \in DOMAIN n.extra
          \/ \E c \in ToSet(n.components) : name = c.name
          \/ \E m \in ScalarMembers(n) : name = m[1]
  BY <1>3, <1>5
<1>9. IsRebuilt(o, n)
  BY <1>6, <1>7, <1>8 DEF IsRebuilt
<1>. QED
  BY <1>9 DEF o

\* A component is the one its tuple stands for.
LEMMA PartIs ==
    ASSUME NEW c, PartFormed(c), NEW extra, ComponentPossible(c, extra)
    PROVE  /\ ComponentTuple(PartValue(c)) /\ ~IsText(PartValue(c))
           /\ Component(c.name, PartValue(c)) = c
           /\ c.path # None <=> ~c.optional /\ SafeName(c.name)
<1> DEFINE v == PartValue(c)
           l == TextOrNull(c.library)
           a == TextOrNull(c.architecture)
<1>1. v[1] = "list" /\ Len(v[2]) = 2 /\ v[2][1] = l /\ v[2][2] = a
  BY DEF PartValue, List
<1>2. /\ c.library = None => l = Null
      /\ c.library # None => l # Null /\ IsText(l) /\ Some(l[2]) = c.library
      /\ c.architecture = None => a = Null
      /\ c.architecture # None => a # Null /\ IsText(a) /\ Some(a[2]) = c.architecture
      /\ ~IsText(Null)
  <2>1. /\ c.library # None => c.library = Some(c.library[1])
        /\ c.architecture # None => c.architecture = Some(c.architecture[1])
    BY DEF PartFormed, Optional
  <2>2. \A t : Text(t) # Null /\ IsText(Text(t)) /\ Text(t)[2] = t
    BY DEF Text, Null, IsText
  <2>. QED
    BY <2>1, <2>2 DEF TextOrNull, Null, IsText
<1>3. /\ c.optional \in BOOLEAN /\ c.requires_code \in BOOLEAN
      /\ c = [name |-> c.name, path |-> c.path, library |-> c.library, architecture |-> c.architecture,
              optional |-> c.optional, requires_code |-> c.requires_code]
  BY DEF PartFormed
<1>4. IF c.optional
      THEN c.path = None /\ c.library = None /\ c.architecture = None /\ ~c.requires_code
      ELSE /\ c.architecture # None
           /\ c.requires_code <=> c.library = None
           /\ c.path = PathOf(c.name)
  BY DEF ComponentPossible
<1> HIDE DEF v, l, a
<1>5. ComponentTuple(v) /\ ~IsText(v)
  <2>1. IsPair(v) /\ ~IsText(v)
    BY <1>1 DEF IsPair, IsText
  <2>2. \/ IsText(a) /\ (IsText(l) \/ l = Null)
        \/ l = Null /\ a = Null
    BY <1>2, <1>3, <1>4
  <2>. QED
    BY <1>1, <2>1, <2>2 DEF ComponentTuple
<1> DEFINE d == Component(c.name, v)
<1>6. d = [name          |-> c.name,
           path          |-> IF a = Null THEN None ELSE PathOf(c.name),
           library       |-> IF IsText(l) THEN Some(l[2]) ELSE None,
           architecture  |-> IF IsText(a) THEN Some(a[2]) ELSE None,
           optional      |-> a = Null,
           requires_code |-> a # Null /\ l = Null]
  BY <1>1 DEF Component
<1>7. /\ (IF a = Null THEN None ELSE PathOf(c.name)) = c.path
      /\ (IF IsText(l) THEN Some(l[2]) ELSE None) = c.library
      /\ (IF IsText(a) THEN Some(a[2]) ELSE None) = c.architecture
      /\ a = Null <=> c.optional
      /\ (a # Null /\ l = Null) <=> c.requires_code
  BY <1>2, <1>3, <1>4
<1>8. d = c
  <2>1. (a = Null) = c.optional /\ (a # Null /\ l = Null) = c.requires_code
    BY <1>3, <1>7, Zenon
  <2>. QED
    BY <1>3, <1>6, <1>7, <2>1, Zenon
<1>9. c.path # None <=> ~c.optional /\ SafeName(c.name)
  <2>1. d.name = c.name /\ (d.path # None <=> ~d.optional /\ SafeName(d.name))
    BY PathIsDerived
  <2>. QED
    BY <1>8, <2>1
<1>. QED
  BY <1>5, <1>8, <1>9 DEF v, d

\* What can be read of such a root as a text: extras and the scalar members.
LEMMA GivenIs ==
    ASSUME NEW n, Passed(n), ~Unconsumed(n), NEW o, IsRebuilt(o, n), NEW name
    PROVE  /\ Given(n.extra, name) => Given(o, name)
           /\ Given(o, name) => Given(n.extra, name) \/ \E m \in ScalarMembers(n) : name = m[1]
           /\ \A m \in ScalarMembers(n) :
                 \A t : t # <<>> /\ m = <<name, Text(t)>> => Given(o, name) /\ o[name][2] = t
<1>1. Given(n.extra, name) => Given(o, name)
  BY DEF Given, IsRebuilt
<1>2. Given(o, name) => Given(n.extra, name) \/ \E m \in ScalarMembers(n) : name = m[1]
  <2>1. SUFFICES ASSUME Given(o, name), ~\E m \in ScalarMembers(n) : name = m[1]
                 PROVE  Given(n.extra, name)
    OBVIOUS
  <2>2. name \in DOMAIN o /\ IsText(o[name])
    BY <2>1 DEF Given
  <2>3. \A c \in ToSet(n.components) : name # c.name
    <3>1. SUFFICES ASSUME NEW c \in ToSet(n.components), name = c.name PROVE FALSE
      OBVIOUS
    <3>2. o[name] = PartValue(c)
      BY <3>1 DEF IsRebuilt
    <3>3. ~IsText(PartValue(c))
      BY PartIs, PartsApart DEF Passed, RecordFormed
    <3>. QED
      BY <2>2, <3>2, <3>3
  <2>4. name \in DOMAIN n.extra
    BY <2>1, <2>2, <2>3 DEF IsRebuilt
  <2>5. o[name] = n.extra[name]
    BY <2>4 DEF IsRebuilt
  <2>. QED
    BY <2>1, <2>4, <2>5 DEF Given
<1>3. \A m \in ScalarMembers(n) :
         \A t : t # <<>> /\ m = <<name, Text(t)>> => Given(o, name) /\ o[name][2] = t
  <2>1. SUFFICES ASSUME NEW m \in ScalarMembers(n), NEW t, t # <<>>, m = <<name, Text(t)>>
                 PROVE  Given(o, name) /\ o[name][2] = t
    OBVIOUS
  <2>2. name \in DOMAIN o /\ o[name] = Text(t)
    BY <2>1 DEF IsRebuilt
  <2>. QED
    BY <2>1, <2>2 DEF Given, Text, IsText
<1>. QED
  BY <1>1, <1>2, <1>3

\* The three texts are read.
LEMMA TextsRead ==
    ASSUME NEW n, Passed(n), ~Unconsumed(n), NEW o, IsRebuilt(o, n)
    PROVE  /\ StringOf(o, <<"model_type">>) = n.model_type
           /\ StringOf(o, <<"transformers_version">>) = n.transformers_version
           /\ StringOf(o, <<"_diffusers_version">>) = n.diffusers_version
<1>1. ASSUME NEW name \in TextNames, NEW option, Optional(option), option # Some(<<>>),
             TextMember(name, option) \subseteq ScalarMembers(n),
             \A m \in ScalarMembers(n) : m[1] = name => m \in TextMember(name, option),
             ~Given(n.extra, name)
      PROVE  StringOf(o, name) = option
  <2>1. CASE option = None
    <3>1. TextMember(name, option) = {}
      BY <2>1 DEF TextMember
    <3>2. ~Given(o, name)
      BY <1>1, <3>1, GivenIs
    <3>. QED
      BY <2>1, <3>2 DEF StringOf
  <2>2. CASE option # None
    <3>1. option = Some(option[1])
      BY <1>1, <2>2 DEF Optional
    <3>2. option[1] # <<>>
      BY <1>1, <3>1
    <3>3. <<name, Text(option[1])>> \in ScalarMembers(n)
      BY <1>1, <2>2 DEF TextMember
    <3>4. Given(o, name) /\ o[name][2] = option[1]
      BY <3>2, <3>3, GivenIs
    <3>. QED
      BY <3>1, <3>4 DEF StringOf
  <2>. QED
    BY <2>1, <2>2
<1> DEFINE X == TextMember(<<"model_type">>, n.model_type)
           Y == TextMember(<<"transformers_version">>, n.transformers_version)
           Z == TextMember(<<"_diffusers_version">>, n.diffusers_version)
           S == ScalarMembers(n)
<1>2. S = ClassMember(n) \cup TaskMember(n) \cup X \cup Y \cup Z
  BY DEF ScalarMembers
<1>3. /\ \A m \in ClassMember(n) : m[1] \in {<<"architectures">>, <<"_class_name">>}
      /\ \A m \in TaskMember(n) : m[1] \in {<<"pipeline_tag">>, <<"task">>}
      /\ \A m \in X : m[1] = <<"model_type">>
      /\ \A m \in Y : m[1] = <<"transformers_version">>
      /\ \A m \in Z : m[1] = <<"_diffusers_version">>
  BY ScalarNames DEF TaskNames
<1> HIDE DEF X, Y, Z, S
<1>4. /\ X \subseteq S /\ \A m \in S : m[1] = <<"model_type">> => m \in X
      /\ Y \subseteq S /\ \A m \in S : m[1] = <<"transformers_version">> => m \in Y
      /\ Z \subseteq S /\ \A m \in S : m[1] = <<"_diffusers_version">> => m \in Z
  BY <1>2, <1>3
<1>5. /\ ~Given(n.extra, <<"model_type">>) /\ ~Given(n.extra, <<"transformers_version">>)
      /\ ~Given(n.extra, <<"_diffusers_version">>)
  BY DEF Unconsumed
<1>6. /\ Optional(n.model_type) /\ n.model_type # Some(<<>>)
      /\ Optional(n.transformers_version) /\ n.transformers_version # Some(<<>>)
      /\ Optional(n.diffusers_version) /\ n.diffusers_version # Some(<<>>)
  BY DEF Passed, RecordFormed, ScalarsFormed, ScalarsPossible
<1>7. /\ <<"model_type">> \in TextNames /\ <<"transformers_version">> \in TextNames
      /\ <<"_diffusers_version">> \in TextNames
  BY DEF TextNames
<1>8. StringOf(o, <<"model_type">>) = n.model_type
  BY <1>1, <1>4, <1>5, <1>6, <1>7 DEF X, S
<1>9. StringOf(o, <<"transformers_version">>) = n.transformers_version
  BY <1>1, <1>4, <1>5, <1>6, <1>7 DEF Y, S
<1>10. StringOf(o, <<"_diffusers_version">>) = n.diffusers_version
  BY <1>1, <1>4, <1>5, <1>6, <1>7 DEF Z, S
<1>. QED
  BY <1>8, <1>9, <1>10

\* So is the task, of the one member that has it.
LEMMA SpellingIs ==
    ASSUME NEW n, Passed(n), n.task # None
    PROVE  /\ n.task = Some(n.task[1]) /\ TaskSpelling(n.task[1]) # <<>>
           /\ TaskKind(TaskSpelling(n.task[1])) = n.task[1]
<1>1. /\ TaskFormed(n.task)
      /\ ~(n.task[1][1] = "other" /\ n.task[1][2] \in KnownTasks \cup {<<>>})
  BY DEF Passed, RecordFormed, ScalarsFormed, ScalarsPossible
<1>2. PICK t : \/ n.task = Some(<<"kind", t>>) /\ TaskKind(<<t>>) = <<"kind", t>>
               \/ n.task = Some(<<"other", t>>)
  BY <1>1 DEF TaskFormed
<1>3. CASE n.task = Some(<<"kind", t>>) /\ TaskKind(<<t>>) = <<"kind", t>>
  <2>1. n.task[1] = <<"kind", t>> /\ TaskSpelling(n.task[1]) = <<t>>
    BY <1>3 DEF Some, TaskSpelling
  <2>. QED
    BY <1>3, <2>1
<1>4. CASE n.task = Some(<<"other", t>>)
  <2>1. n.task[1] = <<"other", t>> /\ TaskSpelling(n.task[1]) = t
    BY <1>4 DEF Some, TaskSpelling
  <2>2. t \notin KnownTasks /\ t # <<>>
    BY <1>1, <2>1
  <2>3. {<<"image-inpainting">>, <<"text-to-video">>, <<"image-to-video">>, <<"text-to-audio">>}
           \subseteq KnownTasks
    BY DEF KnownTasks
  <2>4. TaskKind(t) = <<"other", t>>
    BY <2>2, <2>3 DEF TaskKind
  <2>. QED
    BY <1>4, <2>1, <2>2, <2>4
<1>. QED
  BY <1>2, <1>3, <1>4

LEMMA TaskRead ==
    ASSUME NEW n, Passed(n), ~Unconsumed(n), NEW o, IsRebuilt(o, n)
    PROVE  /\ n.task = None => TaskName(o) = {}
           /\ n.task # None =>
                 TaskName(o) = {TaskAt(n)} /\ n.task = Some(TaskKind(o[TaskAt(n)][2]))
<1> DEFINE tag  == <<"pipeline_tag">>
           task == <<"task">>
           S    == ScalarMembers(n)
<1>1. \A m \in S : m[1] \in {tag, task} => m \in TaskMember(n)
  <2>1. /\ \A m \in ClassMember(n) : m[1] \in {<<"architectures">>, <<"_class_name">>}
        /\ \A m \in TextMember(<<"model_type">>, n.model_type) : m[1] = <<"model_type">>
        /\ \A m \in TextMember(<<"transformers_version">>, n.transformers_version) :
              m[1] = <<"transformers_version">>
        /\ \A m \in TextMember(<<"_diffusers_version">>, n.diffusers_version) :
              m[1] = <<"_diffusers_version">>
    BY ScalarNames
  <2>. QED
    BY <2>1 DEF ScalarMembers
<1>2. /\ ~Given(n.extra, tag)
      /\ Given(n.extra, task) => n.task # None /\ tag \notin DOMAIN n.extra
  BY DEF Unconsumed
<1>3. CASE n.task = None
  <2>1. TaskMember(n) = {}
    BY <1>3 DEF TaskMember
  <2>2. ~Given(o, tag) /\ ~Given(o, task)
    BY <1>1, <1>2, <1>3, <2>1, GivenIs
  <2>. QED
    BY <1>3, <2>2 DEF TaskName
<1>4. CASE n.task # None
  <2> DEFINE at == TaskAt(n)
             t  == TaskSpelling(n.task[1])
  <2>1. t # <<>> /\ n.task = Some(TaskKind(t))
    BY <1>4, SpellingIs
  <2>2. <<at, Text(t)>> \in S /\ TaskMember(n) = {<<at, Text(t)>>}
    BY <1>4 DEF TaskMember, TaskAt, ScalarMembers
  <2>3. at = IF tag \in DOMAIN n.extra THEN task ELSE tag
    BY DEF TaskAt
  <2> HIDE DEF at, t, S
  <2>4. Given(o, at) /\ o[at][2] = t
    BY <2>1, <2>2, GivenIs DEF S
  <2>5. CASE tag \in DOMAIN n.extra
    <3>1. at = task /\ tag # task
      BY <2>3, <2>5
    <3>2. \A m \in S : m[1] # tag
      BY <1>1, <2>2, <3>1
    <3>3. ~Given(o, tag)
      BY <1>2, <3>2, GivenIs DEF S
    <3>. QED
      BY <1>4, <2>1, <2>4, <3>1, <3>3 DEF TaskName, at
  <2>6. CASE tag \notin DOMAIN n.extra
    BY <1>4, <2>1, <2>3, <2>4, <2>6 DEF TaskName, at
  <2>. QED
    BY <2>5, <2>6
<1>. QED
  BY <1>3, <1>4

ClassNames(n) == {m[1] : m \in ClassMember(n)}

\* And the architecture, from where it came.
LEMMA ArchitectureRead ==
    ASSUME NEW n, Passed(n), ~Unconsumed(n), NEW o, IsRebuilt(o, n)
    PROVE  TakeArchitecture(o, n.source_path) =
              Some([id |-> n.architecture, source |-> n.architecture_source, used |-> ClassNames(n)])
<1> DEFINE id     == n.architecture
           source == n.architecture_source
           lists  == <<"architectures">>
           class  == <<"_class_name">>
           model  == <<"model_type">>
<1>1. /\ id # <<>> /\ n.source_path \in {ModelIndexPath, ConfigPath}
      /\ source \in IF n.source_path = ModelIndexPath THEN {"model_index_class_name"}
                    ELSE {"config_architectures", "config_class_name", "config_model_type"}
      /\ n.source_path # ModelIndexPath => n.components = <<>>
  BY DEF Passed
<1>2. /\ source = "config_model_type" => ClassMember(n) = {}
      /\ source = "config_architectures" => ClassMember(n) = {<<lists, List(<<Text(id)>>)>>}
      /\ source \in {"model_index_class_name", "config_class_name"} => ClassMember(n) = {<<class, Text(id)>>}
  BY DEF ClassMember
<1>3. /\ source = "config_model_type" => ClassNames(n) = {}
      /\ source = "config_architectures" => ClassNames(n) = {lists}
      /\ source \in {"model_index_class_name", "config_class_name"} => ClassNames(n) = {class}
  <2>1. \A x, y : {m[1] : m \in {<<x, y>>}} = {x}
    OBVIOUS
  <2>2. {m[1] : m \in {}} = {}
    OBVIOUS
  <2>3. ClassNames(n) = {m[1] : m \in ClassMember(n)}
    BY DEF ClassNames
  <2> HIDE DEF source, id, lists, class
  <2>4. source = "config_model_type" => ClassNames(n) = {}
    BY <1>2, <2>2, <2>3
  <2>5. source = "config_architectures" => ClassNames(n) = {lists}
    BY <1>2, <2>1, <2>3
  <2>6. source \in {"model_index_class_name", "config_class_name"} => ClassNames(n) = {class}
    BY <1>2, <2>1, <2>3
  <2>. QED
    BY <2>4, <2>5, <2>6
<1>4. ClassMember(n) \subseteq ScalarMembers(n)
  BY DEF ScalarMembers
<1>5. \A m \in ScalarMembers(n) : m[1] \in {lists, class} => m \in ClassMember(n)
  <2>1. /\ \A m \in TaskMember(n) : m[1] \in {<<"pipeline_tag">>, <<"task">>}
        /\ \A m \in TextMember(<<"model_type">>, n.model_type) : m[1] = <<"model_type">>
        /\ \A m \in TextMember(<<"transformers_version">>, n.transformers_version) :
              m[1] = <<"transformers_version">>
        /\ \A m \in TextMember(<<"_diffusers_version">>, n.diffusers_version) :
              m[1] = <<"_diffusers_version">>
    BY ScalarNames DEF TaskNames
  <2>. QED
    BY <2>1 DEF ScalarMembers
<1>6. source \in {"model_index_class_name", "config_class_name"} => Given(o, class) /\ o[class][2] = id
  <2>1. ASSUME source \in {"model_index_class_name", "config_class_name"}
        PROVE  Given(o, class) /\ o[class][2] = id
    <3>1. <<class, Text(id)>> \in ScalarMembers(n)
      BY <1>2, <1>4, <2>1
    <3> HIDE DEF id, class
    <3>. QED
      BY <1>1, <3>1, GivenIs
  <2>. QED
    BY <2>1
<1>7. ASSUME n.source_path # ModelIndexPath, source # "config_architectures"
      PROVE  UsableArchitectures(o) = {}
  <2>1. source # "model_index_class_name"
    BY <1>1, <1>7
  <2>2. lists \notin DOMAIN n.extra
    BY <2>1 DEF Unconsumed
  <2>3. \A m \in ScalarMembers(n) : m[1] # lists
    BY <1>1, <1>2, <1>5, <1>7
  <2>4. ToSet(n.components) = {}
    BY <1>1, <1>7 DEF ToSet
  <2>5. lists \notin DOMAIN o
    BY <2>2, <2>3, <2>4 DEF IsRebuilt
  <2>6. Architectures(o) = <<>>
    BY <2>5 DEF Architectures
  <2>. QED
    BY <2>6 DEF UsableArchitectures
<1>8. CASE n.source_path = ModelIndexPath
  <2>1. source = "model_index_class_name"
    BY <1>1, <1>8
  <2>. QED
    BY <1>3, <1>6, <1>8, <2>1 DEF TakeArchitecture
<1>9. CASE n.source_path # ModelIndexPath /\ source = "config_architectures"
  <2>1. lists \in DOMAIN o /\ o[lists] = List(<<Text(id)>>)
    <3>1. <<lists, List(<<Text(id)>>)>> \in ScalarMembers(n)
      BY <1>2, <1>4, <1>9
    <3> HIDE DEF id, lists
    <3>2. <<lists, List(<<Text(id)>>)>>[1] = lists /\ <<lists, List(<<Text(id)>>)>>[2] = List(<<Text(id)>>)
      OBVIOUS
    <3>. QED
      BY <3>1, <3>2 DEF IsRebuilt
  <2> DEFINE a == <<Text(id)>>
  <2>2. Architectures(o) = a
    BY <2>1 DEF Architectures, List
  <2>3. Len(a) = 1 /\ a[1] = Text(id) /\ IsText(a[1]) /\ a[1][2] = id /\ ToSet(a) = {Text(id)}
    BY DEF ToSet, Text, IsText
  <2> HIDE DEF a
  <2>4. UsableArchitectures(o) = {1}
    <3>1. UsableArchitectures(o) = {i \in 1..1 : IsText(a[i]) /\ a[i][2] # <<>>}
      BY <2>2, <2>3 DEF UsableArchitectures
    <3>2. \A i \in 1..1 : i = 1
      OBVIOUS
    <3>. QED
      BY <1>1, <2>3, <3>1, <3>2
  <2>5. Min({1}) = 1
    BY DEF Min
  <2>6. \A value \in ToSet(Architectures(o)) : value = Null \/ IsText(value)
    BY <2>2, <2>3
  <2>7. Architectures(o)[Min(UsableArchitectures(o))][2] = id
    BY <2>2, <2>3, <2>4, <2>5
  <2>8. ClassNames(n) = {lists}
    BY <1>3, <1>9
  <2>9. UsableArchitectures(o) # {}
    BY <2>4
  <2> DEFINE v == Architectures(o)[Min(UsableArchitectures(o))][2]
  <2>10. TakeArchitecture(o, n.source_path) = Some([id |-> v, source |-> "config_architectures", used |-> {lists}])
    BY <1>9, <2>6, <2>9 DEF TakeArchitecture
  <2>. QED
    BY <1>9, <2>7, <2>8, <2>10
<1>10. CASE n.source_path # ModelIndexPath /\ source = "config_class_name"
  BY <1>3, <1>6, <1>7, <1>10 DEF TakeArchitecture
<1>11. CASE n.source_path # ModelIndexPath /\ source = "config_model_type"
  <2>1. n.model_type = Some(id)
    BY <1>11 DEF Passed, ScalarsPossible
  <2>2. StringOf(o, model) = Some(id)
    BY <2>1, TextsRead
  <2>3. Given(o, model) /\ o[model][2] = id
    BY <2>2 DEF StringOf, Some, None
  <2>4. ~Given(o, class)
    <3>1. ~Given(n.extra, class)
      BY <1>11 DEF Unconsumed
    <3>2. \A m \in ScalarMembers(n) : m[1] # class
      BY <1>2, <1>5, <1>11
    <3>. QED
      BY <3>1, <3>2, GivenIs
  <2>5. UsableArchitectures(o) = {}
    BY <1>7, <1>11
  <2>. QED
    BY <1>3, <1>11, <2>3, <2>4, <2>5 DEF TakeArchitecture
<1>. QED
  BY <1>1, <1>8, <1>9, <1>10, <1>11

\* Its tuples are the components of the record.
LEMMA PartsRead ==
    ASSUME NEW n, Passed(n), ~Unconsumed(n), NEW o, IsRebuilt(o, n), n.source_path = ModelIndexPath
    PROVE  /\ \A c \in ToSet(n.components) :
                 c.name \in ComponentNames(o) /\ Component(c.name, o[c.name]) = c
           /\ \A name \in ComponentNames(o) : \E c \in ToSet(n.components) : name = c.name
<1>1. ASSUME NEW c \in ToSet(n.components)
      PROVE  c.name \in ComponentNames(o) /\ Component(c.name, o[c.name]) = c
  <2>1. PartFormed(c)
    BY DEF Passed, RecordFormed
  <2>2. ComponentPossible(c, n.extra) /\ ~Metadata(c.name)
    BY PartsApart
  <2>3. ComponentTuple(PartValue(c)) /\ Component(c.name, PartValue(c)) = c
    BY <2>1, <2>2, PartIs
  <2>4. c.name \in DOMAIN o /\ o[c.name] = PartValue(c)
    BY DEF IsRebuilt
  <2>. QED
    BY <2>2, <2>3, <2>4 DEF ComponentNames
<1>2. ASSUME NEW name \in ComponentNames(o)
      PROVE  \E c \in ToSet(n.components) : name = c.name
  <2>1. name \in DOMAIN o /\ ~Metadata(name) /\ ComponentTuple(o[name])
    BY DEF ComponentNames
  <2>2. name \notin DOMAIN n.extra
    <3>1. \A x \in DOMAIN n.extra : (Metadata(x) \/ ~ComponentTuple(n.extra[x])) /\ o[x] = n.extra[x]
      BY DEF Passed, IsRebuilt
    <3>. QED
      BY <2>1, <3>1
  <2>3. \A m \in ScalarMembers(n) : m[1] # name
    <3>1. SUFFICES ASSUME NEW m \in ScalarMembers(n), m[1] = name PROVE FALSE
      OBVIOUS
    <3>2. o[name] = m[2]
      BY <3>1 DEF IsRebuilt
    <3>3. IsText(m[2])
      <4>1. n.architecture_source = "model_index_class_name"
        BY DEF Passed
      <4>2. \A t : IsText(Text(t))
        BY DEF IsText, Text
      <4>3. \A x \in ClassMember(n) : IsText(x[2])
        BY <4>1, <4>2 DEF ClassMember
      <4>4. \A x \in TaskMember(n) : IsText(x[2])
        BY <4>2 DEF TaskMember
      <4>5. \A key, option : \A x \in TextMember(key, option) : IsText(x[2])
        BY <4>2 DEF TextMember
      <4>. QED
        BY <4>3, <4>4, <4>5 DEF ScalarMembers
    <3>. QED
      BY <2>1, <3>2, <3>3 DEF ComponentTuple, IsPair, IsText
  <2>. QED
    BY <2>1, <2>2, <2>3 DEF IsRebuilt
<1>. QED
  BY <1>1, <1>2

LEMMA ComponentsRead ==
    ASSUME NEW n, Passed(n), ~Unconsumed(n), NEW o, IsRebuilt(o, n), n.source_path = ModelIndexPath
    PROVE  Components(o) = n.components
<1> DEFINE S == {Component(name, o[name]) : name \in ComponentNames(o)}
<1>1. S = ToSet(n.components)
  <2>1. \A c \in ToSet(n.components) : c \in S
    BY PartsRead
  <2>2. \A x \in S : x \in ToSet(n.components)
    BY PartsRead
  <2>. QED
    BY <2>1, <2>2
<1>2. Components(o) = InOrder(S, ByName)
  BY DEF Components
<1>3. n.components = InOrder(ToSet(n.components), ByName)
  BY DEF Passed
<1>. QED
  BY <1>1, <1>2, <1>3

\* Its defaults are those of the record.
LEMMA PlacedIs ==
    ASSUME NEW T, NEW list \in Seq(T), NEW places \in SUBSET (1..Len(list)), NEW k \in places
    PROVE  \E i \in 1..Len(AtPlaces(list, places)) : AtPlaces(list, places)[i] = list[k]
<1> DEFINE order == InOrder(places, Below)
<1>1. places \in SUBSET Nat /\ IsFiniteSet(places)
  <2>1. Len(list) \in Nat
    OBVIOUS
  <2>2. 1..Len(list) \in SUBSET Nat
    OBVIOUS
  <2>3. IsFiniteSet(1..Len(list))
    BY <2>1, FS_Interval
  <2>. QED
    BY <2>2, <2>3, FS_Subset
<1>2. Len(order) = Cardinality(places) /\ \E i \in 1..Len(order) : order[i] = k
  BY <1>1, NumbersOrder, Zenon
<1>3. Cardinality(places) \in Nat
  BY <1>1, FS_CardinalityType
<1>4. AtPlaces(list, places) = [i \in 1..Cardinality(places) |-> list[order[i]]]
  BY DEF AtPlaces
<1> HIDE DEF order
<1>5. Len(AtPlaces(list, places)) = Cardinality(places)
  BY <1>3, <1>4
<1>. QED
  BY <1>2, <1>4, <1>5

LEMMA DefaultsRead ==
    ASSUME NEW n, Passed(n), ~Unconsumed(n), NEW o, IsRebuilt(o, n), n.source_path = ModelIndexPath
    PROVE  AppliedDefaults(o) = n.applied_defaults
<1> DEFINE list    == n.components
           places  == {i \in 1..Len(list) : ~list[i].optional /\ SafeName(list[i].name)}
           placed  == AtPlaces(list, places)
           derived == {name \in ComponentNames(o) : Component(name, o[name]).path # None}
           S       == {Default(name) : name \in derived}
<1>1. /\ list \in Seq(ToSet(list)) /\ n.applied_defaults \in Seq(ToSet(n.applied_defaults))
      /\ \A c \in ToSet(list) : PartFormed(c)
  BY DEF Passed, RecordFormed
<1>2. /\ Len(placed) = Len(n.applied_defaults)
      /\ \A i \in 1..Len(placed) : n.applied_defaults[i] = Default(placed[i].name)
  BY DEF Passed, DefaultsPossible
<1>3. \A i \in 1..Len(list) : list[i] \in ToSet(list)
  BY <1>1
<1>4. \A c \in ToSet(list) : c.path # None <=> ~c.optional /\ SafeName(c.name)
  <2>1. SUFFICES ASSUME NEW c \in ToSet(list) PROVE c.path # None <=> ~c.optional /\ SafeName(c.name)
    OBVIOUS
  <2>2. PartFormed(c) /\ ComponentPossible(c, n.extra)
    BY <1>1, PartsApart
  <2>. QED
    BY <2>2, PartIs
<1>5. /\ \A c \in ToSet(list) : c.name \in ComponentNames(o) /\ Component(c.name, o[c.name]) = c
      /\ \A name \in ComponentNames(o) : \E c \in ToSet(list) : name = c.name
  BY PartsRead
<1>6. /\ \A c \in ToSet(list) : c.path # None => Default(c.name) \in S
      /\ \A x \in S : \E c \in ToSet(list) : c.path # None /\ x = Default(c.name)
  <2>1. \A c \in ToSet(list) : c.path # None => c.name \in derived
    BY <1>5
  <2>2. \A name \in derived : \E c \in ToSet(list) : name = c.name /\ c.path # None
    BY <1>5
  <2> HIDE DEF list, derived
  <2>. QED
    BY <2>1, <2>2
<1>7. places \in SUBSET (1..Len(list))
  OBVIOUS
<1>8. \A i \in places : ~list[i].optional /\ SafeName(list[i].name)
  OBVIOUS
<1>9. \A i \in 1..Len(list) : ~list[i].optional /\ SafeName(list[i].name) => i \in places
  OBVIOUS
<1> DEFINE T == ToSet(list)
           applied == n.applied_defaults
<1> HIDE DEF places, list, S, T
<1>10. \A i \in 1..Len(placed) : \E k \in places : placed[i] = list[k]
  BY <1>1, <1>7, AtPlacesIs DEF T
<1>11. \A k \in places : \E i \in 1..Len(placed) : placed[i] = list[k]
  BY <1>1, <1>7, PlacedIs DEF T
<1> HIDE DEF placed
<1>12. ToSet(applied) = S
  <2>1. ASSUME NEW d \in ToSet(applied) PROVE d \in S
    <3>1. PICK i \in 1..Len(applied) : d = applied[i]
      BY <1>1, ElementAt
    <3>2. i \in 1..Len(placed) /\ d = Default(placed[i].name)
      BY <1>2, <3>1
    <3>3. PICK k \in places : placed[i] = list[k]
      BY <1>10, <3>2
    <3>4. k \in 1..Len(list) /\ list[k] \in ToSet(list) /\ list[k].path # None
      BY <1>3, <1>4, <1>7, <1>8
    <3>. QED
      BY <1>6, <3>2, <3>3, <3>4
  <2>2. ASSUME NEW d \in S PROVE d \in ToSet(applied)
    <3>1. PICK c \in ToSet(list) : c.path # None /\ d = Default(c.name)
      BY <1>6
    <3>2. PICK k \in 1..Len(list) : c = list[k]
      BY <1>1, ElementAt
    <3>3. k \in places
      BY <1>4, <1>9, <3>1, <3>2
    <3>4. PICK i \in 1..Len(placed) : placed[i] = list[k]
      BY <1>11, <3>3
    <3>5. i \in 1..Len(applied) /\ applied[i] = d
      BY <1>2, <3>1, <3>2, <3>4
    <3>. QED
      BY <1>1, <3>5 DEF ToSet
  <2>. QED
    BY <2>1, <2>2
<1>13. AppliedDefaults(o) = InOrder(S, ByField)
  BY DEF AppliedDefaults, S
<1>14. applied = InOrder(ToSet(applied), ByField)
  BY DEF Passed
<1>. QED
  BY <1>12, <1>13, <1>14

\* What is left are the extras.
ConsumedOf(o, n) ==
    ClassNames(n)
    \cup (UNION {Used(o, name) : name \in TextNames})
    \cup TaskName(o)
    \cup (IF n.source_path = ModelIndexPath THEN ComponentNames(o) ELSE {})

LEMMA ConsumedIs ==
    ASSUME NEW n, Passed(n), ~Unconsumed(n), NEW o, IsRebuilt(o, n)
    PROVE  DOMAIN o \ ConsumedOf(o, n) = DOMAIN n.extra
<1> DEFINE E == DOMAIN n.extra
           U == UNION {Used(o, name) : name \in TextNames}
           C == IF n.source_path = ModelIndexPath THEN ComponentNames(o) ELSE {}
<1>1. ConsumedOf(o, n) = ClassNames(n) \cup U \cup TaskName(o) \cup C
  BY DEF ConsumedOf
<1>2. \A name : name \in U <=> name \in TextNames /\ Given(o, name)
  BY DEF Used
<1> HIDE DEF U, C
<1>3. ASSUME NEW name \in E PROVE name \in DOMAIN o /\ name \notin ConsumedOf(o, n)
  <2>1. name \in DOMAIN o /\ \A m \in ScalarMembers(n) : m[1] # name
    BY ExtrasApart DEF IsRebuilt
  <2>2. name \notin ClassNames(n)
    BY <2>1 DEF ClassNames, ScalarMembers
  <2>3. name \notin U
    <3>1. SUFFICES ASSUME name \in U PROVE FALSE
      OBVIOUS
    <3>2. name \in TextNames /\ Given(n.extra, name)
      BY <1>2, <2>1, <3>1, GivenIs
    <3>. QED
      BY <3>2 DEF Unconsumed, TextNames
  <2>4. name \notin TaskName(o)
    <3>1. CASE n.task = None
      BY <3>1, TaskRead
    <3>2. CASE n.task # None
      <4>1. TaskName(o) = {TaskAt(n)}
        BY <3>2, TaskRead
      <4>2. \E m \in ScalarMembers(n) : m[1] = TaskAt(n)
        <5>1. <<TaskAt(n), Text(TaskSpelling(n.task[1]))>> \in TaskMember(n)
          BY <3>2 DEF TaskMember, TaskAt
        <5>. QED
          BY <5>1 DEF ScalarMembers
      <4>. QED
        BY <2>1, <4>1, <4>2
    <3>. QED
      BY <3>1, <3>2
  <2>5. name \notin C
    <3>1. CASE n.source_path = ModelIndexPath
      <4>1. \A x \in ComponentNames(o) : x \notin E
        BY <3>1, PartsRead, PartsApart
      <4>. QED
        BY <3>1, <4>1 DEF C
    <3>2. CASE n.source_path # ModelIndexPath
      BY <3>2 DEF C
    <3>. QED
      BY <3>1, <3>2
  <2>. QED
    BY <1>1, <2>1, <2>2, <2>3, <2>4, <2>5
<1>4. ASSUME NEW name \in DOMAIN o, name \notin E PROVE name \in ConsumedOf(o, n)
  <2>1. CASE \E c \in ToSet(n.components) : name = c.name
    <3>1. PICK c \in ToSet(n.components) : name = c.name
      BY <2>1
    <3>2. n.source_path = ModelIndexPath
      BY PartsApart
    <3>3. name \in ComponentNames(o)
      BY <3>1, <3>2, PartsRead
    <3>. QED
      BY <1>1, <3>2, <3>3 DEF C
  <2>2. CASE \E m \in ScalarMembers(n) : name = m[1]
    <3>1. PICK m \in ScalarMembers(n) : name = m[1]
      BY <2>2
    <3>2. CASE m \in ClassMember(n)
      BY <1>1, <3>1, <3>2 DEF ClassNames
    <3>3. CASE m \in TaskMember(n)
      <4>1. n.task # None /\ name = TaskAt(n)
        BY <3>1, <3>3 DEF TaskMember, TaskAt
      <4>. QED
        BY <1>1, <4>1, TaskRead
    <3>4. ASSUME NEW key \in TextNames, NEW option, Optional(option), StringOf(o, key) = option,
                 m \in TextMember(key, option)
          PROVE  name \in ConsumedOf(o, n)
      <4>1. name = key /\ option # None
        BY <3>1, <3>4 DEF TextMember
      <4>2. Given(o, key)
        BY <3>4, <4>1 DEF StringOf
      <4>. QED
        BY <1>1, <1>2, <4>1, <4>2
    <3>5. /\ Optional(n.model_type) /\ Optional(n.transformers_version) /\ Optional(n.diffusers_version)
          /\ StringOf(o, <<"model_type">>) = n.model_type
          /\ StringOf(o, <<"transformers_version">>) = n.transformers_version
          /\ StringOf(o, <<"_diffusers_version">>) = n.diffusers_version
          /\ <<"model_type">> \in TextNames /\ <<"transformers_version">> \in TextNames
          /\ <<"_diffusers_version">> \in TextNames
      BY TextsRead DEF Passed, RecordFormed, ScalarsFormed, TextNames
    <3>. QED
      BY <3>1, <3>2, <3>3, <3>4, <3>5 DEF ScalarMembers
  <2>. QED
    BY <1>4, <2>1, <2>2 DEF IsRebuilt
<1>. QED
  BY <1>3, <1>4

\* The whole record is made again.
LEMMA ConfigurationRead ==
    ASSUME NEW n, Passed(n), ~Unconsumed(n), NEW o, IsRebuilt(o, n)
    PROVE  Configuration(o, n.source_path,
              [id |-> n.architecture, source |-> n.architecture_source, used |-> ClassNames(n)]) = n
<1> DEFINE taken  == [id |-> n.architecture, source |-> n.architecture_source, used |-> ClassNames(n)]
           index  == n.source_path = ModelIndexPath
           task   == LET name == TaskName(o)
                     IN  IF name = {} THEN None
                         ELSE IF <<"pipeline_tag">> \in name
                         THEN Some(TaskKind(o[<<"pipeline_tag">>][2]))
                         ELSE Some(TaskKind(o[<<"task">>][2]))
           parts  == IF index THEN Components(o) ELSE <<>>
           extra  == Restrict(o, DOMAIN o \ ConsumedOf(o, n))
           given  == IF index THEN AppliedDefaults(o) ELSE <<>>
<1>1. task = n.task
  <2>1. CASE n.task = None
    BY <2>1, TaskRead
  <2>2. CASE n.task # None
    <3>1. TaskName(o) = {TaskAt(n)} /\ n.task = Some(TaskKind(o[TaskAt(n)][2]))
      BY <2>2, TaskRead
    <3>2. TaskAt(n) = <<"pipeline_tag">> \/ (TaskAt(n) = <<"task">> /\ TaskAt(n) # <<"pipeline_tag">>)
      BY DEF TaskAt
    <3>. QED
      BY <3>1, <3>2
  <2>. QED
    BY <2>1, <2>2
<1>2. parts = n.components /\ given = n.applied_defaults
  <2>1. ~index => n.components = <<>> /\ n.applied_defaults = <<>>
    BY DEF Passed
  <2>. QED
    BY <2>1, ComponentsRead, DefaultsRead
<1>3. extra = n.extra
  <2>1. extra = [name \in DOMAIN n.extra |-> o[name]]
    BY ConsumedIs DEF Restrict
  <2>2. n.extra = [name \in DOMAIN n.extra |-> n.extra[name]]
    BY DEF Passed, RecordFormed, ScalarsFormed
  <2>3. \A name \in DOMAIN n.extra : o[name] = n.extra[name]
    BY DEF IsRebuilt
  <2>. QED
    BY <2>1, <2>2, <2>3
<1>4. Configuration(o, n.source_path, taken) =
        [source_path          |-> n.source_path,
         architecture         |-> n.architecture,
         architecture_source  |-> n.architecture_source,
         model_type           |-> StringOf(o, <<"model_type">>),
         transformers_version |-> StringOf(o, <<"transformers_version">>),
         diffusers_version    |-> StringOf(o, <<"_diffusers_version">>),
         task                 |-> task,
         components           |-> parts,
         extra                |-> extra,
         applied_defaults     |-> given]
  <2> DEFINE used == (UNION {Used(o, name) : name \in TextNames}) \cup TaskName(o)
                     \cup (IF index THEN ComponentNames(o) ELSE {})
  <2>1. (DOMAIN o \ taken.used) \ used = DOMAIN o \ ConsumedOf(o, n)
    BY DEF ConsumedOf
  <2>2. Configuration(o, n.source_path, taken) =
        [source_path          |-> n.source_path,
         architecture         |-> n.architecture,
         architecture_source  |-> n.architecture_source,
         model_type           |-> StringOf(o, <<"model_type">>),
         transformers_version |-> StringOf(o, <<"transformers_version">>),
         diffusers_version    |-> StringOf(o, <<"_diffusers_version">>),
         task                 |-> task,
         components           |-> parts,
         extra                |-> Restrict(o, (DOMAIN o \ taken.used) \ used),
         applied_defaults     |-> given]
    BY DEF Configuration, TextNames
  <2> HIDE DEF used, taken, parts, given, task
  <2>. QED
    BY <2>1, <2>2
<1>5. n = [field \in RecordFields |-> n[field]]
  BY DEF Passed, RecordFormed, ScalarsFormed
<1>6. n = [source_path          |-> n.source_path,
           architecture         |-> n.architecture,
           architecture_source  |-> n.architecture_source,
           model_type           |-> n.model_type,
           transformers_version |-> n.transformers_version,
           diffusers_version    |-> n.diffusers_version,
           task                 |-> n.task,
           components           |-> n.components,
           extra                |-> n.extra,
           applied_defaults     |-> n.applied_defaults]
  BY <1>5 DEF RecordFields
<1> HIDE DEF taken, parts, given, task, extra
<1>7. Configuration(o, n.source_path, taken) = n
  BY <1>1, <1>2, <1>3, <1>4, <1>6, TextsRead
<1>. QED
  BY <1>7 DEF taken

LEMMA RebuiltNormalizes ==
    ASSUME NEW n, Passed(n), ~Unconsumed(n)
    PROVE  Normalize(RebuiltDocuments(n)) = <<"ok", n>>
<1> DEFINE d == RebuiltDocuments(n)
           o == Rebuilt(n)
           p == n.source_path
           a == [id |-> n.architecture, source |-> n.architecture_source, used |-> ClassNames(n)]
<1>1. DOMAIN d = {p} /\ d[p].repeated = FALSE /\ d[p].json[1] = "object" /\ d[p].json[2] = o
  BY DEF RebuiltDocuments, Object
<1>2. p \in {ModelIndexPath, ConfigPath} /\ ModelIndexPath # ConfigPath
  BY DEF Passed, ModelIndexPath, ConfigPath
<1> HIDE DEF d, p
<1>3. RootPath(d) = Some(p) /\ RootPath(d) # None /\ RootPath(d)[1] = p
  BY <1>1, <1>2 DEF RootPath, Some, None
<1>4. IsRebuilt(o, n)
  BY RebuiltIs
<1> HIDE DEF o
<1>5. TakeArchitecture(o, p) = Some(a)
  BY <1>4, ArchitectureRead DEF p
<1>6. Configuration(o, p, a) = n
  BY <1>4, ConfigurationRead DEF p
<1> HIDE DEF a
<1>7. Some(a) # None /\ Some(a)[1] = a
  BY DEF Some, None
<1>8. Normalize(d) = <<"ok", Configuration(o, p, a)>>
  BY <1>1, <1>3, <1>5, <1>7 DEF Normalize
<1>. QED
  BY <1>6, <1>8 DEF d

\* The reader has established all of that of what it accepts.
LEMMA AcceptedPassed ==
    ASSUME NEW w, WireFormed(w), FromJson(w)[1] = "ok", FromJson(w)[2].normalized # None
    PROVE  Passed(FromJson(w)[2].normalized[1])
<1> DEFINE m == w.normalized[1]
           n == Canonical(m)
<1>1. /\ w.normalized # None /\ OrderCheck(m) = "ok"
      /\ FromJson(w)[2].normalized = Some(n) /\ RelationCheck(w, Some(n)) = "ok"
  BY AcceptedIs
<1>2. RecordFormed(m)
  BY <1>1 DEF WireFormed
<1> HIDE DEF m
<1>3. RecordFormed(n) /\ SameRecord(n, m) /\ OrderOk(m)
  BY <1>1, <1>2, CanonicalResembles, OrderIs
<1>4. OrderOk(n)
  BY <1>2, <1>3, SameOrder
<1>5. /\ n.components = InOrder(ToSet(m.components), ByName)
      /\ n.applied_defaults = InOrder(ToSet(m.applied_defaults), ByField)
  <2> DEFINE a == InOrder(ToSet(m.components), ByName)
             b == InOrder(ToSet(m.applied_defaults), ByField)
  <2>1. n = [m EXCEPT !.components = a, !.applied_defaults = b] /\ DOMAIN m = RecordFields
    BY <1>2 DEF Canonical, RecordFormed
  <2> HIDE DEF a, b, n
  <2>2. n.components = a /\ n.applied_defaults = b
    BY <2>1 DEF RecordFields
  <2>. QED
    BY <2>2 DEF a, b
<1>6. ToSet(n.components) = ToSet(m.components) /\ ToSet(n.applied_defaults) = ToSet(m.applied_defaults)
  BY <1>2, <1>3, SameRecordIs
<1> HIDE DEF n
<1> DEFINE path == n.source_path
           kind == Name(path)
<1>7. Some(n) # None /\ Some(n)[1] = n
  BY DEF Some, None
<1>8. Related(w, Some(n)) /\ Producible(Some(n))
  BY <1>1, RelationIs
<1>9. /\ path \in DocumentPaths(w.documents) /\ Len(path) = 1
      /\ kind \in {<<"config.json">>, <<"model_index.json">>}
      /\ n.architecture # <<>>
      /\ n.architecture_source \in
            IF kind = <<"config.json">> THEN {"config_architectures", "config_class_name", "config_model_type"}
            ELSE {"model_index_class_name"}
  BY <1>7, <1>8 DEF Related
<1>10. Possible(n, kind)
  BY <1>7, <1>8 DEF Producible
<1>11. path = <<kind>>
  <2>1. path \in Paths
    BY <1>9, ListedFormed DEF DocumentPaths, WireFormed, ListsDocuments
  <2>2. path \in Seq(Segments) /\ path[1] = kind
    BY <1>9, <2>1, PathsAssumption DEF Name
  <2>. QED
    BY <1>9, <2>2
<1> HIDE DEF kind, path
<1>12. /\ path \in {ModelIndexPath, ConfigPath}
       /\ path = ModelIndexPath <=> kind # <<"config.json">>
  BY <1>9, <1>11 DEF ModelIndexPath, ConfigPath
<1>13. /\ ScalarsPossible(n)
       /\ IF path = ModelIndexPath
          THEN /\ \A name \in DOMAIN n.extra : Metadata(name) \/ ~ComponentTuple(n.extra[name])
               /\ \A c \in ToSet(n.components) : ComponentPossible(c, n.extra)
               /\ DefaultsPossible(n)
          ELSE n.components = <<>> /\ n.applied_defaults = <<>>
  BY <1>10, <1>12 DEF Possible
<1>14. n.architecture_source \in
          IF path = ModelIndexPath THEN {"model_index_class_name"}
          ELSE {"config_architectures", "config_class_name", "config_model_type"}
  BY <1>9, <1>12
<1>15. Passed(n)
  BY <1>3, <1>4, <1>5, <1>6, <1>9, <1>12, <1>13, <1>14 DEF Passed, path
<1>. QED
  BY <1>1, <1>7, <1>15

LEMMA Produced ==
    ASSUME AnswerInv, WireInv
    PROVE  AcceptedIsProducible
<1>1. SUFFICES ASSUME Accepted, answer[2].normalized # None, ~Unconsumed(answer[2].normalized[1])
               PROVE  Normalize(RebuiltDocuments(answer[2].normalized[1])) = <<"ok", answer[2].normalized[1]>>
  BY DEF AcceptedIsProducible, Of
<1>2. answer = FromJson(wire) /\ WireFormed(wire) /\ FromJson(wire)[1] = "ok"
  BY <1>1 DEF Accepted, AnswerInv, WireInv
<1>3. Passed(answer[2].normalized[1])
  BY <1>1, <1>2, AcceptedPassed
<1>. QED
  BY <1>1, <1>3, RebuiltNormalizes

-----------------------------------------------------------------------------

(***************************************************************************)
(* The theorems.                                                           *)
(***************************************************************************)

\* Neither what the crate writes of a repository, whatever its members and
\* its findings, nor what it accepts, however it was edited, shows anything
\* sensitive.
THEOREM NothingSensitiveIsEverShown == Spec => []NothingSensitiveIsShown
<1>1. IInv => NothingSensitiveIsShown
  BY WrittenIsSafe, AcceptedSafe DEF IInv, NothingSensitiveIsShown
<1>. QED
  BY <1>1, Invariance, PTL

\* Redaction takes nothing else: all that may be shown of the record is, as
\* deep as it lies, and every finding is there.
THEOREM OnlySensitiveIsEverOmitted == Spec => []OnlySensitiveIsOmitted
<1>1. IInv => OnlySensitiveIsOmitted
  BY NothingElse, Kept DEF IInv, OnlySensitiveIsOmitted
<1>. QED
  BY <1>1, Invariance, PTL

\* Normalization loses no member of the root document.
THEOREM MembersAreAlwaysAccountedFor == Spec => []EveryMemberIsAccountedFor
<1>1. IInv => EveryMemberIsAccountedFor
  BY AccountedFor DEF IInv
<1>. QED
  BY <1>1, Invariance, PTL

\* What is accepted does not depend on the order in which the text lists
\* documents, findings, components and defaults: read backwards, or written
\* again and read backwards, it is the same manifest.
THEOREM OrderIsEverIrrelevant == Spec => []OrderIsIrrelevant
<1>1. IInv => OrderIsIrrelevant
  BY Forgotten DEF IInv
<1>. QED
  BY <1>1, Invariance, PTL

\* The variables have their types: every path that stands in a record is one
\* that the reader would take.
THEOREM TypesAreCorrect == Spec => []TypeOK
<1>1. IInv => TypeOK
  BY Typed
<1>. QED
  BY <1>1, Invariance, PTL

\* An index at the root is authoritative: config.json never stands in for
\* it, neither in a record that is written nor in one that an edit made.
THEOREM RootIsAuthoritative == Spec => []IndexIsAuthoritative
<1>1. IInv => IndexIsAuthoritative
  BY Authoritative DEF IInv
<1>. QED
  BY <1>1, Invariance, PTL

\* A manifest that the crate wrote of a repository is read as what it was,
\* unless the reader, which searches every word of every string, finds
\* something sensitive, or two components are misordered: then, and only
\* then, the reader takes the record for one that the rules cannot produce.
THEOREM OwnManifestIsAlwaysRead == Spec => []OwnManifestIsRead
<1>1. IInv => OwnManifestIsRead
  BY OwnIsRead
<1>. QED
  BY <1>1, Invariance, PTL

\* A record, written or accepted, is one that normalization makes: of the
\* authoritative root, and, if it was edited and is accepted, of a root that
\* can be computed back from it.
THEOREM RecordsAreAlwaysProducible == Spec => []RecordsAreProducible
<1>1. IInv => RecordsAreProducible
  BY Typed, Authoritative, Produced DEF IInv, RecordsAreProducible
<1>. QED
  BY <1>1, Invariance, PTL

=============================================================================
