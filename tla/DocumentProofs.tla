--------------------------- MODULE DocumentProofs ---------------------------
(***************************************************************************)
(* Theorems about source documents: about SourceParse, for every limit and *)
(* every source, and about DuplicateScan, for every set of keys and texts, *)
(* whatever their lengths, every limit and every document.  The two share  *)
(* no variable.                                                            *)
(***************************************************************************)
EXTENDS SourceParse, DuplicateScan, FiniteSetTheorems, SequenceTheorems,
        WellFoundedInduction, TLAPS

(***************************************************************************)
(* The proofs by induction rest on one fact about numbers: to show that    *)
(* something holds of all of them, look at the least at which it does not. *)
(***************************************************************************)

\* A set of numbers that is not empty has a least one.
LEMMA Least ==
    ASSUME NEW S \in SUBSET Nat, S # {}
    PROVE  \E n \in S : \A m \in S : n <= m
<1> DEFINE R == {s \in Nat \X Nat : s[1] < s[2]}
<1>1. R = OpToRel(<, Nat)
  BY DEF OpToRel
<1>2. IsWellFoundedOn(R, Nat)
  BY <1>1, NatLessThanWellFounded
<1>3. PICK n \in S : \A m \in S : ~ (<<m, n>> \in R)
  BY <1>2, WFMin
<1>4. SUFFICES ASSUME NEW m \in S PROVE n <= m
  OBVIOUS
<1>5. m \in Nat /\ n \in Nat /\ ~ (<<m, n>> \in R)
  BY <1>3
<1>. QED
  BY <1>5

(***************************************************************************)
(*                               SourceParse                               *)
(***************************************************************************)

(***************************************************************************)
(* The inductive invariant.  Up to a mistake the scanner is where the      *)
(* parser is; after one it only ever adds to its maximum, which the parser *)
(* therefore never exceeds.  An answer says what the scan of the source,   *)
(* which is final by then, came to.                                        *)
(***************************************************************************)
ParserInv == deepest <= Scan(text).maximum

OutcomeInv ==
    /\ outcome \in {"json", "malformed"} => ~TooDeep(text)
    /\ outcome = "nesting" => TooDeep(text)

ParserIInv == ParseTypeOK /\ NestingIsExact /\ ParserInv /\ OutcomeInv

-----------------------------------------------------------------------------

\* The function that scans the first N bytes.
IsScan(source, N, g) ==
    g = [n \in 0..N |-> IF n = 0 THEN ScanStart ELSE ScanByte(g[n - 1], source[n])]

LEMMA ScanStep ==
    ASSUME NEW source, NEW N \in Nat, NEW g, IsScan(source, N, g)
    PROVE  /\ g[0] = ScanStart
           /\ \A n \in 1..N : g[n] = ScanByte(g[n - 1], source[n])
<1>1. \A n \in 0..N : g[n] = IF n = 0 THEN ScanStart ELSE ScanByte(g[n - 1], source[n])
  BY DEF IsScan
<1>2. 0 \in 0..N /\ \A n \in 1..N : n \in 0..N /\ n # 0
  OBVIOUS
<1>. QED
  BY <1>1, <1>2

LEMMA ScanExists ==
    ASSUME NEW source \in Seq(Bytes)
    PROVE  \A N \in 0..Len(source) : \E g : IsScan(source, N, g)
<1> DEFINE Bad == {N \in 0..Len(source) : ~\E g : IsScan(source, N, g)}
<1>1. Len(source) \in Nat
  OBVIOUS
<1>2. SUFFICES ASSUME Bad # {} PROVE FALSE
  OBVIOUS
<1>3. Bad \in SUBSET Nat
  BY <1>1
<1> HIDE DEF Bad
<1>4. PICK N \in Bad : \A m \in Bad : N <= m
  BY <1>2, <1>3, Least
<1>5. N \in 0..Len(source) /\ N \in Nat /\ ~\E g : IsScan(source, N, g)
  BY <1>1 DEF Bad
<1>6. CASE N = 0
  <2> DEFINE g == [n \in 0..0 |-> ScanStart]
  <2>1. g = [n \in 0..0 |-> IF n = 0 THEN ScanStart ELSE ScanByte(g[n - 1], source[n])]
    OBVIOUS
  <2>2. IsScan(source, 0, g)
    BY <2>1 DEF IsScan
  <2>. QED
    BY <1>5, <1>6, <2>2
<1>7. CASE N # 0
  <2>1. N - 1 \in 0..Len(source) /\ N - 1 \notin Bad
    BY <1>1, <1>4, <1>5, <1>7
  <2>2. PICK h : IsScan(source, N - 1, h)
    BY <2>1 DEF Bad
  <2> DEFINE g == [n \in 0..N |-> IF n = N THEN ScanByte(h[N - 1], source[N]) ELSE h[n]]
             f == [n \in 0..N |-> IF n = 0 THEN ScanStart ELSE ScanByte(g[n - 1], source[n])]
  <2>3. \A k \in 0..N - 1 : h[k] = IF k = 0 THEN ScanStart ELSE ScanByte(h[k - 1], source[k])
    BY <2>2 DEF IsScan
  <2>4. ASSUME NEW n \in 0..N PROVE f[n] = g[n]
    <3>1. CASE n = N
      BY <3>1, <1>5, <1>7
    <3>2. CASE n # N
      <4>1. n \in 0..N - 1 /\ g[n] = h[n]
        BY <3>2, <1>5
      <4>2. n # 0 => n - 1 \in 0..N /\ n - 1 # N
        BY <4>1, <1>5
      <4>. QED
        BY <2>3, <4>1, <4>2
    <3>. QED
      BY <3>1, <3>2
  <2>5. /\ DOMAIN g = 0..N /\ DOMAIN f = 0..N
        /\ g = [n \in DOMAIN g |-> g[n]] /\ f = [n \in DOMAIN f |-> f[n]]
    OBVIOUS
  <2> HIDE DEF f, g
  <2>6. f = g
    BY <2>4, <2>5
  <2>7. IsScan(source, N, g)
    BY <2>6 DEF f, IsScan
  <2>. QED
    BY <1>5, <2>7
<1>. QED
  BY <1>6, <1>7

\* Scan is the last value of such a function.
LEMMA ScanIs ==
    ASSUME NEW source \in Seq(Bytes)
    PROVE  \E g : IsScan(source, Len(source), g) /\ Scan(source) = g[Len(source)]
<1> DEFINE t == CHOOSE g : IsScan(source, Len(source), g)
<1>1. Len(source) \in 0..Len(source)
  OBVIOUS
<1>2. IsScan(source, Len(source), t)
  BY <1>1, ScanExists
<1>3. Scan(source) = t[Len(source)]
  BY DEF Scan, IsScan
<1>. QED
  BY <1>2, <1>3

\* One more byte is one more round of the loop.
LEMMA ScanOfAppend ==
    ASSUME NEW source \in Seq(Bytes), NEW byte \in Bytes
    PROVE  Scan(Append(source, byte)) = ScanByte(Scan(source), byte)
<1> DEFINE more == Append(source, byte)
           N    == Len(source)
<1>1. /\ more \in Seq(Bytes) /\ Len(more) = N + 1 /\ N \in Nat
      /\ more[N + 1] = byte /\ \A i \in 1..N : more[i] = source[i]
  BY AppendProperties
<1> HIDE DEF more, N
<1>2. PICK g : IsScan(source, N, g) /\ Scan(source) = g[N]
  BY ScanIs DEF N
<1>3. PICK h : IsScan(more, N + 1, h) /\ Scan(more) = h[N + 1]
  BY <1>1, ScanIs
<1>4. /\ g[0] = ScanStart /\ \A n \in 1..N : g[n] = ScanByte(g[n - 1], source[n])
      /\ h[0] = ScanStart /\ \A n \in 1..N + 1 : h[n] = ScanByte(h[n - 1], more[n])
  <2>1. N + 1 \in Nat
    BY <1>1
  <2>. QED
    BY <1>1, <1>2, <1>3, <2>1, ScanStep
<1> DEFINE Bad == {n \in 0..N : g[n] # h[n]}
<1>5. Bad = {}
  <2>1. SUFFICES ASSUME Bad # {} PROVE FALSE
    OBVIOUS
  <2>2. Bad \in SUBSET Nat
    BY <1>1
  <2> HIDE DEF Bad
  <2>3. PICK n \in Bad : \A m \in Bad : n <= m
    BY <2>1, <2>2, Least
  <2>4. n \in 0..N /\ g[n] # h[n]
    BY DEF Bad
  <2>5. n \in 1..N /\ n \in 1..N + 1 /\ n - 1 \in 0..N /\ n - 1 \notin Bad
    BY <1>1, <1>4, <2>3, <2>4
  <2>6. g[n - 1] = h[n - 1]
    BY <2>5 DEF Bad
  <2>7. g[n] = ScanByte(g[n - 1], source[n]) /\ h[n] = ScanByte(h[n - 1], source[n])
    BY <1>1, <1>4, <2>5
  <2>. QED
    BY <2>4, <2>6, <2>7
<1>6. g[N] = h[N]
  BY <1>1, <1>5
<1>7. h[N + 1] = ScanByte(h[N], byte)
  <2>1. N + 1 \in 1..N + 1 /\ (N + 1) - 1 = N
    BY <1>1
  <2>. QED
    BY <1>1, <1>4, <2>1
<1>. QED
  BY <1>2, <1>3, <1>6, <1>7 DEF more

LEMMA ScanOfNothing == Scan(<<>>) = ScanStart
<1>1. <<>> \in Seq(Bytes) /\ Len(<<>>) = 0
  BY EmptySeq
<1>2. PICK g : IsScan(<<>>, 0, g) /\ Scan(<<>>) = g[0]
  BY <1>1, ScanIs
<1>. QED
  BY <1>2, ScanStep

-----------------------------------------------------------------------------

(***************************************************************************)
(* What the scanner makes of a byte.                                       *)
(***************************************************************************)
States == [depth : Nat, maximum : Nat, inString : BOOLEAN, escaped : BOOLEAN]

Inside(state) == [state EXCEPT !.inString = TRUE]

\* Outside of a string.
LEMMA OutsideBytes ==
    ASSUME NEW state \in States, ~state.inString
    PROVE  /\ \A c \in Openers : ScanByte(state, c) =
                 [state EXCEPT !.depth   = state.depth + 1,
                               !.maximum = Greater(state.maximum, state.depth + 1)]
           /\ \A c \in Closers : ScanByte(state, c) =
                 [state EXCEPT !.depth = Greater(state.depth - 1, 0)]
           /\ ScanByte(state, "other") = state
           /\ ScanByte(state, "quote") = Inside(state)
BY DEF ScanByte, Openers, Closers, Inside

\* A state with other fields is a state.
LEMMA StateUpdate ==
    ASSUME NEW state \in States
    PROVE  /\ \A e \in BOOLEAN :
                 /\ [state EXCEPT !.escaped = e] \in States
                 /\ [state EXCEPT !.escaped = e].maximum = state.maximum
           /\ \A e, s \in BOOLEAN :
                 /\ [state EXCEPT !.escaped = e, !.inString = s] \in States
                 /\ [state EXCEPT !.escaped = e, !.inString = s].maximum = state.maximum
           /\ [state EXCEPT !.inString = TRUE] \in States
           /\ [state EXCEPT !.inString = TRUE].maximum = state.maximum
           /\ \A d \in Nat :
                 /\ [state EXCEPT !.depth = d] \in States
                 /\ [state EXCEPT !.depth = d].maximum = state.maximum
BY DEF States

LEMMA DeeperState ==
    ASSUME NEW state \in States, NEW d \in Nat, NEW m \in Nat
    PROVE  /\ [state EXCEPT !.depth = d, !.maximum = m] \in States
           /\ [state EXCEPT !.depth = d, !.maximum = m].maximum = m
BY DEF States

\* A round of the loop gives a state, and the maximum never falls.
LEMMA ByteType ==
    ASSUME NEW state \in States, NEW byte \in Bytes
    PROVE  /\ ScanByte(state, byte) \in States
           /\ state.maximum <= ScanByte(state, byte).maximum
<1>1. /\ state.depth \in Nat /\ state.maximum \in Nat
      /\ state.inString \in BOOLEAN /\ state.escaped \in BOOLEAN
  BY DEF States
<1> DEFINE after == ScanByte(state, byte)
<1>2. CASE state.inString
  <2>1. \/ after = [state EXCEPT !.escaped = FALSE]
        \/ after = [state EXCEPT !.escaped = byte = "backslash", !.inString = byte # "quote"]
    BY <1>1, <1>2 DEF ScanByte
  <2> HIDE DEF after
  <2>2. (byte = "backslash") \in BOOLEAN /\ (byte # "quote") \in BOOLEAN
    OBVIOUS
  <2>3. after \in States /\ after.maximum = state.maximum
    BY <2>1, <2>2, StateUpdate
  <2>. QED
    BY <1>1, <2>3 DEF after
<1>3. CASE ~state.inString
  <2> DEFINE more == Greater(state.maximum, state.depth + 1)
             less == Greater(state.depth - 1, 0)
  <2>1. /\ more \in Nat /\ state.maximum <= more /\ less \in Nat /\ state.depth + 1 \in Nat
    BY <1>1 DEF Greater
  <2>2. \/ after = [state EXCEPT !.inString = TRUE]
        \/ after = [state EXCEPT !.depth = state.depth + 1, !.maximum = more]
        \/ after = [state EXCEPT !.depth = less]
        \/ after = state
    <3> HIDE DEF after, more, less
    <3>1. CASE byte = "quote"
      BY <1>3, <3>1, OutsideBytes DEF after, Inside
    <3>2. CASE byte \in Openers
      BY <1>3, <3>2, OutsideBytes DEF after, more
    <3>3. CASE byte \in Closers
      BY <1>3, <3>3, OutsideBytes DEF after, less
    <3>4. CASE byte \notin Openers \cup Closers /\ byte # "quote"
      BY <1>3, <3>4 DEF ScanByte, after
    <3>. QED
      BY <3>1, <3>2, <3>3, <3>4
  <2> HIDE DEF after, more, less
  <2>3. after \in States /\ (after.maximum = state.maximum \/ after.maximum = more)
    <3>1. CASE after = [state EXCEPT !.depth = state.depth + 1, !.maximum = more]
      <4> DEFINE deeper == state.depth + 1
      <4>1. deeper \in Nat /\ after = [state EXCEPT !.depth = deeper, !.maximum = more]
        BY <2>1, <3>1
      <4> HIDE DEF deeper
      <4>2. /\ [state EXCEPT !.depth = deeper, !.maximum = more] \in States
            /\ [state EXCEPT !.depth = deeper, !.maximum = more].maximum = more
        BY <2>1, <4>1, DeeperState, Zenon
      <4>. QED
        BY <4>1, <4>2, Zenon
    <3>2. CASE after = [state EXCEPT !.depth = less]
      BY <2>1, <3>2, StateUpdate
    <3>3. CASE after = [state EXCEPT !.inString = TRUE]
      BY <3>3, StateUpdate
    <3>. QED
      BY <2>2, <3>1, <3>2, <3>3
  <2>. QED
    BY <1>1, <2>1, <2>3 DEF after
<1>. QED
  BY <1>1, <1>2, <1>3

\* In a string, where an escape takes the byte after it along.
LEMMA InsideBytes ==
    ASSUME NEW state \in States, ~state.inString, ~state.escaped
    PROVE  /\ \A c \in {"{", "]", "other"} : ScanByte(Inside(state), c) = Inside(state)
           /\ ScanByte(Inside(state), "quote") = state
           /\ \A c \in {"quote", "backslash", "other"} :
                 ScanByte(ScanByte(Inside(state), "backslash"), c) = Inside(state)
<1>1. \A c \in {"{", "]", "other"} : ScanByte(Inside(state), c) = Inside(state)
  <2> TAKE c \in {"{", "]", "other"}
  <2>1. ScanByte(Inside(state), c) =
           [Inside(state) EXCEPT !.escaped = FALSE, !.inString = TRUE]
    BY DEF ScanByte, Inside, States
  <2>. QED
    BY <2>1 DEF Inside, States
<1>2. ScanByte(Inside(state), "quote") = state
  BY DEF ScanByte, Inside, States
<1>3. \A c \in {"quote", "backslash", "other"} :
         ScanByte(ScanByte(Inside(state), "backslash"), c) = Inside(state)
  <2> DEFINE escape == ScanByte(Inside(state), "backslash")
  <2>1. escape = [Inside(state) EXCEPT !.escaped = TRUE]
    BY DEF ScanByte, Inside, States
  <2>2. \A c \in {"quote", "backslash", "other"} :
           ScanByte(escape, c) = [escape EXCEPT !.escaped = FALSE]
    <3> HIDE DEF escape
    <3>. QED
      BY <2>1 DEF ScanByte, Inside, States
  <2>3. [escape EXCEPT !.escaped = FALSE] = Inside(state)
    <3> HIDE DEF escape
    <3>. QED
      BY <2>1 DEF Inside, States
  <2>. QED
    BY <2>2, <2>3, Zenon
<1>. QED
  BY <1>1, <1>2, <1>3

LEMMA OneByteSource ==
    ASSUME NEW byte \in Bytes
    PROVE  <<byte>> \in Seq(Bytes) /\ Len(<<byte>>) = 1
  OBVIOUS

\* A byte after a source.
LEMMA OneByte ==
    ASSUME NEW source \in Seq(Bytes), NEW byte \in Bytes
    PROVE  /\ source \o <<byte>> \in Seq(Bytes)
           /\ Scan(source \o <<byte>>) = ScanByte(Scan(source), byte)
<1>1. source \o <<byte>> = Append(source, byte) /\ Append(source, byte) \in Seq(Bytes)
  BY AppendIsConcat, AppendProperties
<1>. QED
  BY <1>1, ScanOfAppend

\* A character of a string leaves the scanner in it.
LEMMA OneCharacter ==
    ASSUME NEW source \in Seq(Bytes), NEW state \in States,
           ~state.inString, ~state.escaped, Scan(source) = Inside(state),
           NEW char \in Characters
    PROVE  /\ char \in Seq(Bytes) /\ source \o char \in Seq(Bytes)
           /\ Scan(source \o char) = Inside(state)
<1>1. CASE \E c \in {"{", "]", "other"} : char = <<c>>
  <2>1. PICK c \in {"{", "]", "other"} : char = <<c>>
    BY <1>1
  <2>2. c \in Bytes
    BY DEF Bytes, Openers, Closers
  <2>3. <<c>> \in Seq(Bytes)
    BY <2>2, OneByteSource
  <2>4. /\ source \o <<c>> \in Seq(Bytes)
        /\ Scan(source \o <<c>>) = ScanByte(Inside(state), c)
    BY <2>2, OneByte
  <2>5. ScanByte(Inside(state), c) = Inside(state)
    BY InsideBytes
  <2>. QED
    BY <2>1, <2>3, <2>4, <2>5
<1>2. CASE \E c \in {"quote", "backslash", "other"} : char = <<"backslash", c>>
  <2>1. PICK c \in {"quote", "backslash", "other"} : char = <<"backslash", c>>
    BY <1>2
  <2>2. c \in Bytes /\ "backslash" \in Bytes
    BY DEF Bytes
  <2>3. /\ <<"backslash">> \in Seq(Bytes) /\ <<c>> \in Seq(Bytes) /\ char \in Seq(Bytes)
        /\ char = <<"backslash">> \o <<c>>
    BY <2>1, <2>2
  <2> DEFINE half == source \o <<"backslash">>
  <2>4. half \in Seq(Bytes) /\ Scan(half) = ScanByte(Inside(state), "backslash")
    BY <2>2, OneByte
  <2>5. source \o char = half \o <<c>>
    BY <2>3, ConcatAssociative
  <2> HIDE DEF half
  <2>6. half \o <<c>> \in Seq(Bytes) /\ Scan(half \o <<c>>) = ScanByte(Scan(half), c)
    BY <2>2, <2>4, OneByte
  <2>7. ScanByte(Scan(half), c) = Inside(state)
    BY <2>4, InsideBytes
  <2>. QED
    BY <2>3, <2>5, <2>6, <2>7
<1>. QED
  BY <1>1, <1>2 DEF Characters

\* So does what a string may hold.
LEMMA OneBody ==
    ASSUME NEW source \in Seq(Bytes), NEW state \in States,
           ~state.inString, ~state.escaped, Scan(source) = Inside(state),
           NEW body \in StringBodies
    PROVE  /\ body \in Seq(Bytes) /\ source \o body \in Seq(Bytes)
           /\ Scan(source \o body) = Inside(state)
<1>1. CASE body = <<>>
  BY <1>1, EmptySeq, ConcatEmptySeq
<1>2. CASE body \in Characters
  BY <1>2, OneCharacter
<1>3. CASE \E c, d \in Characters : body = c \o d
  <2>1. PICK c, d \in Characters : body = c \o d
    BY <1>3
  <2> DEFINE first == source \o c
  <2>2. c \in Seq(Bytes) /\ first \in Seq(Bytes) /\ Scan(first) = Inside(state)
    BY OneCharacter
  <2> HIDE DEF first
  <2>3. /\ d \in Seq(Bytes) /\ first \o d \in Seq(Bytes)
        /\ Scan(first \o d) = Inside(state)
    BY <2>2, OneCharacter
  <2>4. source \o (c \o d) = first \o d
    BY <2>2, <2>3, ConcatAssociative DEF first
  <2>5. c \o d \in Seq(Bytes)
    BY <2>2, <2>3, ConcatProperties
  <2>. QED
    BY <2>1, <2>3, <2>4, <2>5
<1>. QED
  BY <1>1, <1>2, <1>3 DEF StringBodies

\* A string leaves the scanner where it was.
LEMMA OneString ==
    ASSUME NEW source \in Seq(Bytes), Scan(source) \in States,
           ~Scan(source).inString, ~Scan(source).escaped,
           NEW body \in StringBodies
    PROVE  LET string == <<"quote">> \o body \o <<"quote">>
           IN  /\ source \o string \in Seq(Bytes)
               /\ Scan(source \o string) = Scan(source)
<1> DEFINE state == Scan(source)
           start == source \o <<"quote">>
           half  == start \o body
           string == <<"quote">> \o body \o <<"quote">>
<1>1. "quote" \in Bytes /\ <<"quote">> \in Seq(Bytes)
  BY DEF Bytes
<1>2. start \in Seq(Bytes) /\ Scan(start) = Inside(state)
  <2>1. start \in Seq(Bytes) /\ Scan(start) = ScanByte(state, "quote")
    BY <1>1, OneByte
  <2>2. ScanByte(state, "quote") = Inside(state)
    BY OutsideBytes
  <2>. QED
    BY <2>1, <2>2
<1>3. body \in Seq(Bytes) /\ half \in Seq(Bytes) /\ Scan(half) = Inside(state)
  <2> HIDE DEF start, state
  <2>1. state \in States /\ ~state.inString /\ ~state.escaped
    BY DEF state
  <2>. QED
    BY <1>2, <2>1, OneBody
<1>4. half \o <<"quote">> \in Seq(Bytes) /\ Scan(half \o <<"quote">>) = state
  <2> HIDE DEF half, state
  <2>1. state \in States /\ ~state.inString /\ ~state.escaped
    BY DEF state
  <2>. QED
    BY <1>1, <1>3, <2>1, OneByte, InsideBytes
<1>5. source \o string = half \o <<"quote">>
  <2>1. <<"quote">> \o body \in Seq(Bytes)
    BY <1>1, <1>3, ConcatProperties
  <2>2. source \o string = (source \o (<<"quote">> \o body)) \o <<"quote">>
    BY <1>1, <2>1, ConcatAssociative
  <2>3. source \o (<<"quote">> \o body) = half
    BY <1>1, <1>3, ConcatAssociative
  <2>. QED
    BY <2>2, <2>3
<1>. QED
  BY <1>4, <1>5

-----------------------------------------------------------------------------

LEMMA ParserInitInv == ParseInit => ParserIInv
<1> SUFFICES ASSUME ParseInit PROVE ParserIInv
  OBVIOUS
<1>1. /\ path \in Paths /\ text = <<>> /\ open = <<>> /\ deepest = 0 /\ parser = "ok"
      /\ outcome = "none" /\ Scan(text) = ScanStart
  BY ScanOfNothing DEF ParseInit
<1>2. /\ text \in Seq(Bytes) /\ Len(text) = 0 /\ open \in Seq(Openers) /\ Len(open) = 0
  BY <1>1, EmptySeq
<1>3. ParseTypeOK
  <2>1. Scan(text) \in [depth : Nat, maximum : Nat, inString : BOOLEAN, escaped : BOOLEAN]
    <3>1. ScanStart \in States
      BY DEF ScanStart, States
    <3>. QED
      BY <1>1, <3>1 DEF States
  <2>. QED
    BY <1>1, <1>2, <2>1, LimitsAssumption DEF ParseTypeOK, Outcomes
<1>4. NestingIsExact
  BY <1>1, <1>2 DEF NestingIsExact, ScanStart
<1>5. ParserInv
  BY <1>1 DEF ParserInv, ScanStart
<1>6. OutcomeInv
  BY <1>1 DEF OutcomeInv
<1>. QED
  BY <1>3, <1>4, <1>5, <1>6 DEF ParserIInv

\* What a step that writes has to show: its bytes, what the scanner makes of
\* them, and where the parser is then.
LEMMA WriteInv ==
    ASSUME ParserIInv, outcome = "none", outcome' = outcome, path' = path,
           text' \in Seq(Bytes), Len(text') <= MaxText, Scan(text') \in States,
           open' \in Seq(Openers), deepest' \in Nat, parser' \in {"ok", "failed"},
           NestingIsExact', ParserInv'
    PROVE  ParserIInv'
<1>1. ParseTypeOK'
  BY DEF ParserIInv, ParseTypeOK, States
<1>2. OutcomeInv'
  BY DEF OutcomeInv
<1>. QED
  BY <1>1, <1>2 DEF ParserIInv

\* One byte more in the source.
LEMMA WriteByte ==
    ASSUME ParserIInv, NEW c \in Bytes, Write(<<c>>)
    PROVE  /\ outcome = "none" /\ outcome' = outcome /\ path' = path
           /\ text' \in Seq(Bytes) /\ Len(text') <= MaxText
           /\ Scan(text) \in States /\ Scan(text') = ScanByte(Scan(text), c)
           /\ Scan(text') \in States /\ Scan(text).maximum <= Scan(text').maximum
<1>1. /\ outcome = "none" /\ Len(text) + Len(<<c>>) <= MaxText
      /\ text' = text \o <<c>> /\ path' = path /\ outcome' = outcome
      /\ text \in Seq(Bytes) /\ Scan(text) \in States
  BY DEF Write, ParserIInv, ParseTypeOK, States
<1>2. text' \in Seq(Bytes) /\ Scan(text') = ScanByte(Scan(text), c)
  BY <1>1, OneByte
<1>3. Len(text') = Len(text) + Len(<<c>>)
  <2>1. <<c>> \in Seq(Bytes)
    OBVIOUS
  <2>. QED
    BY <1>1, <2>1, ConcatProperties
<1>4. Scan(text') \in States /\ Scan(text).maximum <= Scan(text').maximum
  BY <1>1, <1>2, ByteType
<1>. QED
  BY <1>1, <1>2, <1>3, <1>4

\* The parser enters a container.
LEMMA WriteOpenInv ==
    ASSUME ParserIInv, NEW c \in Openers, WriteOpen(c)
    PROVE  ParserIInv'
<1>1. /\ parser = "ok" /\ parser' = "ok" /\ Write(<<c>>) /\ c \in Bytes
      /\ open' = Append(open, c) /\ deepest' = Greater(deepest, Len(open'))
      /\ open \in Seq(Openers) /\ deepest \in Nat
  BY DEF WriteOpen, ParserIInv, ParseTypeOK, Bytes
<1> DEFINE before == Scan(text)
           after  == Scan(text')
<1>2. /\ outcome = "none" /\ outcome' = outcome /\ path' = path
      /\ text' \in Seq(Bytes) /\ Len(text') <= MaxText
      /\ before \in States /\ after = ScanByte(before, c) /\ after \in States
  BY <1>1, WriteByte
<1>3. /\ open' \in Seq(Openers) /\ Len(open') = Len(open) + 1 /\ Len(open) \in Nat
  BY <1>1, AppendProperties, LenProperties
<1>4. before = [depth |-> Len(open), maximum |-> deepest, inString |-> FALSE, escaped |-> FALSE]
  BY <1>1 DEF ParserIInv, NestingIsExact
<1> HIDE DEF before, after
<1>5. after = [depth |-> Len(open'), maximum |-> deepest', inString |-> FALSE, escaped |-> FALSE]
  <2>1. ~before.inString /\ before.depth = Len(open) /\ before.maximum = deepest
    BY <1>4
  <2>2. after = [before EXCEPT !.depth = Len(open'), !.maximum = deepest']
    <3>1. after = [before EXCEPT !.depth   = before.depth + 1,
                                 !.maximum = Greater(before.maximum, before.depth + 1)]
      BY <1>2, <2>1, OutsideBytes
    <3>2. before.depth + 1 = Len(open') /\ Greater(before.maximum, before.depth + 1) = deepest'
      BY <1>1, <1>3, <2>1
    <3>. QED
      BY <3>1, <3>2
  <2>. QED
    BY <1>4, <2>2
<1>6. deepest' \in Nat /\ deepest' <= after.maximum
  <2>1. deepest' \in Nat
    BY <1>1, <1>3 DEF Greater
  <2>. QED
    BY <1>5, <2>1
<1>. QED
  BY <1>1, <1>2, <1>3, <1>5, <1>6, WriteInv DEF NestingIsExact, ParserInv, after

\* The parser leaves one.
LEMMA WriteCloseInv ==
    ASSUME ParserIInv, NEW c \in Closers, WriteClose(c)
    PROVE  ParserIInv'
<1>1. /\ parser = "ok" /\ parser' = "ok" /\ Write(<<c>>) /\ c \in Bytes
      /\ open' = SubSeq(open, 1, Len(open) - 1) /\ deepest' = deepest
      /\ open \in Seq(Openers) /\ deepest \in Nat /\ Len(open) > 0
  BY DEF WriteClose, Closes, ParserIInv, ParseTypeOK, Bytes
<1> DEFINE before == Scan(text)
           after  == Scan(text')
<1>2. /\ outcome = "none" /\ outcome' = outcome /\ path' = path
      /\ text' \in Seq(Bytes) /\ Len(text') <= MaxText
      /\ before \in States /\ after = ScanByte(before, c) /\ after \in States
  BY <1>1, WriteByte
<1>3. /\ open' \in Seq(Openers) /\ Len(open') = Len(open) - 1 /\ Len(open) \in Nat
  <2>1. Len(open) \in Nat /\ Len(open) >= 1
    BY <1>1, LenProperties
  <2> DEFINE n == Len(open) - 1
  <2>2. \A i \in 1..n : open[i] \in Openers
    BY <1>1, <2>1, ElementOfSeq
  <2>3. n \in Int /\ 1 \in Int /\ n >= 0
    BY <2>1
  <2>4. open' = SubSeq(open, 1, n)
    BY <1>1
  <2>5. Len(open) \in Nat /\ n = Len(open) - 1
    BY <2>1
  <2> HIDE DEF n
  <2>6. SubSeq(open, 1, n) \in Seq(Openers) /\ Len(SubSeq(open, 1, n)) = IF 1 <= n THEN n - 1 + 1 ELSE 0
    BY <2>2, <2>3, SubSeqProperties
  <2>7. (IF 1 <= n THEN n - 1 + 1 ELSE 0) = n
    BY <2>3
  <2>. QED
    BY <2>4, <2>5, <2>6, <2>7
<1>4. before = [depth |-> Len(open), maximum |-> deepest, inString |-> FALSE, escaped |-> FALSE]
  BY <1>1 DEF ParserIInv, NestingIsExact
<1> HIDE DEF before, after
<1>5. after = [depth |-> Len(open'), maximum |-> deepest, inString |-> FALSE, escaped |-> FALSE]
  <2>1. ~before.inString /\ before.depth = Len(open) /\ Len(open') = Greater(Len(open) - 1, 0)
    BY <1>1, <1>3, <1>4 DEF Greater
  <2>2. after = [before EXCEPT !.depth = Len(open')]
    <3>1. after = [before EXCEPT !.depth = Greater(before.depth - 1, 0)]
      BY <1>2, <2>1, OutsideBytes
    <3>2. Greater(before.depth - 1, 0) = Len(open')
      BY <2>1
    <3>. QED
      BY <3>1, <3>2
  <2>. QED
    BY <1>4, <2>2
<1>6. deepest' \in Nat /\ deepest' <= after.maximum
  BY <1>1, <1>5
<1>. QED
  BY <1>1, <1>2, <1>3, <1>5, <1>6, WriteInv DEF NestingIsExact, ParserInv, after

\* A string, whatever it holds, is nothing to the nesting.
LEMMA StringInv ==
    ASSUME ParserIInv, NEW body \in StringBodies, WriteString(body)
    PROVE  ParserIInv'
<1> DEFINE string == <<"quote">> \o body \o <<"quote">>
<1>1. /\ parser = "ok" /\ parser' = "ok" /\ open' = open /\ deepest' = deepest
      /\ outcome = "none" /\ outcome' = outcome /\ path' = path
      /\ text' = text \o string /\ Len(text) + Len(string) <= MaxText
      /\ text \in Seq(Bytes) /\ open \in Seq(Openers) /\ deepest \in Nat
      /\ Scan(text) \in States
  BY DEF WriteString, Write, ParserIInv, ParseTypeOK, States
<1>2. Scan(text) = [depth |-> Len(open), maximum |-> deepest, inString |-> FALSE, escaped |-> FALSE]
  BY <1>1 DEF ParserIInv, NestingIsExact
<1>3. ~Scan(text).inString /\ ~Scan(text).escaped /\ deepest <= Scan(text).maximum
  BY <1>1, <1>2
<1>4. text' \in Seq(Bytes) /\ Scan(text') = Scan(text)
  BY <1>1, <1>3, OneString
<1>5. Len(text') = Len(text) + Len(string)
  <2>1. body \in Seq(Bytes) /\ <<"quote">> \in Seq(Bytes)
    <3> DEFINE state == Scan(text)
               start == text \o <<"quote">>
    <3>1. "quote" \in Bytes /\ state \in States /\ ~state.inString /\ ~state.escaped
      BY <1>1, <1>3 DEF Bytes
    <3>2. start \in Seq(Bytes) /\ Scan(start) = Inside(state)
      <4>1. start \in Seq(Bytes) /\ Scan(start) = ScanByte(state, "quote")
        BY <1>1, <3>1, OneByte
      <4>2. ScanByte(state, "quote") = Inside(state)
        BY <3>1, OutsideBytes
      <4>. QED
        BY <4>1, <4>2
    <3> HIDE DEF state, start
    <3>. QED
      BY <3>1, <3>2, OneBody, OneByteSource
  <2>2. string \in Seq(Bytes)
    BY <2>1, ConcatProperties
  <2>. QED
    BY <1>1, <2>2, ConcatProperties
<1>6. Len(text') <= MaxText
  BY <1>1, <1>5
<1>7. NestingIsExact' /\ ParserInv'
  BY <1>1, <1>2, <1>3, <1>4 DEF NestingIsExact, ParserInv
<1>. QED
  BY <1>1, <1>4, <1>6, <1>7, WriteInv

\* Nor is any other token.
LEMMA OtherInv ==
    ASSUME ParserIInv, WriteOther
    PROVE  ParserIInv'
<1>1. /\ parser = "ok" /\ parser' = "ok" /\ Write(<<"other">>) /\ "other" \in Bytes
      /\ open' = open /\ deepest' = deepest /\ open \in Seq(Openers) /\ deepest \in Nat
  BY DEF WriteOther, ParserIInv, ParseTypeOK, Bytes
<1>2. /\ outcome = "none" /\ outcome' = outcome /\ path' = path
      /\ text' \in Seq(Bytes) /\ Len(text') <= MaxText
      /\ Scan(text) \in States /\ Scan(text') = ScanByte(Scan(text), "other")
  BY <1>1, WriteByte
<1>3. Scan(text) = [depth |-> Len(open), maximum |-> deepest, inString |-> FALSE, escaped |-> FALSE]
  BY <1>1 DEF ParserIInv, NestingIsExact
<1>4. ~Scan(text).inString /\ deepest <= Scan(text).maximum
  BY <1>1, <1>3
<1>5. Scan(text') = Scan(text)
  BY <1>2, <1>4, OutsideBytes
<1>6. NestingIsExact' /\ ParserInv'
  BY <1>1, <1>3, <1>4, <1>5 DEF NestingIsExact, ParserInv
<1>. QED
  BY <1>1, <1>2, <1>5, <1>6, WriteInv

\* After a mistake the parser stands still and the maximum does not fall.
LEMMA MistakeInv ==
    ASSUME ParserIInv, NEW c \in Bytes, WriteMistake(c)
    PROVE  ParserIInv'
<1>1. /\ parser' = "failed" /\ Write(<<c>>) /\ open' = open /\ deepest' = deepest
      /\ open \in Seq(Openers) /\ deepest \in Nat
  BY DEF WriteMistake, ParserIInv, ParseTypeOK
<1>2. /\ outcome = "none" /\ outcome' = outcome /\ path' = path
      /\ text' \in Seq(Bytes) /\ Len(text') <= MaxText
      /\ Scan(text) \in States /\ Scan(text') \in States
      /\ Scan(text).maximum <= Scan(text').maximum
  BY <1>1, WriteByte
<1>3. NestingIsExact' /\ ParserInv'
  <2>1. Scan(text).maximum \in Nat /\ Scan(text').maximum \in Nat
    BY <1>2 DEF States
  <2>2. deepest <= Scan(text).maximum
    BY DEF ParserIInv, ParserInv
  <2>. QED
    BY <1>1, <1>2, <2>1, <2>2 DEF NestingIsExact, ParserInv
<1>. QED
  BY <1>1, <1>2, <1>3, WriteInv

\* parse_owned answers once, and with the scan of the whole source.
LEMMA AnswerInv ==
    ASSUME ParserIInv, NEW result \in Outcomes, Answer(result),
           result \in {"json", "malformed"} => ~TooDeep(text),
           result = "nesting" => TooDeep(text)
    PROVE  ParserIInv'
<1>1. /\ outcome' = result
      /\ UNCHANGED <<path, text, open, deepest, parser>>
  BY DEF Answer
<1>2. ParseTypeOK'
  BY <1>1 DEF ParserIInv, ParseTypeOK
<1>3. NestingIsExact' /\ ParserInv'
  BY <1>1 DEF ParserIInv, NestingIsExact, ParserInv
<1>4. OutcomeInv'
  BY <1>1 DEF OutcomeInv
<1>. QED
  BY <1>2, <1>3, <1>4 DEF ParserIInv

LEMMA NextInv == ParserIInv /\ [ParseNext]_parseVars => ParserIInv'
<1> SUFFICES ASSUME ParserIInv, [ParseNext]_parseVars PROVE ParserIInv'
  OBVIOUS
<1>1. ASSUME NEW c \in Openers, WriteOpen(c) PROVE ParserIInv'
  BY <1>1, WriteOpenInv
<1>2. ASSUME NEW c \in Closers, WriteClose(c) PROVE ParserIInv'
  BY <1>2, WriteCloseInv
<1>3. ASSUME NEW body \in StringBodies, WriteString(body) PROVE ParserIInv'
  BY <1>3, StringInv
<1>4. CASE WriteOther
  BY <1>4, OtherInv
<1>5. ASSUME NEW c \in Bytes, WriteMistake(c) PROVE ParserIInv'
  BY <1>5, MistakeInv
<1>6. CASE RejectPath
  BY <1>6, AnswerInv DEF RejectPath, Outcomes
<1>7. CASE RejectSize
  BY <1>7, AnswerInv DEF RejectSize, Outcomes
<1>8. CASE RejectKind
  BY <1>8, AnswerInv DEF RejectKind, Outcomes
<1>9. CASE RejectNesting
  BY <1>9, AnswerInv DEF RejectNesting, Outcomes
<1>10. CASE RetainTemplate
  BY <1>10, AnswerInv DEF RetainTemplate, Outcomes
<1>11. CASE RetainJson
  BY <1>11, AnswerInv DEF RetainJson, Outcomes
<1>12. CASE RetainMalformed
  BY <1>12, AnswerInv DEF RetainMalformed, Outcomes
<1>13. CASE UNCHANGED parseVars
  BY <1>13 DEF parseVars, ParserIInv, ParseTypeOK, NestingIsExact, ParserInv, OutcomeInv, TooDeep, NestingDepth
<1>. QED
  BY <1>1, <1>2, <1>3, <1>4, <1>5, <1>6, <1>7, <1>8, <1>9, <1>10, <1>11, <1>12, <1>13
     DEF ParseNext, Answered

LEMMA ParserInvariance == ParseSpec => []ParserIInv
BY ParserInitInv, NextInv, PTL DEF ParseSpec

-----------------------------------------------------------------------------

\* On every text without a mistake json_nesting_depth sees what a parser
\* that understands strings and escapes sees, whatever their lengths.
THEOREM NestingCorrect == ParseSpec => []NestingIsExact
<1>1. ParserIInv => NestingIsExact
  BY DEF ParserIInv
<1>. QED
  BY <1>1, ParserInvariance, PTL

\* The recursive parser is never given more nesting than the limit, and a
\* JSON text is refused for its nesting only when it has more, for every
\* limit and however the source goes on after a mistake.
THEOREM LimitCorrect == ParseSpec => []LimitIsExact
<1> SUFFICES ASSUME ParserIInv PROVE LimitIsExact
  BY ParserInvariance, PTL
<1>1. /\ ParseTypeOK /\ Scan(text).maximum \in Nat /\ deepest \in Nat /\ MaxDepth \in Nat
      /\ deepest <= Scan(text).maximum
  BY LimitsAssumption DEF ParserIInv, ParseTypeOK, ParserInv
<1>2. TooDeep(text) <=> Scan(text).maximum > MaxDepth
  BY DEF TooDeep, NestingDepth
<1>3. ParserWithinLimit
  BY <1>1, <1>2 DEF ParserWithinLimit, ParserIInv, OutcomeInv
<1>4. RefusedOnlyWhenDeep
  <2>1. parser = "ok" => Scan(text).maximum = deepest
    BY DEF ParserIInv, NestingIsExact
  <2>. QED
    BY <1>1, <1>2, <2>1 DEF RefusedOnlyWhenDeep, ParserIInv, OutcomeInv
<1>. QED
  BY <1>1, <1>3, <1>4 DEF LimitIsExact

(***************************************************************************)
(*                              DuplicateScan                              *)
(***************************************************************************)

(***************************************************************************)
(* The inductive invariant.  An object is known by the number of members   *)
(* read before it, so its members come later (MembersInv); the objects     *)
(* that are open are different ones, those that are still waiting for a    *)
(* value have a member already, and the keys each frame has seen are those *)
(* of its object (StackInv).  Then the visitor and the reference see the   *)
(* same duplicates, and the list and the flag keep count of them.          *)
(***************************************************************************)
KeysOf(list, object) ==
    {list[n].key : n \in {m \in 1..Len(list) : list[m].object = object}}

MembersInv == \A n \in 1..Len(members) : members[n].object < n

StackInv ==
    /\ \A i \in 1..Len(stack) : stack[i].map =>
          /\ stack[i].object <= Len(members)
          /\ (i < Len(stack) \/ next.due) => stack[i].object < Len(members)
          /\ stack[i].keys = KeysOf(members, stack[i].object)
    /\ \A i, j \in 1..Len(stack) :
          i < j /\ stack[i].map /\ stack[j].map => stack[i].object < stack[j].object

CountInv ==
    /\ Len(pointers) <= Cardinality(Duplicates)
    /\ TruncatedIffMissing

IInv ==
    /\ TypeOK
    /\ MembersInv
    /\ StackInv
    /\ CountInv
    /\ ScanIsBounded
    /\ PointersAreDuplicates

-----------------------------------------------------------------------------

(***************************************************************************)
(* Facts about locations, frames and the operators on them.                *)
(***************************************************************************)

\* A segment below a location gives a location.
LEMMA StepType ==
    ASSUME NEW parent \in Locations, NEW segment \in Segments, NEW fits \in BOOLEAN
    PROVE  Step(parent, segment, fits) \in Locations
<1>1. parent.path \in Seq(Segments) /\ parent.bytes \in Nat /\ parent.named \in BOOLEAN
  BY DEF Locations
<1>2. Append(parent.path, segment) \in Seq(Segments)
  BY <1>1, AppendProperties
<1>3. parent.bytes + 1 + EscapedBytes[segment] \in Nat
  BY <1>1, BytesAssumption
<1>4. (parent.named /\ fits) \in BOOLEAN
  OBVIOUS
<1>. QED
  BY <1>2, <1>3, <1>4 DEF Step, Locations

LEMMA ChildType ==
    ASSUME NEW parent \in Locations, NEW key \in Keys
    PROVE  BoundedChild(parent, key) \in Locations
<1>1. key \in Segments
  BY DEF Segments
<1>. QED
  BY <1>1, StepType DEF BoundedChild

LEMMA IndexType ==
    ASSUME NEW parent \in Locations, NEW index \in Nat, index < Len(Numerals)
    PROVE  BoundedIndex(parent, index) \in Locations
<1>1. Numerals[index + 1] \in Segments
  <2>1. Numerals \in Seq(Segments) /\ Len(Numerals) \in Nat
    BY NamesAssumption, LenProperties
  <2>2. index + 1 \in 1..Len(Numerals)
    BY <2>1
  <2>. QED
    BY <2>1, <2>2, ElementOfSeq
<1> DEFINE numeral == Numerals[index + 1]
           fits    == parent.bytes + 1 + EscapedBytes[numeral] <= MaxPointerBytes
<1>2. BoundedIndex(parent, index) = Step(parent, numeral, fits)
  BY DEF BoundedIndex
<1>3. fits \in BOOLEAN
  OBVIOUS
<1>. QED
  BY <1>1, <1>2, <1>3, StepType

LEMMA SetKeys ==
    ASSUME NEW frame \in Frames, NEW keys \in SUBSET Keys
    PROVE  /\ [frame EXCEPT !.keys = keys] \in Frames
           /\ [frame EXCEPT !.keys = keys].map = frame.map
           /\ [frame EXCEPT !.keys = keys].object = frame.object
           /\ [frame EXCEPT !.keys = keys].keys = keys
BY DEF Frames

\* What Deliver makes of the frames it is given: the same objects, with the
\* same keys; and a value is due only in an array.
LEMMA DeliverFacts ==
    ASSUME NEW frames \in Seq(Frames), Deliver(frames)
    PROVE  /\ stack' \in Seq(Frames)
           /\ Len(stack') = Len(frames)
           /\ \A i \in 1..Len(frames) :
                 /\ stack'[i].map = frames[i].map
                 /\ stack'[i].keys = frames[i].keys
                 /\ stack'[i].object = frames[i].object
                 /\ stack'[i].at = frames[i].at
           /\ \/ next' = Nowhere
              \/ /\ Len(frames) > 0
                 /\ \E index \in Nat : index < Len(Numerals)
                       /\ next' = At(BoundedIndex(frames[Len(frames)].at, index))
           /\ next' \in [due : BOOLEAN, at : Locations]
           /\ next'.due => Len(frames) > 0 /\ ~frames[Len(frames)].map
<1>1. Len(frames) \in Nat /\ \A i \in 1..Len(frames) : frames[i] \in Frames
  BY LenProperties, ElementOfSeq
<1>2. CASE Len(frames) > 0 /\ ~frames[Len(frames)].map
  <2> DEFINE depth == Len(frames)
             array == frames[depth]
             opened == [array EXCEPT !.index = @ + 1]
  <2>1. depth \in 1..Len(frames) /\ array \in Frames
    BY <1>1, <1>2
  <2>2. /\ stack' = [frames EXCEPT ![depth].index = @ + 1]
        /\ array.index + 1 < Len(Numerals)
        /\ next' = At(BoundedIndex(array.at, array.index + 1))
    BY <1>2 DEF Deliver
  <2>3. stack' = [frames EXCEPT ![depth] = opened]
    BY <2>2
  <2>4. /\ opened \in Frames
        /\ opened.map = array.map /\ opened.keys = array.keys /\ opened.object = array.object
        /\ opened.at = array.at
    <3>1. /\ array = [map |-> array.map, at |-> array.at, keys |-> array.keys,
                      index |-> array.index, object |-> array.object]
          /\ array.map \in BOOLEAN /\ array.at \in Locations /\ array.keys \in SUBSET Keys
          /\ array.index \in Nat /\ array.object \in Nat
      BY <2>1 DEF Frames
    <3>2. array.index + 1 \in Nat
      BY <3>1
    <3>3. opened = [map |-> array.map, at |-> array.at, keys |-> array.keys,
                    index |-> array.index + 1, object |-> array.object]
      BY <2>1, <3>1 DEF Frames
    <3>. QED
      BY <3>1, <3>2, <3>3 DEF Frames
  <2>5. /\ stack' \in Seq(Frames) /\ Len(stack') = Len(frames)
        /\ \A i \in 1..Len(frames) : stack'[i] = IF i = depth THEN opened ELSE frames[i]
    BY <2>1, <2>3, <2>4, ExceptSeq
  <2>6. array.index + 1 \in Nat /\ array.at \in Locations
    BY <2>1 DEF Frames
  <2>7. next' \in [due : BOOLEAN, at : Locations]
    BY <2>2, <2>6, IndexType DEF At
  <2>8. \E index \in Nat : index < Len(Numerals) /\ next' = At(BoundedIndex(array.at, index))
    BY <2>2, <2>6
  <2>. QED
    BY <1>2, <2>4, <2>5, <2>7, <2>8
<1>3. CASE ~(Len(frames) > 0 /\ ~frames[Len(frames)].map)
  <2>1. stack' = frames /\ next' = Nowhere
    BY <1>3 DEF Deliver
  <2>2. Nowhere \in [due : BOOLEAN, at : Locations] /\ ~Nowhere.due
    BY EmptySeq DEF Nowhere, Root, Locations
  <2>. QED
    BY <2>1, <2>2
<1>. QED
  BY <1>2, <1>3

\* The duplicates are finitely many members.
LEMMA DuplicatesFacts ==
    ASSUME TypeOK
    PROVE  /\ Duplicates \subseteq 1..Len(members)
           /\ IsFiniteSet(Duplicates)
           /\ Cardinality(Duplicates) \in Nat
           /\ Len(members) \in Nat
<1>1. Len(members) \in Nat
  BY LenProperties DEF TypeOK
<1>2. IsFiniteSet(1..Len(members)) /\ Duplicates \subseteq 1..Len(members)
  BY <1>1, FS_Interval DEF Duplicates
<1>. QED
  BY <1>1, <1>2, FS_Subset, FS_CardinalityType

-----------------------------------------------------------------------------

(***************************************************************************)
(* The invariant holds initially and is kept by each action.               *)
(***************************************************************************)

LEMMA InitInv == Init => IInv
<1> SUFFICES ASSUME Init PROVE IInv
  OBVIOUS
<1>1. TypeOK
  <2>1. Root \in Locations
    BY EmptySeq DEF Root, Locations
  <2>2. At(Root) \in [due : BOOLEAN, at : Locations]
    BY <2>1 DEF At
  <2>. QED
    BY <2>2, EmptySeq DEF Init, TypeOK
<1>2. Len(members) = 0 /\ Len(stack) = 0 /\ Len(pointers) = 0
  BY EmptySeq DEF Init
<1>3. Duplicates = {}
  BY <1>2 DEF Duplicates
<1>4. Cardinality(Duplicates) = 0
  BY <1>3, FS_EmptySet
<1>5. MembersInv /\ StackInv
  BY <1>2 DEF MembersInv, StackInv
<1>6. CountInv
  BY <1>2, <1>4 DEF CountInv, TruncatedIffMissing, Init
<1>7. ScanIsBounded
  BY <1>2, BoundsAssumption DEF ScanIsBounded, Init
<1>8. PointersAreDuplicates
  <2>1. {} \in SUBSET Duplicates /\ Len(pointers) = Cardinality({})
    BY <1>2, FS_EmptySet
  <2>. QED
    BY <2>1 DEF PointersAreDuplicates
<1>. QED
  BY <1>1, <1>5, <1>6, <1>7, <1>8 DEF IInv

\* What concerns the members alone, and the list, is kept with them.
LEMMA SameMembers ==
    ASSUME IInv, UNCHANGED <<members, pointers, retained, truncated>>
    PROVE  /\ MembersInv' /\ CountInv' /\ ScanIsBounded' /\ PointersAreDuplicates'
<1>1. Duplicates' = Duplicates
  BY DEF Duplicates
<1>2. MembersInv' /\ ScanIsBounded'
  BY DEF IInv, MembersInv, ScanIsBounded
<1>3. CountInv'
  BY <1>1 DEF IInv, CountInv, TruncatedIffMissing
<1>4. PointersAreDuplicates'
  BY <1>1 DEF IInv, PointersAreDuplicates
<1>. QED
  BY <1>2, <1>3, <1>4

\* A value is delivered to frames that satisfy the invariant, none of them
\* waiting for it.
LEMMA DeliverInv ==
    ASSUME NEW frames \in Seq(Frames), Deliver(frames), TypeOK, UNCHANGED members,
           \A i \in 1..Len(frames) : frames[i].map =>
              /\ frames[i].object <= Len(members)
              /\ i < Len(frames) => frames[i].object < Len(members)
              /\ frames[i].keys = KeysOf(members, frames[i].object),
           \A i, j \in 1..Len(frames) :
              i < j /\ frames[i].map /\ frames[j].map => frames[i].object < frames[j].object
    PROVE  StackInv'
<1>1. /\ Len(stack') = Len(frames)
      /\ \A i \in 1..Len(frames) :
            /\ stack'[i].map = frames[i].map
            /\ stack'[i].keys = frames[i].keys
            /\ stack'[i].object = frames[i].object
      /\ next'.due => Len(frames) > 0 /\ ~frames[Len(frames)].map
  BY DeliverFacts
<1>2. Len(frames) \in Nat
  BY LenProperties
<1>4. ASSUME NEW i \in 1..Len(stack'), stack'[i].map
      PROVE  /\ stack'[i].object <= Len(members')
             /\ (i < Len(stack') \/ next'.due) => stack'[i].object < Len(members')
             /\ stack'[i].keys = KeysOf(members', stack'[i].object)
  <2>1. i \in 1..Len(frames) /\ frames[i].map
    BY <1>1, <1>4
  <2>2. CASE next'.due
    <3>1. i < Len(frames)
      BY <1>1, <1>2, <2>1, <2>2
    <3>. QED
      BY <1>1, <2>1, <3>1
  <2>3. CASE ~next'.due
    BY <1>1, <2>1, <2>3
  <2>. QED
    BY <2>2, <2>3
<1>5. \A i, j \in 1..Len(stack') :
         i < j /\ stack'[i].map /\ stack'[j].map => stack'[i].object < stack'[j].object
  BY <1>1
<1>. QED
  BY <1>4, <1>5 DEF StackInv

\* The frames that are open satisfy what DeliverInv asks for.
LEMMA ScalarInv ==
    ASSUME IInv, next.due, Deliver(stack), Token,
           UNCHANGED <<pointers, retained, truncated, members>>,
           sensitive' \in BOOLEAN, strings' \subseteq [path : Seq(Segments), text : Texts]
    PROVE  IInv'
<1>1. TypeOK /\ stack \in Seq(Frames) /\ UNCHANGED members
  BY DEF IInv, TypeOK
<1>2. /\ \A i \in 1..Len(stack) : stack[i].map =>
            /\ stack[i].object <= Len(members)
            /\ i < Len(stack) => stack[i].object < Len(members)
            /\ stack[i].keys = KeysOf(members, stack[i].object)
      /\ \A i, j \in 1..Len(stack) :
            i < j /\ stack[i].map /\ stack[j].map => stack[i].object < stack[j].object
  BY DEF IInv, StackInv
<1>3. StackInv'
  BY <1>1, <1>2, DeliverInv
<1>4. stack' \in Seq(Frames) /\ next' \in [due : BOOLEAN, at : Locations]
  BY <1>1, DeliverFacts
<1>5. TypeOK'
  BY <1>1, <1>4 DEF TypeOK, Token
<1>. QED
  BY <1>3, <1>5, SameMembers DEF IInv

LEMMA OpenInv ==
    ASSUME IInv, NEW isMap \in BOOLEAN, Open(isMap)
    PROVE  IInv'
<1> DEFINE frame == Frame(isMap)
<1>1. /\ stack \in Seq(Frames) /\ Len(stack) \in Nat
      /\ next.at \in Locations /\ Len(members) \in Nat
  BY LenProperties DEF IInv, TypeOK
<1>2. /\ frame \in Frames
      /\ frame.map = isMap /\ frame.keys = {} /\ frame.object = Len(members)
  BY <1>1 DEF Frame, Frames
<1>3. /\ stack' = Append(stack, frame)
      /\ next.due
      /\ next' = IF isMap THEN Nowhere ELSE At(BoundedIndex(next.at, 0))
      /\ UNCHANGED <<pointers, retained, truncated, sensitive, members, strings, status>>
      /\ tokens' = tokens + 1
  BY DEF Open, Token
<1>4. /\ stack' \in Seq(Frames) /\ Len(stack') = Len(stack) + 1
      /\ \A i \in 1..Len(stack) : stack'[i] = stack[i]
      /\ stack'[Len(stack) + 1] = frame
  BY <1>1, <1>2, <1>3, AppendProperties
<1>5. next' \in [due : BOOLEAN, at : Locations] /\ (next'.due => ~isMap)
  <2>1. Nowhere \in [due : BOOLEAN, at : Locations] /\ ~Nowhere.due
    BY EmptySeq DEF Nowhere, Root, Locations
  <2>2. BoundedIndex(next.at, 0) \in Locations
    BY <1>1, IndexType, NamesAssumption
  <2>3. At(BoundedIndex(next.at, 0)) \in [due : BOOLEAN, at : Locations]
    BY <2>2 DEF At
  <2>. QED
    BY <1>3, <2>1, <2>3
<1>6. TypeOK'
  BY <1>3, <1>4, <1>5 DEF IInv, TypeOK
<1>7. MembersInv' /\ CountInv' /\ ScanIsBounded' /\ PointersAreDuplicates'
  BY <1>3, SameMembers
<1>8. KeysOf(members, Len(members)) = {}
  <2>1. ASSUME NEW n \in 1..Len(members) PROVE members[n].object # Len(members)
    <3>1. members[n].object < n /\ n <= Len(members)
      BY <1>1 DEF IInv, MembersInv
    <3>2. members[n] \in [object : Nat, key : Keys, path : Seq(Segments)]
      BY ElementOfSeq DEF IInv, TypeOK
    <3>. QED
      BY <1>1, <3>1, <3>2
  <2>. QED
    BY <2>1 DEF KeysOf
<1>9. \A i \in 1..Len(stack) : stack[i].map =>
         /\ stack[i].object < Len(members)
         /\ stack[i].keys = KeysOf(members, stack[i].object)
  BY <1>3 DEF IInv, StackInv
<1>10. ASSUME NEW i \in 1..Len(stack'), stack'[i].map
       PROVE  /\ stack'[i].object <= Len(members')
              /\ (i < Len(stack') \/ next'.due) => stack'[i].object < Len(members')
              /\ stack'[i].keys = KeysOf(members', stack'[i].object)
  <2>1. CASE i \in 1..Len(stack)
    <3>1. stack'[i] = stack[i] /\ stack[i] \in Frames
      BY <1>1, <1>4, <2>1, ElementOfSeq
    <3>2. stack[i].object \in Nat
      BY <3>1 DEF Frames
    <3>. QED
      BY <1>1, <1>3, <1>7, <1>9, <1>10, <2>1, <3>1, <3>2
  <2>2. CASE i = Len(stack) + 1
    <3>1. stack'[i] = frame /\ isMap /\ ~next'.due /\ ~(i < Len(stack'))
      BY <1>1, <1>2, <1>4, <1>5, <1>10, <2>2
    <3>2. members' = members /\ stack'[i].object = Len(members) /\ stack'[i].keys = {}
      BY <1>2, <1>3, <3>1
    <3>3. Len(members) <= Len(members') /\ KeysOf(members', Len(members)) = {}
      BY <1>1, <1>8, <3>2
    <3>. QED
      BY <3>1, <3>2, <3>3
  <2>. QED
    BY <1>1, <1>4, <2>1, <2>2
<1>11. ASSUME NEW i \in 1..Len(stack'), NEW j \in 1..Len(stack'),
              i < j, stack'[i].map, stack'[j].map
       PROVE  stack'[i].object < stack'[j].object
  <2>1. i \in 1..Len(stack) /\ stack'[i] = stack[i]
    BY <1>1, <1>4, <1>11
  <2>2. CASE j \in 1..Len(stack)
    BY <1>4, <1>11, <2>1, <2>2 DEF IInv, StackInv
  <2>3. CASE j = Len(stack) + 1
    BY <1>2, <1>4, <1>9, <1>11, <2>1, <2>3
  <2>. QED
    BY <1>1, <1>4, <2>2, <2>3
<1>12. StackInv'
  BY <1>10, <1>11 DEF StackInv
<1>. QED
  BY <1>6, <1>7, <1>12 DEF IInv

LEMMA CloseInv ==
    ASSUME IInv, Close
    PROVE  IInv'
<1> DEFINE frames == SubSeq(stack, 1, Len(stack) - 1)
<1>1. stack \in Seq(Frames) /\ Len(stack) \in Nat /\ Len(stack) > 0
  BY LenProperties DEF IInv, TypeOK, Close
<1>2. \A i \in 1..Len(stack) - 1 : stack[i] \in Frames
  BY <1>1, ElementOfSeq
<1>3. /\ frames \in Seq(Frames) /\ Len(frames) = Len(stack) - 1
      /\ \A i \in 1..Len(frames) : frames[i] = stack[i]
  <2> DEFINE n == Len(stack) - 1
  <2>0. n \in Nat /\ \A i \in 1..n : stack[i] \in Frames
    BY <1>1, <1>2
  <2> HIDE DEF n
  <2>1. 1 \in Int /\ n \in Int /\ n - 1 + 1 = n /\ (~(1 <= n) => n = 0)
    BY <2>0
  <2>2. /\ SubSeq(stack, 1, n) \in Seq(Frames)
        /\ Len(SubSeq(stack, 1, n)) = IF 1 <= n THEN n - 1 + 1 ELSE 0
        /\ \A i \in 1..n - 1 + 1 : SubSeq(stack, 1, n)[i] = stack[1 + i - 1]
    BY <2>0, <2>1, SubSeqProperties
  <2>3. \A i \in 1..n : 1 + i - 1 = i
    OBVIOUS
  <2>. QED
    BY <2>1, <2>2, <2>3 DEF n
<1>4. Deliver(frames) /\ TypeOK
      /\ UNCHANGED <<status, pointers, retained, truncated, sensitive, members, strings, tokens>>
  BY DEF Close, IInv
<1>5. /\ \A i \in 1..Len(frames) : frames[i].map =>
            /\ frames[i].object < Len(members)
            /\ frames[i].keys = KeysOf(members, frames[i].object)
      /\ \A i, j \in 1..Len(frames) :
            i < j /\ frames[i].map /\ frames[j].map => frames[i].object < frames[j].object
  BY <1>1, <1>3 DEF IInv, StackInv
<1> HIDE DEF frames
<1>6. \A i \in 1..Len(frames) : frames[i].map => frames[i].object <= Len(members)
  <2> SUFFICES ASSUME NEW i \in 1..Len(frames), frames[i].map
               PROVE  frames[i].object <= Len(members)
    OBVIOUS
  <2>1. frames[i] \in Frames
    BY <1>3, ElementOfSeq
  <2>2. frames[i].object \in Nat
    BY <2>1 DEF Frames
  <2>3. Len(members) \in Nat
    BY <1>4, LenProperties DEF TypeOK
  <2>. QED
    BY <1>5, <2>2, <2>3
<1>7. StackInv'
  BY <1>3, <1>4, <1>5, <1>6, DeliverInv
<1>8. stack' \in Seq(Frames) /\ next' \in [due : BOOLEAN, at : Locations]
  BY <1>3, <1>4, DeliverFacts
<1>9. TypeOK'
  BY <1>4, <1>8 DEF TypeOK
<1>. QED
  BY <1>4, <1>7, <1>9, SameMembers DEF IInv

\* The key of an object that has it is one more duplicate, and any other key
\* none: the visitor looks at what the reference looks at.
LEMMA DuplicatesGrow ==
    ASSUME IInv, NEW key \in Keys, Key(key)
    PROVE  Duplicates' = IF key \in Top.keys THEN Duplicates \cup {Len(members) + 1}
                         ELSE Duplicates
<1> DEFINE n == Len(members) + 1
           member == [object |-> Top.object, key |-> key, path |-> BoundedChild(Top.at, key).path]
           Members == [object : Nat, key : Keys, path : Seq(Segments)]
<1>1. /\ Len(stack) \in Nat /\ Len(stack) > 0 /\ Top.map
      /\ Top \in Frames
      /\ Len(members) \in Nat /\ members \in Seq(Members)
  BY LenProperties, ElementOfSeq DEF IInv, TypeOK, Key, Top
<1>2. member \in Members
  <2>1. Top.at \in Locations /\ Top.object \in Nat
    BY <1>1 DEF Frames
  <2>2. BoundedChild(Top.at, key) \in Locations
    BY <2>1, ChildType
  <2>3. BoundedChild(Top.at, key).path \in Seq(Segments)
    BY <2>2 DEF Locations
  <2>. QED
    BY <2>1, <2>3
<1>3. members' = Append(members, member)
  BY DEF Key
<1>4. /\ Len(members') = n
      /\ \A m \in 1..Len(members) : members'[m] = members[m]
      /\ members'[n] = member
  BY <1>1, <1>2, <1>3, AppendProperties
<1>5. member.object = Top.object /\ member.key = key
  OBVIOUS
<1>6. key \in Top.keys <=>
        \E m \in 1..Len(members) : members[m].object = Top.object /\ members[m].key = key
  <2>1. Top.keys = KeysOf(members, Top.object)
    BY <1>1 DEF IInv, StackInv, Top
  <2>. QED
    BY <2>1 DEF KeysOf
<1> HIDE DEF member, Members
<1>7. n \in Nat /\ n - 1 = Len(members) /\ 1..n = (1..Len(members)) \cup {n}
  BY <1>1
<1>8. Duplicates \subseteq 1..Len(members)
  BY DEF Duplicates
<1>9. ASSUME NEW k \in 1..Len(members) PROVE k \in Duplicates' <=> k \in Duplicates
  <2>1. k \in 1..Len(members') /\ \A m \in 1..k - 1 : m \in 1..Len(members)
    BY <1>1, <1>4, <1>7
  <2>. QED
    BY <1>4, <2>1 DEF Duplicates
<1>10. n \in Duplicates' <=> key \in Top.keys
  <2>1. n \in Duplicates' <=> \E m \in 1..n - 1 :
           members'[m].object = members'[n].object /\ members'[m].key = members'[n].key
    BY <1>4, <1>7 DEF Duplicates
  <2>. QED
    BY <1>4, <1>5, <1>6, <1>7, <2>1
<1>11. Duplicates' \subseteq 1..n
  BY <1>4 DEF Duplicates
<1> HIDE DEF n
<1>12. Duplicates' = IF key \in Top.keys THEN Duplicates \cup {n} ELSE Duplicates
  <2>1. CASE key \in Top.keys
    <3>1. Duplicates' \subseteq Duplicates \cup {n}
      BY <1>7, <1>9, <1>11
    <3>2. Duplicates \subseteq Duplicates' /\ n \in Duplicates'
      BY <1>8, <1>9, <1>10, <2>1
    <3>3. Duplicates' = Duplicates \cup {n}
      BY <3>1, <3>2
    <3>. QED
      BY <2>1, <3>3
  <2>2. CASE key \notin Top.keys
    <3>1. Duplicates' \subseteq Duplicates
      BY <1>7, <1>9, <1>10, <1>11, <2>2
    <3>2. Duplicates \subseteq Duplicates'
      BY <1>8, <1>9
    <3>3. Duplicates' = Duplicates
      BY <3>1, <3>2
    <3>. QED
      BY <2>2, <3>3
  <2>. QED
    BY <2>1, <2>2
<1>. QED
  BY <1>12 DEF n

\* What recording keeps of the list and the flag, given that the reference
\* has one more duplicate.
LEMMA RecordInv ==
    ASSUME IInv, NEW n \in Nat, n = Len(members) + 1,
           NEW where \in Locations, Record(where),
           Duplicates' = Duplicates \cup {n},
           \A m \in 1..Len(members) : members'[m] = members[m],
           members'[n].path = where.path
    PROVE  /\ pointers' \in Seq(Seq(Segments)) /\ retained' \in Nat /\ truncated' \in BOOLEAN
           /\ CountInv' /\ ScanIsBounded' /\ PointersAreDuplicates'
<1>1. /\ pointers \in Seq(Seq(Segments)) /\ Len(pointers) \in Nat
      /\ retained \in Nat /\ truncated \in BOOLEAN
      /\ where.path \in Seq(Segments) /\ where.bytes \in Nat
  BY LenProperties DEF IInv, TypeOK, Locations
<1>2. /\ Duplicates \subseteq 1..Len(members) /\ IsFiniteSet(Duplicates)
      /\ Cardinality(Duplicates) \in Nat /\ Len(members) \in Nat
  BY DuplicatesFacts DEF IInv
<1>3. n \notin Duplicates
  BY <1>2
<1>4. Cardinality(Duplicates') = Cardinality(Duplicates) + 1
  BY <1>2, <1>3, FS_AddElement
<1>5. /\ Len(pointers) <= Cardinality(Duplicates)
      /\ truncated <=> Len(pointers) < Cardinality(Duplicates)
      /\ Len(pointers) <= MaxLocations /\ retained <= MaxLocationBytes
  BY DEF IInv, CountInv, TruncatedIffMissing, ScanIsBounded
<1>6. PICK kept \in SUBSET Duplicates :
         /\ Len(pointers) = Cardinality(kept)
         /\ \A k \in kept :
               pointers[Cardinality({m \in kept : m <= k})] = members[k].path
  BY DEF IInv, PointersAreDuplicates
<1>7. IsFiniteSet(kept) /\ n \notin kept /\ \A k \in kept : k \in 1..Len(members) /\ k < n
  <2>1. IsFiniteSet(kept)
    BY <1>2, <1>6, FS_Subset
  <2>2. kept \subseteq 1..Len(members) /\ n \notin 1..Len(members)
    BY <1>2, <1>6
  <2>3. \A k \in 1..Len(members) : k < n
    BY <1>2
  <2>. QED
    BY <2>1, <2>2, <2>3
<1>8. CASE Fits(where)
  <2>1. /\ pointers' = Append(pointers, where.path)
        /\ retained' = retained + where.bytes /\ truncated' = truncated
    BY <1>8 DEF Record
  <2>2. /\ pointers' \in Seq(Seq(Segments)) /\ Len(pointers') = Len(pointers) + 1
        /\ \A i \in 1..Len(pointers) : pointers'[i] = pointers[i]
        /\ pointers'[Len(pointers) + 1] = where.path
    BY <1>1, <2>1, AppendProperties
  <2>3. CountInv'
    BY <1>1, <1>2, <1>4, <1>5, <2>1, <2>2 DEF CountInv, TruncatedIffMissing
  <2>4. ScanIsBounded'
    BY <1>1, <1>8, <2>1, <2>2, BoundsAssumption DEF ScanIsBounded, Fits
  <2>5. PointersAreDuplicates'
    <3> DEFINE more == kept \cup {n}
    <3>1. more \in SUBSET Duplicates' /\ Cardinality(more) = Len(pointers')
      <4>1. kept \subseteq Duplicates' /\ n \in Duplicates'
        BY <1>6
      <4>2. Cardinality(more) = Cardinality(kept) + 1
        BY <1>7, FS_AddElement
      <4>. QED
        BY <1>6, <2>2, <4>1, <4>2
    <3>2. ASSUME NEW k \in more
          PROVE  pointers'[Cardinality({m \in more : m <= k})] = members'[k].path
      <4>1. CASE k = n
        <5>1. ASSUME NEW m \in more PROVE m <= k
          <6>1. m = n \/ m \in kept
            OBVIOUS
          <6>2. m \in kept => m \in Nat /\ m < n
            BY <1>2, <1>7
          <6>. QED
            BY <4>1, <6>1, <6>2
        <5>2. {m \in more : m <= k} = more
          BY <5>1
        <5>. QED
          BY <2>2, <3>1, <4>1, <5>2
      <4>2. CASE k \in kept
        <5> DEFINE below == {m \in kept : m <= k}
        <5>1. {m \in more : m <= k} = below
          BY <1>2, <1>7, <4>2
        <5>2. k \in below
          BY <1>2, <1>7, <4>2
        <5>3. IsFiniteSet(below) /\ Cardinality(below) <= Cardinality(kept)
          BY <1>7, FS_Subset
        <5>4. Cardinality(below) \in Nat /\ Cardinality(below) # 0
          BY <5>2, <5>3, FS_CardinalityType, FS_EmptySet
        <5>5. pointers[Cardinality(below)] = members[k].path
          BY <1>6, <4>2
        <5> HIDE DEF below
        <5>6. Cardinality(below) \in 1..Len(pointers)
          BY <1>1, <1>6, <5>3, <5>4
        <5>. QED
          BY <1>7, <2>2, <4>2, <5>1, <5>5, <5>6
      <4>. QED
        BY <4>1, <4>2
    <3>. QED
      BY <3>1, <3>2 DEF PointersAreDuplicates
  <2>. QED
    BY <1>1, <2>1, <2>2, <2>3, <2>4, <2>5
<1>9. CASE ~Fits(where)
  <2>1. truncated' = TRUE /\ UNCHANGED <<pointers, retained>>
    BY <1>9 DEF Record
  <2>2. CountInv'
    BY <1>1, <1>2, <1>4, <1>5, <2>1 DEF CountInv, TruncatedIffMissing
  <2>3. PointersAreDuplicates'
    <3>1. kept \in SUBSET Duplicates' /\ Len(pointers') = Cardinality(kept)
      BY <1>6, <2>1
    <3>2. \A k \in kept : members'[k] = members[k]
      BY <1>7
    <3>. QED
      BY <1>6, <2>1, <3>1, <3>2 DEF PointersAreDuplicates
  <2>. QED
    BY <1>1, <1>5, <2>1, <2>2, <2>3 DEF ScanIsBounded
<1>. QED
  BY <1>8, <1>9

LEMMA KeyInv ==
    ASSUME IInv, NEW key \in Keys, Key(key)
    PROVE  IInv'
<1> DEFINE n == Len(members) + 1
           where == BoundedChild(Top.at, key)
           member == [object |-> Top.object, key |-> key, path |-> where.path]
           frame == [Top EXCEPT !.keys = @ \cup {key}]
           below == SubSeq(stack, 1, Len(stack) - 1)
           Members == [object : Nat, key : Keys, path : Seq(Segments)]
<1>1. /\ stack \in Seq(Frames) /\ Len(stack) \in Nat /\ Len(stack) > 0 /\ Top.map
      /\ Top = stack[Len(stack)] /\ Top \in Frames
      /\ Len(members) \in Nat /\ members \in Seq(Members)
      /\ ~next.due
  BY LenProperties, ElementOfSeq DEF IInv, TypeOK, Key, Top
<1>2. /\ Top.at \in Locations /\ Top.object \in Nat /\ Top.keys \in SUBSET Keys
      /\ Top.index \in Nat /\ Top.map \in BOOLEAN
  BY <1>1 DEF Frames
<1>3. where \in Locations /\ where.path \in Seq(Segments)
  <2>1. where \in Locations
    BY <1>2, ChildType
  <2>. QED
    BY <2>1 DEF Locations
<1>4. member \in Members /\ member.object = Top.object /\ member.key = key
      /\ member.path = where.path
  BY <1>2, <1>3
<1>5. /\ members' = Append(members, member)
      /\ next' = At(where)
      /\ stack' = Append(below, frame)
      /\ sensitive' = (sensitive \/ key \in SensitiveKeys)
      /\ tokens' = tokens + 1 /\ UNCHANGED <<strings, status>>
      /\ IF key \in Top.keys THEN Record(where)
         ELSE UNCHANGED <<pointers, retained, truncated>>
  BY DEF Key, Replace, Token
<1>6. /\ members' \in Seq(Members) /\ Len(members') = n
      /\ \A m \in 1..Len(members) : members'[m] = members[m]
      /\ members'[n] = member
  <2> HIDE DEF member, Members
  <2>. QED
    BY <1>1, <1>4, <1>5, AppendProperties
<1>7. /\ frame \in Frames
      /\ frame.map = TRUE /\ frame.object = Top.object /\ frame.keys = Top.keys \cup {key}
  <2>1. Top.keys \cup {key} \in SUBSET Keys
    BY <1>2
  <2>2. frame = [Top EXCEPT !.keys = Top.keys \cup {key}]
    OBVIOUS
  <2> HIDE DEF frame
  <2>. QED
    BY <1>1, <2>1, <2>2, SetKeys
<1>8. /\ below \in Seq(Frames) /\ Len(below) = Len(stack) - 1
      /\ \A i \in 1..Len(stack) - 1 : below[i] = stack[i]
  <2> DEFINE k == Len(stack) - 1
  <2>0. k \in Nat /\ \A i \in 1..k : stack[i] \in Frames
    BY <1>1, ElementOfSeq
  <2> HIDE DEF k
  <2>1. 1 \in Int /\ k \in Int /\ k - 1 + 1 = k /\ (~(1 <= k) => k = 0)
    BY <2>0
  <2>2. /\ SubSeq(stack, 1, k) \in Seq(Frames)
        /\ Len(SubSeq(stack, 1, k)) = IF 1 <= k THEN k - 1 + 1 ELSE 0
        /\ \A i \in 1..k - 1 + 1 : SubSeq(stack, 1, k)[i] = stack[1 + i - 1]
    BY <2>0, <2>1, SubSeqProperties
  <2>3. \A i \in 1..k : 1 + i - 1 = i
    OBVIOUS
  <2>. QED
    BY <2>1, <2>2, <2>3 DEF k
<1>9. /\ stack' \in Seq(Frames) /\ Len(stack') = Len(stack)
      /\ \A i \in 1..Len(stack) - 1 : stack'[i] = stack[i]
      /\ stack'[Len(stack)] = frame
  <2> HIDE DEF below, frame
  <2>. QED
    BY <1>1, <1>5, <1>7, <1>8, AppendProperties
<1>10. /\ pointers' \in Seq(Seq(Segments)) /\ retained' \in Nat /\ truncated' \in BOOLEAN
       /\ CountInv' /\ ScanIsBounded' /\ PointersAreDuplicates'
  <2>1. CASE key \in Top.keys
    <3>1. Duplicates' = Duplicates \cup {n} /\ Record(where)
      BY <1>5, <2>1, DuplicatesGrow
    <3>2. members'[n].path = where.path /\ n \in Nat
      BY <1>1, <1>4, <1>6
    <3> HIDE DEF where
    <3>. QED
      BY <1>3, <1>6, <3>1, <3>2, RecordInv
  <2>2. CASE key \notin Top.keys
    <3>1. Duplicates' = Duplicates /\ UNCHANGED <<pointers, retained, truncated>>
      BY <1>5, <2>2, DuplicatesGrow
    <3>2. \A m \in Duplicates : members'[m] = members[m]
      BY <1>6 DEF Duplicates
    <3>3. PointersAreDuplicates'
      BY <3>1, <3>2 DEF PointersAreDuplicates, IInv
    <3>. QED
      BY <3>1, <3>3 DEF IInv, TypeOK, CountInv, TruncatedIffMissing, ScanIsBounded
  <2>. QED
    BY <2>1, <2>2
<1>11. TypeOK'
  <2>1. next' \in [due : BOOLEAN, at : Locations]
    BY <1>3, <1>5 DEF At
  <2>2. sensitive' \in BOOLEAN /\ tokens' \in Nat
    BY <1>5 DEF IInv, TypeOK
  <2>. QED
    BY <1>5, <1>6, <1>9, <1>10, <2>1, <2>2 DEF IInv, TypeOK
<1> HIDE DEF where, member, frame, below, Members
<1>12. /\ Top.object <= Len(members) /\ Top.keys = KeysOf(members, Top.object)
       /\ \A i \in 1..Len(stack) - 1 : stack[i].map =>
             /\ stack[i].object < Top.object
             /\ stack[i].object < Len(members)
             /\ stack[i].keys = KeysOf(members, stack[i].object)
  BY <1>1 DEF IInv, StackInv
<1>13. MembersInv'
  <2> SUFFICES ASSUME NEW m \in 1..n PROVE members'[m].object < m
    BY <1>6 DEF MembersInv
  <2>1. CASE m \in 1..Len(members)
    BY <1>6, <2>1 DEF IInv, MembersInv
  <2>2. CASE m = n
    BY <1>1, <1>2, <1>4, <1>6, <1>12, <2>2
  <2>. QED
    BY <1>1, <2>1, <2>2
<1>14. \A object : KeysOf(members', object) =
          IF object = Top.object THEN KeysOf(members, object) \cup {key}
          ELSE KeysOf(members, object)
  <2> SUFFICES ASSUME NEW object
               PROVE  KeysOf(members', object) =
                        IF object = Top.object THEN KeysOf(members, object) \cup {key}
                        ELSE KeysOf(members, object)
    OBVIOUS
  <2>1. 1..Len(members') = (1..Len(members)) \cup {n}
    BY <1>1, <1>6
  <2> HIDE DEF n
  <2>2. {m \in 1..Len(members') : members'[m].object = object} =
          {m \in 1..Len(members) : members[m].object = object}
          \cup (IF object = Top.object THEN {n} ELSE {})
    BY <1>4, <1>6, <2>1
  <2>3. members'[n].key = key
    BY <1>4, <1>6
  <2>. QED
    BY <1>6, <2>2, <2>3 DEF KeysOf
<1>15. ASSUME NEW i \in 1..Len(stack'), stack'[i].map
       PROVE  /\ stack'[i].object < Len(members')
              /\ stack'[i].keys = KeysOf(members', stack'[i].object)
  <2>1. CASE i \in 1..Len(stack) - 1
    <3>1. stack'[i] = stack[i] /\ stack[i].map
      BY <1>9, <1>15, <2>1
    <3>2. stack[i] \in Frames
      BY <1>1, <2>1, ElementOfSeq
    <3>3. stack[i].object \in Nat
      BY <3>2 DEF Frames
    <3>4. stack[i].object < Len(members') /\ stack[i].object # Top.object
      BY <1>1, <1>2, <1>6, <1>12, <2>1, <3>1, <3>3
    <3>. QED
      BY <1>12, <1>14, <2>1, <3>1, <3>4
  <2>2. CASE i = Len(stack)
    <3>1. stack'[i].object = Top.object /\ stack'[i].keys = Top.keys \cup {key}
      BY <1>7, <1>9, <2>2
    <3>2. Top.object < Len(members')
      BY <1>1, <1>2, <1>6, <1>12
    <3>. QED
      BY <1>12, <1>14, <3>1, <3>2
  <2>. QED
    BY <1>1, <1>9, <2>1, <2>2
<1>16. ASSUME NEW i \in 1..Len(stack'), NEW j \in 1..Len(stack'),
              i < j, stack'[i].map, stack'[j].map
       PROVE  stack'[i].object < stack'[j].object
  <2>1. i \in 1..Len(stack) - 1 /\ stack'[i] = stack[i] /\ i \in 1..Len(stack)
    BY <1>1, <1>9, <1>16
  <2>2. CASE j \in 1..Len(stack) - 1
    BY <1>1, <1>9, <1>16, <2>1, <2>2 DEF IInv, StackInv
  <2>3. CASE j = Len(stack)
    BY <1>7, <1>9, <1>12, <1>16, <2>1, <2>3
  <2>. QED
    BY <1>1, <1>9, <2>2, <2>3
<1>17. StackInv'
  <2>1. \A i \in 1..Len(stack') : stack'[i].map =>
           stack'[i].object \in Nat /\ Len(members') \in Nat
    <3>1. \A i \in 1..Len(stack') : stack'[i] \in Frames
      BY <1>9, ElementOfSeq
    <3>. QED
      BY <1>1, <1>6, <3>1 DEF Frames
  <2>2. \A i \in 1..Len(stack') : stack'[i].map => stack'[i].object <= Len(members')
    BY <1>15, <2>1
  <2>. QED
    BY <1>15, <1>16, <2>2 DEF StackInv
<1>. QED
  BY <1>10, <1>11, <1>13, <1>17 DEF IInv

-----------------------------------------------------------------------------

THEOREM Invariance == Spec => []IInv
<1>1. Init => IInv
  BY InitInv
<1>2. IInv /\ [Next]_vars => IInv'
  <2> SUFFICES ASSUME IInv, [Next]_vars PROVE IInv'
    OBVIOUS
  <2>1. CASE Scalar
    <3>1. sensitive' \in BOOLEAN /\ strings' \subseteq [path : Seq(Segments), text : Texts]
      BY <2>1 DEF Scalar, IInv, TypeOK
    <3>. QED
      BY <2>1, <3>1, ScalarInv DEF Scalar
  <2>2. ASSUME NEW string \in Texts, String(string) PROVE IInv'
    <3>1. next.at.path \in Seq(Segments)
      BY DEF IInv, TypeOK, Locations
    <3>2. strings' \subseteq [path : Seq(Segments), text : Texts]
      BY <2>2, <3>1 DEF String, IInv, TypeOK
    <3>3. sensitive' \in BOOLEAN
      BY <2>2 DEF String, IInv, TypeOK
    <3>4. /\ next.due /\ Deliver(stack) /\ Token
          /\ UNCHANGED <<pointers, retained, truncated, members>>
      BY <2>2 DEF String
    <3>. QED
      BY <3>2, <3>3, <3>4, ScalarInv
  <2>3. ASSUME NEW isMap \in BOOLEAN, Open(isMap) PROVE IInv'
    BY <2>3, OpenInv
  <2>4. ASSUME NEW key \in Keys, Key(key) PROVE IInv'
    BY <2>4, KeyInv
  <2>5. CASE Close
    BY <2>5, CloseInv
  <2>6. CASE Finish \/ Malformed
    <3>1. /\ status' \in {"scanning", "done", "failed"}
          /\ UNCHANGED <<stack, next, pointers, retained, truncated, sensitive,
                         members, strings, tokens>>
      BY <2>6 DEF Finish, Malformed
    <3>2. TypeOK' /\ StackInv'
      BY <3>1 DEF IInv, TypeOK, StackInv
    <3>. QED
      BY <3>1, <3>2, SameMembers DEF IInv
  <2>7. CASE Ended \/ UNCHANGED vars
    <3>1. UNCHANGED <<status, stack, next, pointers, retained, truncated, sensitive,
                      members, strings, tokens>>
      BY <2>7 DEF Ended, vars
    <3>2. TypeOK' /\ StackInv'
      BY <3>1 DEF IInv, TypeOK, StackInv
    <3>. QED
      BY <3>1, <3>2, SameMembers DEF IInv
  <2>. QED
    BY <2>1, <2>2, <2>3, <2>4, <2>5, <2>6, <2>7 DEF Next
<1>. QED
  BY <1>1, <1>2, PTL DEF Spec

\* The variables have their types, however long the document is.
THEOREM TypeCorrect == Spec => []TypeOK
<1>1. IInv => TypeOK
  BY DEF IInv
<1>. QED
  BY <1>1, Invariance, PTL

\* The list of DuplicateScan never outgrows its two limits.
THEOREM Bounded == Spec => []ScanIsBounded
<1>1. IInv => ScanIsBounded
  BY DEF IInv
<1>. QED
  BY <1>1, Invariance, PTL

\* The visitor sets the truncation flag exactly when the pointer of a
\* duplicate is missing from its list, so that an empty list without the flag
\* means that no object repeats a member.
THEOREM TruncationExact == Spec => []TruncatedIffMissing
<1>1. IInv => TruncatedIffMissing
  BY DEF IInv, CountInv
<1>. QED
  BY <1>1, Invariance, PTL

\* The visitor's list holds the pointers of duplicates, each one once and in
\* the order of the document, and nothing else.
THEOREM PointersExact == Spec => []PointersAreDuplicates
<1>1. IInv => PointersAreDuplicates
  BY DEF IInv
<1>. QED
  BY <1>1, Invariance, PTL

-----------------------------------------------------------------------------

(***************************************************************************)
(* Whether the visitor still has a pointer.  A second invariant: the       *)
(* length it keeps is that of the pointer, and it has the pointer as long  *)
(* as that is within the limit, for the next value and for every object    *)
(* and array that is open.                                                 *)
(***************************************************************************)
Measured(where) ==
    /\ where.bytes = Length(where.path)
    /\ where.named <=> where.bytes <= MaxPointerBytes

LocationsInv ==
    /\ Measured(next.at)
    /\ \A i \in 1..Len(stack) : Measured(stack[i].at)

\* The function that adds up the lengths of the first N segments.
IsLength(list, N, g) ==
    g = [n \in 0..N |-> IF n = 0 THEN 0 ELSE g[n - 1] + 1 + EscapedBytes[list[n]]]

LEMMA LengthStep ==
    ASSUME NEW list, NEW N \in Nat, NEW g, IsLength(list, N, g)
    PROVE  /\ g[0] = 0
           /\ \A n \in 1..N : g[n] = g[n - 1] + 1 + EscapedBytes[list[n]]
<1>1. \A n \in 0..N : g[n] = IF n = 0 THEN 0 ELSE g[n - 1] + 1 + EscapedBytes[list[n]]
  BY DEF IsLength
<1>2. 0 \in 0..N /\ \A n \in 1..N : n \in 0..N /\ n # 0
  OBVIOUS
<1>. QED
  BY <1>1, <1>2

LEMMA LengthExists ==
    ASSUME NEW list \in Seq(Segments)
    PROVE  \A N \in 0..Len(list) : \E g : IsLength(list, N, g)
<1> DEFINE Bad == {N \in 0..Len(list) : ~\E g : IsLength(list, N, g)}
<1>1. Len(list) \in Nat
  OBVIOUS
<1>2. SUFFICES ASSUME Bad # {} PROVE FALSE
  OBVIOUS
<1>3. Bad \in SUBSET Nat
  BY <1>1
<1> HIDE DEF Bad
<1>4. PICK N \in Bad : \A m \in Bad : N <= m
  BY <1>2, <1>3, Least
<1>5. N \in 0..Len(list) /\ N \in Nat /\ ~\E g : IsLength(list, N, g)
  BY <1>1 DEF Bad
<1>6. CASE N = 0
  <2> DEFINE g == [n \in 0..0 |-> 0]
  <2>1. g = [n \in 0..0 |-> IF n = 0 THEN 0 ELSE g[n - 1] + 1 + EscapedBytes[list[n]]]
    OBVIOUS
  <2>2. IsLength(list, 0, g)
    BY <2>1 DEF IsLength
  <2>. QED
    BY <1>5, <1>6, <2>2
<1>7. CASE N # 0
  <2>1. N - 1 \in 0..Len(list) /\ N - 1 \notin Bad
    BY <1>1, <1>4, <1>5, <1>7
  <2>2. PICK h : IsLength(list, N - 1, h)
    BY <2>1 DEF Bad
  <2> DEFINE g == [n \in 0..N |-> IF n = N THEN h[N - 1] + 1 + EscapedBytes[list[N]] ELSE h[n]]
             f == [n \in 0..N |-> IF n = 0 THEN 0 ELSE g[n - 1] + 1 + EscapedBytes[list[n]]]
  <2>3. \A k \in 0..N - 1 : h[k] = IF k = 0 THEN 0 ELSE h[k - 1] + 1 + EscapedBytes[list[k]]
    BY <2>2 DEF IsLength
  <2>4. ASSUME NEW n \in 0..N PROVE f[n] = g[n]
    <3>1. CASE n = N
      BY <3>1, <1>5, <1>7
    <3>2. CASE n # N
      <4>1. n \in 0..N - 1 /\ g[n] = h[n]
        BY <3>2, <1>5
      <4>2. n # 0 => n - 1 \in 0..N /\ n - 1 # N
        BY <4>1, <1>5
      <4>. QED
        BY <2>3, <4>1, <4>2
    <3>. QED
      BY <3>1, <3>2
  <2>5. /\ DOMAIN g = 0..N /\ DOMAIN f = 0..N
        /\ g = [n \in DOMAIN g |-> g[n]] /\ f = [n \in DOMAIN f |-> f[n]]
    OBVIOUS
  <2> HIDE DEF f, g
  <2>6. f = g
    BY <2>4, <2>5
  <2>7. IsLength(list, N, g)
    BY <2>6 DEF f, IsLength
  <2>. QED
    BY <1>5, <2>7
<1>. QED
  BY <1>6, <1>7

\* Length is the last value of such a function.
LEMMA LengthIs ==
    ASSUME NEW list \in Seq(Segments)
    PROVE  \E g : IsLength(list, Len(list), g) /\ Length(list) = g[Len(list)]
<1> DEFINE t == CHOOSE g : IsLength(list, Len(list), g)
<1>1. Len(list) \in 0..Len(list)
  OBVIOUS
<1>2. IsLength(list, Len(list), t)
  BY <1>1, LengthExists
<1>3. Length(list) = t[Len(list)]
  BY DEF Length, IsLength
<1>. QED
  BY <1>2, <1>3

\* Two paths that agree on their first N segments have one length up to there.
LEMMA LengthAgrees ==
    ASSUME NEW list, NEW other, NEW M \in Nat, NEW N \in Nat, NEW K \in Nat, K <= M, K <= N,
           NEW g, IsLength(list, M, g), NEW h, IsLength(other, N, h),
           \A i \in 1..K : list[i] = other[i]
    PROVE  g[K] = h[K]
<1> DEFINE Bad == {n \in 0..K : g[n] # h[n]}
<1>1. SUFFICES ASSUME Bad # {} PROVE FALSE
  <2>1. K \in 0..K
    OBVIOUS
  <2>. QED
    BY <2>1
<1>2. Bad \in SUBSET Nat
  OBVIOUS
<1> HIDE DEF Bad
<1>3. PICK n \in Bad : \A m \in Bad : n <= m
  BY <1>1, <1>2, Least
<1>4. n \in 0..K /\ g[n] # h[n]
  BY DEF Bad
<1>5. g[0] = 0 /\ h[0] = 0
  BY LengthStep
<1>6. n \in 1..K /\ n \in 1..M /\ n \in 1..N /\ n - 1 \in 0..K /\ n - 1 \notin Bad
  BY <1>3, <1>4, <1>5
<1>7. g[n - 1] = h[n - 1]
  BY <1>6 DEF Bad
<1>8. g[n] = g[n - 1] + 1 + EscapedBytes[list[n]] /\ h[n] = h[n - 1] + 1 + EscapedBytes[other[n]]
  BY <1>6, LengthStep
<1>9. list[n] = other[n]
  BY <1>6
<1>. QED
  BY <1>4, <1>7, <1>8, <1>9

\* The root is short, and a segment adds its length and a slash.
LEMMA LengthOfRoot == Length(<<>>) = 0
<1>1. <<>> \in Seq(Segments) /\ Len(<<>>) = 0
  OBVIOUS
<1>2. PICK g : IsLength(<<>>, 0, g) /\ Length(<<>>) = g[0]
  BY <1>1, LengthIs
<1>. QED
  BY <1>2, LengthStep

LEMMA LengthOfAppend ==
    ASSUME NEW list \in Seq(Segments), NEW s \in Segments
    PROVE  Length(Append(list, s)) = Length(list) + 1 + EscapedBytes[s]
<1> DEFINE more == Append(list, s)
           N    == Len(list)
<1>1. /\ more \in Seq(Segments) /\ Len(more) = N + 1 /\ N \in Nat
      /\ more[N + 1] = s /\ \A i \in 1..N : more[i] = list[i]
  BY AppendProperties
<1> HIDE DEF more, N
<1>2. PICK g : IsLength(list, N, g) /\ Length(list) = g[N]
  BY LengthIs DEF N
<1>3. PICK h : IsLength(more, N + 1, h) /\ Length(more) = h[N + 1]
  BY <1>1, LengthIs
<1>4. g[N] = h[N]
  BY <1>1, <1>2, <1>3, LengthAgrees
<1>5. h[N + 1] = h[N] + 1 + EscapedBytes[s]
  <2>1. N + 1 \in 1..(N + 1) /\ (N + 1) - 1 = N /\ N + 1 \in Nat
    BY <1>1
  <2>. QED
    BY <1>1, <1>3, <2>1, LengthStep
<1>. QED
  BY <1>2, <1>3, <1>4, <1>5 DEF more

LEMMA StepMeasured ==
    ASSUME NEW parent \in Locations, Measured(parent), NEW segment \in Segments,
           NEW fits \in BOOLEAN,
           fits <=> parent.bytes + 1 + EscapedBytes[segment] <= MaxPointerBytes
    PROVE  Measured(Step(parent, segment, fits))
<1> DEFINE child == Step(parent, segment, fits)
<1>1. /\ parent.path \in Seq(Segments) /\ parent.bytes \in Nat /\ parent.named \in BOOLEAN
      /\ EscapedBytes[segment] \in Nat /\ MaxPointerBytes \in Nat
  BY BytesAssumption, BoundsAssumption DEF Locations
<1>2. /\ child.path = Append(parent.path, segment)
      /\ child.bytes = parent.bytes + 1 + EscapedBytes[segment]
      /\ child.named = (parent.named /\ fits)
  BY DEF Step
<1>3. child.bytes = Length(child.path)
  BY <1>1, <1>2, LengthOfAppend DEF Measured
<1>4. parent.bytes + 1 + EscapedBytes[segment] <= MaxPointerBytes => parent.bytes <= MaxPointerBytes
  BY <1>1
<1>5. child.named <=> child.bytes <= MaxPointerBytes
  BY <1>2, <1>4 DEF Measured
<1>. QED
  BY <1>3, <1>5 DEF Measured

LEMMA ChildMeasured ==
    ASSUME NEW parent \in Locations, Measured(parent), NEW key \in Keys
    PROVE  Measured(BoundedChild(parent, key))
<1> DEFINE fits == /\ parent.bytes + RawBytes[key] + 1 <= MaxPointerBytes
                   /\ parent.bytes + 1 + EscapedBytes[key] <= MaxPointerBytes
<1>1. key \in Segments /\ parent.bytes \in Nat /\ MaxPointerBytes \in Nat
  BY BoundsAssumption DEF Segments, Locations
<1>2. RawBytes[key] \in Nat /\ EscapedBytes[key] \in Nat /\ RawBytes[key] <= EscapedBytes[key]
  BY <1>1, BytesAssumption
<1>3. fits <=> parent.bytes + 1 + EscapedBytes[key] <= MaxPointerBytes
  BY <1>1, <1>2
<1>4. fits \in BOOLEAN /\ BoundedChild(parent, key) = Step(parent, key, fits)
  BY DEF BoundedChild
<1> HIDE DEF fits
<1>. QED
  BY <1>1, <1>3, <1>4, StepMeasured

LEMMA IndexMeasured ==
    ASSUME NEW parent \in Locations, Measured(parent), NEW index \in Nat, index < Len(Numerals)
    PROVE  Measured(BoundedIndex(parent, index))
<1> DEFINE numeral == Numerals[index + 1]
           fits    == parent.bytes + 1 + EscapedBytes[numeral] <= MaxPointerBytes
<1>1. numeral \in Segments
  <2>1. Numerals \in Seq(Segments) /\ Len(Numerals) \in Nat
    BY NamesAssumption, LenProperties
  <2>2. index + 1 \in 1..Len(Numerals)
    BY <2>1
  <2>. QED
    BY <2>1, <2>2, ElementOfSeq
<1>2. fits \in BOOLEAN /\ BoundedIndex(parent, index) = Step(parent, numeral, fits)
  BY DEF BoundedIndex
<1>. QED
  BY <1>1, <1>2, StepMeasured

LEMMA RootMeasured == Measured(Root) /\ Measured(Nowhere.at)
BY LengthOfRoot, BoundsAssumption DEF Measured, Root, Nowhere

\* What Deliver keeps.
LEMMA DeliverMeasured ==
    ASSUME NEW frames \in Seq(Frames), Deliver(frames),
           \A i \in 1..Len(frames) : Measured(frames[i].at)
    PROVE  LocationsInv'
<1>1. /\ Len(stack') = Len(frames)
      /\ \A i \in 1..Len(frames) : stack'[i].at = frames[i].at
      /\ \/ next' = Nowhere
         \/ /\ Len(frames) > 0
            /\ \E index \in Nat : index < Len(Numerals)
                  /\ next' = At(BoundedIndex(frames[Len(frames)].at, index))
  BY DeliverFacts
<1>2. \A i \in 1..Len(stack') : Measured(stack'[i].at)
  BY <1>1
<1>3. CASE next' = Nowhere
  BY <1>2, <1>3, RootMeasured DEF LocationsInv, Measured
<1>4. ASSUME Len(frames) > 0, NEW index \in Nat, index < Len(Numerals),
             next' = At(BoundedIndex(frames[Len(frames)].at, index))
      PROVE  LocationsInv'
  <2>1. Len(frames) \in 1..Len(frames)
    BY <1>4, LenProperties
  <2>2. frames[Len(frames)] \in Frames
    BY <2>1, ElementOfSeq
  <2>3. frames[Len(frames)].at \in Locations /\ Measured(frames[Len(frames)].at)
    BY <2>1, <2>2 DEF Frames
  <2>4. Measured(BoundedIndex(frames[Len(frames)].at, index))
    BY <1>4, <2>3, IndexMeasured
  <2>5. next'.at = BoundedIndex(frames[Len(frames)].at, index)
    BY <1>4 DEF At
  <2>. QED
    BY <1>2, <2>4, <2>5 DEF LocationsInv, Measured
<1>. QED
  BY <1>1, <1>3, <1>4

\* The open containers below the innermost one.
LEMMA Below ==
    ASSUME NEW frames \in Seq(Frames), Len(frames) > 0,
           NEW rest, rest = SubSeq(frames, 1, Len(frames) - 1)
    PROVE  /\ rest \in Seq(Frames)
           /\ Len(rest) = Len(frames) - 1
           /\ \A i \in 1..Len(frames) - 1 : rest[i] = frames[i]
<1>1. Len(frames) \in Nat /\ \A i \in 1..Len(frames) - 1 : i \in 1..Len(frames)
  BY LenProperties
<1>2. \A i \in 1..Len(frames) - 1 : frames[i] \in Frames
  BY <1>1, ElementOfSeq
<1>3. CASE Len(frames) > 1
  BY <1>1, <1>2, <1>3, SubSeqProperties
<1>4. CASE Len(frames) = 1
  <2>1. rest = <<>>
    BY <1>4, SubSeqEmpty
  <2>2. <<>> \in Seq(Frames) /\ Len(<<>>) = 0
    OBVIOUS
  <2>. QED
    BY <1>4, <2>1, <2>2
<1>5. Len(frames) > 1 \/ Len(frames) = 1
  <2> DEFINE n == Len(frames)
  <2>1. n \in Nat /\ n > 0
    BY LenProperties
  <2> HIDE DEF n
  <2>2. n > 1 \/ n = 1
    BY <2>1
  <2>. QED
    BY <2>2, Zenon DEF n
<1>. QED
  BY <1>3, <1>4, <1>5, Zenon

LEMMA LocationsInvariance == Spec => []LocationsInv
<1>1. Init => LocationsInv
  BY RootMeasured DEF Init, LocationsInv, At
<1>2. ASSUME IInv, LocationsInv, [Next]_vars PROVE LocationsInv'
  <2>1. stack \in Seq(Frames) /\ Len(stack) \in Nat /\ next.at \in Locations
    BY <1>2, LenProperties DEF IInv, TypeOK
  <2>2. \A i \in 1..Len(stack) : stack[i] \in Frames
    BY <2>1, ElementOfSeq
  <2>3. Measured(next.at) /\ \A i \in 1..Len(stack) : Measured(stack[i].at)
    BY <1>2 DEF LocationsInv
  <2>4. CASE Scalar \/ \E string \in Texts : String(string)
    <3>1. Deliver(stack)
      BY <2>4 DEF Scalar, String
    <3>. QED
      BY <2>1, <2>3, <3>1, DeliverMeasured
  <2>5. ASSUME NEW isMap \in BOOLEAN, Open(isMap) PROVE LocationsInv'
    <3>1. /\ stack' = Append(stack, Frame(isMap))
          /\ next' = IF isMap THEN Nowhere ELSE At(BoundedIndex(next.at, 0))
      BY <2>5 DEF Open
    <3>2. Frame(isMap) \in Frames /\ Frame(isMap).at = next.at
      <4>1. Len(members) \in Nat
        BY <1>2, LenProperties DEF IInv, TypeOK
      <4>. QED
        BY <2>1, <4>1 DEF Frame, Frames
    <3>3. /\ Len(stack') = Len(stack) + 1 /\ stack'[Len(stack) + 1] = Frame(isMap)
          /\ \A i \in 1..Len(stack) : stack'[i] = stack[i]
      BY <2>1, <3>1, <3>2, AppendProperties
    <3>4. \A i \in 1..Len(stack') : i \in 1..Len(stack) \/ i = Len(stack) + 1
      BY <2>1, <3>3
    <3>5. \A i \in 1..Len(stack') : Measured(stack'[i].at)
      BY <2>3, <3>2, <3>3, <3>4
    <3>6. Measured(next'.at)
      <4>1. 0 \in Nat /\ 0 < Len(Numerals)
        BY NamesAssumption, LenProperties
      <4>2. Measured(BoundedIndex(next.at, 0))
        BY <2>1, <2>3, <4>1, IndexMeasured
      <4>. QED
        BY <3>1, <4>2, RootMeasured DEF At
    <3>. QED
      BY <3>5, <3>6 DEF LocationsInv, Measured
  <2>6. ASSUME NEW key \in Keys, Key(key) PROVE LocationsInv'
    <3> DEFINE frame == [Top EXCEPT !.keys = @ \cup {key}]
               rest  == SubSeq(stack, 1, Len(stack) - 1)
    <3>1. /\ Len(stack) > 0 /\ next' = At(BoundedChild(Top.at, key))
          /\ stack' = Append(rest, frame)
      BY <2>6 DEF Key, Replace
    <3>2. Len(stack) \in 1..Len(stack) /\ Top \in Frames /\ Measured(Top.at)
      BY <2>1, <2>2, <2>3, <3>1 DEF Top
    <3>3. Top.at \in Locations /\ frame.at = Top.at /\ frame \in Frames
      BY <3>2 DEF Frames
    <3>4. /\ rest \in Seq(Frames) /\ Len(rest) = Len(stack) - 1
          /\ \A i \in 1..Len(stack) - 1 : rest[i] = stack[i]
      BY <2>1, <3>1, Below
    <3> HIDE DEF frame, rest
    <3>5. /\ Len(stack') = Len(stack) /\ stack'[Len(stack)] = frame
          /\ \A i \in 1..Len(stack) - 1 : stack'[i] = stack[i]
      BY <2>1, <3>1, <3>3, <3>4, AppendProperties
    <3>6. \A i \in 1..Len(stack') : i \in 1..Len(stack) - 1 \/ i = Len(stack)
      BY <2>1, <3>5
    <3>7. \A i \in 1..Len(stack') : Measured(stack'[i].at)
      BY <2>1, <2>3, <3>2, <3>3, <3>5, <3>6
    <3>8. Measured(next'.at)
      BY <3>1, <3>2, <3>3, ChildMeasured DEF At
    <3>. QED
      BY <3>7, <3>8 DEF LocationsInv, Measured
  <2>7. CASE Close
    <3> DEFINE rest == SubSeq(stack, 1, Len(stack) - 1)
    <3>1. Len(stack) > 0 /\ Deliver(rest)
      BY <2>7 DEF Close
    <3>2. /\ rest \in Seq(Frames) /\ Len(rest) = Len(stack) - 1
          /\ \A i \in 1..Len(stack) - 1 : rest[i] = stack[i]
      BY <2>1, <3>1, Below
    <3> HIDE DEF rest
    <3>3. \A i \in 1..Len(rest) : Measured(rest[i].at)
      <4>1. \A i \in 1..Len(rest) : i \in 1..Len(stack) - 1 /\ i \in 1..Len(stack)
        BY <2>1, <3>2
      <4>. QED
        BY <2>3, <3>2, <4>1
    <3>. QED
      BY <3>1, <3>2, <3>3, DeliverMeasured
  <2>8. CASE UNCHANGED <<stack, next>>
    BY <1>2, <2>8 DEF LocationsInv, Measured
  <2>. QED
    BY <1>2, <2>4, <2>5, <2>6, <2>7, <2>8 DEF Next, Finish, Malformed, Ended, vars
<1>. QED
  BY <1>1, <1>2, Invariance, PTL DEF Spec

\* However deep a value lies and whatever its keys need to be escaped, the
\* visitor has its pointer exactly when that is not too long.
THEOREM PointerExact == Spec => []PointerKeptIffShort
<1>1. LocationsInv => PointerKeptIffShort
  BY DEF LocationsInv, Measured, PointerKeptIffShort
<1>. QED
  BY <1>1, LocationsInvariance, PTL

(***************************************************************************)
(* The flag for sensitive content.  The visitor decides how to judge a     *)
(* string by whether it has the pointer, the reference by how long the     *)
(* pointer would be: LocationsInv makes the two the same.                  *)
(***************************************************************************)

\* What a second pass would say of a string.
JudgedSensitive(s) ==
    s.text \in
        IF IsPointerValue(s.path) /\ Length(s.path) <= MaxPointerBytes
        THEN SensitivePointers
        ELSE SensitiveMessages

LEMMA SensitiveString ==
    ASSUME IInv, LocationsInv, SensitiveExact, NEW string \in Texts, String(string)
    PROVE  SensitiveExact'
<1> DEFINE s == [path |-> next.at.path, text |-> string]
<1>1. /\ members' = members /\ strings' = strings \cup {s}
      /\ sensitive' = (sensitive \/
            string \in (IF next.at.named /\ IsPointerValue(next.at.path)
                      THEN SensitivePointers ELSE SensitiveMessages))
  BY DEF String
<1>2. next.at.named <=> Length(s.path) <= MaxPointerBytes
  BY DEF LocationsInv, Measured
<1>3. sensitive' <=> sensitive \/ JudgedSensitive(s)
  BY <1>1, <1>2 DEF JudgedSensitive
<1>4. sensitive <=> \/ \E m \in 1..Len(members) : members[m].key \in SensitiveKeys
                    \/ \E t \in strings : JudgedSensitive(t)
  BY DEF SensitiveExact, JudgedSensitive
<1> HIDE DEF s
<1>5. sensitive' <=> \/ \E m \in 1..Len(members') : members'[m].key \in SensitiveKeys
                     \/ \E t \in strings' : JudgedSensitive(t)
  BY <1>1, <1>3, <1>4
<1>. QED
  BY <1>5 DEF SensitiveExact, JudgedSensitive

LEMMA SensitiveKey ==
    ASSUME IInv, SensitiveExact, NEW key \in Keys, Key(key)
    PROVE  SensitiveExact'
<1> DEFINE member == [object |-> Top.object, key |-> key, path |-> BoundedChild(Top.at, key).path]
           n      == Len(members)
<1>1. /\ members' = Append(members, member) /\ strings' = strings
      /\ sensitive' = (sensitive \/ key \in SensitiveKeys)
  BY DEF Key
<1>2. members \in Seq([object : Nat, key : Keys, path : Seq(Segments)]) /\ n \in Nat
  BY DEF IInv, TypeOK
<1>3. member.key = key
  OBVIOUS
<1> HIDE DEF member
<1>4. /\ Len(members') = n + 1 /\ members'[n + 1] = member
      /\ \A m \in 1..n : members'[m] = members[m]
  BY <1>1, <1>2
<1> HIDE DEF n
<1>5. \A m \in 1..n + 1 : m \in 1..n \/ m = n + 1
  BY <1>2
<1>6. n + 1 \in 1..n + 1 /\ \A m \in 1..n : m \in 1..n + 1
  BY <1>2
<1>7. (\E m \in 1..n + 1 : members'[m].key \in SensitiveKeys) <=>
         (\E m \in 1..n : members[m].key \in SensitiveKeys) \/ key \in SensitiveKeys
  BY <1>3, <1>4, <1>5, <1>6
<1>8. sensitive <=> \/ \E m \in 1..n : members[m].key \in SensitiveKeys
                    \/ \E t \in strings : JudgedSensitive(t)
  BY DEF SensitiveExact, JudgedSensitive, n
<1>9. sensitive' <=> \/ \E m \in 1..n + 1 : members'[m].key \in SensitiveKeys
                     \/ \E t \in strings' : JudgedSensitive(t)
  BY <1>1, <1>7, <1>8
<1>10. sensitive' <=> \/ \E m \in 1..Len(members') : members'[m].key \in SensitiveKeys
                      \/ \E t \in strings' : JudgedSensitive(t)
  BY <1>4, <1>9
<1>. QED
  BY <1>10 DEF SensitiveExact, JudgedSensitive

\* The scan calls a document sensitive exactly when a key of it is, at any
\* depth and repeated or not, or a string as its place makes it judged.
THEOREM SensitivityExact == Spec => []SensitiveExact
<1>1. Init => SensitiveExact
  BY DEF Init, SensitiveExact
<1>2. ASSUME IInv, LocationsInv, SensitiveExact, [Next]_vars PROVE SensitiveExact'
  <2>1. ASSUME NEW string \in Texts, String(string) PROVE SensitiveExact'
    BY <1>2, <2>1, SensitiveString
  <2>2. ASSUME NEW key \in Keys, Key(key) PROVE SensitiveExact'
    BY <1>2, <2>2, SensitiveKey
  <2>3. CASE UNCHANGED <<sensitive, members, strings>>
    BY <1>2, <2>3 DEF SensitiveExact
  <2>. QED
    BY <1>2, <2>1, <2>2, <2>3 DEF Next, Scalar, Open, Close, Finish, Malformed, Ended, vars
<1>. QED
  BY <1>1, <1>2, Invariance, LocationsInvariance, PTL DEF Spec
=============================================================================
