------------------------ MODULE DiagnosticsProofs -------------------------
(***************************************************************************)
(* Theorems about Diagnostics for every list limit and every repository.   *)
(***************************************************************************)
EXTENDS Diagnostics, SequenceTheorems, TLAPS

(***************************************************************************)
(* The inductive invariant.  ListInv is the shape PushBounded gives a      *)
(* list, Kept relates the list to what was reported into it, ProgressInv   *)
(* says what a part that is over has reported, and OrderInv that errors    *)
(* come before warnings, which is why a prefix of the list may be merged.  *)
(***************************************************************************)
Position ==
    [s \in Stages |->
        CASE s = "scan"          -> 1
          [] s = "normalization" -> 2
          [] s = "references"    -> 3
          [] s = "shape"         -> 4
          [] s = "configuration" -> 5
          [] s = "executable"    -> 6
          [] s = "merge"         -> 7
          [] s = "manifest"      -> 8
          [] s = "done"          -> 9]

ListInv(list) ==
    /\ Len(list) <= MaxDiagnostics
    /\ \A i \in 1..Len(list) : list[i] = LimitMarker <=> i = MaxDiagnostics
    /\ \A i, j \in 1..Len(list) : list[i] = list[j] => i = j

Kept(list, S, r) ==
    /\ \A i \in 1..Len(list) : i # MaxDiagnostics =>
          \E s \in S : \E n \in 1..r[s] : list[i] = Finding(s, n)
    /\ Len(list) < MaxDiagnostics =>
          \A s \in S : \A n \in 1..r[s] : Contains(list, Finding(s, n))
    /\ Len(list) = MaxDiagnostics =>
          \E s \in S : \E n \in 1..r[s] : ~Contains(list, Finding(s, n))

ProgressInv ==
    \A s \in Sources :
        /\ raised[s] <= findings[s]
        /\ Position[stage] < Position[s] => raised[s] = 0
        /\ Position[s] < Position[stage] =>
              \/ raised[s] = findings[s]
              \/ s \in Passes /\ Len(content) = MaxDiagnostics

OrderInv(list) ==
    \A i, j \in 1..Len(list) : i < j /\ IsError(list[j]) => IsError(list[i])

Outranks(list) ==
    (\E s \in ContentWarnings : \E n \in 1..findings[s] :
        Contains(list, Finding(s, n)))
    => \A s \in ContentErrors : \A n \in 1..findings[s] :
            Contains(list, Finding(s, n))

Complete(list) ==
    HasMarker(list) <=>
        \E s \in Sources : \E n \in 1..findings[s] : ~Contains(list, Finding(s, n))

CollectInv ==
    /\ TypeOK
    /\ ListInv(scan)
    /\ ListInv(content)
    /\ Kept(scan, {"scan"}, raised)
    /\ Kept(content, ContentSources, raised)
    /\ ProgressInv
    /\ OrderInv(content)
    /\ Outranks(content)

Sound(list) ==
    \A i \in 1..Len(list) :
        \/ list[i] = LimitMarker
        \/ \E s \in Sources : \E n \in 1..findings[s] : list[i] = Finding(s, n)

ResultInv ==
    /\ stage \notin {"manifest", "done"} => result = <<>>
    /\ stage = "manifest" => ListInv(result) /\ Outranks(result) /\ Sound(result)
    /\ stage \in {"manifest", "done"} => Complete(result)
    /\ stage = "done" /\ sensitive => Contains(result, Identity)
    /\ Len(result) <= MaxDiagnostics

IInv == CollectInv /\ ResultInv

-----------------------------------------------------------------------------

(***************************************************************************)
(* Facts about the operators.                                              *)
(***************************************************************************)

\* A push gives a list of entries that extends the one it was given: by the
\* finding, by the marker in the last slot, or not at all.
LEMMA PushCases ==
    ASSUME NEW list \in Seq(Entries), NEW f \in Entries
    PROVE  LET new == PushBounded(list, f)
           IN  /\ new \in Seq(Entries)
               /\ Len(list) < MaxDiagnostics - 1 =>
                     /\ Len(new) = Len(list) + 1
                     /\ new[Len(new)] = f
               /\ Len(list) = MaxDiagnostics - 1 =>
                     /\ Len(new) = MaxDiagnostics
                     /\ new[Len(new)] = LimitMarker
               /\ Len(list) >= MaxDiagnostics => new = list
               /\ \A i \in 1..Len(list) : new[i] = list[i]
<1> USE MaxDiagnosticsAssumption
<1>1. LimitMarker \in Entries
  BY DEF Entries
<1>2. Len(list) \in Nat
  BY LenProperties
<1>3. CASE Len(list) < MaxDiagnostics - 1
  BY <1>2, <1>3, AppendProperties DEF PushBounded
<1>4. CASE Len(list) = MaxDiagnostics - 1
  BY <1>1, <1>2, <1>4, AppendProperties DEF PushBounded
<1>5. CASE Len(list) >= MaxDiagnostics
  BY <1>2, <1>5 DEF PushBounded
<1>. QED
  BY <1>2, <1>3, <1>4, <1>5

\* A finding of a part is not the marker, and it names its part and number.
LEMMA FindingFacts ==
    /\ \A s \in Sources, n \in Nat \ {0} :
          /\ Finding(s, n) \in Entries
          /\ Finding(s, n) # LimitMarker
          /\ Finding(s, n) # Identity
          /\ IsError(Finding(s, n)) <=> s \in ContentErrors
    /\ \A s, t, m, n : Finding(s, m) = Finding(t, n) <=> s = t /\ m = n
    /\ LimitMarker \in Entries /\ ~IsError(LimitMarker)
    /\ Identity \in Entries /\ ~IsError(Identity) /\ Identity # LimitMarker
BY DEF Finding, LimitMarker, Identity, Entries, IsError, Sources,
       ContentSources, ContentErrors, ContentWarnings

\* Reporting the next finding of a part into a list keeps the shape of the
\* list and its relation to what was reported.
LEMMA PushKeeps ==
    ASSUME NEW list \in Seq(Entries), NEW S \in SUBSET Sources, NEW s \in S,
           NEW r \in [Sources -> Nat], ListInv(list), Kept(list, S, r)
    PROVE  LET new == PushBounded(list, Finding(s, r[s] + 1))
               r2  == [r EXCEPT ![s] = @ + 1]
           IN  ListInv(new) /\ Kept(new, S, r2)
<1> DEFINE f   == Finding(s, r[s] + 1)
           new == PushBounded(list, f)
           r2  == [r EXCEPT ![s] = @ + 1]
<1> USE MaxDiagnosticsAssumption
<1>1. f \in Entries /\ f # LimitMarker
  BY FindingFacts
<1>2. /\ new \in Seq(Entries)
      /\ Len(list) < MaxDiagnostics - 1 =>
            Len(new) = Len(list) + 1 /\ new[Len(new)] = f
      /\ Len(list) = MaxDiagnostics - 1 =>
            Len(new) = MaxDiagnostics /\ new[Len(new)] = LimitMarker
      /\ Len(list) >= MaxDiagnostics => new = list
      /\ \A i \in 1..Len(list) : new[i] = list[i]
  BY <1>1, PushCases
<1>3. Len(list) \in Nat /\ Len(new) \in Nat
  BY <1>2, LenProperties
<1>4. r2 \in [Sources -> Nat] /\ r2[s] = r[s] + 1
      /\ \A t \in Sources : t # s => r2[t] = r[t]
  OBVIOUS
<1> SUFFICES ListInv(new) /\ Kept(new, S, r2)
  OBVIOUS
<1> HIDE DEF new, r2
<1>5. ~Contains(list, f)
  <2> SUFFICES ASSUME NEW i \in 1..Len(list), list[i] = f PROVE FALSE
    BY DEF Contains
  <2>1. i # MaxDiagnostics
    BY <1>1 DEF ListInv
  <2>2. PICK t \in S, n \in Nat : n \in 1..r[t] /\ list[i] = Finding(t, n)
    BY <2>1 DEF Kept
  <2>. QED
    BY <2>2, FindingFacts, r[s] \in Nat
<1>6. \A t \in S : 1..r[t] \subseteq 1..r2[t]
  BY <1>4
<1>7. \A g : Contains(list, g) => Contains(new, g)
  BY <1>2, <1>3 DEF Contains
<1>8. CASE Len(list) < MaxDiagnostics - 1
  <2>1. Len(new) = Len(list) + 1 /\ new[Len(list) + 1] = f
    BY <1>2, <1>8
  <2>2. ListInv(new)
    <3>1. \A i \in 1..Len(new) : new[i] = LimitMarker <=> i = MaxDiagnostics
      BY <1>1, <1>2, <1>3, <1>8, <2>1 DEF ListInv
    <3>2. \A i \in 1..Len(list) : new[i] # f
      BY <1>2, <1>5 DEF Contains
    <3>3. \A i, j \in 1..Len(new) : new[i] = new[j] => i = j
      BY <1>2, <1>3, <2>1, <3>2 DEF ListInv
    <3>. QED
      BY <1>3, <1>8, <2>1, <3>1, <3>3 DEF ListInv
  <2>3. \A i \in 1..Len(new) : \E t \in S : \E n \in 1..r2[t] : new[i] = Finding(t, n)
    <3> TAKE i \in 1..Len(new)
    <3>1. CASE i = Len(list) + 1
      BY <2>1, <3>1, <1>4
    <3>2. CASE i \in 1..Len(list)
      <4>1. PICK t \in S, n \in Nat : n \in 1..r[t] /\ list[i] = Finding(t, n)
        BY <3>2, <1>3, <1>8 DEF Kept
      <4>. QED
        BY <4>1, <1>2, <1>6, <3>2
    <3>. QED
      BY <2>1, <1>3, <3>1, <3>2
  <2>4. \A t \in S : \A n \in 1..r2[t] : Contains(new, Finding(t, n))
    <3> TAKE t \in S
    <3> TAKE n \in 1..r2[t]
    <3>1. CASE n \in 1..r[t]
      BY <3>1, <1>3, <1>7, <1>8 DEF Kept
    <3>2. CASE t = s /\ n = r[s] + 1
      BY <3>2, <2>1, <1>3 DEF Contains
    <3>. QED
      BY <3>1, <3>2, <1>4, r[t] \in Nat
  <2>. QED
    BY <1>3, <1>8, <2>1, <2>2, <2>3, <2>4 DEF Kept
<1>9. CASE Len(list) = MaxDiagnostics - 1
  <2>1. Len(new) = MaxDiagnostics /\ new[MaxDiagnostics] = LimitMarker
    BY <1>2, <1>9
  <2>2. ListInv(new)
    BY <1>2, <1>3, <1>9, <2>1 DEF ListInv
  <2>3. \A i \in 1..Len(new) : i # MaxDiagnostics =>
           \E t \in S : \E n \in 1..r2[t] : new[i] = Finding(t, n)
    <3> SUFFICES ASSUME NEW i \in 1..Len(list)
                 PROVE  \E t \in S : \E n \in 1..r2[t] : new[i] = Finding(t, n)
      BY <2>1, <1>3, <1>9
    <3>1. PICK t \in S, n \in Nat : n \in 1..r[t] /\ list[i] = Finding(t, n)
      BY <1>3, <1>9 DEF Kept
    <3>. QED
      BY <3>1, <1>2, <1>6
  <2>4. ~Contains(new, f)
    BY <1>1, <1>2, <1>3, <1>5, <1>9, <2>1 DEF Contains
  <2>. QED
    BY <2>1, <2>2, <2>3, <2>4, <1>4 DEF Kept
<1>10. CASE Len(list) >= MaxDiagnostics
  <2>1. new = list /\ Len(list) = MaxDiagnostics
    BY <1>2, <1>3, <1>10 DEF ListInv
  <2>2. \A i \in 1..Len(new) : i # MaxDiagnostics =>
           \E t \in S : \E n \in 1..r2[t] : new[i] = Finding(t, n)
    BY <2>1, <1>6 DEF Kept
  <2>3. \E t \in S : \E n \in 1..r2[t] : ~Contains(new, Finding(t, n))
    BY <2>1, <1>6 DEF Kept
  <2>. QED
    BY <2>1, <2>2, <2>3, <1>3 DEF Kept
<1>. QED
  BY <1>3, <1>8, <1>9, <1>10

\* Unmarked drops the marker and nothing else, and a marker is there exactly
\* when the list is full.
LEMMA UnmarkedFacts ==
    ASSUME NEW list \in Seq(Entries), ListInv(list)
    PROVE  /\ Unmarked(list) \in Seq(Entries)
           /\ Len(Unmarked(list)) = Smaller(Len(list), FindingLimit)
           /\ \A i \in 1..Len(Unmarked(list)) :
                 Unmarked(list)[i] = list[i] /\ list[i] # LimitMarker
           /\ HasMarker(list) <=> Len(list) = MaxDiagnostics
<1> USE MaxDiagnosticsAssumption
<1>1. Len(list) \in Nat /\ Len(list) <= MaxDiagnostics
  BY LenProperties DEF ListInv
<1>2. HasMarker(list) <=> Len(list) = MaxDiagnostics
  BY <1>1 DEF ListInv, HasMarker, Contains
<1>3. CASE Len(list) = MaxDiagnostics
  <2>1. Unmarked(list) = SubSeq(list, 1, Len(list) - 1)
    BY <1>1, <1>3 DEF Unmarked, ListInv
  <2>2. \A i \in 1..Len(list) - 1 : list[i] \in Entries
    BY <1>1, ElementOfSeq
  <2>3. /\ Unmarked(list) \in Seq(Entries)
        /\ Len(Unmarked(list)) = Len(list) - 1
        /\ \A i \in 1..Len(list) - 1 : Unmarked(list)[i] = list[i]
    BY <2>1, <2>2, <1>1, <1>3, SubSeqProperties
  <2>. QED
    BY <1>1, <1>2, <1>3, <2>3 DEF ListInv, Smaller, FindingLimit
<1>4. CASE Len(list) < MaxDiagnostics
  <2>1. Unmarked(list) = list
    BY <1>1, <1>4 DEF Unmarked, ListInv
  <2>. QED
    BY <1>1, <1>2, <1>4, <2>1 DEF ListInv, Smaller, FindingLimit
<1>. QED
  BY <1>1, <1>3, <1>4

(***************************************************************************)
(* What the merge keeps: the first `ct` findings of the content list and   *)
(* the first `st` of the scan's.                                           *)
(***************************************************************************)
MergeCt(c, k) == ContentTake(Unmarked(c), Unmarked(k))
MergeSt(c, k) == ScanTake(Unmarked(c), Unmarked(k))
Truncated(c, k) ==
    \/ Len(c) = MaxDiagnostics
    \/ Len(k) = MaxDiagnostics
    \/ MergeCt(c, k) < Len(Unmarked(c))
    \/ MergeSt(c, k) < Len(Unmarked(k))

\* The numbers kept add up to no more than the limit leaves room for, and to
\* exactly that when anything is dropped.
LEMMA MergeNumbers ==
    ASSUME NEW c \in Seq(Entries), NEW k \in Seq(Entries),
           ListInv(c), ListInv(k)
    PROVE  /\ MergeCt(c, k) \in 0..Len(Unmarked(c))
           /\ MergeSt(c, k) \in 0..Len(Unmarked(k))
           /\ MergeCt(c, k) + MergeSt(c, k) <= FindingLimit
           /\ Truncated(c, k) => MergeCt(c, k) + MergeSt(c, k) = FindingLimit
           /\ MergeSt(c, k) >= Smaller(Len(Unmarked(k)), ScanReserve)
           /\ MergeCt(c, k) < Len(Unmarked(c)) =>
                 MergeSt(c, k) = Smaller(Len(Unmarked(k)), ScanReserve)
<1> DEFINE a == Len(c)
           b == Len(k)
           u == Len(Unmarked(c))
           v == Len(Unmarked(k))
<1> USE MaxDiagnosticsAssumption
<1>1. a \in Nat /\ b \in Nat /\ a <= MaxDiagnostics /\ b <= MaxDiagnostics
  BY LenProperties DEF ListInv
<1>2. u = Smaller(a, FindingLimit) /\ v = Smaller(b, FindingLimit)
  BY UnmarkedFacts
<1>3. ScanReserve \in Nat /\ ScanReserve <= FindingLimit
  BY DEF ScanReserve, FindingLimit
<1>4. FindingLimit = MaxDiagnostics - 1 /\ FindingLimit \in Nat
  BY DEF FindingLimit
<1>5. /\ MergeCt(c, k) = Smaller(u, FindingLimit - Smaller(v, ScanReserve))
      /\ MergeSt(c, k) = Smaller(v, FindingLimit - MergeCt(c, k))
  BY DEF MergeCt, MergeSt, ContentTake, ScanTake
<1> HIDE DEF a, b, u, v
<1>6. Truncated(c, k) <=> \/ a = MaxDiagnostics \/ b = MaxDiagnostics
                          \/ MergeCt(c, k) < u \/ MergeSt(c, k) < v
  BY DEF Truncated, a, b, u, v
<1>7. /\ MergeCt(c, k) \in 0..u
      /\ MergeSt(c, k) \in 0..v
      /\ MergeCt(c, k) + MergeSt(c, k) <= FindingLimit
      /\ Truncated(c, k) => MergeCt(c, k) + MergeSt(c, k) = FindingLimit
      /\ MergeSt(c, k) >= Smaller(v, ScanReserve)
      /\ MergeCt(c, k) < u => MergeSt(c, k) = Smaller(v, ScanReserve)
  BY <1>1, <1>2, <1>3, <1>4, <1>5, <1>6 DEF Smaller
<1>. QED
  BY <1>7 DEF u, v

\* The entries of the merged list, position by position.
LEMMA MergeEntries ==
    ASSUME NEW c \in Seq(Entries), NEW k \in Seq(Entries),
           ListInv(c), ListInv(k)
    PROVE  LET m  == MergeDiagnostics(c, k)
               ct == MergeCt(c, k)
               st == MergeSt(c, k)
           IN  /\ m \in Seq(Entries)
               /\ Len(m) = IF Truncated(c, k) THEN MaxDiagnostics ELSE ct + st
               /\ \A i \in 1..ct : m[i] = c[i]
               /\ \A i \in 1..st : m[ct + i] = k[i]
               /\ Truncated(c, k) => m[MaxDiagnostics] = LimitMarker
<1> DEFINE ct == MergeCt(c, k)
           st == MergeSt(c, k)
           uc == Unmarked(c)
           uk == Unmarked(k)
           x  == SubSeq(uc, 1, ct)
           y  == SubSeq(uk, 1, st)
           m  == MergeDiagnostics(c, k)
<1> USE MaxDiagnosticsAssumption
<1>1. /\ uc \in Seq(Entries) /\ uk \in Seq(Entries)
      /\ \A i \in 1..Len(uc) : uc[i] = c[i]
      /\ \A i \in 1..Len(uk) : uk[i] = k[i]
  BY UnmarkedFacts
<1>2. /\ ct \in 0..Len(uc) /\ st \in 0..Len(uk)
      /\ ct + st <= FindingLimit
      /\ Truncated(c, k) => ct + st = FindingLimit
  BY MergeNumbers
<1>3. Len(uc) \in Nat /\ Len(uk) \in Nat
  BY <1>1, LenProperties
<1>4. m = IF Truncated(c, k) THEN Append(x \o y, LimitMarker) ELSE x \o y
  BY UnmarkedFacts DEF MergeDiagnostics, Truncated, MergeCt, MergeSt
<1> HIDE DEF ct, st, uc, uk, m
<1>5. x \in Seq(Entries) /\ Len(x) = ct /\ \A i \in 1..ct : x[i] = c[i]
  <2>1. \A i \in 1..ct : uc[i] \in Entries
    BY <1>1, <1>2, <1>3, ElementOfSeq
  <2>2. ct \in Int /\ 1 \in Int
    BY <1>2, <1>3
  <2>3. /\ x \in Seq(Entries)
        /\ Len(x) = IF 1 <= ct THEN ct - 1 + 1 ELSE 0
        /\ \A i \in 1..ct - 1 + 1 : x[i] = uc[1 + i - 1]
    BY <2>1, <2>2, SubSeqProperties
  <2> HIDE DEF x
  <2>4. ct \in Nat /\ ct <= Len(uc)
    BY <1>2, <1>3
  <2>5. Len(x) = ct
    BY <2>3, <2>4
  <2>6. ASSUME NEW i \in 1..ct PROVE x[i] = c[i]
    <3>1. i \in 1..ct - 1 + 1 /\ 1 + i - 1 = i /\ i \in 1..Len(uc)
      BY <2>4, <1>3
    <3>2. x[i] = uc[i]
      BY <2>3, <3>1
    <3>. QED
      BY <1>1, <3>1, <3>2
  <2>. QED
    BY <2>3, <2>5, <2>6
<1>6. y \in Seq(Entries) /\ Len(y) = st /\ \A i \in 1..st : y[i] = k[i]
  <2>1. \A i \in 1..st : uk[i] \in Entries
    BY <1>1, <1>2, <1>3, ElementOfSeq
  <2>2. st \in Int /\ 1 \in Int
    BY <1>2, <1>3
  <2>3. /\ y \in Seq(Entries)
        /\ Len(y) = IF 1 <= st THEN st - 1 + 1 ELSE 0
        /\ \A i \in 1..st - 1 + 1 : y[i] = uk[1 + i - 1]
    BY <2>1, <2>2, SubSeqProperties
  <2> HIDE DEF y
  <2>4. st \in Nat /\ st <= Len(uk)
    BY <1>2, <1>3
  <2>5. Len(y) = st
    BY <2>3, <2>4
  <2>6. ASSUME NEW i \in 1..st PROVE y[i] = k[i]
    <3>1. i \in 1..st - 1 + 1 /\ 1 + i - 1 = i /\ i \in 1..Len(uk)
      BY <2>4, <1>3
    <3>2. y[i] = uk[i]
      BY <2>3, <3>1
    <3>. QED
      BY <1>1, <3>1, <3>2
  <2>. QED
    BY <2>3, <2>5, <2>6
<1> HIDE DEF x, y
<1>7. /\ x \o y \in Seq(Entries) /\ Len(x \o y) = ct + st
      /\ \A i \in 1..ct : (x \o y)[i] = c[i]
      /\ \A i \in 1..st : (x \o y)[ct + i] = k[i]
  <2>1. ct \in Nat /\ st \in Nat
    BY <1>2, <1>3
  <2>2. /\ x \o y \in Seq(Entries) /\ Len(x \o y) = ct + st
        /\ \A i \in 1..Len(x) + Len(y) :
              (x \o y)[i] = IF i <= Len(x) THEN x[i] ELSE y[i - Len(x)]
    BY <1>5, <1>6, ConcatProperties
  <2>3. ASSUME NEW i \in 1..ct PROVE (x \o y)[i] = c[i]
    <3>1. i \in 1..Len(x) + Len(y) /\ i <= Len(x)
      BY <1>5, <1>6, <2>1
    <3>. QED
      BY <1>5, <2>2, <3>1
  <2>4. ASSUME NEW i \in 1..st PROVE (x \o y)[ct + i] = k[i]
    <3>1. PICK j : j = ct + i
      OBVIOUS
    <3>2. j \in 1..Len(x) + Len(y) /\ ~(j <= Len(x)) /\ j - Len(x) = i
      BY <1>5, <1>6, <2>1, <3>1
    <3>3. (x \o y)[j] = y[i]
      BY <2>2, <3>2
    <3>. QED
      BY <1>6, <3>1, <3>3
  <2>. QED
    BY <2>2, <2>3, <2>4
<1>8. LimitMarker \in Entries
  BY FindingFacts
<1>9. CASE Truncated(c, k)
  <2>1. m = Append(x \o y, LimitMarker)
    BY <1>4, <1>9
  <2>2. ct + st + 1 = MaxDiagnostics
    BY <1>2, <1>3, <1>9 DEF FindingLimit
  <2>3. /\ m \in Seq(Entries) /\ Len(m) = ct + st + 1
        /\ \A i \in 1..ct + st : m[i] = (x \o y)[i]
        /\ m[ct + st + 1] = LimitMarker
    BY <2>1, <1>7, <1>8, AppendProperties
  <2>a. ct \in Nat /\ st \in Nat
    BY <1>2, <1>3
  <2>4. \A i \in 1..ct : m[i] = c[i]
    <3> TAKE i \in 1..ct
    <3>1. i \in 1..ct + st
      BY <2>a
    <3>. QED
      BY <1>7, <2>3, <3>1
  <2>5. \A i \in 1..st : m[ct + i] = k[i]
    <3> TAKE i \in 1..st
    <3>1. ct + i \in 1..ct + st
      BY <2>a
    <3>. QED
      BY <1>7, <2>3, <3>1
  <2>. QED
    BY <1>9, <2>2, <2>3, <2>4, <2>5 DEF ct, st, m
<1>10. CASE ~Truncated(c, k)
  BY <1>4, <1>7, <1>10 DEF ct, st, m
<1>. QED
  BY <1>9, <1>10

\* The numbers and entries of the merge, in the state that makes it.
LEMMA MergeFrame ==
    ASSUME CollectInv
    PROVE  LET m  == MergeDiagnostics(content, scan)
               ct == MergeCt(content, scan)
               st == MergeSt(content, scan)
               T  == Truncated(content, scan)
           IN  /\ Len(content) \in Nat /\ Len(scan) \in Nat
               /\ ct \in Nat /\ st \in Nat
               /\ \A i \in 1..ct : i \in 1..Len(content) /\ i # MaxDiagnostics
               /\ \A i \in 1..st : i \in 1..Len(scan) /\ i # MaxDiagnostics
               /\ ct + st <= MaxDiagnostics - 1
               /\ T => ct + st = MaxDiagnostics - 1
               /\ m \in Seq(Entries)
               /\ Len(m) = IF T THEN MaxDiagnostics ELSE ct + st
               /\ \A i \in 1..ct : m[i] = content[i]
               /\ \A i \in 1..st : m[ct + i] = scan[i]
               /\ T => m[MaxDiagnostics] = LimitMarker
<1> DEFINE m  == MergeDiagnostics(content, scan)
           ct == MergeCt(content, scan)
           st == MergeSt(content, scan)
           T  == Truncated(content, scan)
<1> USE MaxDiagnosticsAssumption
<1>1. /\ content \in Seq(Entries) /\ scan \in Seq(Entries)
      /\ ListInv(content) /\ ListInv(scan)
  BY DEF CollectInv, TypeOK
<1>2. Len(content) \in Nat /\ Len(scan) \in Nat
  BY <1>1, LenProperties
<1>3. /\ Len(Unmarked(content)) = Smaller(Len(content), FindingLimit)
      /\ Len(Unmarked(scan)) = Smaller(Len(scan), FindingLimit)
  BY <1>1, UnmarkedFacts
<1>4. /\ ct \in 0..Len(Unmarked(content)) /\ st \in 0..Len(Unmarked(scan))
      /\ ct + st <= FindingLimit /\ (T => ct + st = FindingLimit)
  BY <1>1, MergeNumbers
<1>5. /\ ct \in Nat /\ st \in Nat
      /\ ct <= Len(content) /\ st <= Len(scan)
      /\ ct + st <= MaxDiagnostics - 1
      /\ T => ct + st = MaxDiagnostics - 1
  BY <1>2, <1>3, <1>4 DEF Smaller, FindingLimit
<1>6. /\ m \in Seq(Entries)
      /\ Len(m) = IF T THEN MaxDiagnostics ELSE ct + st
      /\ \A i \in 1..ct : m[i] = content[i]
      /\ \A i \in 1..st : m[ct + i] = scan[i]
      /\ T => m[MaxDiagnostics] = LimitMarker
  BY <1>1, MergeEntries
<1> HIDE DEF m, ct, st, T
<1>7. \A i \in 1..ct : i \in 1..Len(content) /\ i # MaxDiagnostics
  BY <1>2, <1>5
<1>8. \A i \in 1..st : i \in 1..Len(scan) /\ i # MaxDiagnostics
  BY <1>2, <1>5
<1>. QED
  BY <1>2, <1>5, <1>6, <1>7, <1>8 DEF m, ct, st, T

\* At the merge every entry of the two lists but the marker is a finding of
\* the list's own parts, so the two have nothing in common.
LEMMA MergeMembers ==
    ASSUME CollectInv
    PROVE  LET m == MergeDiagnostics(content, scan)
               ct == MergeCt(content, scan)
               st == MergeSt(content, scan)
           IN  /\ \A s \in ContentSources, n \in Nat \ {0} :
                     Contains(m, Finding(s, n)) <=>
                        \E i \in 1..ct : content[i] = Finding(s, n)
               /\ \A n \in Nat \ {0} :
                     Contains(m, Finding("scan", n)) <=>
                        \E i \in 1..st : scan[i] = Finding("scan", n)
               /\ \A i \in 1..ct : \E s \in ContentSources : \E n \in Nat \ {0} :
                     content[i] = Finding(s, n)
               /\ \A i \in 1..st : \E n \in Nat \ {0} : scan[i] = Finding("scan", n)
<1> DEFINE m  == MergeDiagnostics(content, scan)
           ct == MergeCt(content, scan)
           st == MergeSt(content, scan)
           T  == Truncated(content, scan)
<1> USE MaxDiagnosticsAssumption
<1>1. /\ content \in Seq(Entries) /\ scan \in Seq(Entries)
      /\ ListInv(content) /\ ListInv(scan)
      /\ Kept(content, ContentSources, raised) /\ Kept(scan, {"scan"}, raised)
      /\ raised \in [Sources -> Nat]
  BY DEF CollectInv, TypeOK
<1>5. /\ Len(content) \in Nat /\ Len(scan) \in Nat
      /\ ct \in Nat /\ st \in Nat
      /\ \A i \in 1..ct : i \in 1..Len(content) /\ i # MaxDiagnostics
      /\ \A i \in 1..st : i \in 1..Len(scan) /\ i # MaxDiagnostics
      /\ ct + st <= MaxDiagnostics - 1
      /\ T => ct + st = MaxDiagnostics - 1
  BY MergeFrame
<1>6. /\ m \in Seq(Entries)
      /\ Len(m) = IF T THEN MaxDiagnostics ELSE ct + st
      /\ \A i \in 1..ct : m[i] = content[i]
      /\ \A i \in 1..st : m[ct + i] = scan[i]
      /\ T => m[MaxDiagnostics] = LimitMarker
  BY MergeFrame
<1> HIDE DEF m, ct, st, T
<1>7. \A i \in 1..ct : \E s \in ContentSources : \E n \in Nat \ {0} :
         content[i] = Finding(s, n)
  <2> TAKE i \in 1..ct
  <2>1. PICK s \in ContentSources, n \in Nat :
           n \in 1..raised[s] /\ content[i] = Finding(s, n)
    <3>1. i \in 1..Len(content) /\ i # MaxDiagnostics
      BY <1>5
    <3>2. PICK s \in ContentSources : \E n \in 1..raised[s] : content[i] = Finding(s, n)
      BY <1>1, <3>1 DEF Kept
    <3>3. raised[s] \in Nat
      BY <1>1 DEF Sources
    <3>. QED
      BY <3>2, <3>3
  <2>. QED
    BY <2>1
<1>8. \A i \in 1..st : \E n \in Nat \ {0} : scan[i] = Finding("scan", n)
  <2> TAKE i \in 1..st
  <2>1. PICK n \in Nat : n \in 1..raised["scan"] /\ scan[i] = Finding("scan", n)
    <3>1. i \in 1..Len(scan) /\ i # MaxDiagnostics
      BY <1>5
    <3>2. \E n \in 1..raised["scan"] : scan[i] = Finding("scan", n)
      BY <1>1, <3>1 DEF Kept
    <3>3. raised["scan"] \in Nat
      BY <1>1 DEF Sources
    <3>. QED
      BY <3>2, <3>3
  <2>. QED
    BY <2>1
<1>9. \A j \in 1..Len(m) :
         \/ j \in 1..ct /\ m[j] = content[j]
         \/ \E i \in 1..st : m[j] = scan[i]
         \/ m[j] = LimitMarker
  <2> TAKE j \in 1..Len(m)
  <2>1. CASE j \in 1..ct
    BY <1>6, <2>1
  <2>2. CASE j > ct /\ j <= ct + st
    <3>1. j - ct \in 1..st /\ ct + (j - ct) = j
      BY <1>5, <2>2
    <3>. QED
      BY <1>6, <3>1
  <2>3. CASE j > ct + st
    BY <1>5, <1>6, <2>3
  <2>. QED
    BY <1>5, <2>1, <2>2, <2>3
<1>10. \A i \in 1..ct : i \in 1..Len(m)
  BY <1>5, <1>6
<1>11. \A i \in 1..st : ct + i \in 1..Len(m)
  BY <1>5, <1>6
<1>12. "scan" \notin ContentSources /\ "scan" \in Sources
       /\ ContentSources \subseteq Sources
  BY DEF ContentSources, ContentErrors, ContentWarnings, Sources
<1>13. ASSUME NEW s \in ContentSources, NEW n \in Nat \ {0}
       PROVE  Contains(m, Finding(s, n)) <=>
                 \E i \in 1..ct : content[i] = Finding(s, n)
  <2>1. ASSUME NEW i \in 1..ct, content[i] = Finding(s, n)
        PROVE  Contains(m, Finding(s, n))
    BY <1>6, <1>10, <2>1 DEF Contains
  <2>2. ASSUME NEW j \in 1..Len(m), m[j] = Finding(s, n)
        PROVE  \E i \in 1..ct : content[i] = Finding(s, n)
    BY <1>8, <1>9, <1>12, <2>2, FindingFacts
  <2>. QED
    BY <2>1, <2>2 DEF Contains
<1>14. ASSUME NEW n \in Nat \ {0}
       PROVE  Contains(m, Finding("scan", n)) <=>
                 \E i \in 1..st : scan[i] = Finding("scan", n)
  <2>1. ASSUME NEW i \in 1..st, scan[i] = Finding("scan", n)
        PROVE  Contains(m, Finding("scan", n))
    BY <1>6, <1>11, <2>1 DEF Contains
  <2>2. ASSUME NEW j \in 1..Len(m), m[j] = Finding("scan", n)
        PROVE  \E i \in 1..st : scan[i] = Finding("scan", n)
    BY <1>7, <1>9, <1>12, <2>2, FindingFacts
  <2>. QED
    BY <2>1, <2>2 DEF Contains
<1>. QED
  BY <1>7, <1>8, <1>13, <1>14 DEF m, ct, st

\* The merged list has the shape of a bounded list.
LEMMA MergeListInv ==
    ASSUME CollectInv
    PROVE  ListInv(MergeDiagnostics(content, scan))
<1> DEFINE m  == MergeDiagnostics(content, scan)
           ct == MergeCt(content, scan)
           st == MergeSt(content, scan)
           T  == Truncated(content, scan)
<1> USE MaxDiagnosticsAssumption
<1>1. /\ content \in Seq(Entries) /\ scan \in Seq(Entries)
      /\ ListInv(content) /\ ListInv(scan)
      /\ Kept(content, ContentSources, raised) /\ Kept(scan, {"scan"}, raised)
      /\ raised \in [Sources -> Nat]
  BY DEF CollectInv, TypeOK
<1>5. /\ Len(content) \in Nat /\ Len(scan) \in Nat
      /\ ct \in Nat /\ st \in Nat
      /\ \A i \in 1..ct : i \in 1..Len(content) /\ i # MaxDiagnostics
      /\ \A i \in 1..st : i \in 1..Len(scan) /\ i # MaxDiagnostics
      /\ ct + st <= MaxDiagnostics - 1
      /\ T => ct + st = MaxDiagnostics - 1
  BY MergeFrame
<1>6. /\ m \in Seq(Entries)
      /\ Len(m) = IF T THEN MaxDiagnostics ELSE ct + st
      /\ \A i \in 1..ct : m[i] = content[i]
      /\ \A i \in 1..st : m[ct + i] = scan[i]
      /\ T => m[MaxDiagnostics] = LimitMarker
  BY MergeFrame
<1>7. /\ \A i \in 1..ct : \E s \in ContentSources : \E n \in Nat \ {0} :
            content[i] = Finding(s, n)
      /\ \A i \in 1..st : \E n \in Nat \ {0} : scan[i] = Finding("scan", n)
  BY MergeMembers
<1> HIDE DEF m, ct, st, T
<1>8. "scan" \notin ContentSources /\ "scan" \in Sources
      /\ ContentSources \subseteq Sources
  BY DEF ContentSources, ContentErrors, ContentWarnings, Sources
<1>9. \A i \in 1..ct : m[i] # LimitMarker
  BY <1>6, <1>7, <1>8, FindingFacts
<1>10. \A i \in 1..st : m[ct + i] # LimitMarker
  BY <1>6, <1>7, <1>8, FindingFacts
<1>11. \A i \in 1..ct, j \in 1..st : m[i] # m[ct + j]
  BY <1>6, <1>7, <1>8, FindingFacts
<1>12. \A i, j \in 1..ct : m[i] = m[j] => i = j
  <2> TAKE i, j \in 1..ct
  <2>1. i \in 1..Len(content) /\ j \in 1..Len(content)
    BY <1>5
  <2>. QED
    BY <1>1, <1>6, <2>1 DEF ListInv
<1>13. \A i, j \in 1..st : m[ct + i] = m[ct + j] => i = j
  <2> TAKE i, j \in 1..st
  <2>1. i \in 1..Len(scan) /\ j \in 1..Len(scan)
    BY <1>5
  <2>. QED
    BY <1>1, <1>6, <2>1 DEF ListInv
<1>14. \A j \in 1..Len(m) :
          \/ j \in 1..ct
          \/ j - ct \in 1..st /\ ct + (j - ct) = j
          \/ j = MaxDiagnostics /\ m[j] = LimitMarker
  BY <1>5, <1>6
<1>15. \A i \in 1..Len(m) : m[i] = LimitMarker <=> i = MaxDiagnostics
  <2> TAKE i \in 1..Len(m)
  <2>1. CASE i \in 1..ct
    BY <1>5, <1>9, <2>1
  <2>2. CASE i - ct \in 1..st /\ ct + (i - ct) = i
    <3>1. m[i] # LimitMarker
      BY <1>10, <2>2
    <3>2. i # MaxDiagnostics
      BY <1>5, <2>2
    <3>. QED
      BY <3>1, <3>2
  <2>. QED
    BY <1>14, <2>1, <2>2
<1>16. \A i, j \in 1..Len(m) : m[i] = m[j] => i = j
  <2> TAKE i, j \in 1..Len(m)
  <2> HAVE m[i] = m[j]
  <2>1. CASE m[i] = LimitMarker
    BY <1>15, <2>1
  <2>2. CASE m[i] # LimitMarker
    <3>1. /\ i \in 1..ct \/ (i - ct \in 1..st /\ ct + (i - ct) = i)
          /\ j \in 1..ct \/ (j - ct \in 1..st /\ ct + (j - ct) = j)
      BY <1>14, <2>2
    <3>2. CASE i \in 1..ct /\ j \in 1..ct
      BY <1>12, <3>2
    <3>3. CASE i - ct \in 1..st /\ j - ct \in 1..st
      <4>1. ct + (i - ct) = i /\ ct + (j - ct) = j
        BY <1>5
      <4>2. m[ct + (i - ct)] = m[ct + (j - ct)]
        BY <4>1
      <4>3. i - ct = j - ct
        BY <1>13, <3>3, <4>2
      <4>. QED
        BY <4>1, <4>3
    <3>. QED
      BY <1>11, <3>1, <3>2, <3>3
  <2>. QED
    BY <2>1, <2>2
<1>. QED
  BY <1>5, <1>6, <1>15, <1>16 DEF ListInv, m

\* The merged list carries the marker exactly when a finding is missing.
LEMMA MergeComplete ==
    ASSUME CollectInv, stage = "merge"
    PROVE  Complete(MergeDiagnostics(content, scan))
<1> DEFINE m  == MergeDiagnostics(content, scan)
           ct == MergeCt(content, scan)
           st == MergeSt(content, scan)
           uc == Unmarked(content)
           uk == Unmarked(scan)
<1> USE MaxDiagnosticsAssumption
<1>1. /\ content \in Seq(Entries) /\ scan \in Seq(Entries)
      /\ ListInv(content) /\ ListInv(scan)
      /\ Kept(content, ContentSources, raised) /\ Kept(scan, {"scan"}, raised)
      /\ raised \in [Sources -> Nat] /\ findings \in [Sources -> Nat]
  BY DEF CollectInv, TypeOK
<1>2. /\ Len(content) \in Nat /\ Len(scan) \in Nat /\ Len(uc) \in Nat /\ Len(uk) \in Nat
      /\ ct \in Nat /\ st \in Nat
      /\ \A i \in 1..ct : i \in 1..Len(content) /\ i # MaxDiagnostics
      /\ \A i \in 1..st : i \in 1..Len(scan) /\ i # MaxDiagnostics
      /\ ct + st <= MaxDiagnostics - 1
  BY <1>1, MergeFrame, UnmarkedFacts, LenProperties
<1>3. /\ Len(uc) = Smaller(Len(content), FindingLimit)
      /\ Len(uk) = Smaller(Len(scan), FindingLimit)
      /\ ct \in 0..Len(uc) /\ st \in 0..Len(uk)
  BY <1>1, UnmarkedFacts, MergeNumbers
<1>4. HasMarker(m) <=> Truncated(content, scan)
  <2>1. /\ Len(m) = IF Truncated(content, scan) THEN MaxDiagnostics ELSE ct + st
        /\ ListInv(m)
        /\ Truncated(content, scan) => m[MaxDiagnostics] = LimitMarker
    BY MergeFrame, MergeListInv
  <2>. HIDE DEF m, ct, st
  <2>. QED
    BY <1>2, <2>1 DEF ListInv, HasMarker, Contains
<1>5. /\ \A s \in ContentSources, n \in Nat \ {0} :
            Contains(m, Finding(s, n)) <=> \E i \in 1..ct : content[i] = Finding(s, n)
      /\ \A n \in Nat \ {0} :
            Contains(m, Finding("scan", n)) <=> \E i \in 1..st : scan[i] = Finding("scan", n)
  BY MergeMembers
<1>6. \A s \in Sources :
         /\ raised[s] <= findings[s] /\ raised[s] \in Nat /\ findings[s] \in Nat
         /\ raised[s] = findings[s] \/ (s # "scan" /\ Len(content) = MaxDiagnostics)
  <2>1. \A s \in Sources : Position[s] < Position[stage]
    BY DEF Position, Sources, ContentSources, ContentErrors, ContentWarnings, Stages
  <2>2. "scan" \notin Passes
    BY DEF Passes
  <2>. QED
    BY <1>1, <2>1, <2>2 DEF CollectInv, ProgressInv
<1> HIDE DEF m, ct, st, uc, uk
<1>7. "scan" \in Sources /\ Sources = ContentSources \cup {"scan"}
  BY DEF Sources
<1>8. ASSUME ~Truncated(content, scan), NEW s \in Sources, NEW n \in 1..findings[s]
      PROVE  Contains(m, Finding(s, n))
  <2>1. Len(content) < MaxDiagnostics /\ Len(scan) < MaxDiagnostics
        /\ ct = Len(content) /\ st = Len(scan)
    <3>1. /\ Len(content) # MaxDiagnostics /\ Len(scan) # MaxDiagnostics
          /\ ~(ct < Len(uc)) /\ ~(st < Len(uk))
      BY <1>8 DEF Truncated, ct, st, uc, uk
    <3>2. Len(content) <= MaxDiagnostics /\ Len(scan) <= MaxDiagnostics
      BY <1>1 DEF ListInv
    <3>. QED
      BY <1>2, <1>3, <3>1, <3>2 DEF Smaller, FindingLimit
  <2>2. n \in 1..raised[s] /\ n \in Nat \ {0}
    BY <1>2, <1>6, <2>1
  <2>3. CASE s \in ContentSources
    <3>1. Contains(content, Finding(s, n))
      BY <1>1, <2>1, <2>2, <2>3 DEF Kept
    <3>. QED
      BY <1>5, <2>1, <2>2, <2>3, <3>1 DEF Contains
  <2>4. CASE s = "scan"
    <3>1. Contains(scan, Finding("scan", n))
      BY <1>1, <2>1, <2>2, <2>4 DEF Kept
    <3>. QED
      BY <1>5, <2>1, <2>2, <2>4, <3>1 DEF Contains
  <2>. QED
    BY <1>7, <2>3, <2>4
<1>9. ASSUME Truncated(content, scan)
      PROVE  \E s \in Sources : \E n \in 1..findings[s] : ~Contains(m, Finding(s, n))
  <2>1. CASE Len(content) = MaxDiagnostics
    <3>1. PICK s \in ContentSources : \E n \in 1..raised[s] : ~Contains(content, Finding(s, n))
      BY <1>1, <2>1 DEF Kept
    <3>2. PICK n \in 1..raised[s] : ~Contains(content, Finding(s, n))
      BY <3>1
    <3>3. n \in 1..findings[s] /\ n \in Nat \ {0}
      BY <1>6, <1>7, <3>2
    <3>4. ~Contains(m, Finding(s, n))
      BY <1>2, <1>5, <3>2, <3>3 DEF Contains
    <3>. QED
      BY <1>7, <3>3, <3>4
  <2>2. CASE Len(scan) = MaxDiagnostics
    <3>1. PICK n \in 1..raised["scan"] : ~Contains(scan, Finding("scan", n))
      BY <1>1, <2>2 DEF Kept
    <3>2. n \in 1..findings["scan"] /\ n \in Nat \ {0}
      BY <1>6, <1>7, <3>1
    <3>3. ~Contains(m, Finding("scan", n))
      BY <1>2, <1>5, <3>1, <3>2 DEF Contains
    <3>. QED
      BY <1>7, <3>2, <3>3
  <2>3. CASE ct < Len(uc)
    <3>1. ct + 1 \in 1..Len(content) /\ ct + 1 # MaxDiagnostics
      BY <1>1, <1>2, <1>3, <2>3 DEF Smaller, FindingLimit
    <3>2. PICK s \in ContentSources : \E n \in 1..raised[s] : content[ct + 1] = Finding(s, n)
      BY <1>1, <3>1 DEF Kept
    <3>3. PICK n \in 1..raised[s] : content[ct + 1] = Finding(s, n)
      BY <3>2
    <3>4. n \in 1..findings[s] /\ n \in Nat \ {0}
      BY <1>6, <1>7, <3>3
    <3>5. \A i \in 1..ct : content[i] # content[ct + 1]
      <4> SUFFICES ASSUME NEW i \in 1..ct, content[i] = content[ct + 1] PROVE FALSE
        OBVIOUS
      <4>1. i \in 1..Len(content) /\ i # ct + 1
        BY <1>2
      <4>. QED
        BY <1>1, <3>1, <4>1 DEF ListInv
    <3>6. ~Contains(m, Finding(s, n))
      BY <1>5, <3>3, <3>4, <3>5
    <3>. QED
      BY <1>7, <3>4, <3>6
  <2>4. CASE st < Len(uk)
    <3>1. st + 1 \in 1..Len(scan) /\ st + 1 # MaxDiagnostics
      BY <1>1, <1>2, <1>3, <2>4 DEF Smaller, FindingLimit
    <3>2. PICK n \in 1..raised["scan"] : scan[st + 1] = Finding("scan", n)
      BY <1>1, <3>1 DEF Kept
    <3>3. n \in 1..findings["scan"] /\ n \in Nat \ {0}
      BY <1>6, <1>7, <3>2
    <3>4. \A i \in 1..st : scan[i] # scan[st + 1]
      <4> SUFFICES ASSUME NEW i \in 1..st, scan[i] = scan[st + 1] PROVE FALSE
        OBVIOUS
      <4>1. i \in 1..Len(scan) /\ i # st + 1
        BY <1>2
      <4>. QED
        BY <1>1, <3>1, <4>1 DEF ListInv
    <3>5. ~Contains(m, Finding("scan", n))
      BY <1>5, <3>2, <3>3, <3>4
    <3>. QED
      BY <1>7, <3>3, <3>5
  <2>. QED
    BY <1>9, <2>1, <2>2, <2>3, <2>4 DEF Truncated, ct, st, uc, uk
<1>. QED
  BY <1>4, <1>8, <1>9 DEF Complete, m

\* A warning survives the merge only if every error does.
LEMMA MergeOutranks ==
    ASSUME CollectInv
    PROVE  Outranks(MergeDiagnostics(content, scan))
<1> DEFINE m  == MergeDiagnostics(content, scan)
           ct == MergeCt(content, scan)
<1>1. /\ content \in Seq(Entries)
      /\ OrderInv(content) /\ Outranks(content)
      /\ findings \in [Sources -> Nat]
  BY DEF CollectInv, TypeOK
<1>2. /\ Len(content) \in Nat /\ ct \in Nat
      /\ \A i \in 1..ct : i \in 1..Len(content)
  BY MergeFrame
<1>3. \A s \in ContentSources, n \in Nat \ {0} :
         Contains(m, Finding(s, n)) <=> \E i \in 1..ct : content[i] = Finding(s, n)
  BY MergeMembers
<1> HIDE DEF m, ct
<1>4. /\ ContentErrors \subseteq ContentSources /\ ContentWarnings \subseteq ContentSources
      /\ ContentSources \subseteq Sources /\ ContentErrors \cap ContentWarnings = {}
  BY DEF ContentSources, ContentErrors, ContentWarnings, Sources
<1>5. SUFFICES ASSUME NEW w \in ContentWarnings, NEW k \in 1..findings[w],
                      Contains(m, Finding(w, k)),
                      NEW s \in ContentErrors, NEW n \in 1..findings[s]
               PROVE  Contains(m, Finding(s, n))
  BY DEF Outranks, m
<1>6. k \in Nat \ {0} /\ n \in Nat \ {0}
  BY <1>1, <1>4
<1>7. PICK i \in 1..ct : content[i] = Finding(w, k)
  BY <1>3, <1>4, <1>5, <1>6
<1>8. Contains(content, Finding(w, k))
  BY <1>2, <1>7 DEF Contains
<1>9. PICK j \in 1..Len(content) : content[j] = Finding(s, n)
  BY <1>1, <1>8 DEF Outranks, Contains
<1>10. IsError(content[j]) /\ ~IsError(content[i])
  BY <1>4, <1>6, <1>7, <1>9, FindingFacts
<1>11. ~(i < j)
  BY <1>1, <1>2, <1>10 DEF OrderInv
<1>12. j \in 1..ct
  BY <1>2, <1>11
<1>. QED
  BY <1>3, <1>4, <1>6, <1>9, <1>12

\* Every entry of the merged list is a finding of the repository.
LEMMA MergeSound ==
    ASSUME CollectInv
    PROVE  Sound(MergeDiagnostics(content, scan))
<1> DEFINE m  == MergeDiagnostics(content, scan)
           ct == MergeCt(content, scan)
           st == MergeSt(content, scan)
<1>1. /\ Kept(content, ContentSources, raised) /\ Kept(scan, {"scan"}, raised)
      /\ raised \in [Sources -> Nat] /\ findings \in [Sources -> Nat]
      /\ \A s \in Sources : raised[s] <= findings[s]
      /\ "scan" \in Sources /\ ContentSources \subseteq Sources
  BY DEF CollectInv, TypeOK, ProgressInv, Sources
<1>2. /\ ct \in Nat /\ st \in Nat
      /\ \A i \in 1..ct : i \in 1..Len(content) /\ i # MaxDiagnostics
      /\ \A i \in 1..st : i \in 1..Len(scan) /\ i # MaxDiagnostics
      /\ Len(m) = IF Truncated(content, scan) THEN MaxDiagnostics ELSE ct + st
      /\ Truncated(content, scan) => ct + st = MaxDiagnostics - 1
      /\ \A i \in 1..ct : m[i] = content[i]
      /\ \A i \in 1..st : m[ct + i] = scan[i]
      /\ ListInv(m)
  BY MergeFrame, MergeListInv
<1> HIDE DEF m, ct, st
<1> SUFFICES ASSUME NEW i \in 1..Len(m), m[i] # LimitMarker
             PROVE  \E s \in Sources : \E n \in 1..findings[s] : m[i] = Finding(s, n)
  BY DEF Sound, m
<1>3. i # MaxDiagnostics
  BY <1>2 DEF ListInv
<1>4. i \in 1..ct \/ (i - ct \in 1..st /\ ct + (i - ct) = i)
  BY <1>2, <1>3, MaxDiagnosticsAssumption
<1>5. CASE i \in 1..ct
  <2>1. i \in 1..Len(content) /\ m[i] = content[i]
    BY <1>2, <1>5
  <2>2. PICK s \in ContentSources : \E n \in 1..raised[s] : content[i] = Finding(s, n)
    BY <1>1, <1>3, <2>1 DEF Kept
  <2>. QED
    BY <1>1, <2>1, <2>2
<1>6. CASE i - ct \in 1..st /\ ct + (i - ct) = i
  <2>1. i - ct \in 1..Len(scan) /\ i - ct # MaxDiagnostics
    BY <1>2, <1>6
  <2>2. m[i] = scan[i - ct]
    BY <1>2, <1>6
  <2>3. PICK n \in 1..raised["scan"] : scan[i - ct] = Finding("scan", n)
    BY <1>1, <2>1 DEF Kept
  <2>. QED
    BY <1>1, <2>2, <2>3
<1>. QED
  BY <1>4, <1>5, <1>6

-----------------------------------------------------------------------------

(***************************************************************************)
(* The invariant holds initially and every action preserves it.            *)
(***************************************************************************)
LEMMA InitInv == Init => IInv
<1> SUFFICES ASSUME Init PROVE IInv
  OBVIOUS
<1> USE MaxDiagnosticsAssumption, CountsAssumption
<1>1. TypeOK
  <2>1. findings \in [Sources -> Nat] /\ raised \in [Sources -> Nat]
    BY DEF Init
  <2>2. stage \in Stages
    BY DEF Init, Stages, Sources
  <2>3. scan \in Seq(Entries) /\ content \in Seq(Entries) /\ result \in Seq(Entries)
    BY EmptySeq DEF Init
  <2>. QED
    BY <2>1, <2>2, <2>3 DEF Init, TypeOK
<1>2. Len(scan) = 0 /\ Len(content) = 0 /\ Len(result) = 0
  BY EmptySeq DEF Init
<1>3. \A s \in Sources : raised[s] = 0 /\ findings[s] \in Nat
  BY <1>1 DEF Init, TypeOK
<1>4. ListInv(scan) /\ ListInv(content) /\ OrderInv(content)
  BY <1>2 DEF ListInv, OrderInv
<1>5. Kept(scan, {"scan"}, raised) /\ Kept(content, ContentSources, raised)
  BY <1>2, <1>3 DEF Kept, Sources
<1>6. ProgressInv
  BY <1>3 DEF ProgressInv, Init, Position, Stages, Sources, ContentSources,
              ContentErrors, ContentWarnings
<1>7. Outranks(content)
  BY <1>2 DEF Outranks, Contains
<1>8. ResultInv
  BY <1>2 DEF ResultInv, Init
<1>. QED
  BY <1>1, <1>4, <1>5, <1>6, <1>7, <1>8 DEF IInv, CollectInv

\* Where a part stands among the stages.
LEMMA StageFacts ==
    /\ \A s \in Sources : s \in Stages /\ NextStage[s] \in Stages
    /\ \A s \in Sources : Position[NextStage[s]] = Position[s] + 1
    /\ \A s \in Sources : NextStage[s] \notin {"manifest", "done"}
    /\ \A s \in Stages : Position[s] \in Nat
    /\ \A s, t \in Stages : Position[s] = Position[t] => s = t
    /\ \A s \in Sources : s \notin {"merge", "manifest", "done"}
    /\ \A s \in ContentErrors, t \in ContentSources :
          Position[t] <= Position[s] => t \in ContentErrors
    /\ \A s \in ContentErrors, w \in ContentWarnings : Position[s] < Position[w]
    /\ Passes \subseteq ContentSources
    /\ ContentSources \subseteq Sources /\ "scan" \in Sources
    /\ "scan" \notin ContentSources
    /\ ContentSources = ContentErrors \cup ContentWarnings
    /\ ContentErrors \cap ContentWarnings = {}
BY DEF Position, NextStage, Stages, Sources, ContentSources, ContentErrors,
       ContentWarnings, Passes

\* Kept reads the counts of the list's own parts only.
LEMMA KeptFrame ==
    ASSUME NEW list, NEW S, NEW r, NEW r2, \A t \in S : r2[t] = r[t],
           Kept(list, S, r)
    PROVE  Kept(list, S, r2)
BY DEF Kept

LEMMA ReportScanInv ==
    ASSUME IInv, Report("scan")
    PROVE  IInv'
<1> DEFINE f == Finding("scan", raised["scan"] + 1)
<1> USE MaxDiagnosticsAssumption
<1>1. /\ TypeOK /\ ListInv(scan) /\ Kept(scan, {"scan"}, raised)
      /\ Kept(content, ContentSources, raised) /\ ProgressInv /\ ResultInv
      /\ ListInv(content) /\ OrderInv(content) /\ Outranks(content)
  BY DEF IInv, CollectInv
<1>2. /\ stage = "scan" /\ raised["scan"] < findings["scan"]
      /\ raised' = [raised EXCEPT !["scan"] = @ + 1]
      /\ scan' = PushBounded(scan, f)
      /\ UNCHANGED <<content, stage, findings, result, sensitive>>
  BY DEF Report
<1>3. /\ raised \in [Sources -> Nat] /\ findings \in [Sources -> Nat]
      /\ scan \in Seq(Entries)
  BY <1>1 DEF TypeOK
<1>4. f \in Entries
  BY <1>3, StageFacts, FindingFacts
<1>5. TypeOK'
  <2>1. scan' \in Seq(Entries)
    BY <1>2, <1>3, <1>4, PushCases
  <2>2. raised' \in [Sources -> Nat]
    BY <1>2, <1>3, StageFacts
  <2>. QED
    BY <1>1, <1>2, <2>1, <2>2 DEF TypeOK
<1>6. ListInv(scan') /\ Kept(scan', {"scan"}, raised')
  BY <1>1, <1>2, <1>3, StageFacts, PushKeeps
<1>7. Kept(content', ContentSources, raised')
  <2>1. \A t \in ContentSources : raised'[t] = raised[t]
    BY <1>2, <1>3, StageFacts
  <2>. QED
    BY <1>1, <1>2, <2>1, KeptFrame
<1>8. ProgressInv'
  <2> SUFFICES ASSUME NEW t \in Sources
               PROVE  /\ raised'[t] <= findings[t]
                      /\ Position[stage] < Position[t] => raised'[t] = 0
                      /\ Position[t] < Position[stage] =>
                            \/ raised'[t] = findings[t]
                            \/ t \in Passes /\ Len(content) = MaxDiagnostics
    BY <1>2 DEF ProgressInv
  <2>1. CASE t = "scan"
    BY <1>2, <1>3, <2>1, StageFacts
  <2>2. CASE t # "scan"
    BY <1>1, <1>2, <1>3, <2>2, StageFacts DEF ProgressInv
  <2>. QED
    BY <2>1, <2>2
<1>9. ListInv(content') /\ OrderInv(content') /\ Outranks(content)'
  BY <1>1, <1>2 DEF Outranks, Contains, ListInv, OrderInv
<1>10. ResultInv'
  BY <1>1, <1>2 DEF ResultInv, Sound, Outranks, Complete, HasMarker, Contains, ListInv
<1>. QED
  BY <1>5, <1>6, <1>7, <1>8, <1>9, <1>10 DEF IInv, CollectInv, ListInv, Kept, OrderInv, Contains

\* A content part reports.  An error is only ever pushed while nothing but
\* errors was, and a warning only once every error part is complete.
LEMMA ReportContentInv ==
    ASSUME IInv, NEW s \in ContentSources, Report(s)
    PROVE  IInv'
<1> DEFINE f == Finding(s, raised[s] + 1)
<1> USE MaxDiagnosticsAssumption
<1>1. /\ TypeOK /\ ListInv(scan) /\ Kept(scan, {"scan"}, raised)
      /\ Kept(content, ContentSources, raised) /\ ProgressInv /\ ResultInv
      /\ ListInv(content) /\ OrderInv(content) /\ Outranks(content)
  BY DEF IInv, CollectInv
<1>2. s # "scan" /\ s \in Sources /\ s \in Stages
  BY StageFacts
<1>3. /\ stage = s /\ raised[s] < findings[s]
      /\ raised' = [raised EXCEPT ![s] = @ + 1]
      /\ content' = PushBounded(content, f)
      /\ UNCHANGED <<scan, stage, findings, result, sensitive>>
  BY <1>2 DEF Report
<1>4. /\ raised \in [Sources -> Nat] /\ findings \in [Sources -> Nat]
      /\ content \in Seq(Entries)
  BY <1>1 DEF TypeOK
<1>5. f \in Entries /\ f # LimitMarker /\ (IsError(f) <=> s \in ContentErrors)
  BY <1>2, <1>4, FindingFacts
<1>6. /\ content' \in Seq(Entries)
      /\ Len(content) < MaxDiagnostics - 1 =>
            Len(content') = Len(content) + 1 /\ content'[Len(content')] = f
      /\ Len(content) = MaxDiagnostics - 1 =>
            Len(content') = MaxDiagnostics /\ content'[Len(content')] = LimitMarker
      /\ Len(content) >= MaxDiagnostics => content' = content
      /\ \A i \in 1..Len(content) : content'[i] = content[i]
      /\ Len(content) \in Nat /\ Len(content') \in Nat
      /\ Len(content) <= MaxDiagnostics
  <2> DEFINE new == PushBounded(content, f)
  <2>1. /\ new \in Seq(Entries)
        /\ Len(content) < MaxDiagnostics - 1 =>
              Len(new) = Len(content) + 1 /\ new[Len(new)] = f
        /\ Len(content) = MaxDiagnostics - 1 =>
              Len(new) = MaxDiagnostics /\ new[Len(new)] = LimitMarker
        /\ Len(content) >= MaxDiagnostics => new = content
        /\ \A i \in 1..Len(content) : new[i] = content[i]
    BY <1>4, <1>5, PushCases
  <2> HIDE DEF new
  <2>2. content' = new
    BY <1>3 DEF new
  <2>3. Len(content) \in Nat /\ Len(new) \in Nat /\ Len(content) <= MaxDiagnostics
    BY <1>1, <1>4, <2>1, LenProperties DEF ListInv
  <2>. QED
    BY <2>1, <2>2, <2>3
<1>7. TypeOK'
  <2>1. raised' \in [Sources -> Nat]
    BY <1>2, <1>3, <1>4
  <2>. QED
    BY <1>1, <1>3, <1>6, <2>1 DEF TypeOK
<1>8. ListInv(content') /\ Kept(content', ContentSources, raised')
  <2>1. ContentSources \in SUBSET Sources
    BY StageFacts
  <2>. QED
    BY <1>1, <1>3, <1>4, <2>1, PushKeeps
<1>9. Kept(scan', {"scan"}, raised')
  <2>1. \A t \in {"scan"} : raised'[t] = raised[t]
    BY <1>2, <1>3, <1>4, StageFacts
  <2>2. Kept(scan, {"scan"}, raised')
    BY <1>1, <2>1, KeptFrame
  <2>. QED
    BY <1>3, <2>2
<1>10. ProgressInv'
  <2> SUFFICES ASSUME NEW t \in Sources
               PROVE  /\ raised'[t] <= findings[t]
                      /\ Position[stage] < Position[t] => raised'[t] = 0
                      /\ Position[t] < Position[stage] =>
                            \/ raised'[t] = findings[t]
                            \/ t \in Passes /\ Len(content') = MaxDiagnostics
    BY <1>3 DEF ProgressInv
  <2>1. CASE t = s
    BY <1>2, <1>3, <1>4, <2>1, StageFacts
  <2>2. CASE t # s
    BY <1>1, <1>3, <1>4, <1>6, <2>2, StageFacts DEF ProgressInv
  <2>. QED
    BY <2>1, <2>2
<1>11. \A i \in 1..Len(content) : i # MaxDiagnostics =>
          \E t \in ContentSources : \E n \in 1..raised[t] :
             content[i] = Finding(t, n) /\ Position[t] <= Position[s]
  <2> TAKE i \in 1..Len(content)
  <2> HAVE i # MaxDiagnostics
  <2>1. PICK t \in ContentSources, n \in Nat : n \in 1..raised[t] /\ content[i] = Finding(t, n)
    BY <1>1 DEF Kept
  <2>2. t \in Sources /\ raised[t] \in Nat /\ raised[t] # 0
    BY <1>4, <2>1, StageFacts
  <2>3. ~(Position[s] < Position[t])
    BY <1>1, <1>3, <2>2 DEF ProgressInv
  <2>4. Position[s] \in Nat /\ Position[t] \in Nat
    BY <1>2, <2>2, StageFacts
  <2>. QED
    BY <2>1, <2>3, <2>4
<1>12. OrderInv(content')
  <2> SUFFICES ASSUME NEW i \in 1..Len(content'), NEW j \in 1..Len(content'),
                      i < j, IsError(content'[j])
               PROVE  IsError(content'[i])
    BY DEF OrderInv
  <2>1. i \in 1..Len(content)
    BY <1>6
  <2>2. CASE j \in 1..Len(content)
    BY <1>1, <1>6, <2>1, <2>2 DEF OrderInv
  <2>3. CASE j \notin 1..Len(content)
    <3>1. j = Len(content') /\ Len(content) # MaxDiagnostics /\ i # MaxDiagnostics
      BY <1>6, <2>1, <2>3
    <3>2. content'[j] = f /\ s \in ContentErrors
      BY <1>5, <1>6, <3>1, FindingFacts
    <3>3. PICK t \in ContentSources, n \in Nat :
             n \in 1..raised[t] /\ content[i] = Finding(t, n) /\ Position[t] <= Position[s]
      BY <1>11, <2>1, <3>1
    <3>4. t \in ContentErrors /\ t \in Sources /\ n \in Nat \ {0}
      BY <3>2, <3>3, StageFacts
    <3>. QED
      BY <1>6, <2>1, <3>3, <3>4, FindingFacts
  <2>. QED
    BY <2>2, <2>3
<1>13. Outranks(content)'
  <2> SUFFICES ASSUME NEW w \in ContentWarnings, NEW k \in 1..findings[w],
                      Contains(content', Finding(w, k)),
                      NEW e \in ContentErrors, NEW n \in 1..findings[e]
               PROVE  Contains(content', Finding(e, n))
    BY <1>3 DEF Outranks
  <2>1. /\ w \in Sources /\ e \in Sources /\ k \in Nat \ {0} /\ n \in Nat \ {0}
        /\ e \in ContentSources
    BY <1>4, StageFacts
  <2>2. CASE Contains(content, Finding(w, k))
    <3>1. Contains(content, Finding(e, n))
      BY <1>1, <2>2 DEF Outranks
    <3>. QED
      BY <1>6, <3>1 DEF Contains
  <2>3. CASE ~Contains(content, Finding(w, k))
    <3>1. PICK i \in 1..Len(content') : content'[i] = Finding(w, k)
      BY DEF Contains
    <3>2. i \notin 1..Len(content)
      BY <1>6, <2>3, <3>1 DEF Contains
    <3>3. i = Len(content') /\ Len(content) < MaxDiagnostics - 1 /\ f = Finding(w, k)
      BY <1>6, <2>1, <3>1, <3>2, FindingFacts
    <3>4. s = w
      BY <3>3, FindingFacts
    <3>5. raised[e] = findings[e]
      <4>1. Position[e] < Position[stage]
        BY <1>3, <3>4, StageFacts
      <4>. QED
        BY <1>1, <1>6, <2>1, <3>3, <4>1 DEF ProgressInv
    <3>6. Contains(content, Finding(e, n))
      BY <1>1, <1>6, <2>1, <3>3, <3>5 DEF Kept
    <3>. QED
      BY <1>6, <3>6 DEF Contains
  <2>. QED
    BY <2>2, <2>3
<1>14. ResultInv'
  BY <1>1, <1>3 DEF ResultInv, Sound, Outranks, Complete, HasMarker, Contains, ListInv
<1>. QED
  BY <1>1, <1>3, <1>7, <1>8, <1>9, <1>10, <1>12, <1>13, <1>14
     DEF IInv, CollectInv, ListInv, Kept, OrderInv, Contains

\* A part that ends, or stops on a full list, leaves everything but the stage.
LEMMA AdvanceInv ==
    ASSUME IInv, NEW s \in Sources, Finish(s) \/ Stop(s)
    PROVE  IInv'
<1>1. /\ TypeOK /\ ListInv(scan) /\ Kept(scan, {"scan"}, raised)
      /\ Kept(content, ContentSources, raised) /\ ProgressInv /\ ResultInv
      /\ ListInv(content) /\ OrderInv(content) /\ Outranks(content)
  BY DEF IInv, CollectInv
<1>2. /\ stage = s /\ stage' = NextStage[s]
      /\ UNCHANGED <<findings, raised, scan, content, result, sensitive>>
      /\ raised[s] = findings[s] \/ (s \in Passes /\ Len(content) >= MaxDiagnostics)
  BY DEF Finish, Stop, LimitReached
<1>3. Len(content) <= MaxDiagnostics /\ Len(content) \in Nat
  BY <1>1, LenProperties DEF ListInv, TypeOK
<1>4. TypeOK'
  BY <1>1, <1>2, StageFacts DEF TypeOK
<1>5. ProgressInv'
  <2> SUFFICES ASSUME NEW t \in Sources
               PROVE  /\ raised[t] <= findings[t]
                      /\ Position[stage'] < Position[t] => raised[t] = 0
                      /\ Position[t] < Position[stage'] =>
                            \/ raised[t] = findings[t]
                            \/ t \in Passes /\ Len(content) = MaxDiagnostics
    BY <1>2 DEF ProgressInv
  <2>1. Position[stage'] = Position[s] + 1 /\ Position[s] \in Nat /\ Position[t] \in Nat
    BY <1>2, StageFacts
  <2>2. CASE t = s
    BY <1>1, <1>2, <1>3, <2>1, <2>2, MaxDiagnosticsAssumption DEF ProgressInv
  <2>3. CASE t # s
    <3>1. Position[t] # Position[s]
      BY <2>3, StageFacts
    <3>. QED
      BY <1>1, <1>2, <2>1, <3>1 DEF ProgressInv
  <2>. QED
    BY <2>2, <2>3
<1>6. ResultInv'
  <2>1. stage \notin {"manifest", "done"} /\ stage' \notin {"manifest", "done"}
    BY <1>2, StageFacts
  <2>. QED
    BY <1>1, <1>2, <2>1 DEF ResultInv
<1>. QED
  BY <1>1, <1>2, <1>4, <1>5, <1>6
     DEF IInv, CollectInv, ListInv, Kept, OrderInv, Outranks, Contains

\* After the parts, only the stage and the result change.
LEMMA CollectFrame ==
    ASSUME CollectInv, UNCHANGED <<findings, raised, scan, content, sensitive>>,
           result' \in Seq(Entries), stage' \in Stages,
           \A t \in Sources : Position[t] < Position[stage] /\ Position[t] < Position[stage']
    PROVE  CollectInv'
<1>1. TypeOK'
  BY DEF CollectInv, TypeOK
<1>2. \A t \in Sources : Position[t] \in Nat /\ Position[stage] \in Nat /\ Position[stage'] \in Nat
  BY StageFacts DEF CollectInv, TypeOK
<1>3. ProgressInv'
  BY <1>2 DEF CollectInv, ProgressInv
<1>. QED
  BY <1>1, <1>3 DEF CollectInv, ListInv, Kept, OrderInv, Outranks, Contains

LEMMA LatePositions ==
    \A t \in Sources : /\ Position[t] < Position["merge"]
                       /\ Position[t] < Position["manifest"]
                       /\ Position[t] < Position["done"]
<1>1. Position["merge"] = 7 /\ Position["manifest"] = 8 /\ Position["done"] = 9
  BY DEF Position, Stages
<1>2. \A t \in Sources : Position[t] \in 1..6
  BY DEF Position, Stages, Sources, ContentSources, ContentErrors, ContentWarnings
<1>. QED
  BY <1>1, <1>2

LEMMA MergeInv ==
    ASSUME IInv, Merge
    PROVE  IInv'
<1> DEFINE m == MergeDiagnostics(content, scan)
<1>1. CollectInv /\ stage = "merge" /\ stage' = "manifest" /\ result' = m
      /\ UNCHANGED <<findings, raised, scan, content, sensitive>>
  BY DEF IInv, Merge
<1>2. ListInv(m) /\ m \in Seq(Entries)
  BY <1>1, MergeFrame, MergeListInv
<1>3. Complete(m) /\ Outranks(m) /\ Sound(m)
  BY <1>1, MergeComplete, MergeOutranks, MergeSound
<1> HIDE DEF m
<1>4. CollectInv'
  BY <1>1, <1>2, LatePositions, CollectFrame DEF Stages
<1>5. ResultInv'
  BY <1>1, <1>2, <1>3 DEF ResultInv, ListInv, Complete, Outranks, Sound, HasMarker, Contains
<1>. QED
  BY <1>4, <1>5 DEF IInv

LEMMA ManifestPlainInv ==
    ASSUME IInv, ManifestPlain
    PROVE  IInv'
<1>1. /\ CollectInv /\ ResultInv /\ result \in Seq(Entries)
      /\ stage = "manifest" /\ stage' = "done" /\ ~sensitive
      /\ UNCHANGED <<findings, raised, scan, content, result, sensitive>>
  BY DEF IInv, ManifestPlain, CollectInv, TypeOK
<1>2. CollectInv'
  BY <1>1, LatePositions, CollectFrame DEF Stages
<1>3. ResultInv'
  BY <1>1 DEF ResultInv, Complete, HasMarker, Contains
<1>. QED
  BY <1>2, <1>3 DEF IInv

LEMMA ManifestFitsInv ==
    ASSUME IInv, ManifestIdentityFits
    PROVE  IInv'
<1> USE MaxDiagnosticsAssumption
<1>1. /\ CollectInv /\ ResultInv /\ result \in Seq(Entries)
      /\ stage = "manifest" /\ stage' = "done"
      /\ Len(result) < MaxDiagnostics - 1
      /\ result' = PushBounded(result, Identity)
      /\ UNCHANGED <<findings, raised, scan, content, sensitive>>
  BY DEF IInv, ManifestIdentityFits, CollectInv, TypeOK
<1>2. ListInv(result) /\ Complete(result) /\ Len(result) \in Nat
  BY <1>1, LenProperties DEF ResultInv
<1>3. /\ result' \in Seq(Entries)
      /\ Len(result') = Len(result) + 1 /\ result'[Len(result')] = Identity
      /\ \A i \in 1..Len(result) : result'[i] = result[i]
  <2> DEFINE new == PushBounded(result, Identity)
  <2>1. /\ new \in Seq(Entries)
        /\ Len(result) < MaxDiagnostics - 1 =>
              Len(new) = Len(result) + 1 /\ new[Len(new)] = Identity
        /\ \A i \in 1..Len(result) : new[i] = result[i]
    BY <1>1, FindingFacts, PushCases
  <2> HIDE DEF new
  <2>2. result' = new
    BY <1>1 DEF new
  <2>. QED
    BY <1>1, <2>1, <2>2
<1>4. CollectInv'
  BY <1>1, <1>3, LatePositions, CollectFrame DEF Stages
<1>5. ~HasMarker(result) /\ ~HasMarker(result')
  <2>1. \A i \in 1..Len(result) : result[i] # LimitMarker
    BY <1>1, <1>2 DEF ListInv
  <2>2. \A i \in 1..Len(result') : i \in 1..Len(result) \/ i = Len(result')
    BY <1>2, <1>3
  <2>. QED
    BY <1>3, <2>1, <2>2, FindingFacts DEF HasMarker, Contains
<1>6. \A s \in Sources : \A n \in 1..findings[s] : Contains(result', Finding(s, n))
  BY <1>2, <1>3, <1>5 DEF Complete, Contains
<1>7. ResultInv'
  <2>1. Complete(result)'
    BY <1>1, <1>5, <1>6 DEF Complete, HasMarker, Contains
  <2>2. Contains(result', Identity)
    BY <1>2, <1>3 DEF Contains
  <2>3. Len(result') <= MaxDiagnostics
    BY <1>1, <1>2, <1>3
  <2>. QED
    BY <1>1, <2>1, <2>2, <2>3 DEF ResultInv, Contains
<1>. QED
  BY <1>4, <1>7 DEF IInv

\* The finding that makes room is itself omitted afterwards, and the marker
\* stays in the last slot, so the marker is right whatever was there before.
LEMMA ManifestReplacesInv ==
    ASSUME IInv, ManifestIdentityReplaces
    PROVE  IInv'
<1> DEFINE pushed == PushBounded(result, Identity)
<1> USE MaxDiagnosticsAssumption
<1>1. /\ CollectInv /\ ResultInv /\ result \in Seq(Entries)
      /\ stage = "manifest" /\ stage' = "done"
      /\ Len(result) >= MaxDiagnostics - 1
      /\ UNCHANGED <<findings, raised, scan, content, sensitive>>
      /\ findings \in [Sources -> Nat]
  BY DEF IInv, ManifestIdentityReplaces, CollectInv, TypeOK
<1>2. /\ ListInv(result) /\ Sound(result)
      /\ Len(result) \in Nat /\ Len(result) <= MaxDiagnostics
  BY <1>1, LenProperties DEF ResultInv, ListInv
<1>3. PICK i \in LastInOrder(pushed) : result' = [pushed EXCEPT ![i] = Identity]
  BY DEF ManifestIdentityReplaces
<1>4. /\ pushed \in Seq(Entries) /\ Len(pushed) = MaxDiagnostics
      /\ pushed[MaxDiagnostics] = LimitMarker
      /\ \A j \in 1..Len(result) : pushed[j] = result[j]
      /\ Len(result) = MaxDiagnostics - 1 \/ Len(result) = MaxDiagnostics
  <2>1. /\ pushed \in Seq(Entries)
        /\ Len(result) = MaxDiagnostics - 1 =>
              Len(pushed) = MaxDiagnostics /\ pushed[Len(pushed)] = LimitMarker
        /\ Len(result) >= MaxDiagnostics => pushed = result
        /\ \A j \in 1..Len(result) : pushed[j] = result[j]
    BY <1>1, FindingFacts, PushCases
  <2>2. CASE Len(result) = MaxDiagnostics - 1
    BY <2>1, <2>2
  <2>3. CASE Len(result) = MaxDiagnostics
    BY <1>2, <2>1, <2>3 DEF ListInv
  <2>. QED
    BY <1>1, <1>2, <2>2, <2>3
<1>5. i \in 1..Len(pushed) /\ pushed[i] # LimitMarker
  BY <1>3 DEF LastInOrder
<1> HIDE DEF pushed
<1>6. i # MaxDiagnostics /\ i \in 1..Len(result) /\ i \in 1..MaxDiagnostics
  BY <1>2, <1>4, <1>5
<1>7. /\ result' \in Seq(Entries) /\ Len(result') = MaxDiagnostics
      /\ result'[i] = Identity
      /\ \A j \in 1..MaxDiagnostics : j # i => result'[j] = pushed[j]
  BY <1>3, <1>4, <1>6, FindingFacts, ExceptSeq
<1>8. CollectInv'
  BY <1>1, <1>7, LatePositions, CollectFrame DEF Stages
<1>9. HasMarker(result')
  BY <1>4, <1>6, <1>7 DEF HasMarker, Contains
<1>10. PICK s \in Sources : \E n \in 1..findings[s] : result[i] = Finding(s, n)
  BY <1>2, <1>4, <1>5, <1>6 DEF Sound
<1>11. PICK n \in 1..findings[s] : result[i] = Finding(s, n)
  BY <1>10
<1>12. n \in Nat \ {0}
  BY <1>1, <1>10, <1>11
<1>13. ~Contains(result', Finding(s, n))
  <2> SUFFICES ASSUME NEW j \in 1..MaxDiagnostics, result'[j] = Finding(s, n)
               PROVE  FALSE
    BY <1>7 DEF Contains
  <2>1. CASE j = i
    BY <1>7, <1>12, <2>1, FindingFacts
  <2>2. CASE j = MaxDiagnostics
    BY <1>4, <1>6, <1>7, <1>12, <2>2, FindingFacts
  <2>3. CASE j # i /\ j # MaxDiagnostics
    <3>1. j \in 1..Len(result)
      BY <1>4, <2>3
    <3>2. result[j] = result[i]
      BY <1>4, <1>7, <1>11, <2>3, <3>1
    <3>. QED
      BY <1>2, <1>6, <2>3, <3>1, <3>2 DEF ListInv
  <2>. QED
    BY <2>1, <2>2, <2>3
<1>14. ResultInv'
  <2>1. Complete(result)'
    BY <1>1, <1>9, <1>10, <1>11, <1>13 DEF Complete, HasMarker, Contains
  <2>2. Contains(result', Identity)
    BY <1>6, <1>7 DEF Contains
  <2>. QED
    BY <1>1, <1>7, <2>1, <2>2 DEF ResultInv, Contains
<1>. QED
  BY <1>8, <1>14 DEF IInv

LEMMA NextInv == IInv /\ [Next]_vars => IInv'
<1> SUFFICES ASSUME IInv, [Next]_vars PROVE IInv'
  OBVIOUS
<1>1. ASSUME NEW s \in Sources, Report(s) PROVE IInv'
  <2>1. CASE s = "scan"
    <3>1. Report("scan")
      BY <1>1, <2>1
    <3>. QED
      BY <3>1, ReportScanInv
  <2>2. CASE s \in ContentSources
    <3> HIDE DEF IInv, Report
    <3>. QED
      BY <1>1, <2>2, ReportContentInv
  <2>. QED
    BY <2>1, <2>2 DEF Sources
<1>2. ASSUME NEW s \in Sources, Finish(s) \/ Stop(s) PROVE IInv'
  BY <1>2, AdvanceInv
<1>3. CASE Merge
  BY <1>3, MergeInv
<1>4. CASE ManifestPlain
  BY <1>4, ManifestPlainInv
<1>5. CASE ManifestIdentityFits
  BY <1>5, ManifestFitsInv
<1>6. CASE ManifestIdentityReplaces
  BY <1>6, ManifestReplacesInv
<1>7. CASE UNCHANGED vars
  <2>1. UNCHANGED <<stage, findings, raised, scan, content, result, sensitive>>
    BY <1>7 DEF vars
  <2>2. CollectInv'
    BY <2>1 DEF IInv, CollectInv, TypeOK, ListInv, Kept, ProgressInv, OrderInv,
                Outranks, Contains
  <2>3. ResultInv'
    BY <2>1 DEF IInv, ResultInv, ListInv, Outranks, Sound, Complete, HasMarker, Contains
  <2>. QED
    BY <2>2, <2>3 DEF IInv
<1>. QED
  BY <1>1, <1>2, <1>3, <1>4, <1>5, <1>6, <1>7 DEF Next, Delivered

LEMMA Invariance == Spec => []IInv
BY InitInv, NextInv, PTL DEF Spec

-----------------------------------------------------------------------------

\* Type correctness, whatever the limit and whatever the parts report.
THEOREM TypeCorrect == Spec => []TypeOK
<1>1. IInv => TypeOK
  BY DEF IInv, CollectInv
<1>. QED
  BY <1>1, Invariance, PTL

\* No list outgrows MAX_REPOSITORY_DIAGNOSTICS, in validation, in the merge
\* of `diagnostics` or in the manifest's own push.
THEOREM Bounded == Spec => []DiagnosticsBounded
<1>1. IInv => DiagnosticsBounded
  BY DEF IInv, CollectInv, ListInv, ResultInv, DiagnosticsBounded
<1>. QED
  BY <1>1, Invariance, PTL

\* The limit marker is in the delivered list exactly when the list leaves
\* out a finding of the repository: push_bounded, the early stops of
\* validate_repository, merge_diagnostics and push_priority_diagnostic
\* together lose no finding silently.
THEOREM MarkerCorrect == Spec => []MarkerIffOmitted
<1>1. IInv => MarkerIffOmitted
  BY DEF IInv, ResultInv, Complete, MarkerIffOmitted
<1>. QED
  BY <1>1, Invariance, PTL

\* The order of the passes in validate_repository and the prefix that
\* merge_diagnostics keeps let no warning about the documents take an entry
\* while an error about them is left out.
THEOREM ErrorsFirst == Spec => []ErrorsOutrankWarnings
<1>1. IInv => ErrorsOutrankWarnings
  BY DEF IInv, CollectInv, ResultInv, Outranks, ErrorsOutrankWarnings
<1>. QED
  BY <1>1, Invariance, PTL

\* A manifest that withholds the repository's identity always says so.
THEOREM IdentityKept == Spec => []IdentityReported
<1>1. IInv => IdentityReported
  BY DEF IInv, ResultInv, IdentityReported
<1>. QED
  BY <1>1, Invariance, PTL
-----------------------------------------------------------------------------

(***************************************************************************)
(* The share of the scan.  Its list has its findings in order, so what the *)
(* merge keeps of them are the first ones.                                 *)
(***************************************************************************)
ScanOrder ==
    /\ Len(scan) < MaxDiagnostics => Len(scan) = raised["scan"]
    /\ \A i \in 1..Len(scan) : i # MaxDiagnostics => scan[i] = Finding("scan", i)

Share(list) ==
    /\ \A n \in 1..Smaller(findings["scan"], ScanReserve) :
          Contains(list, Finding("scan", n))
    /\ (\E s \in ContentSources : \E n \in 1..findings[s] :
           ~Contains(list, Finding(s, n)))
       => \A n \in 1..findings["scan"] :
             n > ScanReserve => ~Contains(list, Finding("scan", n))

LEMMA OrderInvariance == Spec => []ScanOrder
<1> USE MaxDiagnosticsAssumption
<1>1. Init => ScanOrder
  <2> SUFFICES ASSUME Init PROVE ScanOrder
    OBVIOUS
  <2>1. Len(scan) = 0 /\ raised["scan"] = 0
    BY StageFacts DEF Init, Sources
  <2>. QED
    BY <2>1 DEF ScanOrder
<1>2. ASSUME IInv, ScanOrder, [Next]_vars PROVE ScanOrder'
  <2>1. CASE Report("scan")
    <3> DEFINE f == Finding("scan", raised["scan"] + 1)
    <3>1. /\ scan \in Seq(Entries) /\ raised \in [Sources -> Nat] /\ ListInv(scan)
          /\ raised' = [raised EXCEPT !["scan"] = @ + 1] /\ scan' = PushBounded(scan, f)
      BY <1>2, <2>1 DEF IInv, CollectInv, TypeOK, Report
    <3>2. raised'["scan"] = raised["scan"] + 1 /\ raised["scan"] \in Nat /\ f \in Entries
      BY <3>1, StageFacts, FindingFacts
    <3>3. Len(scan) \in Nat /\ Len(scan) <= MaxDiagnostics
      BY <3>1, LenProperties DEF ListInv
    <3>4. /\ scan' \in Seq(Entries)
          /\ Len(scan) < MaxDiagnostics - 1 => Len(scan') = Len(scan) + 1 /\ scan'[Len(scan')] = f
          /\ Len(scan) = MaxDiagnostics - 1 => Len(scan') = MaxDiagnostics
          /\ Len(scan) >= MaxDiagnostics => scan' = scan
          /\ \A i \in 1..Len(scan) : scan'[i] = scan[i]
      <4> DEFINE new == PushBounded(scan, f)
      <4>1. /\ new \in Seq(Entries)
            /\ Len(scan) < MaxDiagnostics - 1 => Len(new) = Len(scan) + 1 /\ new[Len(new)] = f
            /\ Len(scan) = MaxDiagnostics - 1 => Len(new) = MaxDiagnostics
            /\ Len(scan) >= MaxDiagnostics => new = scan
            /\ \A i \in 1..Len(scan) : new[i] = scan[i]
        BY <3>1, <3>2, PushCases
      <4> HIDE DEF new, f
      <4>2. scan' = new
        BY <3>1 DEF new
      <4>. QED
        BY <4>1, <4>2
    <3>5. CASE Len(scan) < MaxDiagnostics - 1
      <4>1. Len(scan) = raised["scan"] /\ Len(scan') = Len(scan) + 1 /\ scan'[Len(scan) + 1] = f
        BY <1>2, <3>3, <3>4, <3>5 DEF ScanOrder
      <4>2. f = Finding("scan", Len(scan) + 1)
        BY <4>1
      <4> HIDE DEF f
      <4>3. \A i \in 1..Len(scan') : i \in 1..Len(scan) \/ i = Len(scan) + 1
        BY <3>3, <4>1
      <4>4. \A i \in 1..Len(scan') : i # MaxDiagnostics => scan'[i] = Finding("scan", i)
        BY <1>2, <3>4, <4>1, <4>2, <4>3 DEF ScanOrder
      <4>5. Len(scan') = raised'["scan"]
        BY <3>2, <4>1
      <4>. QED
        BY <4>4, <4>5 DEF ScanOrder
    <3>6. CASE Len(scan) = MaxDiagnostics - 1
      <4>1. Len(scan') = MaxDiagnostics
        BY <3>4, <3>6
      <4>2. \A i \in 1..Len(scan') : i # MaxDiagnostics => i \in 1..Len(scan)
        BY <3>6, <4>1
      <4>. QED
        BY <1>2, <3>4, <4>1, <4>2 DEF ScanOrder
    <3>7. CASE Len(scan) = MaxDiagnostics
      BY <1>2, <3>4, <3>7 DEF ScanOrder
    <3>. QED
      BY <3>3, <3>5, <3>6, <3>7
  <2>2. ASSUME NEW s \in ContentSources, Report(s) PROVE ScanOrder'
    <3>1. s # "scan" /\ s \in Sources /\ "scan" \in Sources
      BY DEF ContentSources, ContentErrors, ContentWarnings, Sources
    <3>2. scan' = scan /\ raised' = [raised EXCEPT ![s] = @ + 1] /\ raised \in [Sources -> Nat]
      BY <1>2, <2>2, <3>1 DEF Report, IInv, CollectInv, TypeOK
    <3>3. raised'["scan"] = raised["scan"]
      BY <3>1, <3>2
    <3>. QED
      BY <1>2, <3>2, <3>3 DEF ScanOrder
  <2>3. CASE UNCHANGED <<scan, raised>>
    BY <1>2, <2>3 DEF ScanOrder
  <2>. QED
    BY <1>2, <2>1, <2>2, <2>3 DEF Next, Sources, Finish, Stop, Merge, ManifestPlain,
       ManifestIdentityFits, ManifestIdentityReplaces, Delivered, vars
<1>. QED
  BY <1>1, <1>2, Invariance, PTL DEF Spec

\* The numbers behind the scan's share: r is the reserve, l the room for
\* findings, x what the scan has to report, y the length of its list, b that
\* of the content list, and a and t how many of each the merge keeps.
ShareFacts(r, l, x, y, b, u, v, a, t) ==
    /\ r \in Nat /\ l \in Nat /\ x \in Nat /\ y \in Nat /\ b \in Nat
    /\ r <= l /\ y <= l + 1 /\ b <= l + 1
    /\ y < l + 1 => y = x
    /\ u = Smaller(b, l) /\ v = Smaller(y, l)
    /\ a \in 0..u /\ t \in 0..v
    /\ t >= Smaller(v, r)
    /\ a = Smaller(u, l - Smaller(v, r))
    /\ a < u => t = Smaller(v, r)
    /\ t = Smaller(v, l - a)

ShareBounds(r, l, x, y, b, u, a, t) ==
    /\ t \in Nat /\ t <= y /\ t <= l
    /\ Smaller(x, r) \in Nat /\ Smaller(x, r) <= t
    /\ a < u => t <= r
    /\ b = l + 1 => t <= r
    /\ b <= l => u = b

\* What the merge keeps of the scan's findings, in those numbers.
LEMMA ShareNumbers ==
    ASSUME NEW r, NEW l, NEW x, NEW y, NEW b, NEW u, NEW v, NEW a, NEW t,
           ShareFacts(r, l, x, y, b, u, v, a, t)
    PROVE  ShareBounds(r, l, x, y, b, u, a, t)
<1> USE DEF ShareFacts
<1>1. /\ u \in Nat /\ u <= l /\ u <= b /\ (b <= l => u = b) /\ (b = l + 1 => u = l)
      /\ v \in Nat /\ v <= l /\ v <= y /\ (y <= l => v = x) /\ (y = l + 1 => v = l)
  BY DEF Smaller
<1>2. /\ (v <= r => Smaller(v, r) = v) /\ (v > r => Smaller(v, r) = r)
      /\ (x <= r => Smaller(x, r) = x) /\ (x > r => Smaller(x, r) = r)
  BY <1>1 DEF Smaller
<1>3. t \in Nat /\ t <= y /\ t <= l
  BY <1>1
<1>4. Smaller(x, r) \in Nat /\ Smaller(x, r) <= t
  <2>1. CASE y <= l
    BY <1>1, <1>2, <2>1
  <2>2. CASE y = l + 1
    BY <1>1, <1>2, <2>2
  <2>. QED
    BY <2>1, <2>2
<1>5. a < u => t <= r
  BY <1>1, <1>2
<1>6. b = l + 1 => t <= r
  <2>1. SUFFICES ASSUME b = l + 1 PROVE t <= r
    OBVIOUS
  <2>2. u = l
    BY <1>1, <2>1
  <2>3. CASE v <= r
    BY <1>1, <2>3
  <2>4. CASE v > r
    <3>1. a = Smaller(l, l - r)
      BY <1>2, <2>2, <2>4
    <3>2. a = l - r
      BY <3>1 DEF Smaller
    <3>3. l - a = r
      BY <3>2
    <3>. QED
      BY <1>1, <2>4, <3>3 DEF Smaller
  <2>. QED
    BY <1>1, <2>3, <2>4
<1>. QED
  BY <1>1, <1>3, <1>4, <1>5, <1>6 DEF ShareBounds

\* The merge leaves the scan its reserve, and no more while it drops a
\* content finding.
LEMMA MergeShares ==
    ASSUME CollectInv, ScanOrder, stage = "merge"
    PROVE  Share(MergeDiagnostics(content, scan))
<1> DEFINE m  == MergeDiagnostics(content, scan)
           ct == MergeCt(content, scan)
           st == MergeSt(content, scan)
           u  == Len(Unmarked(content))
           v  == Len(Unmarked(scan))
<1> USE MaxDiagnosticsAssumption
<1>1. /\ content \in Seq(Entries) /\ scan \in Seq(Entries)
      /\ ListInv(content) /\ ListInv(scan)
      /\ Kept(content, ContentSources, raised)
      /\ raised \in [Sources -> Nat] /\ findings \in [Sources -> Nat]
  BY DEF CollectInv, TypeOK
<1>2. /\ \A s \in Sources : raised[s] = findings[s] \/ Len(content) = MaxDiagnostics
      /\ raised["scan"] = findings["scan"]
  <2>1. \A s \in Sources : \/ raised[s] = findings[s]
                           \/ s \in Passes /\ Len(content) = MaxDiagnostics
    BY LatePositions DEF CollectInv, ProgressInv
  <2>. QED
    BY <2>1, StageFacts
<1>3. /\ Len(content) \in Nat /\ Len(scan) \in Nat
      /\ Len(content) <= MaxDiagnostics /\ Len(scan) <= MaxDiagnostics
      /\ u = Smaller(Len(content), FindingLimit) /\ v = Smaller(Len(scan), FindingLimit)
  BY <1>1, LenProperties, UnmarkedFacts DEF ListInv
<1>4. /\ ct \in 0..u /\ st \in 0..v
      /\ st >= Smaller(v, ScanReserve)
      /\ ct < u => st = Smaller(v, ScanReserve)
      /\ ct = Smaller(u, FindingLimit - Smaller(v, ScanReserve))
      /\ st = Smaller(v, FindingLimit - ct)
  BY <1>1, MergeNumbers DEF MergeCt, MergeSt, ContentTake, ScanTake
<1>5. /\ \A s \in ContentSources, n \in Nat \ {0} :
            Contains(m, Finding(s, n)) <=> \E i \in 1..ct : content[i] = Finding(s, n)
      /\ \A n \in Nat \ {0} :
            Contains(m, Finding("scan", n)) <=> \E i \in 1..st : scan[i] = Finding("scan", n)
  BY MergeMembers
<1> HIDE DEF m, ct, st, u, v
<1>6. ScanReserve \in Nat /\ ScanReserve <= FindingLimit /\ FindingLimit = MaxDiagnostics - 1
  BY DEF ScanReserve, FindingLimit
<1>7. "scan" \in Sources /\ ContentSources \subseteq Sources
  BY DEF ContentSources, ContentErrors, ContentWarnings, Sources
<1>8. findings["scan"] \in Nat
  BY <1>1, <1>7
<1>9. /\ st \in Nat /\ st <= Len(scan) /\ st < MaxDiagnostics
      /\ Smaller(findings["scan"], ScanReserve) \in Nat
      /\ Smaller(findings["scan"], ScanReserve) <= st
      /\ ct < u => st <= ScanReserve
      /\ Len(content) = MaxDiagnostics => st <= ScanReserve
      /\ Len(content) < MaxDiagnostics => u = Len(content)
  <2>1. FindingLimit \in Nat /\ FindingLimit + 1 = MaxDiagnostics
    BY <1>6
  <2>2. Len(scan) < FindingLimit + 1 => Len(scan) = findings["scan"]
    BY <1>2, <2>1 DEF ScanOrder
  <2>3. /\ st \in Nat /\ st <= Len(scan) /\ st <= FindingLimit
        /\ Smaller(findings["scan"], ScanReserve) \in Nat
        /\ Smaller(findings["scan"], ScanReserve) <= st
        /\ ct < u => st <= ScanReserve
        /\ Len(content) = FindingLimit + 1 => st <= ScanReserve
        /\ Len(content) <= FindingLimit => u = Len(content)
    <3> DEFINE x == findings["scan"]
               y == Len(scan)
               b == Len(content)
               r == ScanReserve
               l == FindingLimit
    <3>1. ShareFacts(r, l, x, y, b, u, v, ct, st)
      BY <1>3, <1>4, <1>6, <1>8, <2>1, <2>2 DEF ShareFacts
    <3>2. ShareBounds(r, l, x, y, b, u, ct, st)
      BY <3>1, ShareNumbers
    <3>. QED
      BY <3>2 DEF ShareBounds
  <2> DEFINE y == Len(scan)
             b == Len(content)
             l == FindingLimit
  <2>4. /\ y \in Nat /\ b \in Nat /\ l \in Nat /\ l + 1 = MaxDiagnostics
    BY <1>3, <2>1
  <2>5. (b < MaxDiagnostics => b <= l) /\ (st <= l => st < MaxDiagnostics \/ st \notin Nat)
    <3> HIDE DEF y, b, l
    <3>. QED
      BY <2>4
  <2>. QED
    BY <2>1, <2>3, <2>5
<1>10. \A i \in 1..st : scan[i] = Finding("scan", i)
  BY <1>3, <1>9 DEF ScanOrder
<1>11. \A n \in Nat \ {0} : Contains(m, Finding("scan", n)) <=> n <= st
  <2> TAKE n \in Nat \ {0}
  <2>1. ASSUME NEW i \in 1..st, scan[i] = Finding("scan", n) PROVE n <= st
    BY <1>9, <1>10, <2>1, FindingFacts
  <2>2. n <= st => n \in 1..st
    BY <1>9
  <2>. QED
    BY <1>5, <1>10, <2>1, <2>2
<1>12. \A n \in 1..Smaller(findings["scan"], ScanReserve) : n \in Nat \ {0} /\ n <= st
  <2> DEFINE least == Smaller(findings["scan"], ScanReserve)
  <2>1. least \in Nat /\ least <= st /\ st \in Nat
    BY <1>9
  <2> HIDE DEF least
  <2>2. \A n \in 1..least : n \in Nat \ {0} /\ n <= st
    BY <2>1
  <2>. QED
    BY <2>2 DEF least
<1>13. ASSUME NEW s \in ContentSources, NEW n \in 1..findings[s], ~Contains(m, Finding(s, n))
       PROVE  st <= ScanReserve
  <2>1. n \in Nat \ {0} /\ findings[s] \in Nat
    BY <1>1, <1>7
  <2>2. CASE ct < u
    BY <1>9, <2>2
  <2>3. CASE Len(content) = MaxDiagnostics
    BY <1>9, <2>3
  <2>4. CASE ct = u /\ Len(content) < MaxDiagnostics
    <3>1. raised[s] = findings[s] /\ ct = Len(content)
      BY <1>2, <1>3, <1>7, <1>9, <2>4
    <3>2. Contains(content, Finding(s, n))
      BY <1>1, <1>13, <2>4, <3>1 DEF Kept
    <3>. QED
      BY <1>5, <1>13, <2>1, <3>1, <3>2 DEF Contains
  <2>5. u \in Nat /\ ct \in 0..u
    BY <1>4, <1>3 DEF Smaller, FindingLimit
  <2>6. ct < u \/ ct = u
    BY <2>5
  <2>7. Len(content) < MaxDiagnostics \/ Len(content) = MaxDiagnostics
    BY <1>3
  <2>. QED
    BY <2>2, <2>3, <2>4, <2>6, <2>7
<1>14. \A n \in 1..findings["scan"] : n \in Nat \ {0}
  BY <1>8
<1>15. \A n \in 1..Smaller(findings["scan"], ScanReserve) : Contains(m, Finding("scan", n))
  BY <1>11, <1>12
<1>16. ASSUME NEW s \in ContentSources, NEW k \in 1..findings[s], ~Contains(m, Finding(s, k)),
              NEW n \in 1..findings["scan"], n > ScanReserve
       PROVE  ~Contains(m, Finding("scan", n))
  <2>1. st <= ScanReserve /\ n \in Nat \ {0}
    BY <1>13, <1>14, <1>16
  <2>2. ~(n <= st)
    BY <1>6, <1>9, <1>16, <2>1
  <2>. QED
    BY <1>11, <2>1, <2>2
<1>. QED
  BY <1>15, <1>16 DEF Share, m

\* However many findings the documents have, the scan keeps its reserve; and
\* however many links were skipped, they take no more than that while a
\* finding about a document is left out.
THEOREM SharesFair == Spec => []ScanShare
<1>1. Init => ScanShare
  BY DEF Init, ScanShare
<1>2. ASSUME IInv, ScanOrder, ScanShare, [Next]_vars PROVE ScanShare'
  <2>1. CASE Merge
    <3>1. CollectInv /\ stage = "merge" /\ result' = MergeDiagnostics(content, scan)
          /\ findings' = findings
      BY <1>2, <2>1 DEF IInv, Merge
    <3>2. Share(MergeDiagnostics(content, scan))
      BY <1>2, <3>1, MergeShares
    <3>. QED
      BY <3>1, <3>2 DEF ScanShare, Share, Contains
  <2>2. CASE UNCHANGED <<stage, findings, result>>
    BY <1>2, <2>2 DEF ScanShare, Contains
  <2>3. CASE stage' # "manifest"
    BY <2>3 DEF ScanShare
  <2>4. ASSUME NEW s \in Sources, Report(s) \/ Finish(s) \/ Stop(s) PROVE stage' # "manifest"
    BY <2>4 DEF Report, Finish, Stop, Sources, ContentSources, ContentErrors, ContentWarnings, NextStage
  <2>. QED
    BY <1>2, <2>1, <2>2, <2>3, <2>4 DEF Next, ManifestPlain, ManifestIdentityFits,
       ManifestIdentityReplaces, Delivered, vars
<1>. QED
  BY <1>1, <1>2, Invariance, OrderInvariance, PTL DEF Spec

\* The manifest's own finding costs the list at most one entry, and never
\* its marker.
THEOREM CostsOne == Spec => PriorityCostsOne
<1> USE MaxDiagnosticsAssumption
<1> DEFINE AtMostOne ==
              /\ HasMarker(result) => HasMarker(result')
              /\ \A i, j \in 1..Len(result) :
                    ~Contains(result', result[i]) /\ ~Contains(result', result[j])
                        => result[i] = result[j]
<1>1. ASSUME IInv, [Next]_vars, stage = "manifest" PROVE AtMostOne
  <2>1. /\ result \in Seq(Entries) /\ ListInv(result)
        /\ Len(result) \in Nat /\ Len(result) <= MaxDiagnostics
    BY <1>1, LenProperties DEF IInv, CollectInv, TypeOK, ResultInv, ListInv
  <2>2. CASE result' = result
    BY <2>2 DEF Contains
  <2>3. CASE ManifestIdentityFits \/ ManifestIdentityReplaces
    <3> DEFINE pushed == PushBounded(result, Identity)
    <3>1. /\ pushed \in Seq(Entries) /\ Len(pushed) \in Nat
          /\ Len(result) <= Len(pushed)
          /\ \A k \in 1..Len(result) : pushed[k] = result[k]
      <4>1. /\ pushed \in Seq(Entries)
            /\ Len(result) < MaxDiagnostics - 1 => Len(pushed) = Len(result) + 1
            /\ Len(result) = MaxDiagnostics - 1 => Len(pushed) = MaxDiagnostics
            /\ Len(result) >= MaxDiagnostics => pushed = result
            /\ \A k \in 1..Len(result) : pushed[k] = result[k]
        BY <2>1, FindingFacts, PushCases
      <4>2. Len(pushed) \in Nat
        BY <4>1, LenProperties
      <4> HIDE DEF pushed
      <4>3. Len(result) <= Len(pushed)
        <5>1. CASE Len(result) < MaxDiagnostics - 1
          BY <2>1, <4>1, <5>1
        <5>2. CASE Len(result) = MaxDiagnostics - 1
          BY <2>1, <4>1, <5>2
        <5>3. CASE Len(result) = MaxDiagnostics
          BY <2>1, <4>1, <5>3
        <5>. QED
          BY <2>1, <5>1, <5>2, <5>3
      <4>. QED
        BY <4>1, <4>2, <4>3
    <3>2. PICK i \in 1..Len(pushed) \cup {0} :
             \/ result' = pushed /\ i = 0
             \/ result' = [pushed EXCEPT ![i] = Identity] /\ pushed[i] # LimitMarker /\ i # 0
      <4>1. CASE ManifestIdentityFits
        BY <4>1 DEF ManifestIdentityFits
      <4>2. CASE ManifestIdentityReplaces
        <5>1. PICK i \in LastInOrder(pushed) : result' = [pushed EXCEPT ![i] = Identity]
          BY <4>2 DEF ManifestIdentityReplaces
        <5>2. i \in 1..Len(pushed) /\ pushed[i] # LimitMarker
          BY <5>1 DEF LastInOrder
        <5> HIDE DEF pushed
        <5>3. i # 0
          BY <3>1, <5>2
        <5>. QED
          BY <5>1, <5>2, <5>3
      <4>. QED
        BY <2>3, <4>1, <4>2
    <3> HIDE DEF pushed
    <3>3. /\ Len(result') = Len(pushed)
          /\ \A k \in 1..Len(pushed) : k # i => result'[k] = pushed[k]
      <4>1. CASE i = 0
        BY <3>2, <4>1
      <4>2. CASE i # 0
        BY <3>1, <3>2, <4>2, FindingFacts, ExceptSeq
      <4>. QED
        BY <4>1, <4>2
    <3>4. \A k \in 1..Len(result) : k \in 1..Len(pushed)
      BY <2>1, <3>1
    <3>5. \A k \in 1..Len(result) : k # i => Contains(result', result[k])
      BY <3>1, <3>3, <3>4 DEF Contains
    <3>6. \A k \in 1..Len(result) : result[k] = LimitMarker => k # i
      BY <3>1, <3>2, <3>4
    <3>7. HasMarker(result) => HasMarker(result')
      BY <3>5, <3>6 DEF HasMarker, Contains
    <3>. QED
      BY <3>5, <3>7
  <2>. QED
    BY <1>1, <2>2, <2>3 DEF Next, Report, Finish, Stop, Merge, ManifestPlain, Delivered, vars
<1>. QED
  BY <1>1, Invariance, PTL DEF PriorityCostsOne, Spec
=============================================================================
