------------------------ MODULE RepositoryReadProofs -------------------------
(***************************************************************************)
(* Theorems about RepositoryRead for every directory tree, every limit and *)
(* any number of changes that others make to the directory meanwhile.      *)
(***************************************************************************)
EXTENDS RepositoryRead, SharedProofs

FramesOf(s) == {s[i] : i \in 1..Len(s)}

Listed == {documents[i].path : i \in 1..Len(documents)}

(***************************************************************************)
(* The inductive invariant.                                                *)
(***************************************************************************)

\* A directory exists as long as anything in it, and has existed all along
\* if anything in it has.
TreeInv ==
    /\ \A p \in present : Ancestors(p) \subseteq present
    /\ \A p \in steady : Ancestors(p) \subseteq steady

\* The stack is empty once the walk is over; before that its frames are the
\* root and directories found, with entries seen in them.
WalkInv ==
    /\ stage \in {"listing", "visiting"} => stack # <<>>
    /\ stage \notin {"listing", "visiting", "failed"} => stack = <<>>
    /\ \A f \in FramesOf(stack) :
          /\ f.dir = Root \/ f.dir \in directories
          /\ \A p \in f.rest :
                Parent(p) = f.dir /\ Name(p) \notin ExcludedNames /\ p \in seen

\* What is found may be found, is portable, and lies in directories found.
FoundInv ==
    /\ NothingInvented
    /\ \A p \in files : Kind[p] = "file"
    /\ \A p \in directories : Kind[p] = "dir"
    /\ \A p \in files \cup directories : Portable(p) /\ Ancestors(p) \subseteq directories

Inwards(q, p) == q = p \/ q \in Ancestors(p)

\* The walk will still come to p: it waits in a frame, or a directory it
\* lies in does, or one is about to be listed.
Ahead(p) ==
    \/ \E f \in FramesOf(stack) : \E q \in f.rest : Inwards(q, p)
    \/ stage = "listing" /\ (Top.dir = Root \/ Top.dir \in Ancestors(p))

\* An entry that has existed all along is found or ahead.
CoverInv ==
    stage # "failed" =>
        \A p \in steady : Inventoried(p) => p \in files \cup directories \/ Ahead(p)

\* Every entry found was counted.
CountInv ==
    /\ EntryCount(files, directories) + Cardinality(links) <= entriesSeen
    /\ entriesSeen <= MaxEntries

Loading == stage \in {"probing", "loading"}

\* The documents read are those of the pass that are no longer to do, in the
\* order of their paths, and their bytes are what was added up.
DocumentsInv ==
    /\ stage \in {"listing", "visiting", "checking", "sizing"} => documents = <<>>
    /\ stage \in {"listing", "visiting", "checking"} => todo = {}
    /\ stage = "sizing" => todo \subseteq Recognizable
    /\ Loading \/ stage = "ready" => Listed \cup todo = Recognizable
    /\ stage = "loading" => todo # {}
    /\ stage = "ready" => todo = {}
    /\ \A i, j \in 1..Len(documents) :
          i < j => Order[documents[i].path] < Order[documents[j].path]
    /\ Loading =>
          \A i \in 1..Len(documents) : \A q \in todo : Order[documents[i].path] < Order[q]
    /\ Loading => TotalBytes(documents) = bytes
    /\ Len(documents) <= MaxDocuments
    /\ TotalBytes(documents) <= MaxBytes
    /\ \A i \in 1..Len(documents) :
          documents[i].path \in files /\ documents[i].size <= MaxDocumentBytes

CollisionInv ==
    stage \in {"sizing", "probing", "loading", "ready"} => ~Collides(files, directories)

IInv ==
    /\ TypeOK
    /\ TreeInv
    /\ WalkInv
    /\ FoundInv
    /\ CoverInv
    /\ CountInv
    /\ DocumentsInv
    /\ CollisionInv

-----------------------------------------------------------------------------

(***************************************************************************)
(* Facts about paths.                                                      *)
(***************************************************************************)

\* The parent of a path is the root, if it is one segment, or its last
\* ancestor.
LEMMA ParentFacts ==
    ASSUME NEW p \in Paths
    PROVE  /\ Parent(p) = Root => Ancestors(p) = {}
           /\ Parent(p) # Root =>
                 /\ Parent(p) \in Ancestors(p)
                 /\ Ancestors(p) = Ancestors(Parent(p)) \cup {Parent(p)}
<1> DEFINE n == Len(p) - 1
           d == SubSeq(p, 1, n)
<1>1. Parent(p) = d
  BY DEF Parent
<1>2. n \in Nat /\ Len(p) = n + 1
  <2>1. Len(p) \in Nat /\ Len(p) >= 1
    BY PathFacts
  <2>. QED
    BY <2>1
<1>3. CASE n = 0
  <2>1. d = <<>>
    <3>1. n \in Int /\ n < 1
      <4> HIDE DEF d, n
      <4>. QED
        BY <1>2, <1>3
    <3>. QED
      BY <3>1, SubSeqEmpty
  <2>2. Ancestors(p) = {}
    BY <1>3 DEF Ancestors
  <2>. QED
    BY <1>1, <2>1, <2>2 DEF Root
<1>4. CASE n # 0
  <2>1. n \in 1..Len(p) /\ n \in 1..n /\ n \in Nat
    <3> HIDE DEF d, n
    <3>. QED
      BY <1>2, <1>4
  <2>2. Len(d) = n /\ d # <<>>
    <3>1. Len(d) = n
      BY <2>1, PathFacts
    <3>2. Len(<<>>) = 0
      OBVIOUS
    <3>. QED
      BY <3>1, <3>2, <1>4
  <2>3. Ancestors(p) = {SubSeq(p, 1, m) : m \in 1..n}
    BY DEF Ancestors
  <2>4. Ancestors(d) = {SubSeq(p, 1, m) : m \in 1..n - 1}
    <3>1. \A m \in 1..n - 1 : m \in 1..n /\ SubSeq(d, 1, m) = SubSeq(p, 1, m)
      BY <2>1, PrefixOfPrefix
    <3>. QED
      BY <2>2, <3>1 DEF Ancestors
  <2> HIDE DEF n
  <2>5. \A m : m \in 1..n <=> m \in 1..n - 1 \/ m = n
    BY <2>1
  <2>. QED
    BY <1>1, <2>1, <2>2, <2>3, <2>4, <2>5 DEF Root
<1>. QED
  BY <1>3, <1>4

\* A path continues the root and each of its ancestors by one segment at a
\* time.
LEMMA NextOnTheWay ==
    ASSUME NEW p \in Paths, NEW d, d = Root \/ d \in Ancestors(p)
    PROVE  \E q \in Paths :
              /\ Inwards(q, p)
              /\ Parent(q) = d
              /\ \A i \in 1..Len(q) : q[i] = p[i] /\ i \in 1..Len(p)
<1>1. Len(p) \in Nat /\ Len(p) >= 1 /\ p \in Seq(Segments) /\ Ancestors(p) \subseteq Paths
  BY PathFacts
<1>2. PICK k \in 0..Len(p) - 1 : d = SubSeq(p, 1, k)
  <2>1. CASE d = Root
    <3>1. SubSeq(p, 1, 0) = <<>>
      OBVIOUS
    <3>2. 0 \in 0..Len(p) - 1
      BY <1>1
    <3>. QED
      BY <2>1, <3>1, <3>2 DEF Root
  <2>2. CASE d \in Ancestors(p)
    <3>1. PICK n \in 1..Len(p) - 1 : d = SubSeq(p, 1, n)
      BY <2>2 DEF Ancestors
    <3>2. n \in 0..Len(p) - 1
      BY <1>1
    <3>. QED
      BY <3>1, <3>2
  <2>. QED
    BY <2>1, <2>2
<1> DEFINE n == k + 1
           q == SubSeq(p, 1, n)
<1>3. n \in 1..Len(p) /\ k = n - 1 /\ n \in Nat
  BY <1>1
<1>4. Len(q) = n /\ \A i \in 1..n : q[i] = p[i]
  BY <1>3, PathFacts
<1>5. q \in Paths /\ Inwards(q, p)
  <2>1. CASE n = Len(p)
    <3>1. q \in Seq(Segments) /\ Len(q) = Len(p)
      BY <1>3, <1>4, <2>1, PathFacts
    <3>2. q = p
      <4> HIDE DEF q
      <4>. QED
        BY <1>1, <1>4, <2>1, <3>1, SeqEqual
    <3>. QED
      BY <3>2 DEF Inwards
  <2>2. CASE n # Len(p)
    <3>1. n \in 1..Len(p) - 1
      BY <1>1, <1>3, <2>2
    <3>2. q \in Ancestors(p)
      BY <3>1 DEF Ancestors
    <3>. QED
      BY <1>1, <3>2 DEF Inwards
  <2>. QED
    BY <2>1, <2>2
<1>6. Parent(q) = d
  <2>1. Parent(q) = SubSeq(q, 1, k)
    BY <1>3, <1>4 DEF Parent
  <2>2. SubSeq(q, 1, k) = SubSeq(p, 1, k)
    <3>1. CASE k = 0
      <4>1. SubSeq(q, 1, 0) = <<>> /\ SubSeq(p, 1, 0) = <<>>
        OBVIOUS
      <4>. QED
        BY <3>1, <4>1
    <3>2. CASE k # 0
      <4>1. k \in 1..n
        BY <1>3, <3>2
      <4>. QED
        BY <1>3, <4>1, PrefixOfPrefix
    <3>. QED
      BY <3>1, <3>2
  <2>. QED
    BY <1>2, <2>1, <2>2
<1>7. \A i \in 1..Len(q) : q[i] = p[i] /\ i \in 1..Len(p)
  <2>1. \A i \in 1..n : i \in 1..Len(p)
    BY <1>1, <1>3
  <2>. QED
    BY <1>4, <2>1
<1>. QED
  BY <1>5, <1>6, <1>7

\* The segments of a path are those of its parent and its name.
LEMMA SegmentsOfChild ==
    ASSUME NEW p \in Paths, NEW i \in 1..Len(p)
    PROVE  \/ p[i] = Name(p)
           \/ Parent(p) \in Ancestors(p) /\ i \in 1..Len(Parent(p)) /\ p[i] = Parent(p)[i]
<1>1. Len(p) \in Nat /\ Len(p) >= 1
  BY PathFacts
<1>2. CASE i = Len(p)
  BY <1>2 DEF Name
<1>3. CASE i # Len(p)
  <2> DEFINE n == Len(p) - 1
  <2>1. n \in 1..Len(p) /\ i \in 1..n /\ n \in 1..Len(p) - 1
    BY <1>1, <1>3
  <2>2. Len(SubSeq(p, 1, n)) = n /\ SubSeq(p, 1, n)[i] = p[i]
    BY <2>1, PathFacts
  <2>3. SubSeq(p, 1, n) \in Ancestors(p)
    BY <2>1 DEF Ancestors
  <2>. QED
    BY <2>1, <2>2, <2>3 DEF Parent
<1>. QED
  BY <1>2, <1>3

\* First returns the first of the paths.
LEMMA FirstIs ==
    ASSUME NEW P \in SUBSET Paths, P # {}
    PROVE  First(P) \in P /\ \A q \in P : Order[First(P)] <= Order[q]
BY FirstExists DEF First

(***************************************************************************)
(* Facts about the stack.                                                  *)
(***************************************************************************)
Frames == [dir : Paths \cup {Root}, rest : SUBSET Paths]

LEMMA HeadAndTail ==
    ASSUME NEW s \in Seq(Frames), s # <<>>
    PROVE  /\ Head(s) = s[1] /\ s[1] \in Frames /\ Head(s) \in FramesOf(s)
           /\ Tail(s) \in Seq(Frames) /\ Len(Tail(s)) = Len(s) - 1
           /\ FramesOf(s) = {Head(s)} \cup FramesOf(Tail(s))
<1>1. Len(s) \in Nat /\ Len(s) >= 1
  BY EmptySeq
<1>2. /\ Tail(s) \in Seq(Frames) /\ Len(Tail(s)) = Len(s) - 1
      /\ \A i \in 1..Len(Tail(s)) : Tail(s)[i] = s[i + 1]
  BY <1>1, HeadTailProperties
<1>3. Head(s) = s[1] /\ s[1] \in Frames /\ 1 \in 1..Len(s)
  BY <1>1, ElementOfSeq
<1>4. \A i \in 1..Len(s) : i = 1 \/ (i - 1 \in 1..Len(Tail(s)) /\ s[i] = Tail(s)[i - 1])
  <2> SUFFICES ASSUME NEW i \in 1..Len(s), i # 1
               PROVE  i - 1 \in 1..Len(Tail(s)) /\ s[i] = Tail(s)[i - 1]
    OBVIOUS
  <2>1. i - 1 \in 1..Len(s) - 1 /\ (i - 1) + 1 = i
    BY <1>1
  <2>. QED
    BY <1>2, <2>1
<1>5. \A i \in 1..Len(Tail(s)) : i + 1 \in 1..Len(s)
  BY <1>1, <1>2
<1>6. FramesOf(s) \subseteq {s[1]} \cup FramesOf(Tail(s))
  BY <1>4 DEF FramesOf
<1>7. FramesOf(Tail(s)) \subseteq FramesOf(s)
  BY <1>2, <1>5 DEF FramesOf
<1>8. s[1] \in FramesOf(s)
  BY <1>3 DEF FramesOf
<1>. QED
  BY <1>2, <1>3, <1>6, <1>7, <1>8

\* The entries of the innermost frame change.
LEMMA ChangeTop ==
    ASSUME NEW s \in Seq(Frames), s # <<>>, NEW R \in SUBSET Paths
    PROVE  LET t == [s EXCEPT ![1].rest = R]
           IN  /\ t \in Seq(Frames) /\ t # <<>> /\ Len(t) = Len(s)
               /\ Head(t) = [dir |-> s[1].dir, rest |-> R]
               /\ FramesOf(t) = {Head(t)} \cup FramesOf(Tail(s))
<1> DEFINE t == [s EXCEPT ![1].rest = R]
           f == [dir |-> s[1].dir, rest |-> R]
<1>1. Len(s) \in Nat /\ Len(s) >= 1 /\ 1 \in 1..Len(s)
  BY EmptySeq
<1>2. s[1] \in Frames
  BY <1>1, ElementOfSeq
<1>3. [s[1] EXCEPT !.rest = R] = f /\ f \in Frames
  BY <1>2 DEF Frames
<1>4. t = [s EXCEPT ![1] = f]
  BY <1>3
<1> HIDE DEF f
<1>5. /\ t \in Seq(Frames) /\ Len(t) = Len(s) /\ t[1] = f
      /\ \A i \in 1..Len(s) : i # 1 => t[i] = s[i]
  BY <1>1, <1>3, <1>4, ExceptSeq
<1> HIDE DEF t
<1>6. t # <<>>
  BY <1>1, <1>5
<1>7. Tail(t) = Tail(s)
  <2>1. /\ Tail(s) \in Seq(Frames) /\ Len(Tail(s)) = Len(s) - 1
        /\ \A i \in 1..Len(Tail(s)) : Tail(s)[i] = s[i + 1]
    BY <1>1, HeadTailProperties
  <2>2. /\ Tail(t) \in Seq(Frames) /\ Len(Tail(t)) = Len(t) - 1
        /\ \A i \in 1..Len(Tail(t)) : Tail(t)[i] = t[i + 1]
    BY <1>5, <1>6, HeadTailProperties
  <2>3. \A i \in 1..Len(s) - 1 : i + 1 \in 1..Len(s) /\ i + 1 # 1
    BY <1>1
  <2>4. \A i \in 1..Len(Tail(t)) : Tail(t)[i] = Tail(s)[i]
    BY <1>5, <2>1, <2>2, <2>3
  <2>. QED
    BY <1>5, <2>1, <2>2, <2>4, SeqEqual
<1>8. Head(t) = f /\ FramesOf(t) = {Head(t)} \cup FramesOf(Tail(t))
  BY <1>5, <1>6, HeadAndTail
<1>. QED
  BY <1>5, <1>6, <1>7, <1>8 DEF t, f

\* A frame is put on the stack.
LEMMA PushFrame ==
    ASSUME NEW s \in Seq(Frames), NEW f \in Frames
    PROVE  LET t == <<f>> \o s
           IN  /\ t \in Seq(Frames) /\ t # <<>>
               /\ Head(t) = f
               /\ FramesOf(t) = {f} \cup FramesOf(s)
<1> DEFINE t == <<f>> \o s
<1>1. Len(s) \in Nat /\ <<f>> \in Seq(Frames) /\ Len(<<f>>) = 1 /\ <<f>>[1] = f
  OBVIOUS
<1>2. /\ t \in Seq(Frames) /\ Len(t) = 1 + Len(s)
      /\ \A i \in 1..Len(t) : t[i] = IF i <= 1 THEN <<f>>[i] ELSE s[i - 1]
  BY <1>1, ConcatProperties
<1> HIDE DEF t
<1>3. t # <<>> /\ t[1] = f /\ 1 \in 1..Len(t) /\ Head(t) = t[1]
  <2>1. 1 \in 1..Len(t)
    BY <1>1, <1>2
  <2>2. t[1] = f
    BY <1>1, <1>2, <2>1
  <2>3. t # <<>>
    BY <1>1, <1>2
  <2>. QED
    BY <1>2, <2>1, <2>2, <2>3, HeadAndTail
<1>4. \A i \in 1..Len(t) : i = 1 \/ (i - 1 \in 1..Len(s) /\ t[i] = s[i - 1])
  BY <1>1, <1>2
<1>5. \A i \in 1..Len(s) : i + 1 \in 1..Len(t) /\ t[i + 1] = s[i]
  <2> SUFFICES ASSUME NEW i \in 1..Len(s)
               PROVE  i + 1 \in 1..Len(t) /\ t[i + 1] = s[i]
    OBVIOUS
  <2>1. i + 1 \in 1..Len(t) /\ ~ (i + 1 <= 1) /\ (i + 1) - 1 = i
    BY <1>1, <1>2
  <2>. QED
    BY <1>2, <2>1
<1>6. FramesOf(t) = {f} \cup FramesOf(s)
  <2>1. FramesOf(t) \subseteq {f} \cup FramesOf(s)
    BY <1>3, <1>4 DEF FramesOf
  <2>2. FramesOf(s) \subseteq FramesOf(t)
    BY <1>5 DEF FramesOf
  <2>3. f \in FramesOf(t)
    BY <1>3 DEF FramesOf
  <2>. QED
    BY <2>1, <2>2, <2>3
<1>. QED
  BY <1>2, <1>3, <1>6 DEF t

\* The frames by their place, when the innermost one changes.
LEMMA ChangeTopDirs ==
    ASSUME NEW s \in Seq(Frames), s # <<>>, NEW R \in SUBSET Paths
    PROVE  LET t == [s EXCEPT ![1].rest = R]
           IN  /\ \A i \in 1..Len(s) : t[i].dir = s[i].dir
               /\ FramesOf(t) = {[dir |-> s[1].dir, rest |-> R]} \cup FramesOf(Tail(s))
<1> DEFINE t == [s EXCEPT ![1].rest = R]
           f == [dir |-> s[1].dir, rest |-> R]
<1>1. Len(s) \in Nat /\ Len(s) >= 1 /\ 1 \in 1..Len(s)
  BY EmptySeq
<1>2. s[1] \in Frames
  BY <1>1, ElementOfSeq
<1>3. [s[1] EXCEPT !.rest = R] = f /\ f \in Frames /\ f.dir = s[1].dir
  BY <1>2 DEF Frames
<1>4. t = [s EXCEPT ![1] = f]
  BY <1>3
<1>5. /\ Head(t) = f /\ FramesOf(t) = {Head(t)} \cup FramesOf(Tail(t))
      /\ FramesOf(t) = {Head(t)} \cup FramesOf(Tail(s))
  <2>1. /\ t \in Seq(Frames) /\ t # <<>> /\ Head(t) = f
        /\ FramesOf(t) = {Head(t)} \cup FramesOf(Tail(s))
    BY ChangeTop
  <2>. QED
    BY <2>1, HeadAndTail
<1> HIDE DEF f
<1>6. /\ t[1] = f /\ \A i \in 1..Len(s) : i # 1 => t[i] = s[i]
  BY <1>1, <1>3, <1>4, ExceptSeq
<1>7. \A i \in 1..Len(s) : t[i].dir = s[i].dir
  BY <1>3, <1>6
<1>. QED
  BY <1>5, <1>7 DEF f

\* The frames by their place, when one is put on the stack or taken off.
LEMMA PushPlaces ==
    ASSUME NEW s \in Seq(Frames), NEW f \in Frames
    PROVE  LET t == <<f>> \o s
           IN  /\ Len(t) = Len(s) + 1 /\ t[1] = f
               /\ \A i \in 1..Len(t) : i = 1 \/ (i - 1 \in 1..Len(s) /\ t[i] = s[i - 1])
<1> DEFINE t == <<f>> \o s
<1>1. Len(s) \in Nat /\ <<f>> \in Seq(Frames) /\ Len(<<f>>) = 1 /\ <<f>>[1] = f
  OBVIOUS
<1>2. /\ t \in Seq(Frames) /\ Len(t) = 1 + Len(s)
      /\ \A i \in 1..Len(t) : t[i] = IF i <= 1 THEN <<f>>[i] ELSE s[i - 1]
  BY <1>1, ConcatProperties
<1> HIDE DEF t
<1>3. 1 \in 1..Len(t)
  BY <1>1, <1>2
<1>4. t[1] = f
  BY <1>1, <1>2, <1>3
<1>5. \A i \in 1..Len(t) : i = 1 \/ (i - 1 \in 1..Len(s) /\ t[i] = s[i - 1])
  BY <1>1, <1>2
<1>. QED
  BY <1>1, <1>2, <1>4, <1>5 DEF t

LEMMA PopPlaces ==
    ASSUME NEW s \in Seq(Frames), s # <<>>
    PROVE  /\ Len(s) \in Nat /\ Len(Tail(s)) = Len(s) - 1
           /\ \A i \in 1..Len(s) - 1 : Tail(s)[i] = s[i + 1] /\ i + 1 \in 1..Len(s)
<1>1. Len(s) \in Nat /\ Len(s) >= 1
  BY EmptySeq
<1>2. /\ Len(Tail(s)) = Len(s) - 1
      /\ \A i \in 1..Len(Tail(s)) : Tail(s)[i] = s[i + 1]
  BY <1>1, HeadTailProperties
<1>3. \A i \in 1..Len(s) - 1 : i + 1 \in 1..Len(s)
  BY <1>1
<1>. QED
  BY <1>1, <1>2, <1>3

\* The frames further out are of other directories than the innermost one.
LEMMA OuterFrames ==
    ASSUME NEW s \in Seq(Frames), s # <<>>,
           \A i, j \in 1..Len(s) : s[i].dir = s[j].dir => i = j
    PROVE  \A f \in FramesOf(Tail(s)) : f.dir # Head(s).dir
<1>1. Len(s) \in Nat /\ Len(s) >= 1 /\ 1 \in 1..Len(s) /\ Head(s) = s[1]
  BY EmptySeq, HeadAndTail
<1>2. SUFFICES ASSUME NEW i \in 1..Len(Tail(s)) PROVE Tail(s)[i].dir # s[1].dir
  BY <1>1 DEF FramesOf
<1>3. Tail(s)[i] = s[i + 1] /\ i + 1 \in 1..Len(s) /\ i + 1 # 1
  BY PopPlaces
<1>. QED
  BY <1>1, <1>3

-----------------------------------------------------------------------------

(***************************************************************************)
(* Init and the steps of others.                                           *)
(***************************************************************************)

LEMMA NothingFound ==
    /\ Cardinality({}) = 0
    /\ FramesOf(<<[dir |-> Root, rest |-> {}]>>) = {[dir |-> Root, rest |-> {}]}
    /\ <<[dir |-> Root, rest |-> {}]>> \in Seq(Frames)
    /\ FramesOf(<<>>) = {}
<1>1. Cardinality({}) = 0
  BY FS_EmptySet
<1>2. [dir |-> Root, rest |-> {}] \in Frames
  BY DEF Frames
<1>3. <<[dir |-> Root, rest |-> {}]>> \in Seq(Frames)
  BY <1>2
<1>4. FramesOf(<<[dir |-> Root, rest |-> {}]>>) = {[dir |-> Root, rest |-> {}]}
  BY DEF FramesOf
<1>5. FramesOf(<<>>) = {}
  BY DEF FramesOf
<1>. QED
  BY <1>1, <1>3, <1>4, <1>5

LEMMA InitInv == Init => IInv
<1> SUFFICES ASSUME Init PROVE IInv
  OBVIOUS
<1>1. TypeOK
  <2>1. present \subseteq Paths /\ size \in [{p \in Paths : IsDocument(p)} -> Sizes]
    BY DirectoryAssumption DEF Init
  <2>2. stack \in Seq([dir : Paths \cup {Root}, rest : SUBSET Paths])
    BY NothingFound DEF Init, Frames
  <2>3. 0 \in 0..MaxChanges
    BY DirectoryAssumption
  <2>4. documents \in Seq(Documents)
    BY DEF Init
  <2>. QED
    BY <2>1, <2>2, <2>3, <2>4 DEF Init, TypeOK, Stages, Errors
<1>2. TreeInv
  BY DirectoryAssumption DEF Init, TreeInv
<1>3. WalkInv
  <2>1. \A f \in FramesOf(stack) : f.dir = Root /\ f.rest = {}
    BY NothingFound DEF Init
  <2>. QED
    BY <2>1 DEF Init, WalkInv
<1>4. FoundInv
  BY DEF Init, FoundInv, NothingInvented
<1>5. CoverInv
  <2>1. Top.dir = Root
    BY DEF Init, Top
  <2>. QED
    BY <2>1 DEF Init, CoverInv, Ahead
<1>6. CountInv
  BY NothingFound, LimitsAssumption DEF Init, CountInv, EntryCount
<1>7. DocumentsInv
  BY TotalOfNone, LimitsAssumption DEF Init, DocumentsInv, Loading
<1>8. CollisionInv
  BY DEF Init, CollisionInv
<1>. QED
  BY <1>1, <1>2, <1>3, <1>4, <1>5, <1>6, <1>7, <1>8 DEF IInv

\* What the reader has is as good when the directory changes, as long as
\* more has been seen and less has existed all along.
LEMMA ReaderKept ==
    ASSUME IInv, TypeOK', TreeInv', seen \subseteq seen', steady' \subseteq steady,
           UNCHANGED <<stage, scan, reading, error>>
    PROVE  IInv'
<1>1. /\ stage' = stage /\ stack' = stack /\ entriesSeen' = entriesSeen
      /\ files' = files /\ directories' = directories /\ links' = links
      /\ todo' = todo /\ bytes' = bytes /\ documents' = documents
  BY DEF scan, reading
<1>2. WalkInv'
  BY <1>1 DEF IInv, WalkInv
<1>3. FoundInv'
  BY <1>1 DEF IInv, FoundInv, NothingInvented
<1>4. CoverInv'
  BY <1>1 DEF IInv, CoverInv, Ahead, Top
<1>5. CountInv' /\ CollisionInv'
  BY <1>1 DEF IInv, CountInv, CollisionInv
<1>6. DocumentsInv'
  BY <1>1 DEF IInv, DocumentsInv, Loading, Listed, Recognizable
<1>. QED
  BY <1>2, <1>3, <1>4, <1>5, <1>6 DEF IInv

LEMMA CreateInv ==
    ASSUME IInv, NEW p \in Paths, Create(p)
    PROVE  IInv'
<1>1. /\ present' = present \cup {p} /\ seen' = seen \cup {p} /\ steady' = steady
      /\ size' = size /\ changes' = changes + 1 /\ changes < MaxChanges
      /\ Ancestors(p) \subseteq present
      /\ UNCHANGED <<stage, scan, reading, error>>
  BY DEF Create, Change
<1>2. TypeOK'
  BY <1>1, DirectoryAssumption DEF IInv, TypeOK, scan, reading
<1>3. TreeInv'
  BY <1>1 DEF IInv, TreeInv
<1>. QED
  BY <1>1, <1>2, <1>3, ReaderKept

LEMMA DeleteInv ==
    ASSUME IInv, NEW p \in Paths, Delete(p)
    PROVE  IInv'
<1>1. /\ present' = present \ {p} /\ steady' = steady \ {p} /\ seen' = seen
      /\ size' = size /\ changes' = changes + 1 /\ changes < MaxChanges
      /\ \A q \in present : Parent(q) # p
      /\ UNCHANGED <<stage, scan, reading, error>>
  BY DEF Delete, Change, Children
<1>2. TypeOK'
  BY <1>1, DirectoryAssumption DEF IInv, TypeOK, scan, reading
<1>3. TreeInv'
  <2>1. ASSUME NEW q \in present PROVE p \notin Ancestors(q)
    <3> SUFFICES ASSUME p \in Ancestors(q) PROVE FALSE
      OBVIOUS
    <3>1. q \in Paths /\ Ancestors(q) \subseteq present
      BY DEF IInv, TypeOK, TreeInv
    <3>2. PICK r \in Paths : Inwards(r, q) /\ Parent(r) = p
      BY <3>1, NextOnTheWay
    <3>. QED
      BY <1>1, <3>1, <3>2 DEF Inwards
  <2>. QED
    BY <1>1, <2>1 DEF IInv, TreeInv, TypeOK
<1>. QED
  BY <1>1, <1>2, <1>3, ReaderKept

LEMMA RewriteInv ==
    ASSUME IInv, NEW p \in Paths, NEW n \in Sizes, Rewrite(p, n)
    PROVE  IInv'
<1>1. /\ present' = present /\ steady' = steady /\ seen' = seen
      /\ size' = [size EXCEPT ![p] = n] /\ changes' = changes + 1 /\ changes < MaxChanges
      /\ UNCHANGED <<stage, scan, reading, error>>
  BY DEF Rewrite, Change
<1>2. size' \in [{q \in Paths : IsDocument(q)} -> Sizes]
  BY <1>1 DEF IInv, TypeOK
<1>3. TypeOK'
  BY <1>1, <1>2, DirectoryAssumption DEF IInv, TypeOK, scan, reading
<1>4. TreeInv'
  BY <1>1 DEF IInv, TreeInv
<1>. QED
  BY <1>1, <1>3, <1>4, ReaderKept

(***************************************************************************)
(* The walk.                                                               *)
(***************************************************************************)

\* A read that fails keeps what it had and shows nothing of it.
LEMMA FailInv ==
    ASSUME IInv, NEW reason \in Errors, Fail(reason)
    PROVE  IInv'
<1>1. /\ stage' = "failed" /\ error' = reason
      /\ present' = present /\ size' = size /\ changes' = changes
      /\ steady' = steady /\ seen' = seen
      /\ stack' = stack /\ entriesSeen' = entriesSeen
      /\ files' = files /\ directories' = directories /\ links' = links
      /\ todo' = todo /\ bytes' = bytes /\ documents' = documents
  BY DEF Fail, directory, scan, reading
<1>2. TypeOK'
  BY <1>1 DEF IInv, TypeOK, Stages
<1>3. TreeInv' /\ FoundInv' /\ CountInv'
  BY <1>1 DEF IInv, TreeInv, FoundInv, NothingInvented, CountInv
<1>4. WalkInv' /\ CoverInv' /\ CollisionInv'
  BY <1>1 DEF IInv, WalkInv, CoverInv, CollisionInv
<1>5. DocumentsInv'
  BY <1>1 DEF IInv, DocumentsInv, Loading
<1>. QED
  BY <1>2, <1>3, <1>4, <1>5 DEF IInv

\* The parts that say nothing of the stack or the documents, when only the
\* stack, the stage or the documents change.
LEMMA WalkKept ==
    ASSUME IInv, UNCHANGED <<directory, entriesSeen, files, directories, links>>
    PROVE  TreeInv' /\ FoundInv' /\ CountInv'
BY DEF IInv, TreeInv, FoundInv, NothingInvented, CountInv, directory

\* Nothing is read during the walk.
LEMMA NothingRead ==
    ASSUME IInv, stage \in {"listing", "visiting"},
           stage' \in {"listing", "visiting", "checking"}, UNCHANGED reading
    PROVE  DocumentsInv' /\ CollisionInv' /\ documents = <<>>
<1>1. documents = <<>> /\ documents' = <<>> /\ todo' = {}
  BY DEF IInv, DocumentsInv, reading
<1>. QED
  BY <1>1, TotalOfNone, LimitsAssumption DEF DocumentsInv, CollisionInv, Loading

LEMMA ListEntriesInv ==
    ASSUME IInv, ListEntries
    PROVE  IInv'
<1>1. /\ stage = "listing" /\ stage' = "visiting"
      /\ Top.dir = Root \/ Top.dir \in present
      /\ stack' = [stack EXCEPT ![1].rest = Listing]
      /\ UNCHANGED <<directory, entriesSeen, files, directories, links, reading, error>>
  BY DEF ListEntries
<1>2. stack \in Seq(Frames) /\ stack # <<>> /\ present \subseteq seen /\ steady \subseteq present
      /\ present \subseteq Paths
  BY <1>1 DEF IInv, TypeOK, WalkInv, Frames
<1>3. /\ Top = stack[1] /\ Top \in Frames /\ Top \in FramesOf(stack)
      /\ FramesOf(stack) = {Top} \cup FramesOf(Tail(stack))
  BY <1>2, HeadAndTail DEF Top
<1>4. \A p \in Listing : p \in present /\ Parent(p) = Top.dir /\ Name(p) \notin ExcludedNames
  BY DEF Listing, Children
<1>5. Listing \in SUBSET Paths
  BY <1>2, <1>4
<1>6. /\ stack' \in Seq(Frames) /\ stack' # <<>>
      /\ FramesOf(stack') = {[dir |-> Top.dir, rest |-> Listing]} \cup FramesOf(Tail(stack))
  BY <1>1, <1>2, <1>3, <1>5, ChangeTop
<1>7. TypeOK'
  BY <1>1, <1>6 DEF IInv, TypeOK, Frames, Stages, directory, reading
<1>8. TreeInv' /\ FoundInv' /\ CountInv'
  BY <1>1, WalkKept
<1>9. WalkInv'
  <2>1. directories' = directories /\ seen' = seen
    BY <1>1 DEF directory
  <2>2. ASSUME NEW f \in FramesOf(stack')
        PROVE  /\ f.dir = Root \/ f.dir \in directories
               /\ \A p \in f.rest :
                     Parent(p) = f.dir /\ Name(p) \notin ExcludedNames /\ p \in seen
    <3>1. CASE f = [dir |-> Top.dir, rest |-> Listing]
      <4>1. Top.dir = Root \/ Top.dir \in directories
        BY <1>3 DEF IInv, WalkInv
      <4>. QED
        BY <3>1, <4>1, <1>2, <1>4
    <3>2. CASE f \in FramesOf(stack)
      BY <3>2 DEF IInv, WalkInv
    <3>. QED
      BY <1>3, <1>6, <3>1, <3>2
  <2>. QED
    BY <1>1, <1>6, <2>1, <2>2 DEF WalkInv
<1>10. CoverInv'
  <2>1. steady' = steady /\ files' = files /\ directories' = directories /\ stage' = "visiting"
    BY <1>1 DEF directory
  <2>2. ASSUME NEW p \in steady, Inventoried(p), p \notin files \cup directories
        PROVE  \E f \in FramesOf(stack') : \E q \in f.rest : Inwards(q, p)
    <3>1. CASE \E f \in FramesOf(Tail(stack)) : \E q \in f.rest : Inwards(q, p)
      BY <3>1, <1>6
    <3>2. CASE Top.dir = Root \/ Top.dir \in Ancestors(p)
      <4>1. p \in Paths /\ Ancestors(p) \subseteq steady
        BY <1>2 DEF IInv, TreeInv
      <4>2. PICK q \in Paths : /\ Inwards(q, p) /\ Parent(q) = Top.dir
                               /\ \A i \in 1..Len(q) : q[i] = p[i] /\ i \in 1..Len(p)
        BY <3>2, <4>1, NextOnTheWay
      <4>3. q \in present
        BY <1>2, <4>1, <4>2 DEF Inwards
      <4>4. Name(q) \notin ExcludedNames
        <5>1. Len(q) \in 1..Len(q)
          BY PathFacts
        <5>. QED
          BY <2>2, <4>2, <5>1 DEF Name, Inventoried
      <4>5. q \in Listing
        BY <4>2, <4>3, <4>4 DEF Listing, Children
      <4>. QED
        BY <1>6, <4>2, <4>5
    <3>3. CASE \E q \in Top.rest : Inwards(q, p)
      <4>1. PICK q \in Top.rest : Inwards(q, p)
        BY <3>3
      <4>2. Parent(q) = Top.dir /\ q \in Paths
        BY <1>3 DEF IInv, WalkInv, Frames
      <4>3. Top.dir = Root \/ Top.dir \in Ancestors(p)
        <5>1. p \in Paths
          BY <1>2
        <5>2. Parent(q) = Root \/ Parent(q) \in Ancestors(q)
          BY <4>2, ParentFacts
        <5>3. q = p \/ Ancestors(q) \subseteq Ancestors(p)
          BY <4>1, <5>1, AncestorsOfAncestor DEF Inwards
        <5>. QED
          BY <4>2, <5>2, <5>3
      <4>. QED
        BY <3>2, <4>3
    <3>4. Ahead(p)
      BY <1>1, <2>2 DEF IInv, CoverInv
    <3>. QED
      BY <1>3, <3>1, <3>2, <3>3, <3>4 DEF Ahead
  <2>. QED
    BY <2>1, <2>2 DEF CoverInv, Ahead
<1>11. DocumentsInv' /\ CollisionInv'
  BY <1>1, NothingRead
<1>. QED
  BY <1>7, <1>8, <1>9, <1>10, <1>11 DEF IInv

\* What Visit finds: an entry with the parent of its frame, seen and not
\* excluded, whose ancestors are directories found.
LEMMA VisitFacts ==
    ASSUME IInv, NEW p \in Paths, Visiting(p)
    PROVE  /\ stack \in Seq(Frames) /\ stack # <<>> /\ Top = stack[1]
           /\ Top \in Frames /\ Top \in FramesOf(stack) /\ p \in Top.rest
           /\ FramesOf(stack) = {Top} \cup FramesOf(Tail(stack))
           /\ p \in seen /\ Ancestors(p) \subseteq directories
           /\ Kind[p] \in {"file", "dir"} => Inventoried(p)
<1>1. stage = "visiting" /\ Top.rest # {} /\ p = First(Top.rest)
  BY DEF Visiting
<1>2. stack \in Seq(Frames) /\ stack # <<>>
  BY <1>1 DEF IInv, TypeOK, WalkInv, Frames
<1>3. /\ Top = stack[1] /\ Top \in Frames /\ Top \in FramesOf(stack)
      /\ FramesOf(stack) = {Top} \cup FramesOf(Tail(stack))
  BY <1>2, HeadAndTail DEF Top
<1>4. p \in Top.rest
  BY <1>1, <1>3, FirstIs DEF Frames
<1>5. /\ Top.dir = Root \/ Top.dir \in directories
      /\ Parent(p) = Top.dir /\ Name(p) \notin ExcludedNames /\ p \in seen
  BY <1>3, <1>4 DEF IInv, WalkInv
<1>6. Ancestors(p) \subseteq directories
  <2>1. CASE Parent(p) = Root
    BY <2>1, ParentFacts
  <2>2. CASE Parent(p) # Root
    <3>1. Parent(p) \in directories
      BY <1>5, <2>2
    <3>2. Ancestors(Parent(p)) \subseteq directories
      BY <3>1 DEF IInv, FoundInv
    <3>. QED
      BY <2>2, <3>1, <3>2, ParentFacts
  <2>. QED
    BY <2>1, <2>2
<1>7. ASSUME Kind[p] \in {"file", "dir"} PROVE Inventoried(p)
  <2>1. ASSUME NEW i \in 1..Len(p) PROVE p[i] \notin ExcludedNames
    <3>1. CASE p[i] = Name(p)
      BY <1>5, <3>1
    <3>2. CASE Parent(p) \in Ancestors(p) /\ i \in 1..Len(Parent(p)) /\ p[i] = Parent(p)[i]
      <4>1. Inventoried(Parent(p))
        BY <1>6, <3>2 DEF IInv, FoundInv, NothingInvented
      <4>. QED
        BY <3>2, <4>1 DEF Inventoried
    <3>. QED
      BY <3>1, <3>2, SegmentsOfChild
  <2>. QED
    BY <1>7, <2>1 DEF Inventoried
<1>. QED
  BY <1>2, <1>3, <1>4, <1>5, <1>6, <1>7

\* The stack after a visit: the entry has left the innermost frame and, when
\* it is a directory, has a frame of its own.
LEMMA VisitStack ==
    ASSUME IInv, NEW p \in Paths, Visit(p)
    PROVE  LET rest  == [dir |-> Top.dir, rest |-> Top.rest \ {p}]
               child == [dir |-> p, rest |-> {}]
           IN  /\ stack' \in Seq(Frames) /\ stack' # <<>>
               /\ FramesOf(stack') = (IF Kind[p] = "dir" THEN {child} ELSE {})
                                        \cup {rest} \cup FramesOf(Tail(stack))
               /\ Kind[p] = "dir" =>
                     /\ Head(stack') = child
                     /\ Len(stack') = Len(stack) + 1
                     /\ stack'[1].dir = p
                     /\ \A i \in 1..Len(stack') :
                           \/ i = 1
                           \/ i - 1 \in 1..Len(stack) /\ stack'[i].dir = stack[i - 1].dir
               /\ Kind[p] # "dir" =>
                     /\ Len(stack') = Len(stack)
                     /\ \A i \in 1..Len(stack) : stack'[i].dir = stack[i].dir
<1> DEFINE R     == Top.rest \ {p}
           rest  == [dir |-> Top.dir, rest |-> R]
           child == [dir |-> p, rest |-> {}]
           left  == [stack EXCEPT ![1].rest = R]
<1>1. /\ Visiting(p)
      /\ stack' = IF Kind[p] = "dir"
                  THEN <<child>> \o [stack EXCEPT ![1].rest = @ \ {p}]
                  ELSE [stack EXCEPT ![1].rest = @ \ {p}]
  BY DEF Visit
<1>2. /\ stack \in Seq(Frames) /\ stack # <<>> /\ Top = stack[1] /\ Top \in Frames
  BY <1>1, VisitFacts
<1>3. R \in SUBSET Paths /\ rest \in Frames /\ child \in Frames
  BY <1>2 DEF Frames
<1>4. [stack EXCEPT ![1].rest = @ \ {p}] = left
  BY <1>2
<1>5. /\ left \in Seq(Frames) /\ left # <<>> /\ Len(left) = Len(stack)
      /\ FramesOf(left) = {rest} \cup FramesOf(Tail(stack))
      /\ \A i \in 1..Len(stack) : left[i].dir = stack[i].dir
  BY <1>2, <1>3, ChangeTop, ChangeTopDirs
<1>6. stack' = IF Kind[p] = "dir" THEN <<child>> \o left ELSE left
  BY <1>1, <1>4
<1> HIDE DEF left
<1>7. CASE Kind[p] = "dir"
  <2>1. stack' = <<child>> \o left
    BY <1>6, <1>7
  <2>2. /\ <<child>> \o left \in Seq(Frames) /\ <<child>> \o left # <<>>
        /\ Head(<<child>> \o left) = child
        /\ FramesOf(<<child>> \o left) = {child} \cup FramesOf(left)
    BY <1>3, <1>5, PushFrame
  <2>3. /\ Len(<<child>> \o left) = Len(left) + 1
        /\ (<<child>> \o left)[1] = child
        /\ \A i \in 1..Len(<<child>> \o left) :
              i = 1 \/ (i - 1 \in 1..Len(left) /\ (<<child>> \o left)[i] = left[i - 1])
    BY <1>3, <1>5, PushPlaces
  <2>4. child.dir = p
    OBVIOUS
  <2> HIDE DEF child, rest
  <2>5. /\ stack'[1].dir = p
        /\ \A i \in 1..Len(stack') :
              i = 1 \/ (i - 1 \in 1..Len(stack) /\ stack'[i].dir = stack[i - 1].dir)
    BY <1>5, <2>1, <2>3, <2>4
  <2>. QED
    BY <1>5, <1>7, <2>1, <2>2, <2>3, <2>5 DEF child, rest
<1>8. CASE Kind[p] # "dir"
  BY <1>5, <1>6, <1>8
<1>. QED
  BY <1>7, <1>8

LEMMA VisitInv ==
    ASSUME IInv, NEW p \in Paths, Visit(p)
    PROVE  IInv'
<1> DEFINE R     == Top.rest \ {p}
           rest  == [dir |-> Top.dir, rest |-> R]
           child == [dir |-> p, rest |-> {}]
<1>1. /\ Visiting(p) /\ stage = "visiting"
      /\ entriesSeen + 1 <= MaxEntries /\ entriesSeen' = entriesSeen + 1
      /\ Kind[p] # "other" => Portable(p)
      /\ stage' = IF Kind[p] = "dir" THEN "listing" ELSE "visiting"
      /\ files' = IF Kind[p] = "file" THEN files \cup {p} ELSE files
      /\ directories' = IF Kind[p] = "dir" THEN directories \cup {p} ELSE directories
      /\ links' = IF Kind[p] = "link" THEN links \cup {p} ELSE links
      /\ UNCHANGED <<directory, reading, error>>
  BY DEF Visit, Visiting
<1>2. /\ stack \in Seq(Frames) /\ stack # <<>> /\ Top = stack[1]
      /\ Top \in Frames /\ Top \in FramesOf(stack) /\ p \in Top.rest
      /\ FramesOf(stack) = {Top} \cup FramesOf(Tail(stack))
      /\ p \in seen /\ Ancestors(p) \subseteq directories
      /\ Kind[p] \in {"file", "dir"} => Inventoried(p)
  BY <1>1, VisitFacts
<1>3. Kind[p] \in {"file", "dir", "link", "other"}
  BY DirectoryAssumption
<1>4. /\ stack' \in Seq(Frames) /\ stack' # <<>>
      /\ FramesOf(stack') = (IF Kind[p] = "dir" THEN {child} ELSE {})
                               \cup {rest} \cup FramesOf(Tail(stack))
      /\ Kind[p] = "dir" => Head(stack') = child
  BY VisitStack
<1>5. /\ present' = present /\ steady' = steady /\ seen' = seen
      /\ size' = size /\ changes' = changes
      /\ todo' = todo /\ bytes' = bytes /\ documents' = documents
  BY <1>1 DEF directory, reading
<1>6. TypeOK'
  <2>1. /\ files' \subseteq Paths /\ directories' \subseteq Paths /\ links' \subseteq Paths
        /\ files \subseteq files' /\ entriesSeen' \in Nat
        /\ stage' \in Stages
    BY <1>1 DEF IInv, TypeOK, Stages
  <2>. QED
    BY <1>1, <1>4, <1>5, <2>1 DEF IInv, TypeOK, Frames
<1>7. TreeInv'
  BY <1>5 DEF IInv, TreeInv
<1>8. WalkInv'
  <2>1. stage' \in {"listing", "visiting"}
    BY <1>1
  <2>2. directories \subseteq directories' /\ (Kind[p] = "dir" => p \in directories')
    BY <1>1
  <2>3. ASSUME NEW f \in FramesOf(stack')
        PROVE  /\ f.dir = Root \/ f.dir \in directories'
               /\ \A q \in f.rest :
                     Parent(q) = f.dir /\ Name(q) \notin ExcludedNames /\ q \in seen'
    <3>1. CASE Kind[p] = "dir" /\ f = child
      BY <2>2, <3>1
    <3>2. CASE f = rest
      <4>1. /\ Top.dir = Root \/ Top.dir \in directories
            /\ \A q \in Top.rest :
                  Parent(q) = Top.dir /\ Name(q) \notin ExcludedNames /\ q \in seen
        BY <1>2 DEF IInv, WalkInv
      <4>. QED
        BY <1>5, <2>2, <3>2, <4>1
    <3>3. CASE f \in FramesOf(stack)
      BY <1>5, <2>2, <3>3 DEF IInv, WalkInv
    <3>. QED
      BY <1>2, <1>4, <3>1, <3>2, <3>3
  <2>. QED
    BY <1>4, <2>1, <2>3 DEF WalkInv
<1>9. FoundInv'
  <2>1. NothingInvented'
    BY <1>1, <1>2, <1>5 DEF IInv, FoundInv, NothingInvented
  <2>2. /\ \A q \in files' : Kind[q] = "file"
        /\ \A q \in directories' : Kind[q] = "dir"
    BY <1>1 DEF IInv, FoundInv
  <2>3. ASSUME NEW q \in files' \cup directories'
        PROVE  Portable(q) /\ Ancestors(q) \subseteq directories'
    <3>1. directories \subseteq directories'
      BY <1>1
    <3>2. CASE q \in files \cup directories
      BY <3>1, <3>2 DEF IInv, FoundInv
    <3>3. CASE q \notin files \cup directories
      <4>1. q = p /\ Kind[p] # "other"
        BY <1>1, <3>3
      <4>. QED
        BY <1>1, <1>2, <3>1, <4>1
    <3>. QED
      BY <3>2, <3>3
  <2>. QED
    BY <2>1, <2>2, <2>3 DEF FoundInv
<1>10. CoverInv'
  <2>1. files \subseteq files' /\ directories \subseteq directories'
    BY <1>1
  <2>2. ASSUME NEW q \in steady, Inventoried(q), q \notin files' \cup directories'
        PROVE  \/ \E f \in FramesOf(stack') : \E r \in f.rest : Inwards(r, q)
               \/ stage' = "listing" /\ Head(stack').dir \in Ancestors(q)
    <3>1. \E f \in FramesOf(stack) : \E r \in f.rest : Inwards(r, q)
      BY <1>1, <2>1, <2>2 DEF IInv, CoverInv, Ahead
    <3>2. CASE \E f \in FramesOf(Tail(stack)) : \E r \in f.rest : Inwards(r, q)
      BY <1>4, <3>2
    <3>3. CASE \E r \in Top.rest : Inwards(r, q)
      <4>1. PICK r \in Top.rest : Inwards(r, q)
        BY <3>3
      <4>2. CASE r # p
        <5>1. r \in rest.rest /\ rest \in FramesOf(stack')
          BY <1>4, <4>1, <4>2
        <5>. QED
          BY <4>1, <5>1
      <4>3. CASE r = p
        <5>1. q # p
          <6> SUFFICES ASSUME q = p PROVE FALSE
            OBVIOUS
          <6>1. Kind[p] = "file" \/ Kind[p] = "dir"
            BY <2>2 DEF Inventoried
          <6>. QED
            BY <1>1, <2>2, <6>1
        <5>2. p \in Ancestors(q)
          BY <4>1, <4>3, <5>1 DEF Inwards
        <5>3. q \in Paths
          BY DEF IInv, TypeOK
        <5>4. Kind[p] = "dir"
          BY <5>2, <5>3, DirectoryAssumption
        <5>. QED
          BY <1>1, <1>4, <5>2, <5>4
      <4>. QED
        BY <4>2, <4>3
    <3>. QED
      BY <1>2, <3>1, <3>2, <3>3
  <2>3. \A q \in steady : Inventoried(q) => q \in files' \cup directories' \/ Ahead(q)'
    BY <2>2 DEF Ahead, Top
  <2>. QED
    BY <1>5, <2>3 DEF CoverInv
<1>11. CountInv'
  <2>1. IsFiniteSet(files) /\ IsFiniteSet(directories) /\ IsFiniteSet(links)
    BY PathsAssumption, FS_Subset DEF IInv, TypeOK
  <2>2. /\ Cardinality(files) \in Nat /\ Cardinality(directories) \in Nat
        /\ Cardinality(links) \in Nat /\ entriesSeen \in Nat
    BY <2>1, FS_CardinalityType DEF IInv, TypeOK
  <2>3. /\ Cardinality(files \cup {p}) \in {Cardinality(files), Cardinality(files) + 1}
        /\ Cardinality(directories \cup {p})
              \in {Cardinality(directories), Cardinality(directories) + 1}
        /\ Cardinality(links \cup {p}) \in {Cardinality(links), Cardinality(links) + 1}
    BY <2>1, FS_AddElement
  <2>4. Cardinality(files) + Cardinality(directories) + Cardinality(links) <= entriesSeen
    BY DEF IInv, CountInv, EntryCount
  <2>5. Cardinality(files') + Cardinality(directories') + Cardinality(links') <= entriesSeen + 1
    <3>1. CASE Kind[p] = "file"
      <4>1. files' = files \cup {p} /\ directories' = directories /\ links' = links
        BY <1>1, <3>1
      <4>. QED
        BY <2>2, <2>3, <2>4, <4>1
    <3>2. CASE Kind[p] = "dir"
      <4>1. files' = files /\ directories' = directories \cup {p} /\ links' = links
        BY <1>1, <3>2
      <4>. QED
        BY <2>2, <2>3, <2>4, <4>1
    <3>3. CASE Kind[p] = "link"
      <4>1. files' = files /\ directories' = directories /\ links' = links \cup {p}
        BY <1>1, <3>3
      <4>. QED
        BY <2>2, <2>3, <2>4, <4>1
    <3>4. CASE Kind[p] = "other"
      <4>1. files' = files /\ directories' = directories /\ links' = links
        BY <1>1, <3>4
      <4>. QED
        BY <2>2, <2>4, <4>1
    <3>. QED
      BY <1>3, <3>1, <3>2, <3>3, <3>4
  <2>. QED
    BY <1>1, <2>5 DEF CountInv, EntryCount
<1>12. DocumentsInv' /\ CollisionInv'
  <2>1. stage' \in {"listing", "visiting", "checking"}
    BY <1>1
  <2>. QED
    BY <1>1, <2>1, NothingRead
<1>. QED
  BY <1>6, <1>7, <1>8, <1>9, <1>10, <1>11, <1>12 DEF IInv

LEMMA ReturnInv ==
    ASSUME IInv, Return
    PROVE  IInv'
<1>1. /\ stage = "visiting" /\ Top.rest = {}
      /\ stack' = Tail(stack)
      /\ stage' = IF Len(stack) = 1 THEN "checking" ELSE "visiting"
      /\ UNCHANGED <<directory, entriesSeen, files, directories, links, reading, error>>
  BY DEF Return
<1>2. stack \in Seq(Frames) /\ stack # <<>>
  BY <1>1 DEF IInv, TypeOK, WalkInv, Frames
<1>3. /\ Tail(stack) \in Seq(Frames) /\ Len(Tail(stack)) = Len(stack) - 1
      /\ FramesOf(stack) = {Top} \cup FramesOf(Tail(stack))
      /\ Len(stack) \in Nat /\ Len(stack) >= 1
  BY <1>2, HeadAndTail, EmptySeq DEF Top
<1>4. Len(stack) = 1 <=> Tail(stack) = <<>>
  <2> DEFINE T == Tail(stack)
             n == Len(stack)
  <2>1. T \in Seq(Frames) /\ Len(T) = n - 1 /\ n \in Nat /\ n >= 1
    BY <1>3
  <2> HIDE DEF T, n
  <2>2. T = <<>> => Len(T) = 0
    BY EmptySeq
  <2>3. T # <<>> => Len(T) \in Nat \ {0}
    BY <2>1, EmptySeq
  <2>4. n = 1 <=> T = <<>>
    BY <2>1, <2>2, <2>3
  <2>. QED
    BY <2>4 DEF T, n
<1>5. TypeOK'
  BY <1>1, <1>3 DEF IInv, TypeOK, Frames, Stages, directory, reading
<1>6. TreeInv' /\ FoundInv' /\ CountInv'
  BY <1>1, WalkKept
<1>7. WalkInv'
  <2>1. directories' = directories /\ seen' = seen
    BY <1>1 DEF directory
  <2>2. FramesOf(stack') \subseteq FramesOf(stack)
    BY <1>1, <1>3
  <2>3. stage' = IF stack' = <<>> THEN "checking" ELSE "visiting"
    BY <1>1, <1>4
  <2>. QED
    BY <2>1, <2>2, <2>3 DEF IInv, WalkInv
<1>8. CoverInv'
  <2>1. steady' = steady /\ files' = files /\ directories' = directories
    BY <1>1 DEF directory
  <2>2. ASSUME NEW p \in steady, Inventoried(p), p \notin files \cup directories
        PROVE  \E f \in FramesOf(stack') : \E q \in f.rest : Inwards(q, p)
    <3>1. \E f \in FramesOf(stack) : \E q \in f.rest : Inwards(q, p)
      BY <1>1, <2>2 DEF IInv, CoverInv, Ahead
    <3>. QED
      BY <1>1, <1>3, <3>1
  <2>. QED
    BY <2>1, <2>2 DEF CoverInv, Ahead
<1>9. DocumentsInv' /\ CollisionInv'
  BY <1>1, NothingRead
<1>. QED
  BY <1>5, <1>6, <1>7, <1>8, <1>9 DEF IInv

(***************************************************************************)
(* The passes over the documents.                                          *)
(***************************************************************************)

\* The walk is over: what it found, and that nothing is ahead, stays.
LEMMA FoundKept ==
    ASSUME IInv, UNCHANGED <<directory, scan>>,
           stage \in {"checking", "sizing", "probing", "loading"},
           stage' \in {"sizing", "probing", "loading", "ready"}
    PROVE  TreeInv' /\ FoundInv' /\ CountInv' /\ WalkInv' /\ CoverInv'
<1>1. /\ present' = present /\ steady' = steady /\ seen' = seen
      /\ stack' = stack /\ entriesSeen' = entriesSeen
      /\ files' = files /\ directories' = directories /\ links' = links
  BY DEF directory, scan
<1>2. TreeInv' /\ FoundInv' /\ CountInv'
  BY <1>1 DEF IInv, TreeInv, FoundInv, NothingInvented, CountInv
<1>3. stack = <<>> /\ FramesOf(stack) = {}
  <2>1. stack = <<>>
    BY DEF IInv, WalkInv
  <2>. QED
    BY <2>1, NothingFound
<1>4. WalkInv'
  BY <1>1, <1>3 DEF WalkInv
<1>5. CoverInv'
  <2>1. \A p \in steady : Inventoried(p) => p \in files \cup directories
    BY <1>3 DEF IInv, CoverInv, Ahead
  <2>. QED
    BY <1>1, <2>1 DEF CoverInv
<1>. QED
  BY <1>2, <1>4, <1>5

\* The type invariant needs to be looked at for what has changed.
LEMMA TypesKept ==
    ASSUME IInv, UNCHANGED <<directory, scan, error>>, stage' \in Stages,
           todo' \subseteq files, bytes' \in Nat, documents' \in Seq(Documents)
    PROVE  TypeOK'
BY DEF IInv, TypeOK, directory, scan

\* A document that is still to do is one, and has a size.
LEMMA ToDo ==
    ASSUME IInv, stage \in {"sizing", "probing", "loading"}, todo # {}
    PROVE  /\ First(todo) \in todo /\ First(todo) \in Recognizable /\ First(todo) \in Paths
           /\ \A q \in todo : q \in Paths /\ Order[First(todo)] <= Order[q]
           /\ size[First(todo)] \in Nat
<1>1. todo \subseteq Recognizable /\ files \subseteq Paths
  BY DEF IInv, TypeOK, DocumentsInv, Loading
<1>2. todo \in SUBSET Paths
  BY <1>1 DEF Recognizable
<1>3. First(todo) \in todo /\ \A q \in todo : Order[First(todo)] <= Order[q]
  BY <1>2, FirstIs
<1>4. IsDocument(First(todo)) /\ First(todo) \in Paths
  BY <1>1, <1>3 DEF Recognizable, IsDocument, IInv, FoundInv
<1>5. size[First(todo)] \in Nat
  BY <1>4, DirectoryAssumption DEF IInv, TypeOK
<1>. QED
  BY <1>1, <1>2, <1>3, <1>4, <1>5

LEMMA CheckInv ==
    ASSUME IInv, Check
    PROVE  IInv'
<1>1. /\ stage = "checking" /\ stage' = "sizing" /\ ~Collides(files, directories)
      /\ todo' = Recognizable /\ bytes' = bytes /\ documents' = documents
      /\ UNCHANGED <<directory, scan, error>>
      /\ files' = files /\ directories' = directories
  BY DEF Check, scan
<1>2. TypeOK'
  <2>1. stage' \in Stages /\ todo' \subseteq files
    BY <1>1 DEF Stages, Recognizable
  <2>2. bytes' \in Nat /\ documents' \in Seq(Documents)
    BY <1>1 DEF IInv, TypeOK
  <2>. QED
    BY <1>1, <2>1, <2>2, TypesKept
<1>3. TreeInv' /\ FoundInv' /\ CountInv' /\ WalkInv' /\ CoverInv'
  BY <1>1, FoundKept
<1>4. DocumentsInv'
  BY <1>1, TotalOfNone, LimitsAssumption DEF IInv, DocumentsInv, Loading, Recognizable
<1>5. CollisionInv'
  BY <1>1 DEF CollisionInv
<1>. QED
  BY <1>2, <1>3, <1>4, <1>5 DEF IInv

LEMMA SizeInv ==
    ASSUME IInv, Size
    PROVE  IInv'
<1> DEFINE p == First(todo)
<1>1. /\ stage = "sizing" /\ stage' = "sizing" /\ p \in present
      /\ bytes' = bytes + size[p] /\ todo' = todo \ {p} /\ documents' = documents
      /\ todo # {}
      /\ UNCHANGED <<directory, scan, error>>
      /\ files' = files /\ directories' = directories
  BY DEF Size, scan
<1>2. size[p] \in Nat
  BY <1>1, ToDo
<1>3. TypeOK'
  <2>1. stage' \in Stages /\ todo' \subseteq files
    BY <1>1 DEF Stages, IInv, TypeOK
  <2>2. bytes' \in Nat /\ documents' \in Seq(Documents)
    BY <1>1, <1>2 DEF IInv, TypeOK
  <2>. QED
    BY <1>1, <2>1, <2>2, TypesKept
<1>4. TreeInv' /\ FoundInv' /\ CountInv' /\ WalkInv' /\ CoverInv'
  BY <1>1, FoundKept
<1>5. DocumentsInv'
  BY <1>1, TotalOfNone, LimitsAssumption DEF IInv, DocumentsInv, Loading, Recognizable
<1>6. CollisionInv'
  BY <1>1 DEF IInv, CollisionInv
<1>. QED
  BY <1>3, <1>4, <1>5, <1>6 DEF IInv

\* The second pass begins: nothing is read and everything is to do.
LEMMA LimitInv ==
    ASSUME IInv, Limit
    PROVE  IInv'
<1>1. /\ stage = "sizing" /\ stage' = "probing"
      /\ todo' = Recognizable /\ bytes' = 0 /\ documents' = documents
      /\ UNCHANGED <<directory, scan, error>>
      /\ files' = files /\ directories' = directories
  BY DEF Limit, scan
<1>2. TypeOK'
  <2>1. stage' \in Stages /\ todo' \subseteq files
    BY <1>1 DEF Stages, Recognizable
  <2>2. bytes' \in Nat /\ documents' \in Seq(Documents)
    BY <1>1 DEF IInv, TypeOK
  <2>. QED
    BY <1>1, <2>1, <2>2, TypesKept
<1>3. TreeInv' /\ FoundInv' /\ CountInv' /\ WalkInv' /\ CoverInv'
  BY <1>1, FoundKept
<1>4. DocumentsInv'
  <2>1. documents' = <<>> /\ Len(documents') = 0
    BY <1>1 DEF IInv, DocumentsInv
  <2>2. Listed' = {}
    BY <2>1 DEF Listed
  <2>3. Recognizable' = Recognizable
    BY <1>1 DEF Recognizable
  <2>. QED
    BY <1>1, <2>1, <2>2, <2>3, TotalOfNone, LimitsAssumption DEF DocumentsInv, Loading
<1>5. CollisionInv'
  BY <1>1 DEF IInv, CollisionInv
<1>. QED
  BY <1>2, <1>3, <1>4, <1>5 DEF IInv

\* A document will do, or there is none left: only the stage changes.
LEMMA StageInv ==
    ASSUME IInv, Probe \/ Publish
    PROVE  IInv'
<1>1. /\ stage = "probing" /\ UNCHANGED <<directory, scan, reading, error>>
      /\ \/ todo # {} /\ stage' = "loading"
         \/ todo = {} /\ stage' = "ready"
  BY DEF Probe, Publish
<1>2. /\ files' = files /\ directories' = directories
      /\ todo' = todo /\ bytes' = bytes /\ documents' = documents
  BY <1>1 DEF scan, reading
<1>3. TypeOK'
  <2>1. /\ stage' \in Stages /\ todo' \subseteq files
        /\ bytes' \in Nat /\ documents' \in Seq(Documents)
    BY <1>1, <1>2 DEF Stages, IInv, TypeOK
  <2>. QED
    BY <1>1, <2>1, TypesKept
<1>4. TreeInv' /\ FoundInv' /\ CountInv' /\ WalkInv' /\ CoverInv'
  BY <1>1, FoundKept
<1>5. DocumentsInv'
  <2>1. Listed' = Listed /\ Recognizable' = Recognizable
    BY <1>2 DEF Listed, Recognizable
  <2>. QED
    BY <1>1, <1>2, <2>1 DEF IInv, DocumentsInv, Loading
<1>6. CollisionInv'
  BY <1>1, <1>2 DEF IInv, CollisionInv
<1>. QED
  BY <1>3, <1>4, <1>5, <1>6 DEF IInv

LEMMA LoadInv ==
    ASSUME IInv, Load
    PROVE  IInv'
<1> DEFINE p == First(todo)
           d == [path |-> p, size |-> size[p]]
           n == Len(documents)
<1>1. /\ stage = "loading" /\ stage' = "probing"
      /\ size[p] <= MaxDocumentBytes
      /\ ~Exceeds(Len(documents) + 1, bytes + size[p])
      /\ documents' = Append(documents, d)
      /\ bytes' = bytes + size[p] /\ todo' = todo \ {p}
      /\ UNCHANGED <<directory, scan, error>>
      /\ files' = files /\ directories' = directories
  BY DEF Load, scan
<1>2. todo # {}
  BY <1>1 DEF IInv, DocumentsInv
<1>3. /\ p \in todo /\ p \in Recognizable /\ p \in Paths /\ size[p] \in Nat
      /\ \A q \in todo : q \in Paths /\ Order[p] <= Order[q]
  BY <1>1, <1>2, ToDo
<1>4. /\ documents \in Seq(Measured) /\ d \in Measured /\ n \in Nat
      /\ bytes \in Nat /\ p \in files
  BY <1>3 DEF IInv, TypeOK, Documents, Measured, Recognizable
<1>5. /\ documents' \in Seq(Measured) /\ Len(documents') = n + 1
      /\ documents'[n + 1] = d
      /\ \A i \in 1..n : documents'[i] = documents[i]
  BY <1>1, <1>4, AppendProperties
<1>6. d.path = p /\ d.size = size[p]
  OBVIOUS
<1> HIDE DEF d, n
<1>7. \A i \in 1..n + 1 : i \in 1..n \/ i = n + 1
  BY <1>4
<1>8. TypeOK'
  <2>1. stage' \in Stages /\ todo' \subseteq files
    BY <1>1 DEF Stages, IInv, TypeOK
  <2>2. bytes' \in Nat /\ documents' \in Seq(Documents)
    BY <1>1, <1>3, <1>4, <1>5 DEF Documents, Measured
  <2>. QED
    BY <1>1, <2>1, <2>2, TypesKept
<1>9. TreeInv' /\ FoundInv' /\ CountInv' /\ WalkInv' /\ CoverInv'
  BY <1>1, FoundKept
<1>10. CollisionInv'
  BY <1>1 DEF IInv, CollisionInv
<1>11. Listed' \cup todo' = Recognizable'
  <2>1. Listed' = Listed \cup {p}
    <3>1. Listed' = {documents'[i].path : i \in 1..n + 1}
      BY <1>5 DEF Listed
    <3>2. Listed = {documents[i].path : i \in 1..n}
      BY DEF Listed, n
    <3>3. n + 1 \in 1..n + 1 /\ \A i \in 1..n : i \in 1..n + 1
      BY <1>4
    <3>. QED
      BY <1>5, <1>6, <1>7, <3>1, <3>2, <3>3
  <2>2. Listed \cup todo = Recognizable
    BY <1>1 DEF IInv, DocumentsInv, Loading
  <2>3. Recognizable' = Recognizable
    BY <1>1 DEF Recognizable
  <2>. QED
    BY <1>1, <1>3, <2>1, <2>2, <2>3
<1>12. /\ \A i \in 1..n : \A q \in todo : Order[documents[i].path] < Order[q]
       /\ \A i, j \in 1..n :
             i < j => Order[documents[i].path] < Order[documents[j].path]
       /\ \A i \in 1..n :
             documents[i].path \in files /\ documents[i].size <= MaxDocumentBytes
  BY <1>1 DEF IInv, DocumentsInv, Loading, n
<1>13. ASSUME NEW i \in 1..n + 1, NEW j \in 1..n + 1, i < j
       PROVE  Order[documents'[i].path] < Order[documents'[j].path]
  <2>1. i \in 1..n
    BY <1>4, <1>13
  <2>2. CASE j \in 1..n
    BY <1>5, <1>12, <1>13, <2>1, <2>2
  <2>3. CASE j = n + 1
    BY <1>3, <1>5, <1>6, <1>12, <2>1, <2>3
  <2>. QED
    BY <1>7, <2>2, <2>3
<1>14. ASSUME NEW i \in 1..n + 1, NEW q \in todo'
       PROVE  Order[documents'[i].path] < Order[q]
  <2>1. q \in todo /\ q # p
    BY <1>1
  <2>2. CASE i \in 1..n
    BY <1>5, <1>12, <2>1, <2>2
  <2>3. CASE i = n + 1
    <3>1. Order[p] \in Nat /\ Order[q] \in Nat /\ Order[p] # Order[q] /\ Order[p] <= Order[q]
      BY <1>3, <2>1, OrderAssumption
    <3>. QED
      BY <1>5, <1>6, <2>3, <3>1
  <2>. QED
    BY <1>7, <2>2, <2>3
<1>15. TotalBytes(documents') = bytes'
  <2>1. TotalBytes(Append(documents, d)) = TotalBytes(documents) + d.size
    BY <1>4, TotalOfAppend
  <2>2. TotalBytes(documents) = bytes
    BY <1>1 DEF IInv, DocumentsInv, Loading
  <2>. QED
    BY <1>1, <1>6, <2>1, <2>2
<1>16. n + 1 <= MaxDocuments /\ bytes' <= MaxBytes
  <2>1. ~ (n + 1 > MaxDocuments) /\ ~ (bytes + size[p] > MaxBytes)
    BY <1>1 DEF Exceeds, n
  <2>. QED
    BY <1>1, <1>3, <1>4, <2>1, LimitsAssumption
<1>17. ASSUME NEW i \in 1..n + 1
       PROVE  documents'[i].path \in files' /\ documents'[i].size <= MaxDocumentBytes
  BY <1>1, <1>4, <1>5, <1>6, <1>7, <1>12
<1>18. DocumentsInv'
  BY <1>1, <1>5, <1>11, <1>13, <1>14, <1>15, <1>16, <1>17 DEF DocumentsInv, Loading
<1>. QED
  BY <1>8, <1>9, <1>10, <1>18 DEF IInv

-----------------------------------------------------------------------------

(***************************************************************************)
(* The theorems.                                                           *)
(***************************************************************************)

LEMMA StutterInv ==
    ASSUME IInv, UNCHANGED vars
    PROVE  IInv'
<1>1. /\ UNCHANGED <<stage, error>>
      /\ present' = present /\ size' = size /\ changes' = changes
      /\ steady' = steady /\ seen' = seen
      /\ stack' = stack /\ entriesSeen' = entriesSeen
      /\ files' = files /\ directories' = directories /\ links' = links
      /\ todo' = todo /\ bytes' = bytes /\ documents' = documents
  BY DEF vars, directory, scan, reading
<1>2. TypeOK' /\ TreeInv'
  BY <1>1 DEF IInv, TypeOK, TreeInv
<1>. QED
  BY <1>1, <1>2, ReaderKept DEF IInv, TypeOK, scan, reading

\* Every action that ends the read fails it.
LEMMA Failures ==
    ASSUME NEW p \in Paths,
           \/ ListFails \/ VisitFails(p) \/ CheckFails \/ SizeFails
           \/ LimitFails \/ ProbeFails \/ LoadFails
    PROVE  \E reason \in Errors : Fail(reason)
<1>1. {"read", "entries", "nonutf8", "unsafe", "collision", "resources", "toolarge",
       "malformed"} \subseteq Errors
  BY DEF Errors
<1>. QED
  BY <1>1 DEF ListFails, VisitFails, CheckFails, SizeFails, LimitFails, ProbeFails, LoadFails

LEMMA Invariance == Spec => []IInv
<1>1. ASSUME IInv, [Next]_vars PROVE IInv'
  <2>1. CASE ListFails \/ CheckFails \/ SizeFails \/ LimitFails \/ ProbeFails \/ LoadFails
    <3>1. Paths # {} => \E reason \in Errors : Fail(reason)
      BY <2>1, Failures
    <3>2. Paths = {} => \E reason \in Errors : Fail(reason)
      BY <2>1 DEF ListFails, CheckFails, SizeFails, LimitFails, ProbeFails, LoadFails, Errors
    <3>. QED
      BY <1>1, <3>1, <3>2, FailInv
  <2>2. ASSUME NEW p \in Paths, VisitFails(p) PROVE IInv'
    BY <1>1, <2>2, Failures, FailInv
  <2>3. CASE ListEntries
    BY <1>1, <2>3, ListEntriesInv
  <2>4. ASSUME NEW p \in Paths, Visit(p) PROVE IInv'
    BY <1>1, <2>4, VisitInv
  <2>5. CASE Return
    BY <1>1, <2>5, ReturnInv
  <2>6. CASE Check
    BY <1>1, <2>6, CheckInv
  <2>7. CASE Size
    BY <1>1, <2>7, SizeInv
  <2>8. CASE Limit
    BY <1>1, <2>8, LimitInv
  <2>9. CASE Probe \/ Publish
    BY <1>1, <2>9, StageInv
  <2>10. CASE Load
    BY <1>1, <2>10, LoadInv
  <2>11. ASSUME NEW p \in Paths, Create(p) PROVE IInv'
    BY <1>1, <2>11, CreateInv
  <2>12. ASSUME NEW p \in Paths, Delete(p) PROVE IInv'
    BY <1>1, <2>12, DeleteInv
  <2>13. ASSUME NEW p \in Paths, NEW n \in Sizes, Rewrite(p, n) PROVE IInv'
    BY <1>1, <2>13, RewriteInv
  <2>14. CASE UNCHANGED vars
    BY <1>1, <2>14, StutterInv
  <2>. QED
    BY <1>1, <2>1, <2>2, <2>3, <2>4, <2>5, <2>6, <2>7, <2>8, <2>9, <2>10, <2>11, <2>12,
       <2>13, <2>14 DEF Next, Read, Answered
<1>. QED
  BY <1>1, InitInv, PTL DEF Spec

\* The variables have their types for every tree and any number of changes.
THEOREM TypeCorrect == Spec => []TypeOK
<1>1. IInv => TypeOK
  BY DEF IInv
<1>. QED
  BY <1>1, Invariance, PTL

\* However the directory grows between the passes of ModelRepository::read,
\* what the reader keeps is within the limits of entries, documents, bytes
\* and bytes per document at every step.
THEOREM Bounded == Spec => []RetainedIsBounded
<1>1. IInv => RetainedIsBounded
  <2> SUFFICES ASSUME IInv PROVE RetainedIsBounded
    OBVIOUS
  <2>1. /\ IsFiniteSet(files) /\ IsFiniteSet(directories) /\ IsFiniteSet(links)
    BY PathsAssumption, FS_Subset DEF IInv, TypeOK
  <2>2. /\ Cardinality(files) \in Nat /\ Cardinality(directories) \in Nat
        /\ Cardinality(links) \in Nat /\ entriesSeen \in Nat
    BY <2>1, FS_CardinalityType DEF IInv, TypeOK
  <2>3. EntryCount(files, directories) + Cardinality(links) <= MaxEntries
    BY <2>2, LimitsAssumption DEF IInv, CountInv, EntryCount
  <2>. QED
    BY <2>3 DEF RetainedIsBounded, IInv, DocumentsInv
<1>. QED
  BY <1>1, Invariance, PTL

\* Whatever others create, remove and rewrite while the directory is walked
\* and its documents are read: a repository that is ready has every entry
\* that was there all along and nothing that never was, and has read every
\* document it lists.
THEOREM Faithful == Spec => []ReadIsFaithful
<1>1. IInv => ReadIsFaithful
  <2> SUFFICES ASSUME IInv PROVE ReadIsFaithful
    OBVIOUS
  <2>1. SteadyIsFound
    <3> SUFFICES ASSUME stage = "ready" PROVE SteadyIsFound
      BY DEF SteadyIsFound
    <3>1. FramesOf(stack) = {}
      BY NothingFound DEF IInv, WalkInv
    <3>. QED
      BY <3>1 DEF IInv, CoverInv, Ahead, SteadyIsFound
  <2>2. NothingInvented
    BY DEF IInv, FoundInv
  <2>3. EveryDocumentRead
    BY DEF IInv, DocumentsInv, EveryDocumentRead, Listed
  <2>. QED
    BY <2>1, <2>2, <2>3 DEF ReadIsFaithful
<1>. QED
  BY <1>1, Invariance, PTL

-----------------------------------------------------------------------------
(***************************************************************************)
(* The steps a read may take.                                              *)
(***************************************************************************)

\* What is counted is a number, and there are no more documents to measure
\* than entries.
LEMMA Numbers ==
    ASSUME IInv
    PROVE  /\ entriesSeen \in Nat /\ MaxEntries - entriesSeen \in Nat
           /\ MaxEntries \in Nat /\ MaxDocuments \in Nat
           /\ Len(stack) \in Nat
           /\ IsFiniteSet(todo) /\ Cardinality(todo) \in Nat /\ Cardinality(todo) <= MaxEntries
           /\ Cardinality(Recognizable) \in Nat /\ Cardinality(Recognizable) <= MaxEntries
<1>1. /\ IsFiniteSet(files) /\ IsFiniteSet(directories) /\ IsFiniteSet(links)
  BY PathsAssumption, FS_Subset DEF IInv, TypeOK
<1>2. /\ Cardinality(files) \in Nat /\ Cardinality(directories) \in Nat
      /\ Cardinality(links) \in Nat
  BY <1>1, FS_CardinalityType
<1>3. entriesSeen \in Nat /\ MaxEntries \in Nat /\ MaxDocuments \in Nat
  BY LimitsAssumption DEF IInv, TypeOK
<1>4. Cardinality(files) <= entriesSeen /\ entriesSeen <= MaxEntries
  BY <1>2, <1>3 DEF IInv, CountInv, EntryCount
<1>5. todo \subseteq files /\ Recognizable \subseteq files
  BY DEF IInv, TypeOK, Recognizable
<1>6. /\ IsFiniteSet(todo) /\ Cardinality(todo) <= Cardinality(files)
      /\ IsFiniteSet(Recognizable) /\ Cardinality(Recognizable) <= Cardinality(files)
  BY <1>1, <1>5, FS_Subset
<1>7. Cardinality(todo) \in Nat /\ Cardinality(Recognizable) \in Nat
  BY <1>6, FS_CardinalityType
<1>8. Len(stack) \in Nat
  BY DEF IInv, TypeOK
<1>. QED
  BY <1>2, <1>3, <1>4, <1>6, <1>7, <1>8

\* The document that is done is one less.
LEMMA OneLess ==
    ASSUME IInv, todo # {}, todo' = todo \ {First(todo)}
    PROVE  Cardinality(todo') = Cardinality(todo) - 1 /\ Cardinality(todo) >= 1
<1>1. todo \subseteq Paths /\ IsFiniteSet(todo)
  BY Numbers DEF IInv, TypeOK
<1>2. First(todo) \in todo
  BY <1>1, FirstIs
<1>3. Cardinality(todo') = Cardinality(todo) - 1
  BY <1>1, <1>2, FS_RemoveElement
<1>4. Cardinality(todo) # 0 /\ Cardinality(todo) \in Nat
  BY <1>1, FS_EmptySet, FS_CardinalityType
<1>. QED
  BY <1>3, <1>4

\* Steps of the walk, by what is counted.
Walking(entries, frames) ==
    3 * entries + frames + (MaxEntries + 2 * MaxDocuments + 3)

LEMMA WalkSteps ==
    ASSUME IInv
    PROVE  /\ stage = "listing" => StepsLeft = Walking(MaxEntries - entriesSeen, Len(stack) + 1)
           /\ stage = "visiting" => StepsLeft = Walking(MaxEntries - entriesSeen, Len(stack))
           /\ stage \in {"listing", "visiting"} => StepsLeft \in Nat /\ StepsLeft >= 1
<1> DEFINE e == MaxEntries - entriesSeen
           f == Len(stack)
<1>1. e \in Nat /\ f \in Nat /\ MaxEntries \in Nat /\ MaxDocuments \in Nat
  BY Numbers
<1>2. /\ stage = "listing" => StepsLeft = 3 * e + f + 1 + (MaxEntries + 2 * MaxDocuments + 3)
      /\ stage = "visiting" => StepsLeft = 3 * e + f + (MaxEntries + 2 * MaxDocuments + 3)
  BY Zenon DEF StepsLeft
<1> HIDE DEF e, f
<1>3. /\ stage = "listing" => StepsLeft = Walking(e, f + 1)
      /\ stage = "visiting" => StepsLeft = Walking(e, f)
      /\ stage \in {"listing", "visiting"} => StepsLeft \in Nat /\ StepsLeft >= 1
  BY <1>1, <1>2 DEF Walking
<1>. QED
  BY <1>3 DEF e, f

\* Fewer frames, or an entry less for two frames more, are fewer steps.
LEMMA FewerSteps ==
    ASSUME NEW e \in Nat, NEW f \in Nat, NEW g \in Nat
    PROVE  /\ g < f => Walking(e, g) \in 0..(Walking(e, f) - 1)
           /\ e - 1 \in Nat /\ g <= f + 2 => Walking(e - 1, g) \in 0..(Walking(e, f) - 1)
           /\ MaxEntries + 2 * MaxDocuments + 3 \in 0..(Walking(e, f + 1) - 1)
  BY LimitsAssumption DEF Walking

\* An answer is the last step.
LEMMA LastStep ==
    ASSUME IInv, ~Over, stage' \in {"ready", "failed"}
    PROVE  StepsLeft' \in 0..(StepsLeft - 1)
<1>1. StepsLeft' = 0
  BY DEF StepsLeft
<1>2. stage = "loading" => Cardinality(todo) >= 1
  <2>1. stage = "loading" => todo # {}
    BY DEF IInv, DocumentsInv
  <2>2. IsFiniteSet(todo) => (Cardinality(todo) = 0 <=> todo = {})
    BY FS_EmptySet
  <2>. QED
    BY <2>1, <2>2, Numbers
<1>3. stage \in Stages \ {"ready", "failed"}
  BY DEF IInv, TypeOK, Over
<1>4. StepsLeft \in Nat /\ StepsLeft >= 1
  <2>1. CASE stage \in {"listing", "visiting"}
    BY <2>1, WalkSteps
  <2>2. CASE stage = "checking"
    BY <2>2, Numbers DEF StepsLeft
  <2>3. CASE stage = "sizing"
    BY <2>3, Numbers DEF StepsLeft
  <2>4. CASE stage = "probing"
    BY <2>4, Numbers DEF StepsLeft
  <2>5. CASE stage = "loading"
    BY <1>2, <2>5, Numbers DEF StepsLeft
  <2>. QED
    BY <1>3, <2>1, <2>2, <2>3, <2>4, <2>5 DEF Stages
<1>. QED
  BY <1>1, <1>4

LEMMA VisitSteps ==
    ASSUME IInv, IInv', NEW p \in Paths, Visit(p)
    PROVE  StepsLeft' \in 0..(StepsLeft - 1)
<1>1. /\ stage = "visiting" /\ entriesSeen' = entriesSeen + 1
      /\ stage' = IF Kind[p] = "dir" THEN "listing" ELSE "visiting"
  BY DEF Visit, Visiting
<1>2. Len(stack') = IF Kind[p] = "dir" THEN Len(stack) + 1 ELSE Len(stack)
  <2> DEFINE R    == Top.rest \ {p}
             left == [stack EXCEPT ![1].rest = R]
             f    == [dir |-> p, rest |-> {}]
  <2>1. stack \in Seq(Frames) /\ stack # <<>> /\ Top = stack[1] /\ Top \in Frames
    BY VisitFacts DEF Visit
  <2>2. R \in SUBSET Paths
    BY <2>1 DEF Frames
  <2>3. left \in Seq(Frames) /\ Len(left) = Len(stack)
    BY <2>1, <2>2, ChangeTop
  <2>4. stack' = IF Kind[p] = "dir" THEN <<f>> \o left ELSE left
    BY <2>1 DEF Visit
  <2>5. f \in Frames /\ <<f>> \in Seq(Frames) /\ Len(<<f>>) = 1
    BY DEF Frames
  <2> HIDE DEF left, f
  <2>6. Len(<<f>> \o left) = 1 + Len(left)
    BY <2>3, <2>5, ConcatProperties
  <2>. QED
    BY <2>3, <2>4, <2>6, Numbers
<1> DEFINE e == MaxEntries - entriesSeen
           f == Len(stack)
           g == IF Kind[p] = "dir" THEN f + 2 ELSE f
<1>3. e \in Nat /\ f \in Nat /\ g \in Nat /\ g <= f + 2
  BY Numbers
<1>4. MaxEntries - entriesSeen' = e - 1 /\ e - 1 \in Nat
  <2>1. entriesSeen' <= MaxEntries
    BY DEF IInv, CountInv
  <2>. QED
    BY <1>1, <2>1, Numbers
<1>5. StepsLeft = Walking(e, f)
  BY <1>1, WalkSteps
<1>6. StepsLeft' = Walking(e - 1, g)
  <2>1. /\ stage' = "listing" =>
              StepsLeft' = 3 * (MaxEntries - entriesSeen') + Len(stack') + 1
                           + (MaxEntries + 2 * MaxDocuments + 3)
        /\ stage' = "visiting" =>
              StepsLeft' = 3 * (MaxEntries - entriesSeen') + Len(stack')
                           + (MaxEntries + 2 * MaxDocuments + 3)
    BY Zenon DEF StepsLeft
  <2>2. Len(stack') = IF Kind[p] = "dir" THEN f + 1 ELSE f
    BY <1>2
  <2> HIDE DEF e, f
  <2>3. /\ stage' = "listing" => StepsLeft' = Walking(e - 1, f + 2)
        /\ stage' = "visiting" => StepsLeft' = Walking(e - 1, f)
    BY <1>1, <1>3, <1>4, <2>1, <2>2, LimitsAssumption DEF Walking
  <2>. QED
    BY <1>1, <2>3
<1> HIDE DEF e, f, g
<1>7. Walking(e - 1, g) \in 0..(Walking(e, f) - 1)
  BY <1>3, <1>4, FewerSteps
<1>. QED
  BY <1>5, <1>6, <1>7

\* Every step of the reader leaves fewer.
LEMMA ReadSteps ==
    ASSUME IInv, IInv', Read
    PROVE  StepsLeft' \in 0..(StepsLeft - 1)
<1>1. CASE ListEntries
  <2>1. /\ stage = "listing" /\ stage' = "visiting" /\ entriesSeen' = entriesSeen
        /\ stack' = [stack EXCEPT ![1].rest = Listing]
    BY <1>1 DEF ListEntries
  <2>2. Len(stack') = Len(stack)
    <3>1. stack \in Seq(Frames) /\ stack # <<>>
      BY <2>1 DEF IInv, TypeOK, WalkInv, Frames
    <3>2. Listing \in SUBSET Paths
      BY DEF IInv, TypeOK, Listing, Children
    <3>. QED
      BY <2>1, <3>1, <3>2, ChangeTop
  <2>3. StepsLeft' = Walking(MaxEntries - entriesSeen, Len(stack))
    BY Zenon, <2>1, <2>2 DEF StepsLeft, Walking
  <2>4. StepsLeft = Walking(MaxEntries - entriesSeen, Len(stack) + 1)
    BY <2>1, WalkSteps
  <2>5. Len(stack) + 1 \in Nat /\ Len(stack) < Len(stack) + 1
    BY Numbers
  <2>6. Walking(MaxEntries - entriesSeen, Len(stack))
          \in 0..(Walking(MaxEntries - entriesSeen, Len(stack) + 1) - 1)
    BY <2>5, Numbers, FewerSteps
  <2>. QED
    BY <2>3, <2>4, <2>6
<1>2. ASSUME NEW p \in Paths, Visit(p) PROVE StepsLeft' \in 0..(StepsLeft - 1)
  BY <1>2, VisitSteps
<1>3. CASE Return
  <2>1. /\ stage = "visiting" /\ stack' = Tail(stack) /\ entriesSeen' = entriesSeen
        /\ stage' = IF Len(stack) = 1 THEN "checking" ELSE "visiting"
    BY <1>3 DEF Return
  <2>2. stack \in Seq(Frames) /\ stack # <<>>
    BY <2>1 DEF IInv, TypeOK, WalkInv, Frames
  <2>3. Len(Tail(stack)) = Len(stack) - 1 /\ Len(stack) >= 1
    BY <2>2, HeadAndTail, EmptySeq
  <2> DEFINE e == MaxEntries - entriesSeen
             f == Len(stack) - 1
  <2>4. e \in Nat /\ f \in Nat /\ Len(stack) = f + 1
    BY <2>3, Numbers
  <2>5. StepsLeft = Walking(e, f + 1)
    BY <2>1, <2>4, WalkSteps
  <2>6. stage' = "checking" => StepsLeft' = MaxEntries + 2 * MaxDocuments + 3
    BY Zenon DEF StepsLeft
  <2>7. stage' = "visiting" => StepsLeft' = Walking(e, f)
    BY Zenon, <2>1, <2>3 DEF StepsLeft, Walking
  <2> HIDE DEF e, f
  <2>8. MaxEntries + 2 * MaxDocuments + 3 \in 0..(Walking(e, f + 1) - 1)
    BY <2>4, FewerSteps
  <2>9. f + 1 \in Nat /\ f < f + 1
    BY <2>4
  <2>10. Walking(e, f) \in 0..(Walking(e, f + 1) - 1)
    BY <2>4, <2>9, FewerSteps
  <2>. QED
    BY <2>1, <2>5, <2>6, <2>7, <2>8, <2>10
<1>4. CASE Check
  <2>1. stage = "checking" /\ stage' = "sizing" /\ todo' = Recognizable
    BY <1>4 DEF Check
  <2>. QED
    BY <2>1, Numbers DEF StepsLeft
<1>5. CASE Size
  <2>1. /\ stage = "sizing" /\ stage' = stage /\ todo # {}
        /\ todo' = todo \ {First(todo)}
    BY <1>5 DEF Size
  <2>. QED
    BY <2>1, OneLess, Numbers DEF StepsLeft
<1>6. CASE Limit
  <2>1. /\ stage = "sizing" /\ todo = {} /\ stage' = "probing" /\ todo' = Recognizable
        /\ ~(Cardinality(Recognizable) > MaxDocuments)
    BY <1>6 DEF Limit, Exceeds
  <2>2. Cardinality(todo) = 0
    BY <2>1, FS_EmptySet
  <2>. QED
    BY <2>1, <2>2, Numbers DEF StepsLeft
<1>7. CASE Probe
  <2>1. stage = "probing" /\ stage' = "loading" /\ todo' = todo
    BY <1>7 DEF Probe, reading
  <2>. QED
    BY <2>1, Numbers DEF StepsLeft
<1>8. CASE Load
  <2>1. stage = "loading" /\ stage' = "probing" /\ todo' = todo \ {First(todo)}
    BY <1>8 DEF Load
  <2>2. todo # {}
    BY <2>1 DEF IInv, DocumentsInv
  <2>. QED
    BY <2>1, <2>2, OneLess, Numbers DEF StepsLeft
<1>9. CASE Publish
  <2>1. ~Over /\ stage' = "ready"
    BY <1>9 DEF Publish, Over
  <2>. QED
    BY <2>1, LastStep
<1>10. ASSUME NEW p \in Paths, VisitFails(p) PROVE StepsLeft' \in 0..(StepsLeft - 1)
  <2>1. ~Over /\ stage' = "failed"
    BY <1>10 DEF VisitFails, Visiting, Fail, Over
  <2>. QED
    BY <2>1, LastStep
<1>11. CASE ListFails \/ CheckFails \/ SizeFails \/ LimitFails \/ ProbeFails \/ LoadFails
  <2>1. ~Over /\ stage' = "failed"
    BY <1>11 DEF ListFails, CheckFails, SizeFails, LimitFails, ProbeFails, LoadFails, Fail, Over
  <2>. QED
    BY <2>1, LastStep
<1>. QED
  BY <1>1, <1>2, <1>3, <1>4, <1>5, <1>6, <1>7, <1>8, <1>9, <1>10, <1>11 DEF Read

\* A read begins with a number of steps that depends on nothing but the
\* limits: four for each entry, two for each document and five more.
LEMMA StepsAtFirst ==
    Init => StepsLeft = 4 * MaxEntries + 2 * MaxDocuments + 5
<1> SUFFICES ASSUME Init PROVE StepsLeft = 4 * MaxEntries + 2 * MaxDocuments + 5
  OBVIOUS
<1>1. stage = "listing" /\ entriesSeen = 0 /\ Len(stack) = 1
  BY DEF Init
<1>. QED
  BY <1>1, LimitsAssumption DEF StepsLeft

\* ModelRepository::read takes no more steps than the limits on entries and
\* documents allow, whatever others do to the directory and however often:
\* each of its steps uses one up, and no change of theirs gives any back.
THEOREM StepsRunOut == Spec => StepsAreLimited
<1>1. ASSUME IInv, IInv', [Next]_vars
      PROVE  [StepsLeft' \in 0..(StepsLeft - 1)]_<<stage, scan, reading, error>>
  <2>1. CASE Read
    BY <1>1, <2>1, ReadSteps
  <2>2. ASSUME NEW p \in Paths, Create(p) \/ Delete(p)
        PROVE  UNCHANGED <<stage, scan, reading, error>>
    BY <2>2 DEF Create, Delete, Change
  <2>3. ASSUME NEW p \in Paths, NEW n \in Sizes, Rewrite(p, n)
        PROVE  UNCHANGED <<stage, scan, reading, error>>
    BY <2>3 DEF Rewrite, Change
  <2>4. CASE UNCHANGED vars
    BY <2>4 DEF vars
  <2>. QED
    BY <1>1, <2>1, <2>2, <2>3, <2>4 DEF Next, Answered
<1>. QED
  BY <1>1, Invariance, PTL DEF Spec, StepsAreLimited

\* The two modules have the rules for paths in common.
LEMMA SameRules ==
    /\ \A p : Contract!Portable(p) <=> Portable(p)
    /\ \A p : Contract!Ancestors(p) = Ancestors(p)
    /\ \A p : Contract!CollisionKey(p) = CollisionKey(p)
    /\ \A F, D : Contract!EntryCount(F, D) = EntryCount(F, D)
    /\ \A list : Contract!TotalBytes(list) = TotalBytes(list)
<1>1. \A p : Contract!Portable(p) <=> Portable(p)
  BY DEF Contract!Portable, Portable
<1>2. \A p : Contract!Ancestors(p) = Ancestors(p)
  BY DEF Contract!Ancestors, Ancestors
<1>3. \A p : Contract!CollisionKey(p) = CollisionKey(p)
  BY DEF Contract!CollisionKey, CollisionKey
<1>4. \A F, D : Contract!EntryCount(F, D) = EntryCount(F, D)
  BY Zenon DEF Contract!EntryCount, EntryCount, Contract!Cardinality, Cardinality
<1>5. \A list : Contract!TotalBytes(list) = TotalBytes(list)
  BY Zenon DEF Contract!TotalBytes, TotalBytes
<1>. QED
  BY <1>1, <1>2, <1>3, <1>4, <1>5

\* ModelRepository::read implements Snapshot: a caller sees nothing until the
\* repository is ready, and then one in which every path has one meaning,
\* every parent is known, the documents can be searched and nothing exceeds
\* the limits, though the directory may never have been so at any moment.
THEOREM Refines == Spec => KeepsContract
<1>1. Init => Contract!Init
  BY DEF Init, Contract!Init, Ready, Over
<1>2. ASSUME IInv, IInv', [Next]_vars PROVE [Contract!Next]_(Contract!vars)
  <2>1. CASE stage' = stage
    <3>1. CASE stage = "ready"
      <4>1. UNCHANGED vars
        BY <1>2, <2>1, <3>1 DEF Next, Read, ListFails, ListEntries, VisitFails, Visit, Visiting, Return,
             CheckFails, Check, SizeFails, Size, LimitFails, Limit, ProbeFails, Probe,
             LoadFails, Load, Publish, Create, Delete, Rewrite, Change, Answered, Over
      <4>. QED
        BY <4>1 DEF Contract!vars, Ready, Over, vars, scan, reading
    <3>2. CASE stage # "ready"
      BY <2>1, <3>2 DEF Contract!vars, Ready, Over
    <3>. QED
      BY <3>1, <3>2
  <2>2. CASE stage' # stage
    <3>1. stage \notin {"ready", "failed"}
      BY <1>2, <2>2 DEF Next, Read, ListFails, ListEntries, VisitFails, Visit, Visiting, Return,
           CheckFails, Check, SizeFails, Size, LimitFails, Limit, ProbeFails, Probe,
           LoadFails, Load, Publish, Create, Delete, Rewrite, Change, Answered, Over,
           vars
    <3>2. CASE stage' = "failed"
      BY <3>1, <3>2 DEF Contract!Next, Contract!Reject, Ready, Over
    <3>3. CASE stage' = "ready"
      <4>1. Contract!Unambiguous(files', directories')
        <5>1. ~Collides(files', directories')
          BY <1>2, <3>3 DEF IInv, CollisionInv
        <5>. QED
          BY <5>1, SameRules DEF Contract!Unambiguous, Collides
      <4>2. Contract!Rooted(files', directories')
        BY <1>2, SameRules DEF IInv, FoundInv, Contract!Rooted
      <4>3. Contract!Searchable(files', documents')
        BY <1>2 DEF IInv, DocumentsInv, Contract!Searchable
      <4>4. Contract!WithinLimits(files', directories', documents')
        <5>1. /\ Cardinality(files') \in Nat /\ Cardinality(directories') \in Nat
              /\ Cardinality(links') \in Nat /\ entriesSeen' \in Nat
          BY <1>2, PathsAssumption, FS_Subset, FS_CardinalityType DEF IInv, TypeOK
        <5>2. EntryCount(files', directories') <= MaxEntries
          BY <1>2, <5>1, LimitsAssumption DEF IInv, CountInv, EntryCount
        <5>. QED
          BY <1>2, <5>2, SameRules DEF IInv, DocumentsInv, Contract!WithinLimits
      <4>. QED
        BY <3>1, <3>3, <4>1, <4>2, <4>3, <4>4 DEF Contract!Next, Contract!Publish, Ready, Over
    <3>4. CASE stage' \notin {"ready", "failed"}
      BY <3>1, <3>4 DEF Contract!vars, Ready, Over
    <3>. QED
      BY <3>2, <3>3, <3>4
  <2>. QED
    BY <2>1, <2>2
<1>. QED
  BY <1>1, <1>2, Invariance, PTL DEF Spec, Contract!Spec, KeepsContract

-----------------------------------------------------------------------------

(***************************************************************************)
(* The bytes of a set of documents.  BytesNow is a recursive function over *)
(* sets; an induction on it is an appeal to the least number of documents  *)
(* at which it fails.                                                      *)
(***************************************************************************)

\* The function that adds up the lengths of the documents of every subset of
\* D, in the order of their paths.
IsWeight(D, sz, g) ==
    g = [P \in SUBSET D |-> IF P = {} THEN 0 ELSE sz[First(P)] + g[P \ {First(P)}]]

LEMMA WeightStep ==
    ASSUME NEW D, NEW sz, NEW g, IsWeight(D, sz, g)
    PROVE  /\ g[{}] = 0
           /\ \A P \in SUBSET D : P # {} => g[P] = sz[First(P)] + g[P \ {First(P)}]
<1>1. \A P \in SUBSET D : g[P] = IF P = {} THEN 0 ELSE sz[First(P)] + g[P \ {First(P)}]
  BY DEF IsWeight
<1>2. {} \in SUBSET D
  OBVIOUS
<1>. QED
  BY <1>1, <1>2

LEMMA WeightExists ==
    ASSUME NEW D \in SUBSET Paths, NEW sz
    PROVE  \E g : IsWeight(D, sz, g)
<1> DEFINE Small(N)   == {P \in SUBSET D : Cardinality(P) <= N}
           Part(N, g) == g = [P \in Small(N) |->
                                 IF P = {} THEN 0 ELSE sz[First(P)] + g[P \ {First(P)}]]
           Bad        == {N \in Nat : ~\E g : Part(N, g)}
<1>1. \A P \in SUBSET D : IsFiniteSet(P) /\ Cardinality(P) \in Nat
  BY PathsAssumption, FS_Subset, FS_CardinalityType
<1>2. Bad = {}
  <2>1. SUFFICES ASSUME Bad # {} PROVE FALSE
    OBVIOUS
  <2>2. Bad \in SUBSET Nat
    OBVIOUS
  <2> HIDE DEF Bad
  <2>3. PICK N \in Bad : \A m \in Bad : N <= m
    BY <2>1, <2>2, Least
  <2>4. N \in Nat /\ ~\E g : Part(N, g)
    BY DEF Bad
  <2>5. CASE N = 0
    <3> DEFINE g == [P \in Small(0) |-> 0]
               f == [P \in Small(0) |->
                        IF P = {} THEN 0 ELSE sz[First(P)] + g[P \ {First(P)}]]
    <3>1. \A P \in Small(0) : P = {}
      <4> SUFFICES ASSUME NEW P \in Small(0) PROVE P = {}
        OBVIOUS
      <4>1. IsFiniteSet(P) /\ Cardinality(P) \in Nat /\ Cardinality(P) <= 0
        BY <1>1
      <4>. QED
        BY <4>1, FS_EmptySet
    <3>2. f = g
      BY <3>1
    <3>3. Part(0, g)
      BY <3>2
    <3>. QED
      BY <2>4, <2>5, <3>3
  <2>6. CASE N # 0
    <3>1. N - 1 \in Nat /\ N - 1 \notin Bad
      BY <2>3, <2>4, <2>6
    <3>2. PICK h : Part(N - 1, h)
      BY <3>1 DEF Bad
    <3> DEFINE g == [P \in Small(N) |->
                        IF P = {} THEN 0 ELSE sz[First(P)] + h[P \ {First(P)}]]
               f == [P \in Small(N) |->
                        IF P = {} THEN 0 ELSE sz[First(P)] + g[P \ {First(P)}]]
    <3>3. \A P \in Small(N - 1) : P \in Small(N) /\ g[P] = h[P]
      <4> SUFFICES ASSUME NEW P \in Small(N - 1) PROVE P \in Small(N) /\ g[P] = h[P]
        OBVIOUS
      <4>1. P \in SUBSET D /\ Cardinality(P) \in Nat /\ Cardinality(P) <= N - 1
        BY <1>1
      <4>2. P \in Small(N)
        BY <2>4, <4>1
      <4>3. h[P] = IF P = {} THEN 0 ELSE sz[First(P)] + h[P \ {First(P)}]
        BY <3>2
      <4>. QED
        BY <4>2, <4>3
    <3>4. \A P \in Small(N) : P # {} => P \ {First(P)} \in Small(N - 1)
      <4> SUFFICES ASSUME NEW P \in Small(N), P # {} PROVE P \ {First(P)} \in Small(N - 1)
        OBVIOUS
      <4>1. P \in SUBSET Paths /\ IsFiniteSet(P) /\ Cardinality(P) \in Nat /\ Cardinality(P) <= N
        BY <1>1
      <4>2. First(P) \in P
        BY <4>1, FirstIs
      <4>3. Cardinality(P \ {First(P)}) = Cardinality(P) - 1
        BY <4>1, <4>2, FS_RemoveElement
      <4>. QED
        BY <2>4, <4>1, <4>3
    <3>5. f = g
      <4>1. \A P \in Small(N) : f[P] = g[P]
        BY <3>3, <3>4
      <4>. QED
        BY <4>1
    <3>6. Part(N, g)
      BY <3>5
    <3>. QED
      BY <2>4, <3>6
  <2>. QED
    BY <2>5, <2>6
<1>3. Cardinality(D) \in Nat /\ IsFiniteSet(D)
  BY <1>1
<1>4. Small(Cardinality(D)) = SUBSET D
  BY <1>3, FS_Subset
<1>5. PICK g : Part(Cardinality(D), g)
  BY <1>2, <1>3
<1>6. IsWeight(D, sz, g)
  BY <1>4, <1>5 DEF IsWeight
<1>. QED
  BY <1>6

LEMMA WeightIsNat ==
    ASSUME NEW D \in SUBSET Paths, NEW sz, \A p \in D : sz[p] \in Nat,
           NEW g, IsWeight(D, sz, g)
    PROVE  \A P \in SUBSET D : g[P] \in Nat
<1> DEFINE Bad == {N \in Nat : \E P \in SUBSET D : Cardinality(P) = N /\ g[P] \notin Nat}
<1>1. \A P \in SUBSET D : IsFiniteSet(P) /\ Cardinality(P) \in Nat
  BY PathsAssumption, FS_Subset, FS_CardinalityType
<1>2. SUFFICES ASSUME Bad # {} PROVE FALSE
  BY <1>1
<1>3. Bad \in SUBSET Nat
  OBVIOUS
<1> HIDE DEF Bad
<1>4. PICK N \in Bad : \A m \in Bad : N <= m
  BY <1>2, <1>3, Least
<1>5. PICK P \in SUBSET D : N \in Nat /\ Cardinality(P) = N /\ g[P] \notin Nat
  BY DEF Bad
<1>0. /\ g[{}] = 0
      /\ \A Q \in SUBSET D : Q # {} => g[Q] = sz[First(Q)] + g[Q \ {First(Q)}]
  <2>1. IsWeight(D, sz, g)
    OBVIOUS
  <2>. QED
    BY ONLY <2>1, WeightStep
<1>6. P # {}
  BY <1>0, <1>5
<1>7. First(P) \in P /\ P \in SUBSET Paths
  BY <1>6, FirstIs
<1>8. Cardinality(P \ {First(P)}) = N - 1 /\ N - 1 \in Nat /\ P \ {First(P)} \in SUBSET D
  <2>1. Cardinality(P \ {First(P)}) = Cardinality(P) - 1
    BY <1>1, <1>7, FS_RemoveElement
  <2>2. P \ {First(P)} \in SUBSET D
    OBVIOUS
  <2>. QED
    BY <1>1, <1>5, <2>1, <2>2
<1>9. g[P \ {First(P)}] \in Nat
  <2>1. N - 1 \notin Bad
    BY <1>4, <1>5, <1>8
  <2>. QED
    BY <1>8, <2>1 DEF Bad
<1>10. g[P] = sz[First(P)] + g[P \ {First(P)}]
  BY <1>0, <1>6
<1>. QED
  BY <1>5, <1>7, <1>9, <1>10

\* There is one such function.
LEMMA WeightIsUnique ==
    ASSUME NEW D \in SUBSET Paths, NEW sz, NEW g, IsWeight(D, sz, g), NEW h, IsWeight(D, sz, h)
    PROVE  \A P \in SUBSET D : g[P] = h[P]
<1> DEFINE Bad == {N \in Nat : \E P \in SUBSET D : Cardinality(P) = N /\ g[P] # h[P]}
<1>1. \A P \in SUBSET D : IsFiniteSet(P) /\ Cardinality(P) \in Nat
  BY PathsAssumption, FS_Subset, FS_CardinalityType
<1>2. SUFFICES ASSUME Bad # {} PROVE FALSE
  BY <1>1
<1>3. Bad \in SUBSET Nat
  OBVIOUS
<1> HIDE DEF Bad
<1>4. PICK N \in Bad : \A m \in Bad : N <= m
  BY <1>2, <1>3, Least
<1>5. PICK P \in SUBSET D : N \in Nat /\ Cardinality(P) = N /\ g[P] # h[P]
  BY DEF Bad
<1>6. /\ g[{}] = 0
      /\ \A Q \in SUBSET D : Q # {} => g[Q] = sz[First(Q)] + g[Q \ {First(Q)}]
  <2>1. IsWeight(D, sz, g)
    OBVIOUS
  <2>. QED
    BY ONLY <2>1, WeightStep
<1>7. /\ h[{}] = 0
      /\ \A Q \in SUBSET D : Q # {} => h[Q] = sz[First(Q)] + h[Q \ {First(Q)}]
  <2>1. IsWeight(D, sz, h)
    OBVIOUS
  <2>. QED
    BY ONLY <2>1, WeightStep
<1>8. P # {}
  BY <1>5, <1>6, <1>7
<1>9. First(P) \in P /\ P \in SUBSET Paths
  BY <1>8, FirstIs
<1>10. Cardinality(P \ {First(P)}) = N - 1 /\ N - 1 \in Nat /\ P \ {First(P)} \in SUBSET D
  <2>1. Cardinality(P \ {First(P)}) = Cardinality(P) - 1
    BY <1>1, <1>9, FS_RemoveElement
  <2>2. P \ {First(P)} \in SUBSET D
    OBVIOUS
  <2>. QED
    BY <1>1, <1>5, <2>1, <2>2
<1>11. g[P \ {First(P)}] = h[P \ {First(P)}]
  <2>1. N - 1 \notin Bad
    BY <1>4, <1>5, <1>10
  <2>. QED
    BY <1>10, <2>1 DEF Bad
<1>. QED
  BY <1>5, <1>6, <1>7, <1>8, <1>11

\* BytesNow is the value of that function for all documents.
LEMMA BytesNowIs ==
    ASSUME DocumentsNow \in SUBSET Paths
    PROVE  \E g : IsWeight(DocumentsNow, size, g) /\ BytesNow = g[DocumentsNow]
<1> DEFINE t == CHOOSE g : IsWeight(DocumentsNow, size, g)
<1>1. IsWeight(DocumentsNow, size, t)
  BY WeightExists
<1>2. BytesNow = t[DocumentsNow]
  BY DEF BytesNow, IsWeight
<1>. QED
  BY <1>1, <1>2

-----------------------------------------------------------------------------

(***************************************************************************)
(* A directory that stands still.                                          *)
(***************************************************************************)

\* The walk never comes to an entry twice: the frames are of different
\* directories, and no directory found waits in one or in the next listing.
NestInv ==
    /\ \A i, j \in 1..Len(stack) : stack[i].dir = stack[j].dir => i = j
    /\ \A f \in FramesOf(stack) : f.rest \cap directories = {}
    /\ stage = "listing" => \A p \in directories : Parent(p) # Top.dir

\* The visible entries the walk is done with.
Passed == {p \in Visible : ~Ahead(p)}

\* What the walk does about an entry.
Entered(p) ==
    /\ Kind[p] = "file" => p \in files
    /\ Kind[p] = "dir" => p \in directories
    /\ Kind[p] = "link" => p \in links
    /\ Name(p) \notin NonUtf8Names
    /\ Kind[p] # "other" => Portable(p)

QuietWalk ==
    /\ steady = seen
    /\ links \subseteq Visible
    /\ \A f \in FramesOf(stack) : \A p \in f.rest : Name(p) \notin NonUtf8Names
    /\ stage # "failed" => entriesSeen = Cardinality(Passed) /\ \A p \in Passed : Entered(p)

\* What the passes over the documents have done and have left adds up.
QuietDocuments ==
    /\ \A i \in 1..Len(documents) :
          /\ documents[i].size = size[documents[i].path]
          /\ documents[i].path \notin Malformed
    /\ Loading \/ stage = "ready" =>
          Len(documents) + Cardinality(todo) = Cardinality(Recognizable)
    /\ stage \in {"listing", "visiting", "checking"} => bytes = 0
    /\ stage \in {"sizing", "ready"} \/ Loading =>
          \A g : IsWeight(DocumentsNow, size, g) => bytes + g[todo] = g[DocumentsNow]
    /\ stage = "ready" => bytes <= MaxBytes

\* Readable, with the bytes added up by any function that does so.
ReadableBy ==
    /\ Cardinality(Visible) <= MaxEntries
    /\ \A p \in Visible : Name(p) \notin NonUtf8Names /\ (Kind[p] # "other" => Portable(p))
    /\ ~Collides(FilesNow, DirectoriesNow)
    /\ Cardinality(DocumentsNow) <= MaxDocuments
    /\ \A g : IsWeight(DocumentsNow, size, g) => g[DocumentsNow] <= MaxBytes
    /\ \A p \in DocumentsNow : size[p] <= MaxDocumentBytes /\ p \notin Malformed

QuietInv ==
    changes = 0 =>
        /\ QuietWalk
        /\ QuietDocuments
        /\ stage = "failed" => ~ReadableBy

\* A visible path is one that exists, and any path in a directory found, or
\* in the root, is visible if it exists under a name that is not excluded.
LEMMA VisibleIn ==
    ASSUME IInv, steady = seen, NEW p \in present,
           Parent(p) = Root \/ Parent(p) \in directories, Name(p) \notin ExcludedNames
    PROVE  p \in Visible
<1>1. p \in Paths
  BY DEF IInv, TypeOK
<1>2. ASSUME NEW i \in 1..Len(p) PROVE p[i] \notin ExcludedNames
  <2>1. CASE p[i] = Name(p)
    BY <2>1
  <2>2. CASE Parent(p) \in Ancestors(p) /\ i \in 1..Len(Parent(p)) /\ p[i] = Parent(p)[i]
    <3>1. Parent(p) # Root
      <4>1. Len(Root) = 0
        BY DEF Root
      <4>. QED
        BY <2>2, <4>1
    <3>2. Inventoried(Parent(p))
      BY <3>1 DEF IInv, FoundInv, NothingInvented
    <3>. QED
      BY <2>2, <3>2 DEF Inventoried
  <2>. QED
    BY <1>1, <2>1, <2>2, SegmentsOfChild
<1>. QED
  BY <1>2 DEF Visible

\* What was found is visible, and stays so while nothing changes.
LEMMA StillThere ==
    ASSUME IInv, steady = seen
    PROVE  /\ present = seen /\ steady = present /\ present \subseteq Paths
           /\ files \subseteq FilesNow /\ directories \subseteq DirectoriesNow
           /\ Visible \subseteq Paths /\ IsFiniteSet(Visible) /\ Cardinality(Visible) \in Nat
           /\ DocumentsNow \in SUBSET Paths
           /\ \A p \in DocumentsNow : size[p] \in Nat
<1>1. present = seen /\ steady = present /\ present \subseteq Paths
  BY DEF IInv, TypeOK
<1>2. files \subseteq FilesNow /\ directories \subseteq DirectoriesNow
  BY <1>1 DEF IInv, FoundInv, NothingInvented, Inventoried, FilesNow, DirectoriesNow, Visible
<1>3. Visible \subseteq Paths /\ DocumentsNow \in SUBSET Paths
  BY <1>1 DEF Visible, DocumentsNow, FilesNow
<1>4. IsFiniteSet(Visible) /\ Cardinality(Visible) \in Nat
  BY <1>3, PathsAssumption, FS_Subset, FS_CardinalityType
<1>5. ASSUME NEW p \in DocumentsNow PROVE size[p] \in Nat
  <2>1. p \in {q \in Paths : IsDocument(q)}
    BY <1>3 DEF DocumentsNow, FilesNow, IsDocument
  <2>. QED
    BY <2>1, DirectoryAssumption DEF IInv, TypeOK
<1>. QED
  BY <1>1, <1>2, <1>3, <1>4, <1>5

\* Once the walk is over, what it found is everything there is to find.
LEMMA WalkIsOver ==
    ASSUME IInv, QuietWalk, stage \notin {"listing", "visiting", "failed"}
    PROVE  /\ entriesSeen = Cardinality(Visible) /\ \A p \in Visible : Entered(p)
           /\ files = FilesNow /\ directories = DirectoriesNow
           /\ links = {p \in Visible : Kind[p] = "link"}
           /\ Recognizable = DocumentsNow
<1>1. FramesOf(stack) = {}
  BY NothingFound DEF IInv, WalkInv
<1>2. Passed = Visible
  BY <1>1 DEF Passed, Ahead
<1>3. entriesSeen = Cardinality(Visible) /\ \A p \in Visible : Entered(p)
  BY <1>2 DEF QuietWalk
<1>4. files = FilesNow /\ directories = DirectoriesNow
  <2>1. files \subseteq FilesNow /\ directories \subseteq DirectoriesNow
    BY StillThere DEF QuietWalk
  <2>2. FilesNow \subseteq files /\ DirectoriesNow \subseteq directories
    BY <1>3 DEF FilesNow, DirectoriesNow, Entered
  <2>. QED
    BY <2>1, <2>2
<1>5. links = {p \in Visible : Kind[p] = "link"}
  <2>1. links \subseteq Visible /\ \A p \in links : Kind[p] = "link"
    BY DEF QuietWalk, IInv, FoundInv, NothingInvented
  <2>2. \A p \in Visible : Kind[p] = "link" => p \in links
    BY <1>3 DEF Entered
  <2>. QED
    BY <2>1, <2>2
<1>6. Recognizable = DocumentsNow
  BY <1>4 DEF Recognizable, DocumentsNow
<1>. QED
  BY <1>3, <1>4, <1>5, <1>6

LEMMA NestKept ==
    ASSUME NestInv, stack' = stack, directories' = directories,
           stage' = stage \/ stage' # "listing"
    PROVE  NestInv'
BY DEF NestInv, Top

LEMMA NestList ==
    ASSUME IInv, NestInv, ListEntries
    PROVE  NestInv'
<1>1. /\ stage = "listing" /\ stage' = "visiting"
      /\ stack' = [stack EXCEPT ![1].rest = Listing]
      /\ directories' = directories
  BY DEF ListEntries
<1>2. stack \in Seq(Frames) /\ stack # <<>>
  BY <1>1 DEF IInv, TypeOK, WalkInv, Frames
<1>3. /\ Top = stack[1] /\ Top \in Frames
      /\ FramesOf(stack) = {Top} \cup FramesOf(Tail(stack))
  BY <1>2, HeadAndTail DEF Top
<1>4. Listing \in SUBSET Paths /\ \A p \in Listing : Parent(p) = Top.dir
  BY DEF Listing, Children, IInv, TypeOK
<1>5. /\ \A i \in 1..Len(stack) : stack'[i].dir = stack[i].dir
      /\ FramesOf(stack') = {[dir |-> stack[1].dir, rest |-> Listing]} \cup FramesOf(Tail(stack))
      /\ Len(stack') = Len(stack)
  BY <1>1, <1>2, <1>4, ChangeTop, ChangeTopDirs
<1>6. Listing \cap directories = {}
  BY <1>1, <1>4 DEF NestInv
<1>7. \A f \in FramesOf(stack') : f.rest \cap directories = {}
  BY <1>3, <1>5, <1>6 DEF NestInv
<1>8. \A i, j \in 1..Len(stack') : stack'[i].dir = stack'[j].dir => i = j
  BY <1>5 DEF NestInv
<1>. QED
  BY <1>1, <1>7, <1>8 DEF NestInv

LEMMA NestReturn ==
    ASSUME IInv, NestInv, Return
    PROVE  NestInv'
<1>1. /\ stage = "visiting" /\ stack' = Tail(stack) /\ stage' # "listing"
      /\ directories' = directories
  BY DEF Return
<1>2. stack \in Seq(Frames) /\ stack # <<>>
  BY <1>1 DEF IInv, TypeOK, WalkInv, Frames
<1>3. FramesOf(stack') \subseteq FramesOf(stack)
  BY <1>1, <1>2, HeadAndTail
<1>4. ASSUME NEW i \in 1..Len(stack'), NEW j \in 1..Len(stack'), stack'[i].dir = stack'[j].dir
      PROVE  i = j
  <2>1. /\ i \in 1..Len(stack) - 1 /\ j \in 1..Len(stack) - 1
        /\ stack'[i] = stack[i + 1] /\ stack'[j] = stack[j + 1]
        /\ i + 1 \in 1..Len(stack) /\ j + 1 \in 1..Len(stack)
    BY <1>1, <1>2, PopPlaces
  <2>2. i + 1 = j + 1
    BY <1>4, <2>1 DEF NestInv
  <2>. QED
    BY <2>2
<1>. QED
  BY <1>1, <1>3, <1>4 DEF NestInv

LEMMA NestVisit ==
    ASSUME IInv, NestInv, NEW p \in Paths, Visit(p)
    PROVE  NestInv'
<1> DEFINE rest  == [dir |-> Top.dir, rest |-> Top.rest \ {p}]
           child == [dir |-> p, rest |-> {}]
<1>1. /\ Visiting(p)
      /\ stage' = IF Kind[p] = "dir" THEN "listing" ELSE "visiting"
      /\ directories' = IF Kind[p] = "dir" THEN directories \cup {p} ELSE directories
  BY DEF Visit
<1>2. /\ stack \in Seq(Frames) /\ stack # <<>> /\ Top = stack[1]
      /\ Top \in Frames /\ Top \in FramesOf(stack) /\ p \in Top.rest
      /\ FramesOf(stack) = {Top} \cup FramesOf(Tail(stack))
      /\ Ancestors(p) \subseteq directories /\ Len(stack) \in Nat
  BY <1>1, VisitFacts
<1>3. p \notin directories /\ Parent(p) = Top.dir
  BY <1>2 DEF NestInv, IInv, WalkInv
<1>4. /\ stack' \in Seq(Frames) /\ stack' # <<>>
      /\ FramesOf(stack') = (IF Kind[p] = "dir" THEN {child} ELSE {})
                               \cup {rest} \cup FramesOf(Tail(stack))
      /\ Kind[p] = "dir" =>
            /\ Head(stack') = child
            /\ Len(stack') = Len(stack) + 1
            /\ stack'[1].dir = p
            /\ \A i \in 1..Len(stack') :
                  i = 1 \/ (i - 1 \in 1..Len(stack) /\ stack'[i].dir = stack[i - 1].dir)
      /\ Kind[p] # "dir" =>
            /\ Len(stack') = Len(stack)
            /\ \A i \in 1..Len(stack) : stack'[i].dir = stack[i].dir
  BY VisitStack
<1>5. \A f \in FramesOf(Tail(stack)) : p \notin f.rest
  <2>1. \A f \in FramesOf(Tail(stack)) : f.dir # Top.dir
    BY <1>2, OuterFrames DEF NestInv, Top
  <2>2. \A f \in FramesOf(Tail(stack)) : \A q \in f.rest : Parent(q) = f.dir
    BY <1>2 DEF IInv, WalkInv
  <2>. QED
    BY <1>3, <2>1, <2>2
<1>6. \A f \in FramesOf(stack') : f.rest \cap directories' = {}
  <2>1. \A f \in FramesOf(stack) : f.rest \cap directories = {}
    BY DEF NestInv
  <2>2. directories' \subseteq directories \cup {p}
    BY <1>1
  <2>3. rest.rest \cap directories' = {}
    BY <1>2, <2>1, <2>2
  <2>4. \A f \in FramesOf(Tail(stack)) : f.rest \cap directories' = {}
    BY <1>2, <1>5, <2>1, <2>2
  <2>. QED
    BY <1>4, <2>3, <2>4
<1>7. ASSUME NEW i \in 1..Len(stack'), NEW j \in 1..Len(stack'), stack'[i].dir = stack'[j].dir
      PROVE  i = j
  <2>1. CASE Kind[p] # "dir"
    BY <1>4, <1>7, <2>1 DEF NestInv
  <2>2. CASE Kind[p] = "dir"
    <3>1. \A k \in 1..Len(stack) : stack[k].dir # p
      <4>1. \A k \in 1..Len(stack) : stack[k] \in FramesOf(stack)
        BY DEF FramesOf
      <4>2. p # Root
        BY PathsAssumption DEF Root
      <4>. QED
        BY <1>3, <4>1, <4>2 DEF IInv, WalkInv
    <3>2. i = 1 <=> j = 1
      BY <1>4, <1>7, <2>2, <3>1
    <3>3. CASE i # 1
      <4>1. /\ i - 1 \in 1..Len(stack) /\ j - 1 \in 1..Len(stack)
            /\ stack[i - 1].dir = stack[j - 1].dir
        BY <1>4, <1>7, <2>2, <3>2, <3>3
      <4>2. i - 1 = j - 1
        BY <4>1 DEF NestInv
      <4>. QED
        BY <1>2, <4>1, <4>2
    <3>. QED
      BY <3>2, <3>3
  <2>. QED
    BY <2>1, <2>2
<1>8. ASSUME stage' = "listing", NEW q \in directories' PROVE Parent(q) # Head(stack').dir
  <2>1. Kind[p] = "dir" /\ Head(stack').dir = p
    BY <1>1, <1>4, <1>8
  <2>2. SUFFICES ASSUME Parent(q) = p PROVE FALSE
    BY <2>1
  <2>3. p # Root
    BY PathsAssumption DEF Root
  <2>4. q \in directories \cup {p} /\ q \in Paths
    BY <1>1 DEF IInv, TypeOK
  <2>5. p \in Ancestors(q)
    BY <2>2, <2>3, <2>4, ParentFacts
  <2>6. Ancestors(q) \subseteq directories
    BY <1>2, <2>4 DEF IInv, FoundInv
  <2>. QED
    BY <1>3, <2>5, <2>6
<1>9. \A q \in directories' : stage' = "listing" => Parent(q) # Head(stack').dir
  BY <1>8
<1>. QED
  BY <1>6, <1>7, <1>9 DEF NestInv, Top

\* A visit is the end of being ahead, for that entry and for no other.
LEMMA VisitPasses ==
    ASSUME IInv, NestInv, NEW p \in Paths, Visit(p)
    PROVE  /\ Ahead(p) /\ ~Ahead(p)'
           /\ \A r \in Paths : r # p => (Ahead(r)' <=> Ahead(r))
<1> DEFINE rest  == [dir |-> Top.dir, rest |-> Top.rest \ {p}]
           child == [dir |-> p, rest |-> {}]
<1>1. /\ Visiting(p) /\ stage = "visiting"
      /\ stage' = IF Kind[p] = "dir" THEN "listing" ELSE "visiting"
  BY DEF Visit, Visiting
<1>2. /\ stack \in Seq(Frames) /\ stack # <<>>
      /\ Top \in FramesOf(stack) /\ p \in Top.rest
      /\ FramesOf(stack) = {Top} \cup FramesOf(Tail(stack))
      /\ Ancestors(p) \subseteq directories
  BY <1>1, VisitFacts
<1>3. /\ FramesOf(stack') = (IF Kind[p] = "dir" THEN {child} ELSE {})
                               \cup {rest} \cup FramesOf(Tail(stack))
      /\ Kind[p] = "dir" => Head(stack') = child
  BY VisitStack
<1>4. p # Root
  BY PathsAssumption DEF Root
<1>5. p \notin Ancestors(p) /\ p \notin directories
  <2>1. p \notin directories
    BY <1>2 DEF NestInv
  <2>. QED
    BY <1>2, <2>1
<1>6. Ahead(p)
  BY <1>2 DEF Ahead, Inwards
<1>7. \A r : Ahead(r)' <=>
               \/ \E f \in FramesOf(stack') : \E q \in f.rest : Inwards(q, r)
               \/ stage' = "listing" /\ (Head(stack').dir = Root \/ Head(stack').dir \in Ancestors(r))
  BY DEF Ahead, Top
<1>8. \A f \in FramesOf(Tail(stack)) : p \notin f.rest
  <2>1. \A f \in FramesOf(Tail(stack)) : f.dir # Top.dir
    BY <1>2, OuterFrames DEF NestInv, Top
  <2>2. \A f \in FramesOf(stack) : \A q \in f.rest : Parent(q) = f.dir
    BY DEF IInv, WalkInv
  <2>. QED
    BY <1>2, <2>1, <2>2
<1>9. ~Ahead(p)'
  <2>1. ASSUME NEW f \in FramesOf(stack'), NEW q \in f.rest PROVE ~Inwards(q, p)
    <3>1. q # p
      BY <1>3, <1>8
    <3>2. \E e \in FramesOf(stack) : q \in e.rest
      BY <1>2, <1>3
    <3>3. q \notin directories
      BY <3>2 DEF NestInv
    <3>. QED
      BY <1>2, <3>1, <3>3 DEF Inwards
  <2>2. stage' = "listing" => Head(stack').dir = p
    BY <1>1, <1>3
  <2>. QED
    BY <1>4, <1>5, <1>7, <2>1, <2>2
<1>10. ASSUME NEW r \in Paths, r # p PROVE Ahead(r)' <=> Ahead(r)
  <2>1. ASSUME Ahead(r) PROVE Ahead(r)'
    <3>1. \E f \in FramesOf(stack) : \E q \in f.rest : Inwards(q, r)
      BY <1>1, <2>1 DEF Ahead
    <3>2. CASE \E f \in FramesOf(Tail(stack)) : \E q \in f.rest : Inwards(q, r)
      BY <1>3, <1>7, <3>2
    <3>3. CASE \E q \in Top.rest : Inwards(q, r)
      <4>1. PICK q \in Top.rest : Inwards(q, r)
        BY <3>3
      <4>2. CASE q # p
        <5>1. q \in rest.rest /\ rest \in FramesOf(stack')
          BY <1>3, <4>2
        <5>. QED
          BY <1>7, <4>1, <5>1
      <4>3. CASE q = p
        <5>1. p \in Ancestors(r)
          BY <1>10, <4>1, <4>3 DEF Inwards
        <5>2. Kind[p] = "dir"
          BY <5>1, DirectoryAssumption
        <5>. QED
          BY <1>1, <1>3, <1>7, <5>1, <5>2
      <4>. QED
        BY <4>2, <4>3
    <3>. QED
      BY <1>2, <3>1, <3>2, <3>3
  <2>2. ASSUME Ahead(r)' PROVE Ahead(r)
    <3>1. CASE \E f \in FramesOf(stack') : \E q \in f.rest : Inwards(q, r)
      <4>1. PICK f \in FramesOf(stack') : \E q \in f.rest : Inwards(q, r)
        BY <3>1
      <4>2. PICK q \in f.rest : Inwards(q, r)
        BY <4>1
      <4>3. \E e \in FramesOf(stack) : q \in e.rest
        BY <1>2, <1>3, <4>1, <4>2
      <4>. QED
        BY <4>2, <4>3 DEF Ahead
    <3>2. CASE stage' = "listing" /\ (Head(stack').dir = Root \/ Head(stack').dir \in Ancestors(r))
      <4>1. p \in Ancestors(r)
        BY <1>1, <1>3, <1>4, <3>2
      <4>. QED
        BY <1>2, <4>1 DEF Ahead, Inwards
    <3>. QED
      BY <1>7, <2>2, <3>1, <3>2
  <2>. QED
    BY <2>1, <2>2
<1>. QED
  BY <1>6, <1>9, <1>10

\* A listing replaces a directory that is ahead by what is in it.
LEMMA ListPasses ==
    ASSUME IInv, steady = seen, ListEntries
    PROVE  \A r \in Visible : Ahead(r)' <=> Ahead(r)
<1>1. /\ stage = "listing" /\ stage' = "visiting"
      /\ stack' = [stack EXCEPT ![1].rest = Listing]
  BY DEF ListEntries
<1>2. stack \in Seq(Frames) /\ stack # <<>>
  BY <1>1 DEF IInv, TypeOK, WalkInv, Frames
<1>3. /\ Top = stack[1] /\ Top \in Frames /\ Top \in FramesOf(stack)
      /\ FramesOf(stack) = {Top} \cup FramesOf(Tail(stack))
  BY <1>2, HeadAndTail DEF Top
<1>4. Listing \in SUBSET Paths /\ \A p \in Listing : Parent(p) = Top.dir
  BY DEF Listing, Children, IInv, TypeOK
<1>5. FramesOf(stack') = {[dir |-> Top.dir, rest |-> Listing]} \cup FramesOf(Tail(stack))
  BY <1>1, <1>2, <1>3, <1>4, ChangeTopDirs
<1>6. \A r : Ahead(r)' <=> \E f \in FramesOf(stack') : \E q \in f.rest : Inwards(q, r)
  BY <1>1 DEF Ahead
<1>7. ASSUME NEW r \in Visible PROVE Ahead(r)' <=> Ahead(r)
  <2>0. r \in Paths /\ r \in present /\ Ancestors(r) \subseteq present
    BY StillThere DEF Visible, IInv, TreeInv
  <2>1. ASSUME NEW q \in Paths, Inwards(q, r), Parent(q) = Top.dir
        PROVE  Top.dir = Root \/ Top.dir \in Ancestors(r)
    <3>1. Parent(q) = Root \/ Parent(q) \in Ancestors(q)
      BY ParentFacts
    <3>2. q = r \/ Ancestors(q) \subseteq Ancestors(r)
      BY <2>0, <2>1, AncestorsOfAncestor DEF Inwards
    <3>. QED
      BY <2>1, <3>1, <3>2
  <2>2. ASSUME Top.dir = Root \/ Top.dir \in Ancestors(r) PROVE Ahead(r)'
    <3>1. PICK q \in Paths : /\ Inwards(q, r) /\ Parent(q) = Top.dir
                             /\ \A i \in 1..Len(q) : q[i] = r[i] /\ i \in 1..Len(r)
      BY <2>0, <2>2, NextOnTheWay
    <3>2. q \in present
      BY <2>0, <3>1 DEF Inwards
    <3>3. Name(q) \notin ExcludedNames
      <4>1. Len(q) \in 1..Len(q)
        BY PathFacts
      <4>. QED
        BY <3>1, <4>1 DEF Name, Visible
    <3>4. q \in Listing
      BY <3>1, <3>2, <3>3 DEF Listing, Children
    <3>. QED
      BY <1>5, <1>6, <3>1, <3>4
  <2>3. ASSUME Ahead(r)' PROVE Ahead(r)
    <3>1. CASE \E f \in FramesOf(Tail(stack)) : \E q \in f.rest : Inwards(q, r)
      BY <1>3, <3>1 DEF Ahead
    <3>2. CASE \E q \in Listing : Inwards(q, r)
      BY <1>1, <1>4, <2>1, <3>2 DEF Ahead
    <3>. QED
      BY <1>5, <1>6, <2>3, <3>1, <3>2
  <2>4. ASSUME Ahead(r) PROVE Ahead(r)'
    <3>1. CASE \E f \in FramesOf(Tail(stack)) : \E q \in f.rest : Inwards(q, r)
      BY <1>5, <1>6, <3>1
    <3>2. CASE \E q \in Top.rest : Inwards(q, r)
      <4>1. PICK q \in Top.rest : Inwards(q, r)
        BY <3>2
      <4>2. Parent(q) = Top.dir /\ q \in Paths
        BY <1>3 DEF IInv, WalkInv, Frames
      <4>. QED
        BY <2>1, <2>2, <4>1, <4>2
    <3>. QED
      BY <1>3, <2>2, <2>4, <3>1, <3>2 DEF Ahead
  <2>. QED
    BY <2>3, <2>4
<1>. QED
  BY <1>7

LEMMA QuietList ==
    ASSUME IInv, QuietWalk, ListEntries
    PROVE  QuietWalk'
<1>1. /\ stage = "listing" /\ stage' = "visiting"
      /\ \A p \in Listing : Name(p) \notin NonUtf8Names
      /\ stack' = [stack EXCEPT ![1].rest = Listing]
      /\ present' = present /\ steady' = steady /\ seen' = seen
      /\ entriesSeen' = entriesSeen /\ files' = files
      /\ directories' = directories /\ links' = links
  BY DEF ListEntries, directory
<1>2. stack \in Seq(Frames) /\ stack # <<>>
  BY <1>1 DEF IInv, TypeOK, WalkInv, Frames
<1>3. FramesOf(stack) = {Top} \cup FramesOf(Tail(stack)) /\ Top = stack[1]
  BY <1>2, HeadAndTail DEF Top
<1>4. Listing \in SUBSET Paths
  BY DEF Listing, Children, IInv, TypeOK
<1>5. FramesOf(stack') = {[dir |-> Top.dir, rest |-> Listing]} \cup FramesOf(Tail(stack))
  BY <1>1, <1>2, <1>3, <1>4, ChangeTopDirs
<1>6. \A f \in FramesOf(stack') : \A p \in f.rest : Name(p) \notin NonUtf8Names
  BY <1>1, <1>3, <1>5 DEF QuietWalk
<1>7. Visible' = Visible
  BY <1>1 DEF Visible
<1>8. Passed' = Passed
  <2>1. \A r \in Visible : Ahead(r)' <=> Ahead(r)
    BY ListPasses DEF QuietWalk
  <2>. QED
    BY <1>7, <2>1 DEF Passed
<1>9. \A p : Entered(p)' <=> Entered(p)
  BY <1>1 DEF Entered
<1>. QED
  BY <1>1, <1>6, <1>7, <1>8, <1>9 DEF QuietWalk

LEMMA QuietReturn ==
    ASSUME IInv, QuietWalk, Return
    PROVE  QuietWalk'
<1>1. /\ stage = "visiting" /\ Top.rest = {} /\ stack' = Tail(stack)
      /\ stage' \in {"checking", "visiting"}
      /\ present' = present /\ steady' = steady /\ seen' = seen
      /\ entriesSeen' = entriesSeen /\ files' = files
      /\ directories' = directories /\ links' = links
  BY DEF Return, directory
<1>2. stack \in Seq(Frames) /\ stack # <<>>
  BY <1>1 DEF IInv, TypeOK, WalkInv, Frames
<1>3. FramesOf(stack) = {Top} \cup FramesOf(stack')
  BY <1>1, <1>2, HeadAndTail DEF Top
<1>4. \A r : Ahead(r)' <=> Ahead(r)
  BY <1>1, <1>3 DEF Ahead
<1>5. Visible' = Visible
  BY <1>1 DEF Visible
<1>6. Passed' = Passed
  BY <1>4, <1>5 DEF Passed
<1>7. \A p : Entered(p)' <=> Entered(p)
  BY <1>1 DEF Entered
<1>. QED
  BY <1>1, <1>3, <1>5, <1>6, <1>7 DEF QuietWalk

LEMMA QuietVisit ==
    ASSUME IInv, NestInv, QuietWalk, NEW p \in Paths, Visit(p)
    PROVE  QuietWalk'
<1> DEFINE rest  == [dir |-> Top.dir, rest |-> Top.rest \ {p}]
           child == [dir |-> p, rest |-> {}]
<1>1. /\ Visiting(p) /\ stage = "visiting"
      /\ stage' = IF Kind[p] = "dir" THEN "listing" ELSE "visiting"
      /\ entriesSeen' = entriesSeen + 1
      /\ Kind[p] # "other" => Portable(p)
      /\ files' = IF Kind[p] = "file" THEN files \cup {p} ELSE files
      /\ directories' = IF Kind[p] = "dir" THEN directories \cup {p} ELSE directories
      /\ links' = IF Kind[p] = "link" THEN links \cup {p} ELSE links
      /\ present' = present /\ steady' = steady /\ seen' = seen
  BY DEF Visit, Visiting, directory
<1>2. /\ Top \in FramesOf(stack) /\ p \in Top.rest
      /\ FramesOf(stack) = {Top} \cup FramesOf(Tail(stack))
  BY <1>1, VisitFacts
<1>3. FramesOf(stack') = (IF Kind[p] = "dir" THEN {child} ELSE {})
                            \cup {rest} \cup FramesOf(Tail(stack))
  BY VisitStack
<1>4. /\ Ahead(p) /\ ~Ahead(p)'
      /\ \A r \in Paths : r # p => (Ahead(r)' <=> Ahead(r))
  BY VisitPasses
<1>5. p \in Visible
  <2>1. /\ Parent(p) = Top.dir /\ Name(p) \notin ExcludedNames /\ p \in seen
        /\ Top.dir = Root \/ Top.dir \in directories
    BY <1>2 DEF IInv, WalkInv
  <2>2. p \in present /\ steady = seen
    BY <2>1, StillThere DEF QuietWalk
  <2>. QED
    BY <2>1, <2>2, VisibleIn
<1>6. Visible' = Visible /\ Visible \subseteq Paths /\ IsFiniteSet(Visible)
  BY <1>1, StillThere DEF Visible, QuietWalk
<1>7. Passed' = Passed \cup {p} /\ p \notin Passed
  BY <1>4, <1>5, <1>6 DEF Passed
<1>8. Cardinality(Passed') = entriesSeen'
  <2>1. IsFiniteSet(Passed) /\ entriesSeen = Cardinality(Passed)
    BY <1>1, <1>6, FS_Subset DEF Passed, QuietWalk
  <2>2. Cardinality(Passed \cup {p}) = Cardinality(Passed) + 1
    BY <1>7, <2>1, FS_AddElement
  <2>. QED
    BY <1>1, <1>7, <2>1, <2>2
<1>9. \A r \in Passed' : Entered(r)'
  <2>1. ASSUME NEW r \in Passed PROVE Entered(r)'
    <3>1. Entered(r)
      BY <1>1 DEF QuietWalk
    <3>. QED
      BY <1>1, <3>1 DEF Entered
  <2>2. Entered(p)'
    <3>1. Name(p) \notin NonUtf8Names
      BY <1>2 DEF QuietWalk
    <3>. QED
      BY <1>1, <3>1 DEF Entered
  <2>. QED
    BY <1>7, <2>1, <2>2
<1>10. links' \subseteq Visible'
  BY <1>1, <1>5, <1>6 DEF QuietWalk
<1>11. \A f \in FramesOf(stack') : \A q \in f.rest : Name(q) \notin NonUtf8Names
  BY <1>2, <1>3 DEF QuietWalk
<1>. QED
  BY <1>1, <1>8, <1>9, <1>10, <1>11 DEF QuietWalk

\* After the walk, and when the read fails, its parts stay as they are.
LEMMA QuietWalkKept ==
    ASSUME QuietWalk, UNCHANGED <<directory, scan>>,
           stage' = "failed" \/ (stage \notin {"listing", "failed"} /\ stage' # "listing")
    PROVE  QuietWalk'
<1>1. /\ present' = present /\ steady' = steady /\ seen' = seen
      /\ stack' = stack /\ entriesSeen' = entriesSeen
      /\ files' = files /\ directories' = directories /\ links' = links
  BY DEF directory, scan
<1>2. Visible' = Visible
  BY <1>1 DEF Visible
<1>3. ASSUME stage \notin {"listing", "failed"}, stage' # "listing"
      PROVE  Passed' = Passed /\ \A p : Entered(p)' <=> Entered(p)
  BY <1>1, <1>2, <1>3 DEF Passed, Ahead, Entered
<1>. QED
  BY <1>1, <1>2, <1>3 DEF QuietWalk

\* The documents of a directory that stands still are the same ones.
LEMMA SameDocuments ==
    ASSUME present' = present, size' = size
    PROVE  /\ Visible' = Visible /\ FilesNow' = FilesNow /\ DirectoriesNow' = DirectoriesNow
           /\ DocumentsNow' = DocumentsNow
           /\ \A g : IsWeight(DocumentsNow, size, g)' <=> IsWeight(DocumentsNow, size, g)
           /\ ReadableBy' <=> ReadableBy
<1>1. /\ Visible' = Visible /\ FilesNow' = FilesNow /\ DirectoriesNow' = DirectoriesNow
      /\ DocumentsNow' = DocumentsNow
  BY DEF Visible, FilesNow, DirectoriesNow, DocumentsNow
<1>2. \A g : IsWeight(DocumentsNow, size, g)' <=> IsWeight(DocumentsNow, size, g)
  BY <1>1 DEF IsWeight
<1>3. ReadableBy' <=> ReadableBy
  BY <1>1, <1>2 DEF ReadableBy
<1>. QED
  BY <1>1, <1>2, <1>3

\* During the walk there are no documents and no bytes.
LEMMA QuietNothingRead ==
    ASSUME IInv, QuietDocuments, stage \in {"listing", "visiting"},
           stage' \in {"listing", "visiting", "checking"}, UNCHANGED reading
    PROVE  QuietDocuments'
<1>1. documents' = <<>> /\ bytes' = 0
  BY DEF IInv, DocumentsInv, reading, QuietDocuments
<1>. QED
  BY <1>1 DEF QuietDocuments, Loading

\* A pass begins with every document to do.
LEMMA QuietPassBegins ==
    ASSUME IInv, QuietWalk, QuietDocuments, UNCHANGED <<directory, scan, documents>>,
           \/ stage = "checking" /\ stage' = "sizing" /\ bytes' = bytes
           \/ stage = "sizing" /\ stage' = "probing" /\ bytes' = 0,
           todo' = Recognizable
    PROVE  QuietDocuments'
<1>1. /\ present' = present /\ size' = size /\ files' = files
      /\ Recognizable' = Recognizable
  BY DEF directory, scan, Recognizable
<1>2. documents' = <<>> /\ Len(documents') = 0
  BY DEF IInv, DocumentsInv
<1>3. Recognizable = DocumentsNow
  BY WalkIsOver
<1>4. bytes' = 0
  BY DEF QuietDocuments
<1>5. IsFiniteSet(Recognizable) /\ Cardinality(Recognizable) \in Nat
  BY <1>3, StillThere, PathsAssumption, FS_Subset, FS_CardinalityType DEF QuietWalk
<1>6. ASSUME NEW g, IsWeight(DocumentsNow, size, g)
      PROVE  0 + g[DocumentsNow] = g[DocumentsNow]
  <2>1. g[DocumentsNow] \in Nat
    BY <1>6, StillThere, WeightIsNat DEF QuietWalk
  <2>. QED
    BY <2>1
<1>. QED
  BY <1>1, <1>2, <1>3, <1>4, <1>5, <1>6, SameDocuments DEF QuietDocuments, Loading

\* The first document that is to do has the rest of the bytes but for those
\* of the others.
LEMMA QuietToDo ==
    ASSUME IInv, QuietWalk, stage \in {"sizing", "probing", "loading"}, todo # {},
           NEW g, IsWeight(DocumentsNow, size, g)
    PROVE  /\ g[todo] = size[First(todo)] + g[todo \ {First(todo)}]
           /\ g[todo \ {First(todo)}] \in Nat /\ size[First(todo)] \in Nat
           /\ g[DocumentsNow] \in Nat /\ bytes \in Nat
<1>1. todo \in SUBSET DocumentsNow
  <2>1. todo \subseteq Recognizable
    BY DEF IInv, DocumentsInv, Loading
  <2>. QED
    BY <2>1, WalkIsOver
<1>2. g[todo] = size[First(todo)] + g[todo \ {First(todo)}]
  BY <1>1, WeightStep
<1>3. \A P \in SUBSET DocumentsNow : g[P] \in Nat
  BY StillThere, WeightIsNat DEF QuietWalk
<1>4. todo \ {First(todo)} \in SUBSET DocumentsNow /\ DocumentsNow \in SUBSET DocumentsNow
  BY <1>1
<1>5. size[First(todo)] \in Nat /\ bytes \in Nat
  BY ToDo DEF IInv, TypeOK
<1>. QED
  BY <1>2, <1>3, <1>4, <1>5

LEMMA QuietSize ==
    ASSUME IInv, QuietWalk, QuietDocuments, Size
    PROVE  QuietDocuments'
<1> DEFINE p == First(todo)
<1>1. /\ stage = "sizing" /\ stage' = "sizing" /\ todo # {}
      /\ bytes' = bytes + size[p] /\ todo' = todo \ {p} /\ documents' = documents
      /\ present' = present /\ size' = size
  BY DEF Size, directory
<1>2. documents' = <<>> /\ Len(documents') = 0
  BY <1>1 DEF IInv, DocumentsInv
<1>3. ASSUME NEW g, IsWeight(DocumentsNow, size, g)
      PROVE  (bytes + size[p]) + g[todo \ {p}] = g[DocumentsNow]
  <2>1. /\ g[todo] = size[p] + g[todo \ {p}]
        /\ g[todo \ {p}] \in Nat /\ size[p] \in Nat /\ bytes \in Nat
    BY <1>1, <1>3, QuietToDo
  <2>2. bytes + g[todo] = g[DocumentsNow]
    BY <1>1, <1>3 DEF QuietDocuments
  <2>. QED
    BY <2>1, <2>2
<1>. QED
  BY <1>1, <1>2, <1>3, SameDocuments DEF QuietDocuments, Loading

LEMMA QuietStage ==
    ASSUME IInv, QuietDocuments, Probe \/ Publish
    PROVE  QuietDocuments'
<1>1. /\ stage = "probing" /\ stage' \in {"loading", "ready"}
      /\ todo' = todo /\ bytes' = bytes /\ documents' = documents /\ files' = files
      /\ present' = present /\ size' = size
  BY DEF Probe, Publish, directory, scan, reading
<1>2. Recognizable' = Recognizable
  BY <1>1 DEF Recognizable
<1>3. bytes <= MaxBytes
  BY <1>1 DEF IInv, DocumentsInv, Loading
<1>. QED
  BY <1>1, <1>2, <1>3, SameDocuments DEF QuietDocuments, Loading

\* A number moves from one addend to the other.
LEMMA Moved ==
    ASSUME NEW a \in Nat, NEW b \in Nat, NEW c \in Nat, a + b = c, b >= 1
    PROVE  (a + 1) + (b - 1) = c
  OBVIOUS

LEMMA QuietLoad ==
    ASSUME IInv, QuietWalk, QuietDocuments, Load
    PROVE  QuietDocuments'
<1> DEFINE p == First(todo)
           d == [path |-> p, size |-> size[p]]
           n == Len(documents)
<1>1. /\ stage = "loading" /\ stage' = "probing" /\ p \notin Malformed
      /\ documents' = Append(documents, d)
      /\ bytes' = bytes + size[p] /\ todo' = todo \ {p}
      /\ present' = present /\ size' = size /\ files' = files
  BY DEF Load, directory, scan
<1>2. todo # {}
  BY <1>1 DEF IInv, DocumentsInv
<1>3. /\ p \in todo /\ p \in Recognizable /\ p \in Paths /\ size[p] \in Nat
  BY <1>1, <1>2, ToDo
<1>4. documents \in Seq(Measured) /\ d \in Measured /\ n \in Nat
  BY <1>3 DEF IInv, TypeOK, Documents, Measured
<1>5. /\ Len(documents') = n + 1 /\ documents'[n + 1] = d
      /\ \A i \in 1..n : documents'[i] = documents[i]
  BY <1>1, <1>4, AppendProperties
<1>6. \A i \in 1..n + 1 : i \in 1..n \/ i = n + 1
  BY <1>4
<1>7. d.path = p /\ d.size = size[p]
  OBVIOUS
<1>8. ASSUME NEW i \in 1..n + 1
      PROVE  /\ documents'[i].size = size[documents'[i].path]
             /\ documents'[i].path \notin Malformed
  <2>1. CASE i \in 1..n
    BY <1>5, <2>1 DEF QuietDocuments
  <2>2. CASE i = n + 1
    <3> HIDE DEF d
    <3>. QED
      BY <1>1, <1>5, <1>7, <2>2
  <2>. QED
    BY <1>6, <2>1, <2>2
<1>9. Recognizable' = Recognizable
  BY <1>1 DEF Recognizable
<1>10. (n + 1) + Cardinality(todo') = Cardinality(Recognizable)
  <2>1. /\ IsFiniteSet(todo) /\ Cardinality(todo) \in Nat
        /\ IsFiniteSet(Recognizable) /\ Cardinality(Recognizable) \in Nat
    BY PathsAssumption, FS_Subset, FS_CardinalityType DEF IInv, TypeOK, Recognizable
  <2>2. Cardinality(todo') = Cardinality(todo) - 1 /\ Cardinality(todo) >= 1
    <3>1. Cardinality(todo \ {p}) = Cardinality(todo) - 1 /\ IsFiniteSet(todo \ {p})
      BY <1>3, <2>1, FS_RemoveElement
    <3>2. Cardinality(todo \ {p}) \in Nat
      BY <3>1, FS_CardinalityType
    <3>. QED
      BY <1>1, <2>1, <3>1, <3>2
  <2>3. n + Cardinality(todo) = Cardinality(Recognizable)
    BY <1>1 DEF QuietDocuments, Loading
  <2>. QED
    BY <1>4, <2>1, <2>2, <2>3, Moved
<1>11. ASSUME NEW g, IsWeight(DocumentsNow, size, g)
       PROVE  bytes' + g[todo'] = g[DocumentsNow]
  <2>1. /\ g[todo] = size[p] + g[todo \ {p}]
        /\ g[todo \ {p}] \in Nat /\ size[p] \in Nat /\ bytes \in Nat
    BY <1>1, <1>2, <1>11, QuietToDo
  <2>2. bytes + g[todo] = g[DocumentsNow]
    BY <1>1, <1>11 DEF QuietDocuments, Loading
  <2>3. (bytes + size[p]) + g[todo \ {p}] = g[DocumentsNow]
    BY <2>1, <2>2
  <2>. QED
    BY <1>1, <2>3
<1> HIDE DEF d, n, p
<1>. QED
  BY <1>1, <1>5, <1>8, <1>9, <1>10, <1>11, SameDocuments DEF QuietDocuments, Loading

(***************************************************************************)
(* A read of a directory that stands still fails for a reason.             *)
(***************************************************************************)

\* More visible entries than the limit, if some are counted and others seen.
LEMMA TooManyEntries ==
    ASSUME IInv, QuietWalk, stage # "failed",
           NEW S, S \subseteq Visible, \A p \in S : Ahead(p),
           entriesSeen + Cardinality(S) > MaxEntries
    PROVE  ~ReadableBy
<1>1. IsFiniteSet(Visible) /\ Cardinality(Visible) \in Nat
  BY StillThere DEF QuietWalk
<1>2. Passed \subseteq Visible /\ Passed \cap S = {}
  BY DEF Passed
<1>3. /\ IsFiniteSet(S) /\ Cardinality(S) \in Nat
      /\ IsFiniteSet(Passed) /\ Cardinality(Passed) \in Nat
      /\ IsFiniteSet(Passed \cup S) /\ Cardinality(Passed \cup S) <= Cardinality(Visible)
  <2>1. Passed \cup S \subseteq Visible
    BY <1>2
  <2>. QED
    BY <1>1, <1>2, <2>1, FS_Subset, FS_CardinalityType
<1>4. Cardinality(Passed \cup S) = Cardinality(Passed) + Cardinality(S)
  <2>1. Cardinality(Passed \cap S) = 0
    BY <1>2, FS_EmptySet
  <2>2. Cardinality(Passed \cup S)
           = Cardinality(Passed) + Cardinality(S) - Cardinality(Passed \cap S)
    BY <1>3, FS_Union
  <2>. QED
    BY <1>3, <2>1, <2>2
<1>5. entriesSeen = Cardinality(Passed)
  BY DEF QuietWalk
<1>. QED
  BY <1>1, <1>3, <1>4, <1>5, LimitsAssumption DEF ReadableBy

LEMMA ListFailsRightly ==
    ASSUME IInv, QuietWalk, ListFails
    PROVE  ~ReadableBy
<1>1. /\ stage = "listing"
      /\ \/ Top.dir # Root /\ Top.dir \notin present
         \/ \E p \in Listing : Name(p) \in NonUtf8Names
         \/ entriesSeen + Cardinality(Listing) > MaxEntries
  BY DEF ListFails
<1>2. stack \in Seq(Frames) /\ stack # <<>>
  BY <1>1 DEF IInv, TypeOK, WalkInv, Frames
<1>3. Top \in FramesOf(stack)
  BY <1>2, HeadAndTail DEF Top
<1>4. Top.dir = Root \/ Top.dir \in directories
  BY <1>3 DEF IInv, WalkInv
<1>5. Top.dir = Root \/ Top.dir \in present
  BY <1>4, StillThere DEF QuietWalk, DirectoriesNow, Visible
<1>6. \A p \in Listing : /\ p \in Paths /\ p \in present /\ Parent(p) = Top.dir
                         /\ Name(p) \notin ExcludedNames
  BY DEF Listing, Children, IInv, TypeOK
<1>7. Listing \subseteq Visible
  BY <1>4, <1>6, VisibleIn DEF QuietWalk
<1>8. ASSUME NEW p \in Listing PROVE Ahead(p)
  <2>1. Parent(p) = Root \/ Parent(p) \in Ancestors(p)
    BY <1>6, ParentFacts
  <2>. QED
    BY <1>1, <1>6, <2>1 DEF Ahead
<1>9. CASE \E p \in Listing : Name(p) \in NonUtf8Names
  BY <1>7, <1>9 DEF ReadableBy
<1>10. CASE entriesSeen + Cardinality(Listing) > MaxEntries
  BY <1>1, <1>7, <1>8, <1>10, TooManyEntries
<1>. QED
  BY <1>1, <1>5, <1>9, <1>10

LEMMA VisitFailsRightly ==
    ASSUME IInv, QuietWalk, NEW p \in Paths, VisitFails(p)
    PROVE  ~ReadableBy
<1>1. /\ Visiting(p) /\ stage = "visiting"
      /\ \/ entriesSeen + 1 > MaxEntries
         \/ p \notin present
         \/ Kind[p] # "other" /\ ~Portable(p)
  BY DEF VisitFails, Visiting
<1>2. Top \in FramesOf(stack) /\ p \in Top.rest
  BY <1>1, VisitFacts
<1>3. /\ Parent(p) = Top.dir /\ Name(p) \notin ExcludedNames /\ p \in seen
      /\ Top.dir = Root \/ Top.dir \in directories
  BY <1>2 DEF IInv, WalkInv
<1>4. p \in present
  BY <1>3, StillThere DEF QuietWalk
<1>5. p \in Visible
  BY <1>3, <1>4, VisibleIn DEF QuietWalk
<1>6. Ahead(p)
  BY <1>2 DEF Ahead, Inwards
<1>7. CASE entriesSeen + 1 > MaxEntries
  <2>1. Cardinality({p}) = 1
    BY FS_Singleton
  <2>2. {p} \subseteq Visible /\ \A q \in {p} : Ahead(q)
    BY <1>5, <1>6
  <2>3. entriesSeen + Cardinality({p}) > MaxEntries
    BY <1>7, <2>1
  <2>4. stage # "failed"
    BY <1>1
  <2>. QED
    BY <2>2, <2>3, <2>4, TooManyEntries
<1>8. CASE Kind[p] # "other" /\ ~Portable(p)
  BY <1>5, <1>8 DEF ReadableBy
<1>. QED
  BY <1>1, <1>4, <1>7, <1>8

\* A recognized file of a directory that stands still is there, and more
\* documents or bytes than the limits allow are in it when some are read and
\* another one exceeds them.
LEMMA DocumentFailsRightly ==
    ASSUME IInv, QuietWalk, QuietDocuments,
           CheckFails \/ SizeFails \/ LimitFails \/ ProbeFails \/ LoadFails
    PROVE  ~ReadableBy
<1> DEFINE p == First(todo)
<1>1. stage \in {"checking", "sizing", "probing", "loading"}
  BY DEF CheckFails, SizeFails, LimitFails, ProbeFails, LoadFails
<1>2. files = FilesNow /\ directories = DirectoriesNow /\ Recognizable = DocumentsNow
  BY <1>1, WalkIsOver
<1>3. /\ DocumentsNow \in SUBSET Paths
      /\ IsFiniteSet(DocumentsNow) /\ Cardinality(DocumentsNow) \in Nat
  BY StillThere, PathsAssumption, FS_Subset, FS_CardinalityType DEF QuietWalk
<1>4. ASSUME todo # {}, stage # "checking"
      PROVE  p \in todo /\ p \in DocumentsNow /\ p \in present /\ size[p] \in Nat
  <2>1. p \in todo /\ p \in Recognizable /\ size[p] \in Nat
    BY <1>1, <1>4, ToDo
  <2>. QED
    BY <1>2, <2>1 DEF DocumentsNow, FilesNow, Visible
<1>5. PICK g : IsWeight(DocumentsNow, size, g)
  BY <1>3, WeightExists
<1>6. \A P \in SUBSET DocumentsNow : g[P] \in Nat
  BY <1>5, StillThere, WeightIsNat DEF QuietWalk
<1>7. CASE CheckFails
  BY <1>2, <1>7 DEF CheckFails, ReadableBy
<1>8. CASE SizeFails
  BY <1>4, <1>8 DEF SizeFails
<1>9. CASE LimitFails
  <2>1. todo = {} /\ stage = "sizing" /\ Exceeds(Cardinality(Recognizable), bytes)
    BY <1>9 DEF LimitFails
  <2>2. g[{}] = 0
    BY <1>5, WeightStep
  <2>3. bytes + g[{}] = g[DocumentsNow] /\ bytes \in Nat
    BY <1>5, <2>1 DEF QuietDocuments, IInv, TypeOK
  <2>4. bytes = g[DocumentsNow]
    BY <2>2, <2>3
  <2>. QED
    BY <1>2, <1>3, <1>5, <2>1, <2>3, <2>4, LimitsAssumption DEF Exceeds, ReadableBy
<1>10. CASE ProbeFails
  <2>1. todo # {} /\ stage = "probing"
    BY <1>10 DEF ProbeFails
  <2>2. size[p] > MaxDocumentBytes
    BY <1>4, <1>10, <2>1 DEF ProbeFails
  <2>. QED
    BY <1>4, <2>1, <2>2, DirectoryAssumption DEF ReadableBy
<1>11. CASE LoadFails
  <2>1. todo # {} /\ stage = "loading"
    BY <1>11 DEF LoadFails, IInv, DocumentsInv
  <2>2. CASE size[p] > MaxDocumentBytes \/ p \in Malformed
    BY <1>4, <2>1, <2>2, DirectoryAssumption DEF ReadableBy
  <2>3. CASE Exceeds(Len(documents) + 1, bytes + size[p])
    <3>1. /\ g[todo] = size[p] + g[todo \ {p}] /\ g[todo \ {p}] \in Nat
          /\ size[p] \in Nat /\ bytes \in Nat /\ g[DocumentsNow] \in Nat
      BY <1>1, <1>5, <2>1, QuietToDo
    <3>2. bytes + g[todo] = g[DocumentsNow]
      BY <1>5, <2>1 DEF QuietDocuments, Loading
    <3>3. bytes + size[p] <= g[DocumentsNow]
      BY <3>1, <3>2
    <3>4. Len(documents) + 1 <= Cardinality(DocumentsNow) /\ Len(documents) \in Nat
      <4>1. IsFiniteSet(todo) /\ Cardinality(todo) \in Nat
        BY PathsAssumption, FS_Subset, FS_CardinalityType DEF IInv, TypeOK
      <4>2. Cardinality(todo) # 0
        BY <2>1, <4>1, FS_EmptySet
      <4>3. Len(documents) + Cardinality(todo) = Cardinality(DocumentsNow)
        BY <1>2, <2>1 DEF QuietDocuments, Loading
      <4>4. Len(documents) \in Nat
        BY DEF IInv, TypeOK
      <4>. QED
        BY <4>1, <4>2, <4>3, <4>4
    <3>5. CASE Len(documents) + 1 > MaxDocuments
      BY <1>3, <3>4, <3>5, LimitsAssumption DEF ReadableBy
    <3>6. CASE bytes + size[p] > MaxBytes
      <4>1. ~ (g[DocumentsNow] <= MaxBytes)
        BY <3>1, <3>3, <3>6, LimitsAssumption
      <4>. QED
        BY <1>5, <4>1 DEF ReadableBy
    <3>. QED
      BY <2>3, <3>5, <3>6 DEF Exceeds
  <2>. QED
    BY <1>4, <1>11, <2>1, <2>2, <2>3 DEF LoadFails
<1>. QED
  BY <1>7, <1>8, <1>9, <1>10, <1>11

-----------------------------------------------------------------------------

LEMMA QuietInit == Init => NestInv /\ QuietInv
<1> SUFFICES ASSUME Init PROVE NestInv /\ QuietInv
  OBVIOUS
<1>1. /\ stage = "listing" /\ stack = <<[dir |-> Root, rest |-> {}]>>
      /\ steady = seen /\ directories = {} /\ links = {} /\ entriesSeen = 0
      /\ bytes = 0 /\ documents = <<>>
  BY DEF Init
<1>2. Len(stack) = 1 /\ Top.dir = Root /\ \A f \in FramesOf(stack) : f.rest = {}
  <2>1. FramesOf(stack) = {[dir |-> Root, rest |-> {}]}
    BY <1>1, NothingFound
  <2>2. Len(stack) = 1 /\ Top = [dir |-> Root, rest |-> {}]
    BY <1>1 DEF Top
  <2>3. \A f \in {[dir |-> Root, rest |-> {}]} : f.rest = {}
    OBVIOUS
  <2>. QED
    BY <2>1, <2>2, <2>3
<1>3. NestInv
  BY <1>1, <1>2 DEF NestInv
<1>4. Passed = {}
  BY <1>1, <1>2 DEF Passed, Ahead
<1>5. QuietWalk
  BY <1>1, <1>2, <1>4, FS_EmptySet DEF QuietWalk
<1>6. QuietDocuments
  BY <1>1 DEF QuietDocuments, Loading
<1>. QED
  BY <1>1, <1>3, <1>5, <1>6 DEF QuietInv

\* The directory has stood still so far, or it has changed for good.
LEMMA QuietStep ==
    ASSUME IInv, NestInv, QuietInv, [Next]_vars
    PROVE  NestInv' /\ QuietInv'
<1>1. ASSUME NEW reason \in Errors, Fail(reason), changes = 0 => ~ReadableBy
      PROVE  NestInv' /\ QuietInv'
  <2>1. /\ stage' = "failed" /\ changes' = changes /\ stack' = stack
        /\ directories' = directories /\ documents' = documents
        /\ present' = present /\ size' = size /\ UNCHANGED <<directory, scan>>
    BY <1>1 DEF Fail, directory, scan, reading
  <2>2. NestInv'
    BY <2>1, NestKept
  <2>3. ASSUME changes = 0 PROVE QuietWalk'
    BY <2>1, <2>3, QuietWalkKept DEF QuietInv
  <2>4. ASSUME changes = 0 PROVE QuietDocuments'
    BY <2>1, <2>4 DEF QuietInv, QuietDocuments, Loading
  <2>. QED
    BY <1>1, <2>1, <2>2, <2>3, <2>4, SameDocuments DEF QuietInv
<1>2. CASE ListFails
  BY <1>1, <1>2, ListFailsRightly DEF ListFails, Errors, QuietInv
<1>3. ASSUME NEW p \in Paths, VisitFails(p) PROVE NestInv' /\ QuietInv'
  BY <1>1, <1>3, VisitFailsRightly DEF VisitFails, Errors, QuietInv
<1>4. CASE CheckFails \/ SizeFails \/ LimitFails \/ ProbeFails \/ LoadFails
  <2>1. \E reason \in Errors : Fail(reason)
    BY <1>4 DEF CheckFails, SizeFails, LimitFails, ProbeFails, LoadFails, Errors
  <2>. QED
    BY <1>1, <1>4, <2>1, DocumentFailsRightly DEF QuietInv
<1>5. CASE ListEntries
  <2>1. /\ stage = "listing" /\ stage' = "visiting" /\ changes' = changes
        /\ UNCHANGED reading
    BY <1>5 DEF ListEntries, directory
  <2>. QED
    BY <1>5, <2>1, NestList, QuietList, QuietNothingRead DEF QuietInv
<1>6. ASSUME NEW p \in Paths, Visit(p) PROVE NestInv' /\ QuietInv'
  <2>1. /\ stage = "visiting" /\ stage' \in {"listing", "visiting"} /\ changes' = changes
        /\ UNCHANGED reading
    BY <1>6 DEF Visit, Visiting, directory
  <2>. QED
    BY <1>6, <2>1, NestVisit, QuietVisit, QuietNothingRead DEF QuietInv
<1>7. CASE Return
  <2>1. /\ stage = "visiting" /\ stage' \in {"checking", "visiting"} /\ changes' = changes
        /\ UNCHANGED reading
    BY <1>7 DEF Return, directory
  <2>. QED
    BY <1>7, <2>1, NestReturn, QuietReturn, QuietNothingRead DEF QuietInv
<1>8. CASE Check \/ Size \/ Limit \/ Probe \/ Load \/ Publish
  <2>1. /\ UNCHANGED <<directory, scan>> /\ changes' = changes
        /\ stack' = stack /\ directories' = directories
        /\ stage \in {"checking", "sizing", "probing", "loading"}
        /\ stage' \in {"sizing", "probing", "loading", "ready"}
    BY <1>8 DEF Check, Size, Limit, Probe, Load, Publish, directory, scan
  <2>2. NestInv'
    BY <2>1, NestKept
  <2>3. ASSUME changes = 0 PROVE QuietWalk'
    BY <2>1, <2>3, QuietWalkKept DEF QuietInv
  <2>4. ASSUME changes = 0 PROVE QuietDocuments'
    <3>1. QuietWalk /\ QuietDocuments
      BY <2>4 DEF QuietInv
    <3>2. CASE Check
      BY <3>1, <3>2, QuietPassBegins DEF Check
    <3>3. CASE Limit
      BY <3>1, <3>3, QuietPassBegins DEF Limit
    <3>4. CASE Size
      BY <3>1, <3>4, QuietSize
    <3>5. CASE Probe \/ Publish
      BY <3>1, <3>5, QuietStage
    <3>6. CASE Load
      BY <3>1, <3>6, QuietLoad
    <3>. QED
      BY <1>8, <3>2, <3>3, <3>4, <3>5, <3>6
  <2>. QED
    BY <2>1, <2>2, <2>3, <2>4 DEF QuietInv
<1>9. ASSUME Change PROVE NestInv' /\ QuietInv'
  <2>1. changes' = changes + 1 /\ changes \in Nat
    BY <1>9, DirectoryAssumption DEF Change, IInv, TypeOK
  <2>2. stack' = stack /\ directories' = directories /\ stage' = stage
    BY <1>9 DEF Change, scan
  <2>3. changes' # 0
    BY <2>1
  <2>. QED
    BY <2>2, <2>3, NestKept DEF QuietInv
<1>10. CASE UNCHANGED vars
  <2>1. /\ UNCHANGED <<directory, scan>> /\ changes' = changes /\ stage' = stage
        /\ present' = present /\ size' = size /\ steady' = steady /\ seen' = seen
        /\ stack' = stack /\ entriesSeen' = entriesSeen
        /\ files' = files /\ directories' = directories /\ links' = links
        /\ todo' = todo /\ bytes' = bytes /\ documents' = documents
    BY <1>10 DEF vars, directory, scan, reading
  <2>2. NestInv'
    BY <2>1, NestKept
  <2>3. QuietWalk' <=> QuietWalk
    BY <2>1 DEF QuietWalk, Passed, Visible, Ahead, Top, Entered
  <2>4. QuietDocuments' <=> QuietDocuments
    BY <2>1, SameDocuments DEF QuietDocuments, Loading, Recognizable
  <2>. QED
    BY <2>1, <2>2, <2>3, <2>4, SameDocuments DEF QuietInv
<1>. QED
  BY <1>2, <1>3, <1>4, <1>5, <1>6, <1>7, <1>8, <1>9, <1>10
     DEF Next, Read, Answered, Create, Delete, Rewrite

LEMMA QuietInvariance == Spec => [](IInv /\ NestInv /\ QuietInv)
<1>1. IInv /\ NestInv /\ QuietInv /\ [Next]_vars => NestInv' /\ QuietInv'
  BY QuietStep
<1>. QED
  BY <1>1, QuietInit, Invariance, PTL DEF Spec

\* Readable asks for the bytes there are, whichever function adds them up.
LEMMA ReadableIs ==
    ASSUME DocumentsNow \in SUBSET Paths
    PROVE  Readable <=> ReadableBy
<1>1. PICK g : IsWeight(DocumentsNow, size, g) /\ BytesNow = g[DocumentsNow]
  BY BytesNowIs
<1>2. \A h : IsWeight(DocumentsNow, size, h) => h[DocumentsNow] = BytesNow
  <2>1. DocumentsNow \in SUBSET DocumentsNow
    OBVIOUS
  <2>. QED
    BY <1>1, <2>1, WeightIsUnique
<1>. QED
  BY <1>1, <1>2 DEF ReadableBy, Readable

\* A directory that nobody changes meanwhile is refused by
\* ModelRepository::read only if it breaks a rule, and otherwise read exactly
\* as it is: every file and directory that is not metadata, every link
\* reported, every document as long as it was measured.
THEOREM QuietIsExact == Spec => []QuietReadIsExact
<1>1. IInv /\ NestInv /\ QuietInv => QuietReadIsExact
  <2> SUFFICES ASSUME IInv, QuietInv, changes = 0
               PROVE  /\ stage = "failed" => ~Readable
                      /\ stage = "ready" =>
                            /\ Readable
                            /\ files = FilesNow /\ directories = DirectoriesNow
                            /\ links = {p \in Visible : Kind[p] = "link"}
                            /\ \A i \in 1..Len(documents) :
                                  documents[i].size = size[documents[i].path]
    BY DEF QuietReadIsExact
  <2>1. QuietWalk /\ QuietDocuments /\ (stage = "failed" => ~ReadableBy)
    BY DEF QuietInv
  <2>2. /\ DocumentsNow \in SUBSET Paths
        /\ IsFiniteSet(DocumentsNow) /\ Cardinality(DocumentsNow) \in Nat
    BY <2>1, StillThere, PathsAssumption, FS_Subset, FS_CardinalityType DEF QuietWalk
  <2>3. ASSUME stage = "failed" PROVE ~Readable
    BY <2>1, <2>2, <2>3, ReadableIs
  <2>4. ASSUME stage = "ready"
        PROVE  /\ Readable
               /\ files = FilesNow /\ directories = DirectoriesNow
               /\ links = {p \in Visible : Kind[p] = "link"}
    <3>1. /\ entriesSeen = Cardinality(Visible) /\ \A p \in Visible : Entered(p)
          /\ files = FilesNow /\ directories = DirectoriesNow
          /\ links = {p \in Visible : Kind[p] = "link"}
          /\ Recognizable = DocumentsNow
      BY <2>1, <2>4, WalkIsOver
    <3>2. todo = {} /\ Listed = DocumentsNow
      BY <2>4, <3>1 DEF IInv, DocumentsInv
    <3>3. ASSUME NEW p \in DocumentsNow PROVE size[p] <= MaxDocumentBytes /\ p \notin Malformed
      <4>1. PICK i \in 1..Len(documents) : documents[i].path = p
        BY <3>2 DEF Listed
      <4>. QED
        BY <2>1, <4>1 DEF QuietDocuments, IInv, DocumentsInv
    <3>4. Cardinality(DocumentsNow) <= MaxDocuments
      <4>1. Len(documents) + Cardinality({}) = Cardinality(DocumentsNow) /\ Cardinality({}) = 0
        BY <2>1, <2>4, <3>1, <3>2, FS_EmptySet DEF QuietDocuments
      <4>2. Len(documents) \in Nat /\ Len(documents) <= MaxDocuments
        BY DEF IInv, TypeOK, DocumentsInv
      <4>. QED
        BY <4>1, <4>2
    <3>5. ASSUME NEW g, IsWeight(DocumentsNow, size, g) PROVE g[DocumentsNow] <= MaxBytes
      <4>1. g[{}] = 0
        BY <3>5, WeightStep
      <4>2. bytes + g[{}] = g[DocumentsNow]
        BY <2>1, <2>4, <3>2, <3>5 DEF QuietDocuments
      <4>3. bytes \in Nat /\ bytes <= MaxBytes
        BY <2>1, <2>4 DEF IInv, TypeOK, QuietDocuments
      <4>. QED
        BY <4>1, <4>2, <4>3
    <3>6. /\ Cardinality(Visible) <= MaxEntries /\ ~Collides(FilesNow, DirectoriesNow)
          /\ \A p \in Visible : Name(p) \notin NonUtf8Names /\ (Kind[p] # "other" => Portable(p))
      BY <2>4, <3>1 DEF IInv, CountInv, CollisionInv, Entered
    <3>7. ReadableBy
      BY <3>3, <3>4, <3>5, <3>6 DEF ReadableBy
    <3>. QED
      BY <2>2, <3>1, <3>7, ReadableIs
  <2>. QED
    BY <2>1, <2>3, <2>4 DEF QuietDocuments
<1>. QED
  BY <1>1, QuietInvariance, PTL
=============================================================================
