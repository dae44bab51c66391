-------------------------- MODULE InventoryProofs ---------------------------
(***************************************************************************)
(* Theorems about Inventory for every set of paths, every limit and every  *)
(* sequence of calls.                                                      *)
(***************************************************************************)
EXTENDS Inventory, SharedProofs

(***************************************************************************)
(* The inductive invariant: the inventory is the closure of the effective  *)
(* insertions and fits; the documents are those of the batch that are no   *)
(* longer pending; and each stage remembers the checks that led to it.     *)
(***************************************************************************)
Inserted == {documents[j] : j \in 1..Len(documents)}
Taken    == {batch[i] : i \in (1..Len(batch)) \ pending}

DocumentsInv ==
    /\ Inserted = Taken
    /\ Len(documents) + Cardinality(pending) = Len(batch)

Checked ==
    /\ Len(batch) <= MaxDocuments
    /\ TotalBytes(batch) <= MaxBytes
    /\ ~HasDuplicate(batch)

StageInv ==
    /\ stage = "collecting" => documents = <<>>
    /\ stage \in {"inserting", "ready"} => Checked
    /\ stage = "ready" => pending = {} /\ ~Collides(files, directories)
    /\ stage = "rejected" => ~Buildable

IInv ==
    /\ TypeOK
    /\ InventoryIsClosure
    /\ EntriesBounded
    /\ DocumentsInv
    /\ StageInv

-----------------------------------------------------------------------------

(***************************************************************************)
(* Facts about paths and the operators of the inventory.                   *)
(***************************************************************************)

\* A path is none of its own ancestors, and has finitely many.
LEMMA AncestorFacts ==
    ASSUME NEW p \in Paths
    PROVE  /\ p \notin Ancestors(p)
           /\ Ancestors(p) \subseteq Paths
           /\ IsFiniteSet(Ancestors(p))
<1>1. p \in Seq(Segments) /\ Ancestors(p) \subseteq Paths /\ IsFiniteSet(Paths)
  BY PathsAssumption
<1>2. p \notin Ancestors(p)
  <2> SUFFICES ASSUME NEW n \in 1..Len(p) - 1, p = SubSeq(p, 1, n) PROVE FALSE
    BY DEF Ancestors
  <2>1. Len(p) \in Nat
    BY <1>1, LenProperties
  <2>2. n \in Nat /\ n <= Len(p) /\ n # Len(p)
    BY <2>1
  <2>3. \A i \in 1..n : p[i] \in Segments
    BY <1>1, <2>1, <2>2, ElementOfSeq
  <2>4. Len(SubSeq(p, 1, n)) = n
    BY <1>1, <2>2, <2>3, SubSeqProperties
  <2>. QED
    BY <2>2, <2>4
<1>3. IsFiniteSet(Ancestors(p))
  BY <1>1, FS_Subset
<1>. QED
  BY <1>1, <1>2, <1>3

NewFiles(p, file) == IF file THEN files \cup {p} ELSE files
NewDirectories(p, file) ==
    directories \cup MissingParents(p) \cup (IF file THEN {} ELSE {p})

\* An insertion adds to the inventory as many entries as the limit check
\* counts.
LEMMA StoreCounts ==
    ASSUME TypeOK, NEW p \in Paths, NEW file \in BOOLEAN
    PROVE  /\ EntryCount(NewFiles(p, file), NewDirectories(p, file))
                 = EntryCount(files, directories) + Additions(p, file)
           /\ EntryCount(files, directories) \in Nat
           /\ Additions(p, file) \in Nat
           /\ NewFiles(p, file) \subseteq Paths /\ NewDirectories(p, file) \subseteq Paths
<1> DEFINE M == MissingParents(p)
           D == directories \cup M
<1>1. IsFiniteSet(files) /\ IsFiniteSet(directories) /\ IsFiniteSet(M)
  BY FS_Subset, AncestorFacts, PathsAssumption DEF TypeOK, MissingParents
<1>2. IsFiniteSet(D) /\ Cardinality(D) = Cardinality(directories) + Cardinality(M)
  <2>1. directories \cap M = {}
    BY DEF MissingParents
  <2>2. /\ IsFiniteSet(D)
        /\ Cardinality(D) = Cardinality(directories) + Cardinality(M)
                                - Cardinality(directories \cap M)
    BY <1>1, FS_Union
  <2>3. Cardinality(directories \cap M) = 0
    BY <2>1, FS_EmptySet
  <2>. QED
    BY <1>1, <2>2, <2>3, FS_CardinalityType
<1>3. /\ Cardinality(files) \in Nat /\ Cardinality(directories) \in Nat
      /\ Cardinality(M) \in Nat
  BY <1>1, FS_CardinalityType
<1>4. p \in D <=> p \in directories
  BY AncestorFacts DEF MissingParents
<1>5. NewFiles(p, file) \subseteq Paths /\ NewDirectories(p, file) \subseteq Paths
  BY AncestorFacts DEF NewFiles, NewDirectories, MissingParents, TypeOK
<1>6. CASE file
  <2>1. NewFiles(p, file) = files \cup {p} /\ NewDirectories(p, file) = D
    BY <1>6 DEF NewFiles, NewDirectories
  <2>2. Cardinality(files \cup {p})
           = IF p \in files THEN Cardinality(files) ELSE Cardinality(files) + 1
    BY <1>1, FS_AddElement
  <2>3. Present(p, file) <=> p \in files
    BY <1>6 DEF Present
  <2> HIDE DEF D, M
  <2>. QED
    BY <1>2, <1>3, <1>5, <2>1, <2>2, <2>3 DEF EntryCount, Additions, M
<1>7. CASE ~file
  <2>1. NewFiles(p, file) = files /\ NewDirectories(p, file) = D \cup {p}
    BY <1>7 DEF NewFiles, NewDirectories
  <2>2. Cardinality(D \cup {p})
           = IF p \in D THEN Cardinality(D) ELSE Cardinality(D) + 1
    BY <1>2, FS_AddElement
  <2>3. Present(p, file) <=> p \in directories
    BY <1>7 DEF Present
  <2> HIDE DEF D, M
  <2>. QED
    BY <1>2, <1>3, <1>4, <1>5, <2>1, <2>2, <2>3 DEF EntryCount, Additions, M
<1>. QED
  BY <1>6, <1>7

\* It adds what the closure of the insertions gains by it.
LEMMA StoreCloses ==
    ASSUME NEW R, files = FilesOf(R), directories = DirectoriesOf(R),
           NEW p \in Paths, NEW file \in BOOLEAN
    PROVE  /\ NewFiles(p, file) = FilesOf(R \cup {<<p, file>>})
           /\ NewDirectories(p, file) = DirectoriesOf(R \cup {<<p, file>>})
<1> DEFINE Q == R \cup {<<p, file>>}
<1>1. NewFiles(p, file) = FilesOf(Q)
  BY DEF NewFiles, FilesOf
<1>2. NewDirectories(p, file) = DirectoriesOf(Q)
  <2>1. NewDirectories(p, file) = directories \cup Ancestors(p) \cup (IF file THEN {} ELSE {p})
    BY DEF NewDirectories, MissingParents
  <2>2. \A d : (\E r \in Q : d \in Ancestors(r[1]))
                  <=> (\E r \in R : d \in Ancestors(r[1])) \/ d \in Ancestors(p)
    <3> SUFFICES ASSUME NEW d
                 PROVE  (\E r \in Q : d \in Ancestors(r[1]))
                          <=> (\E r \in R : d \in Ancestors(r[1])) \/ d \in Ancestors(p)
      OBVIOUS
    <3>1. <<p, file>>[1] = p
      OBVIOUS
    <3>2. \A r : r \in Q <=> r \in R \/ r = <<p, file>>
      OBVIOUS
    <3> HIDE DEF Q
    <3>3. ASSUME NEW r \in Q, d \in Ancestors(r[1])
          PROVE  (\E q \in R : d \in Ancestors(q[1])) \/ d \in Ancestors(p)
      <4>1. CASE r \in R
        BY <3>3, <4>1
      <4>2. CASE r = <<p, file>>
        BY <3>1, <3>3, <4>2
      <4>. QED
        BY <3>2, <4>1, <4>2
    <3>4. ASSUME NEW r \in R, d \in Ancestors(r[1])
          PROVE  \E q \in Q : d \in Ancestors(q[1])
      BY <3>2, <3>4
    <3>5. ASSUME d \in Ancestors(p)
          PROVE  \E q \in Q : d \in Ancestors(q[1])
      <4>1. <<p, file>> \in Q /\ d \in Ancestors(<<p, file>>[1])
        BY <3>1, <3>2, <3>5
      <4>. QED
        BY <4>1
    <3>. QED
      BY <3>3, <3>4, <3>5
  <2>3. \A d : <<d, FALSE>> \in Q <=> <<d, FALSE>> \in R \/ (~file /\ d = p)
    OBVIOUS
  <2>4. Ancestors(p) \subseteq Paths
    BY AncestorFacts
  <2> HIDE DEF Q
  <2>5. \A d : d \in NewDirectories(p, file) <=> d \in DirectoriesOf(Q)
    BY <2>1, <2>2, <2>3, <2>4 DEF DirectoriesOf
  <2>. QED
    BY <2>5
<1>. QED
  BY <1>1, <1>2

\* More insertions never amount to fewer entries.
LEMMA ClosureGrows ==
    ASSUME NEW Q \in SUBSET (Paths \X BOOLEAN), NEW R \in SUBSET Q
    PROVE  /\ EntriesOf(R) <= EntriesOf(Q)
           /\ EntriesOf(R) \in Nat /\ EntriesOf(Q) \in Nat
<1>1. FilesOf(R) \subseteq FilesOf(Q) /\ DirectoriesOf(R) \subseteq DirectoriesOf(Q)
  BY DEF FilesOf, DirectoriesOf
<1>2. FilesOf(Q) \subseteq Paths /\ DirectoriesOf(Q) \subseteq Paths
  BY AncestorFacts DEF FilesOf, DirectoriesOf
<1>3. IsFiniteSet(FilesOf(Q)) /\ IsFiniteSet(DirectoriesOf(Q))
  BY <1>2, PathsAssumption, FS_Subset
<1>4. /\ Cardinality(FilesOf(R)) <= Cardinality(FilesOf(Q))
      /\ Cardinality(DirectoriesOf(R)) <= Cardinality(DirectoriesOf(Q))
      /\ IsFiniteSet(FilesOf(R)) /\ IsFiniteSet(DirectoriesOf(R))
  BY <1>1, <1>3, FS_Subset
<1>5. /\ Cardinality(FilesOf(R)) \in Nat /\ Cardinality(DirectoriesOf(R)) \in Nat
      /\ Cardinality(FilesOf(Q)) \in Nat /\ Cardinality(DirectoriesOf(Q)) \in Nat
  BY <1>3, <1>4, FS_CardinalityType
<1>. QED
  BY <1>4, <1>5 DEF EntriesOf, EntryCount

\* The insertions that took effect and those that were asked for, in terms of
\* the documents.
LEMMA RequestFacts ==
    ASSUME TypeOK, DocumentsInv
    PROVE  /\ Effective = accepted \cup {<<d.path, TRUE>> : d \in Inserted}
           /\ Effective \subseteq Requested
           /\ Requested \subseteq Paths \X BOOLEAN
           /\ \A i \in 1..Len(batch) : batch[i].path \in Paths
           /\ pending = {} => Effective = Requested
<1>1. \A i \in 1..Len(batch) : batch[i] \in Documents
  BY ElementOfSeq DEF TypeOK
<1>2. \A i \in 1..Len(batch) : batch[i].path \in Paths
  BY <1>1 DEF Documents
<1>3. Effective = accepted \cup {<<d.path, TRUE>> : d \in Inserted}
  BY DEF Effective, Inserted
<1>4. Requested = accepted \cup {<<batch[i].path, TRUE>> : i \in 1..Len(batch)}
  BY DEF Requested
<1>5. Effective = accepted \cup {<<batch[i].path, TRUE>> : i \in (1..Len(batch)) \ pending}
  <2>1. Effective = accepted \cup {<<d.path, TRUE>> : d \in Taken}
    BY <1>3 DEF DocumentsInv
  <2>. QED
    BY <2>1 DEF Taken
<1>6. Requested \subseteq Paths \X BOOLEAN
  <2>1. \A i \in 1..Len(batch) : <<batch[i].path, TRUE>> \in Paths \X BOOLEAN
    BY <1>2
  <2>2. accepted \subseteq Paths \X BOOLEAN
    BY DEF TypeOK
  <2>. QED
    BY <1>4, <2>1, <2>2
<1>7. Effective \subseteq Requested
  BY <1>4, <1>5
<1>8. pending = {} => Effective = Requested
  BY <1>4, <1>5
<1>. QED
  BY <1>2, <1>3, <1>6, <1>7, <1>8

\* A successful insertion keeps the inventory a closure within the limit.
LEMMA AddEntry ==
    ASSUME TypeOK, InventoryIsClosure, NEW p \in Paths, NEW file \in BOOLEAN,
           Fits(p, file), Store(p, file), Effective' = Effective \cup {<<p, file>>}
    PROVE  /\ files' \subseteq Paths /\ directories' \subseteq Paths
           /\ InventoryIsClosure'
           /\ EntriesBounded'
<1>1. files' = NewFiles(p, file) /\ directories' = NewDirectories(p, file)
  BY DEF Store, NewFiles, NewDirectories
<1>2. files = FilesOf(Effective) /\ directories = DirectoriesOf(Effective)
  BY DEF InventoryIsClosure
<1>3. /\ NewFiles(p, file) = FilesOf(Effective \cup {<<p, file>>})
      /\ NewDirectories(p, file) = DirectoriesOf(Effective \cup {<<p, file>>})
  BY <1>2, StoreCloses
<1>4. InventoryIsClosure'
  BY <1>1, <1>3 DEF InventoryIsClosure
<1>5. EntryCount(NewFiles(p, file), NewDirectories(p, file)) <= MaxEntries
  BY StoreCounts DEF Fits
<1>. QED
  BY <1>1, <1>4, <1>5, StoreCounts DEF EntriesBounded

\* A refused insertion would have made the closure too large.
LEMMA RefusedIsTooLarge ==
    ASSUME TypeOK, InventoryIsClosure, NEW p \in Paths, NEW file \in BOOLEAN,
           ~Fits(p, file)
    PROVE  EntriesOf(Effective \cup {<<p, file>>}) > MaxEntries
<1>1. files = FilesOf(Effective) /\ directories = DirectoriesOf(Effective)
  BY DEF InventoryIsClosure
<1>2. EntriesOf(Effective \cup {<<p, file>>})
         = EntryCount(NewFiles(p, file), NewDirectories(p, file))
  BY <1>1, StoreCloses DEF EntriesOf
<1>. QED
  BY <1>2, StoreCounts, LimitsAssumption DEF Fits

-----------------------------------------------------------------------------

(***************************************************************************)
(* One lemma for each action.                                              *)
(***************************************************************************)

LEMMA InitInv == Init => IInv
<1> SUFFICES ASSUME Init PROVE IInv
  OBVIOUS
<1>1. Effective = {}
  BY DEF Effective, Init
<1>2. InventoryIsClosure
  BY <1>1 DEF InventoryIsClosure, FilesOf, DirectoriesOf, Init
<1>3. EntriesBounded
  BY FS_EmptySet, LimitsAssumption DEF EntriesBounded, EntryCount, Init
<1>4. DocumentsInv
  BY FS_EmptySet DEF DocumentsInv, Inserted, Taken, Init
<1>5. TypeOK
  BY DEF TypeOK, Init, Stages, Answers
<1>. QED
  BY <1>2, <1>3, <1>4, <1>5 DEF IInv, StageInv, Init

\* What a step keeps that leaves inventory, batch and documents alone.
LEMMA KeepInventory ==
    ASSUME IInv, UNCHANGED <<files, directories, batch, pending, documents, accepted>>
    PROVE  /\ InventoryIsClosure' /\ EntriesBounded' /\ DocumentsInv'
           /\ Checked' = Checked /\ Buildable' = Buildable
           /\ files' \subseteq Paths /\ directories' \subseteq Paths
           /\ batch' \in Seq(Documents) /\ documents' \in Seq(Documents)
           /\ pending' \subseteq 1..Len(batch')
           /\ accepted' \subseteq Paths \X BOOLEAN
<1>1. Effective' = Effective /\ Requested' = Requested
  BY DEF Effective, Requested
<1>2. InventoryIsClosure'
  BY <1>1 DEF InventoryIsClosure, IInv
<1>3. EntriesBounded'
  BY DEF EntriesBounded, IInv
<1>4. DocumentsInv'
  BY DEF DocumentsInv, Inserted, Taken, IInv
<1>5. Checked' = Checked /\ Buildable' = Buildable
  BY <1>1 DEF Checked, Buildable
<1>. QED
  BY <1>2, <1>3, <1>4, <1>5 DEF IInv, TypeOK

LEMMA InsertInv ==
    ASSUME IInv, NEW p \in Requests, NEW file \in BOOLEAN, Insert(p, file)
    PROVE  IInv'
<1>1. p \in Paths
  BY InputsAssumption
<1>2. Effective' = Effective \cup {<<p, file>>}
  BY DEF Insert, Effective
<1>3. /\ files' \subseteq Paths /\ directories' \subseteq Paths
      /\ InventoryIsClosure' /\ EntriesBounded'
  BY <1>1, <1>2, AddEntry DEF Insert, IInv
<1>4. accepted' \subseteq Paths \X BOOLEAN
  BY <1>1 DEF Insert, IInv, TypeOK
<1>5. TypeOK'
  BY <1>3, <1>4 DEF TypeOK, IInv, Insert, Answers
<1>6. DocumentsInv'
  BY DEF DocumentsInv, Inserted, Taken, IInv, Insert
<1>7. StageInv'
  BY DEF StageInv, IInv, Insert
<1>. QED
  BY <1>3, <1>5, <1>6, <1>7 DEF IInv

LEMMA RefuseInv ==
    ASSUME IInv, NEW p \in Requests, NEW file \in BOOLEAN, Refuse(p, file)
    PROVE  IInv'
<1>1. /\ UNCHANGED <<files, directories, batch, pending, documents, accepted>>
      /\ stage = "collecting" /\ stage' = "collecting" /\ answer' \in Answers
  BY DEF Refuse, Answers
<1>2. TypeOK'
  BY <1>1, KeepInventory DEF TypeOK, Stages
<1>3. StageInv'
  BY <1>1 DEF StageInv, IInv
<1>. QED
  BY <1>1, <1>2, <1>3, KeepInventory DEF IInv

LEMMA HandOverInv ==
    ASSUME IInv, NEW b \in Batches, HandOver(b)
    PROVE  IInv'
<1>1. b \in Seq(Documents) /\ Len(b) \in Nat
  BY InputsAssumption, LenProperties
<1>2. /\ batch' = b /\ pending' = 1..Len(b) /\ stage' = "checking"
      /\ documents = <<>> /\ documents' = <<>> /\ answer' = "none"
      /\ UNCHANGED <<files, directories, accepted>>
  BY DEF HandOver, StageInv, IInv
<1>3. Effective' = Effective
  BY <1>2 DEF Effective
<1>4. InventoryIsClosure' /\ EntriesBounded'
  BY <1>2, <1>3 DEF InventoryIsClosure, EntriesBounded, IInv
<1>5. DocumentsInv'
  <2>1. Inserted' = {} /\ Taken' = {}
    BY <1>2 DEF Inserted, Taken
  <2>2. Cardinality(1..Len(b)) = Len(b)
    <3>1. Cardinality(1..Len(b)) = IF 1 > Len(b) THEN 0 ELSE Len(b) - 1 + 1
      BY <1>1, FS_Interval
    <3>. QED
      BY <1>1, <3>1
  <2>3. Len(documents') = 0
    BY <1>2
  <2>. QED
    BY <1>1, <1>2, <2>1, <2>2, <2>3 DEF DocumentsInv
<1>6. TypeOK'
  BY <1>1, <1>2 DEF TypeOK, IInv, Stages, Answers
<1>7. StageInv'
  BY <1>2 DEF StageInv
<1>. QED
  BY <1>4, <1>5, <1>6, <1>7 DEF IInv

\* An error keeps the invariant when it is deserved.
LEMMA RejectInv ==
    ASSUME IInv, NEW error \in Answers, Reject(error), ~Buildable
    PROVE  IInv'
<1>1. /\ UNCHANGED <<files, directories, batch, pending, documents, accepted>>
      /\ stage' = "rejected" /\ answer' \in Answers
  BY DEF Reject
<1>2. TypeOK'
  BY <1>1, KeepInventory DEF TypeOK, Stages
<1>3. StageInv'
  BY <1>1, KeepInventory DEF StageInv
<1>. QED
  BY <1>1, <1>2, <1>3, KeepInventory DEF IInv

LEMMA RejectBatchInv ==
    ASSUME IInv, RejectBatch
    PROVE  IInv'
<1>1. ~Buildable
  <2>1. Len(batch) \in Nat /\ MaxDocuments \in Nat
    BY LenProperties, LimitsAssumption DEF IInv, TypeOK
  <2>2. CASE Len(batch) > MaxDocuments
    BY <2>1, <2>2 DEF Buildable
  <2>3. CASE ~(TotalBytes(batch) <= MaxBytes)
    BY <2>3 DEF Buildable
  <2>4. CASE HasDuplicate(batch)
    BY <2>4 DEF Buildable
  <2>. QED
    BY <2>2, <2>3, <2>4 DEF RejectBatch
<1>2. PICK error \in Answers : Reject(error)
  BY DEF RejectBatch, Answers
<1>. QED
  BY <1>1, <1>2, RejectInv

LEMMA AcceptBatchInv ==
    ASSUME IInv, AcceptBatch
    PROVE  IInv'
<1>1. /\ UNCHANGED <<files, directories, answer, batch, pending, documents, accepted>>
      /\ stage' = "inserting" /\ Checked
  BY DEF AcceptBatch, Checked
<1>2. TypeOK'
  BY <1>1, KeepInventory DEF TypeOK, Stages, IInv
<1>3. StageInv'
  BY <1>1, KeepInventory DEF StageInv
<1>. QED
  BY <1>1, <1>2, <1>3, KeepInventory DEF IInv

LEMMA InsertDocumentInv ==
    ASSUME IInv, NEW i \in pending, InsertDocument(i)
    PROVE  IInv'
<1> DEFINE d == batch[i]
<1>1. /\ i \in 1..Len(batch) /\ d \in Documents /\ d.path \in Paths
      /\ Len(batch) \in Nat /\ Len(documents) \in Nat
      /\ documents \in Seq(Documents) /\ batch \in Seq(Documents)
  <2>1. i \in 1..Len(batch) /\ batch \in Seq(Documents) /\ documents \in Seq(Documents)
    BY DEF IInv, TypeOK
  <2>. QED
    BY <2>1, ElementOfSeq, LenProperties, RequestFacts DEF IInv
<1>2. /\ stage = "inserting" /\ Fits(d.path, TRUE) /\ Store(d.path, TRUE)
      /\ documents' = Append(documents, d) /\ pending' = pending \ {i}
      /\ UNCHANGED <<stage, answer, batch, accepted>>
  BY DEF InsertDocument
<1> HIDE DEF d
<1>3. documents' \in Seq(Documents) /\ Len(documents') = Len(documents) + 1
  BY <1>1, <1>2, AppendProperties
<1>4. Inserted' = Inserted \cup {d}
  <2>1. \A j \in 1..Len(documents) : documents'[j] = documents[j]
    BY <1>1, <1>2, AppendProperties
  <2>2. documents'[Len(documents) + 1] = d
    BY <1>1, <1>2, AppendProperties
  <2>3. 1..Len(documents') = (1..Len(documents)) \cup {Len(documents) + 1}
    BY <1>1, <1>3
  <2>4. Inserted' = {documents'[j] : j \in 1..Len(documents')}
    BY DEF Inserted
  <2>5. Inserted' = {documents'[j] : j \in 1..Len(documents)} \cup {d}
    BY <2>2, <2>3, <2>4
  <2>. QED
    BY <2>1, <2>5 DEF Inserted
<1>5. Taken' = Taken \cup {d}
  <2>1. (1..Len(batch)) \ pending' = ((1..Len(batch)) \ pending) \cup {i}
    BY <1>1, <1>2
  <2>2. Taken' = {batch[k] : k \in (1..Len(batch)) \ pending'}
    BY <1>2 DEF Taken
  <2>. QED
    BY <2>1, <2>2 DEF Taken, d
<1>6. DocumentsInv'
  <2>1. pending \subseteq 1..Len(batch) /\ IsFiniteSet(1..Len(batch))
    BY <1>1, FS_Interval DEF IInv, TypeOK
  <2>2. IsFiniteSet(pending) /\ Cardinality(pending) \in Nat
    BY <2>1, FS_Subset, FS_CardinalityType
  <2>3. Cardinality(pending') = Cardinality(pending) - 1
    BY <1>2, <2>2, FS_RemoveElement
  <2>4. Len(documents) + Cardinality(pending) = Len(batch) /\ batch' = batch
    BY <1>2 DEF IInv, DocumentsInv
  <2>5. Len(documents') + Cardinality(pending') = Len(batch')
    BY <1>1, <1>3, <2>2, <2>3, <2>4
  <2>. QED
    BY <1>4, <1>5, <2>5 DEF IInv, DocumentsInv
<1>7. Effective' = Effective \cup {<<d.path, TRUE>>}
  <2>1. Effective = accepted \cup {<<e.path, TRUE>> : e \in Inserted}
    BY RequestFacts DEF IInv
  <2>2. Effective' = accepted' \cup {<<e.path, TRUE>> : e \in Inserted'}
    BY DEF Effective, Inserted
  <2>. QED
    BY <1>2, <1>4, <2>1, <2>2
<1>8. /\ files' \subseteq Paths /\ directories' \subseteq Paths
      /\ InventoryIsClosure' /\ EntriesBounded'
  BY <1>1, <1>2, <1>7, AddEntry DEF IInv
<1>9. TypeOK'
  BY <1>1, <1>2, <1>3, <1>8 DEF TypeOK, IInv
<1>10. StageInv'
  BY <1>2 DEF StageInv, IInv, Checked, HasDuplicate
<1>. QED
  BY <1>6, <1>8, <1>9, <1>10 DEF IInv

LEMMA RefuseDocumentInv ==
    ASSUME IInv, NEW i \in pending, RefuseDocument(i)
    PROVE  IInv'
<1> DEFINE Q == Effective \cup {<<batch[i].path, TRUE>>}
<1>1. i \in 1..Len(batch) /\ batch[i].path \in Paths
  BY RequestFacts DEF IInv, TypeOK
<1>2. EntriesOf(Q) > MaxEntries
  BY <1>1, RefusedIsTooLarge DEF IInv, RefuseDocument
<1>3. Q \subseteq Requested /\ Requested \subseteq Paths \X BOOLEAN
  <2>1. <<batch[i].path, TRUE>> \in Requested
    BY <1>1 DEF Requested
  <2>. QED
    BY <2>1, RequestFacts DEF IInv
<1> HIDE DEF Q
<1>4. ~(EntriesOf(Requested) <= MaxEntries)
  BY <1>2, <1>3, ClosureGrows, LimitsAssumption
<1>5. ~Buildable
  BY <1>4 DEF Buildable
<1>. QED
  BY <1>5, RejectInv DEF RefuseDocument, Answers

LEMMA RejectCollisionInv ==
    ASSUME IInv, RejectCollision
    PROVE  IInv'
<1>1. Effective = Requested
  BY RequestFacts DEF IInv, RejectCollision
<1>2. Collides(FilesOf(Requested), DirectoriesOf(Requested))
  BY <1>1 DEF RejectCollision, IInv, InventoryIsClosure
<1>3. ~Buildable
  BY <1>2 DEF Buildable
<1>. QED
  BY <1>3, RejectInv DEF RejectCollision, Answers

LEMMA PublishInv ==
    ASSUME IInv, Publish
    PROVE  IInv'
<1>1. /\ UNCHANGED <<files, directories, answer, batch, pending, documents, accepted>>
      /\ stage' = "ready" /\ Checked /\ pending = {} /\ ~Collides(files, directories)
  BY DEF Publish, IInv, StageInv
<1>2. TypeOK'
  BY <1>1, KeepInventory DEF TypeOK, Stages, IInv
<1>3. StageInv'
  BY <1>1, KeepInventory DEF StageInv
<1>. QED
  BY <1>1, <1>2, <1>3, KeepInventory DEF IInv

LEMMA StutterInv ==
    ASSUME IInv, UNCHANGED vars
    PROVE  IInv'
<1>1. UNCHANGED <<stage, files, directories, answer, batch, pending, documents, accepted>>
  BY DEF vars
<1>2. TypeOK'
  BY <1>1, KeepInventory DEF TypeOK, IInv
<1>3. StageInv'
  BY <1>1, KeepInventory DEF StageInv, IInv
<1>. QED
  BY <1>1, <1>2, <1>3, KeepInventory DEF IInv

LEMMA Invariance == Spec => []IInv
<1>1. IInv /\ [Next]_vars => IInv'
  <2> SUFFICES ASSUME IInv, [Next]_vars PROVE IInv'
    OBVIOUS
  <2>1. ASSUME NEW p \in Requests, NEW file \in BOOLEAN, Insert(p, file) PROVE IInv'
    BY <2>1, InsertInv
  <2>2. ASSUME NEW p \in Requests, NEW file \in BOOLEAN, Refuse(p, file) PROVE IInv'
    BY <2>2, RefuseInv
  <2>3. ASSUME NEW b \in Batches, HandOver(b) PROVE IInv'
    BY <2>3, HandOverInv
  <2>4. CASE RejectBatch
    BY <2>4, RejectBatchInv
  <2>5. CASE AcceptBatch
    BY <2>5, AcceptBatchInv
  <2>6. ASSUME NEW i \in pending, InsertDocument(i) PROVE IInv'
    BY <2>6, InsertDocumentInv
  <2>7. ASSUME NEW i \in pending, RefuseDocument(i) PROVE IInv'
    BY <2>7, RefuseDocumentInv
  <2>8. CASE RejectCollision
    BY <2>8, RejectCollisionInv
  <2>9. CASE Publish
    BY <2>9, PublishInv
  <2>10. CASE UNCHANGED vars
    BY <2>10, StutterInv
  <2>. QED
    BY <2>1, <2>2, <2>3, <2>4, <2>5, <2>6, <2>7, <2>8, <2>9, <2>10 DEF Next, Answered
<1>. QED
  BY <1>1, InitInv, PTL DEF Spec

-----------------------------------------------------------------------------

\* The variables keep their types (TypeOK).
THEOREM TypeCorrect == Spec => []TypeOK
<1>1. IInv => TypeOK
  BY DEF IInv
<1>. QED
  BY <1>1, Invariance, PTL

\* insert makes the inventory the closure of the accepted insertions under
\* parent directories, in whatever order they and the failures come.
THEOREM Closed == Spec => []InventoryIsClosure
<1>1. IInv => InventoryIsClosure
  BY DEF IInv
<1>. QED
  BY <1>1, Invariance, PTL

\* Neither insert nor the insertion of the documents exceeds
\* MAX_REPOSITORY_ENTRIES.
THEOREM Bounded == Spec => []EntriesBounded
<1>1. IInv => EntriesBounded
  BY DEF IInv
<1>. QED
  BY <1>1, Invariance, PTL

\* from_documents_with_inventory builds a repository of exactly the batches
\* and inventories that fit and have no duplicate or collision.
THEOREM Exact == Spec => []BuildIsExact
<1>1. IInv => BuildIsExact
  <2> SUFFICES ASSUME IInv, stage = "ready" PROVE Buildable
    BY DEF IInv, StageInv, BuildIsExact
  <2>1. Effective = Requested
    BY RequestFacts DEF IInv, StageInv
  <2>2. files = FilesOf(Requested) /\ directories = DirectoriesOf(Requested)
    BY <2>1 DEF IInv, InventoryIsClosure
  <2>. QED
    BY <2>2 DEF Buildable, IInv, StageInv, Checked, EntriesBounded, EntriesOf
<1>. QED
  BY <1>1, Invariance, PTL

\* A repository that is ready has every document of the batch, once.
THEOREM Complete == Spec => []NothingLost
<1>1. IInv => NothingLost
  <2> SUFFICES ASSUME IInv, stage = "ready" PROVE NothingLost
    BY DEF NothingLost
  <2>1. pending = {} /\ Inserted = Taken
        /\ Len(documents) + Cardinality(pending) = Len(batch)
    BY DEF IInv, StageInv, DocumentsInv
  <2>2. Len(documents) = Len(batch)
    <3>1. Cardinality(pending) = 0 /\ Len(documents) \in Nat
      BY <2>1, FS_EmptySet, LenProperties DEF IInv, TypeOK
    <3>. QED
      BY <2>1, <3>1
  <2>3. ASSUME NEW i \in 1..Len(batch)
        PROVE  \E j \in 1..Len(documents) : documents[j] = batch[i]
    <3>1. batch[i] \in Inserted
      BY <2>1 DEF Taken
    <3>. QED
      BY <3>1 DEF Inserted
  <2>. QED
    BY <2>2, <2>3 DEF NothingLost
<1>. QED
  BY <1>1, Invariance, PTL

\* insert refuses a portable path only when the closure with it exceeds the
\* limit.
THEOREM RefusalExact == Spec => RefusedOnlyWhenFull
<1> DEFINE Full == \A p \in Requests, file \in BOOLEAN :
                      Refuse(p, file) /\ Portable(p)
                        => EntriesOf(accepted \cup {<<p, file>>}) > MaxEntries
<1>1. IInv => Full
  <2> SUFFICES ASSUME IInv, NEW p \in Requests, NEW file \in BOOLEAN,
                      Refuse(p, file), Portable(p)
               PROVE  EntriesOf(accepted \cup {<<p, file>>}) > MaxEntries
    OBVIOUS
  <2>1. p \in Paths /\ ~Fits(p, file)
    BY InputsAssumption DEF Refuse
  <2>2. documents = <<>>
    BY DEF Refuse, IInv, StageInv
  <2>3. Effective = accepted
    BY <2>2 DEF Effective
  <2>. QED
    BY <2>1, <2>3, RefusedIsTooLarge DEF IInv
<1>. QED
  BY <1>1, Invariance, PTL DEF RefusedOnlyWhenFull

\* In a repository that is ready a path has one meaning on every file system.
THEOREM Unambiguous == Spec => []ReadyIsUnambiguous
<1>1. IInv => ReadyIsUnambiguous
  <2> SUFFICES ASSUME IInv, stage = "ready", NEW r \in Requested, NEW q \in Requested
               PROVE  /\ \A m \in 1..Len(r[1]), n \in 1..Len(q[1]) :
                            CollisionKey(SubSeq(r[1], 1, m)) = CollisionKey(SubSeq(q[1], 1, n))
                              => SubSeq(r[1], 1, m) = SubSeq(q[1], 1, n)
                      /\ r[2] => r[1] \notin Ancestors(q[1]) /\ (r[1] = q[1] => q[2])
    BY DEF ReadyIsUnambiguous
  <2>1. Effective = Requested /\ Requested \subseteq Paths \X BOOLEAN
    BY RequestFacts DEF IInv, StageInv
  <2>2. files = FilesOf(Requested) /\ directories = DirectoriesOf(Requested)
    BY <2>1 DEF IInv, InventoryIsClosure
  <2>3. ~Collides(files, directories)
    BY DEF IInv, StageInv
  <2>4. ASSUME NEW t \in Requested
        PROVE  /\ t[1] \in Paths /\ t = <<t[1], t[2]>> /\ t[2] \in BOOLEAN
               /\ t[2] => t[1] \in files
               /\ ~t[2] => t[1] \in directories
               /\ Ancestors(t[1]) \subseteq directories
    <3>1. t[1] \in Paths /\ t = <<t[1], t[2]>> /\ t[2] \in BOOLEAN
      BY <2>1, <2>4
    <3>2. Ancestors(t[1]) \subseteq directories
      BY <2>2, <2>4, <3>1, AncestorFacts DEF DirectoriesOf
    <3>3. t[2] => <<t[1], TRUE>> \in Requested
      BY <2>4, <3>1
    <3>4. ~t[2] => <<t[1], FALSE>> \in Requested
      BY <2>4, <3>1
    <3>. QED
      BY <2>2, <3>1, <3>2, <3>3, <3>4 DEF FilesOf, DirectoriesOf
  <2>5. ASSUME NEW t \in Requested, NEW m \in 1..Len(t[1])
        PROVE  SubSeq(t[1], 1, m) \in files \cup directories
    <3>1. CASE m \in 1..Len(t[1]) - 1
      BY <2>4, <2>5, <3>1 DEF Ancestors
    <3>2. CASE m = Len(t[1])
      <4>1. t[1] \in Seq(Segments)
        BY <2>4, <2>5, PathsAssumption
      <4>2. SubSeq(t[1], 1, m) = t[1]
        BY <3>2, <4>1, SubSeqFull
      <4>. QED
        BY <2>4, <2>5, <4>2
    <3>3. Len(t[1]) \in Nat
      BY <2>4, <2>5, PathsAssumption, LenProperties
    <3>. QED
      BY <2>5, <3>1, <3>2, <3>3
  <2>6. \A u, v \in files \cup directories : CollisionKey(u) = CollisionKey(v) => u = v
    BY <2>3 DEF Collides
  <2>7. r[2] => r[1] \notin Ancestors(q[1]) /\ (r[1] = q[1] => q[2])
    BY <2>3, <2>4 DEF Collides
  <2>. QED
    BY <2>5, <2>6, <2>7
<1>. QED
  BY <1>1, Invariance, PTL

-----------------------------------------------------------------------------

(***************************************************************************)
(* What the caller sees implements Snapshot.  A second invariant, about    *)
(* what the first leaves out: paths are portable, the documents inserted   *)
(* sort before those still pending, and their sizes and those of the       *)
(* pending ones add up to the batch's.                                     *)
(***************************************************************************)
Remaining(b, P) ==
    [i \in 1..Len(b) |-> [path |-> b[i].path, size |-> IF i \in P THEN b[i].size ELSE 0]]

PortableInv ==
    /\ \A r \in accepted : Portable(r[1])
    /\ batch \in Batches \cup {<<>>}

SortedInv ==
    /\ \A i, j \in 1..Len(documents) :
          i < j => Order[documents[i].path] < Order[documents[j].path]
    /\ \A i \in 1..Len(documents), j \in pending :
          Order[documents[i].path] < Order[batch[j].path]

BytesInv == TotalBytes(documents) + TotalBytes(Remaining(batch, pending)) = TotalBytes(batch)

ContentInv == PortableInv /\ SortedInv /\ BytesInv

LEMMA RemainingType ==
    ASSUME NEW b \in Seq(Documents), NEW P
    PROVE  /\ Remaining(b, P) \in Seq(Measured)
           /\ Len(Remaining(b, P)) = Len(b)
           /\ \A i \in 1..Len(b) : Remaining(b, P)[i]
                 = [path |-> b[i].path, size |-> IF i \in P THEN b[i].size ELSE 0]
<1>1. Len(b) \in Nat
  OBVIOUS
<1>2. \A i \in 1..Len(b) : b[i] \in Documents
  BY ElementOfSeq
<1>3. \A i \in 1..Len(b) :
         [path |-> b[i].path, size |-> IF i \in P THEN b[i].size ELSE 0] \in Measured
  BY <1>2 DEF Documents, Measured
<1>. QED
  BY <1>1, <1>3 DEF Remaining

LEMMA InitContent == Init => ContentInv
<1> SUFFICES ASSUME Init PROVE ContentInv
  OBVIOUS
<1>1. documents = <<>> /\ batch = <<>> /\ pending = {} /\ accepted = {}
  BY DEF Init
<1>2. Remaining(<<>>, {}) = <<>>
  <2>1. <<>> \in Seq(Documents) /\ Len(<<>>) = 0
    OBVIOUS
  <2>2. Remaining(<<>>, {}) \in Seq(Measured) /\ Len(Remaining(<<>>, {})) = 0
    BY <2>1, RemainingType
  <2>. QED
    BY <2>2, EmptySeq
<1>3. BytesInv
  BY <1>1, <1>2, TotalOfNone DEF BytesInv
<1>. QED
  BY <1>1, <1>3 DEF ContentInv, PortableInv, SortedInv

\* What a step keeps that leaves batch and documents alone.
LEMMA KeepContent ==
    ASSUME ContentInv, UNCHANGED <<batch, pending, documents>>,
           \A r \in accepted' : Portable(r[1])
    PROVE  ContentInv'
<1>1. PortableInv' /\ SortedInv'
  BY DEF ContentInv, PortableInv, SortedInv
<1>2. BytesInv'
  BY DEF ContentInv, BytesInv
<1>. QED
  BY <1>1, <1>2 DEF ContentInv

LEMMA HandOverContent ==
    ASSUME IInv, ContentInv, NEW b \in Batches, HandOver(b)
    PROVE  ContentInv'
<1>1. /\ batch' = b /\ pending' = 1..Len(b) /\ documents = <<>> /\ documents' = <<>>
      /\ accepted' = accepted /\ b \in Seq(Documents)
  BY InputsAssumption DEF HandOver, StageInv, IInv
<1>2. PortableInv' /\ SortedInv'
  BY <1>1 DEF ContentInv, PortableInv, SortedInv
<1> DEFINE R == Remaining(b, 1..Len(b))
<1>3. R = b
  <2>1. /\ R \in Seq(Measured) /\ Len(R) = Len(b)
        /\ \A i \in 1..Len(b) : R[i] = [path |-> b[i].path, size |-> b[i].size]
    BY <1>1, RemainingType
  <2>2. \A i \in 1..Len(b) : b[i] \in Documents
    BY <1>1, ElementOfSeq
  <2>3. \A i \in 1..Len(b) : R[i] = b[i]
    BY <2>1, <2>2 DEF Documents
  <2>4. b \in Seq(Measured)
    BY <1>1 DEF Documents, Measured
  <2> HIDE DEF R
  <2>. QED
    BY <2>1, <2>3, <2>4, SeqEqual
<1>4. TotalBytes(b) \in Nat
  BY <1>1, TotalIsNat DEF Documents, Measured
<1>5. BytesInv'
  BY <1>1, <1>3, <1>4, TotalOfNone DEF BytesInv
<1>. QED
  BY <1>2, <1>5 DEF ContentInv

LEMMA InsertDocumentContent ==
    ASSUME IInv, ContentInv, NEW i \in pending, InsertDocument(i)
    PROVE  ContentInv'
<1> DEFINE d == batch[i]
           N == Len(documents)
<1>1. /\ i \in 1..Len(batch) /\ d \in Documents /\ N \in Nat /\ pending \subseteq 1..Len(batch)
      /\ documents \in Seq(Documents) /\ batch \in Seq(Documents)
      /\ \A j \in 1..Len(batch) : batch[j].path \in Paths
      /\ \A j \in 1..N : documents[j].path \in Paths
  <2>1. pending \subseteq 1..Len(batch) /\ batch \in Seq(Documents) /\ documents \in Seq(Documents)
    BY DEF IInv, TypeOK
  <2>2. /\ \A j \in 1..Len(batch) : batch[j] \in Documents
        /\ \A j \in 1..N : documents[j] \in Documents
    BY <2>1, ElementOfSeq
  <2>. QED
    BY <2>1, <2>2, LenProperties DEF Documents
<1>2. /\ documents' = Append(documents, d) /\ pending' = pending \ {i}
      /\ batch' = batch /\ accepted' = accepted
      /\ \A j \in pending : Order[d.path] <= Order[batch[j].path]
      /\ ~HasDuplicate(batch)
  BY DEF InsertDocument, IsNext, IInv, StageInv, Checked
<1>3. /\ Len(documents') = N + 1 /\ documents'[N + 1] = d
      /\ \A j \in 1..N : documents'[j] = documents[j]
  BY <1>1, <1>2, AppendProperties
<1>4. PortableInv'
  BY <1>2 DEF ContentInv, PortableInv
<1>5. SortedInv'
  <2>1. ASSUME NEW j \in pending' PROVE Order[d.path] < Order[batch[j].path]
    <3>1. j \in pending /\ j \in 1..Len(batch) /\ j # i
      BY <1>1, <1>2
    <3>2. d.path # batch[j].path
      BY <1>1, <1>2, <3>1 DEF HasDuplicate
    <3>3. d.path \in Paths /\ batch[j].path \in Paths
      BY <1>1, <3>1
    <3>4. Order[d.path] \in Nat /\ Order[batch[j].path] \in Nat
          /\ Order[d.path] # Order[batch[j].path]
      BY <3>2, <3>3, OrderAssumption
    <3>. QED
      BY <1>2, <3>1, <3>4
  <2>2. \A j \in 1..N : Order[documents[j].path] < Order[d.path]
    BY DEF ContentInv, SortedInv
  <2>3. \A j \in 1..N + 1 : j \in 1..N \/ j = N + 1
    BY <1>1
  <2> HIDE DEF d, N
  <2>4. \A j, k \in 1..N + 1 :
           j < k => Order[documents'[j].path] < Order[documents'[k].path]
    <3> SUFFICES ASSUME NEW j \in 1..N + 1, NEW k \in 1..N + 1, j < k
                 PROVE  Order[documents'[j].path] < Order[documents'[k].path]
      OBVIOUS
    <3>1. j \in 1..N /\ documents'[j] = documents[j]
      BY <1>1, <1>3
    <3>2. CASE k \in 1..N
      BY <1>3, <3>1, <3>2 DEF ContentInv, SortedInv, N
    <3>3. CASE k = N + 1
      BY <1>3, <2>2, <3>1, <3>3
    <3>. QED
      BY <2>3, <3>2, <3>3
  <2>5. ASSUME NEW j \in 1..N + 1, NEW k \in pending'
        PROVE  Order[documents'[j].path] < Order[batch[k].path]
    <3>1. CASE j \in 1..N
      BY <1>2, <1>3, <3>1 DEF ContentInv, SortedInv, N
    <3>2. CASE j = N + 1
      BY <1>3, <2>1, <3>2
    <3>. QED
      BY <2>3, <3>1, <3>2
  <2>. QED
    BY <1>2, <1>3, <2>4, <2>5 DEF SortedInv
<1>6. BytesInv'
  <2> DEFINE old == Remaining(batch, pending)
             new == Remaining(batch, pending \ {i})
  <2>1. /\ old \in Seq(Measured) /\ new \in Seq(Measured)
        /\ Len(old) = Len(batch) /\ Len(new) = Len(batch)
        /\ \A j \in 1..Len(batch) : old[j]
              = [path |-> batch[j].path, size |-> IF j \in pending THEN batch[j].size ELSE 0]
        /\ \A j \in 1..Len(batch) : new[j]
              = [path |-> batch[j].path,
                 size |-> IF j \in pending \ {i} THEN batch[j].size ELSE 0]
    BY <1>1, RemainingType
  <2>2. old[i].size = d.size /\ new[i].size = 0
    <3>1. old[i] = [path |-> d.path, size |-> IF i \in pending THEN d.size ELSE 0]
      BY <1>1, <2>1
    <3>2. new[i] = [path |-> d.path, size |-> IF i \in pending \ {i} THEN d.size ELSE 0]
      BY <1>1, <2>1
    <3>3. i \in pending /\ i \notin pending \ {i}
      OBVIOUS
    <3> HIDE DEF old, new, d
    <3>. QED
      BY <3>1, <3>2, <3>3
  <2>3. \A j \in 1..Len(batch) : j # i => new[j] = old[j]
    BY <2>1
  <2> HIDE DEF old, new
  <2>4. TotalBytes(new) + old[i].size = TotalBytes(old) + new[i].size
    BY <1>1, <2>1, <2>3, TotalOfChange
  <2>5. documents \in Seq(Measured) /\ d \in Measured /\ d.size \in Nat
    BY <1>1 DEF Documents, Measured
  <2>6. TotalBytes(documents') = TotalBytes(documents) + d.size
    BY <1>2, <2>5, TotalOfAppend
  <2>7. TotalBytes(documents) \in Nat /\ TotalBytes(old) \in Nat /\ TotalBytes(new) \in Nat
    BY <2>1, <2>5, TotalIsNat
  <2>8. TotalBytes(documents) + TotalBytes(old) = TotalBytes(batch)
    BY DEF ContentInv, BytesInv, old
  <2>9. TotalBytes(documents') + TotalBytes(new) = TotalBytes(batch)
    BY <2>2, <2>4, <2>5, <2>6, <2>7, <2>8
  <2>. QED
    BY <1>2, <2>9 DEF BytesInv, new
<1>. QED
  BY <1>4, <1>5, <1>6 DEF ContentInv

LEMMA ContentInvariance == Spec => []ContentInv
<1>1. ASSUME IInv, ContentInv, [Next]_vars PROVE ContentInv'
  <2>1. \A r \in accepted : Portable(r[1])
    BY <1>1 DEF ContentInv, PortableInv
  <2>2. ASSUME NEW p \in Requests, NEW file \in BOOLEAN, Insert(p, file) PROVE ContentInv'
    <3>1. \A r \in accepted' : Portable(r[1])
      BY <2>1, <2>2 DEF Insert
    <3>. QED
      BY <1>1, <2>2, <3>1, KeepContent DEF Insert
  <2>3. ASSUME NEW b \in Batches, HandOver(b) PROVE ContentInv'
    BY <1>1, <2>3, HandOverContent
  <2>4. ASSUME NEW i \in pending, InsertDocument(i) PROVE ContentInv'
    BY <1>1, <2>4, InsertDocumentContent
  <2>5. CASE UNCHANGED <<batch, pending, documents, accepted>>
    BY <1>1, <2>1, <2>5, KeepContent
  <2>. QED
    BY <1>1, <2>2, <2>3, <2>4, <2>5 DEF Next, Refuse, RejectBatch, AcceptBatch, Reject,
       RefuseDocument, RejectCollision, Publish, Answered, vars
<1>. QED
  BY <1>1, Invariance, InitContent, PTL DEF Spec

\* The documents of a batch are portable files of the inventory, and so are
\* the directories they and the accepted paths lie in.
EntriesInv ==
    /\ \A p \in files \cup directories : Portable(p) /\ Ancestors(p) \subseteq directories
    /\ \A i \in 1..Len(documents) : documents[i].path \in files

LEMMA EntriesArePortable ==
    ASSUME IInv, ContentInv
    PROVE  EntriesInv
<1>1. Effective \subseteq Paths \X BOOLEAN /\ Effective = accepted \cup {<<e.path, TRUE>> : e \in Inserted}
  BY RequestFacts DEF IInv
<1>2. \A e \in Inserted : Portable(e.path)
  <2>1. Inserted = Taken
    BY DEF IInv, DocumentsInv
  <2>2. \A i \in 1..Len(batch) : Portable(batch[i].path)
    <3>1. CASE batch \in Batches
      BY <3>1, InputsAssumption
    <3>2. CASE batch = <<>>
      BY <3>2
    <3>. QED
      BY <3>1, <3>2 DEF ContentInv, PortableInv
  <2>. QED
    BY <2>1, <2>2 DEF Taken
<1>3. ASSUME NEW r \in Effective PROVE Portable(r[1]) /\ r[1] \in Paths
  <2>1. CASE r \in accepted
    BY <1>1, <1>3, <2>1 DEF ContentInv, PortableInv
  <2>2. CASE r \in {<<e.path, TRUE>> : e \in Inserted}
    <3>1. PICK e \in Inserted : r = <<e.path, TRUE>>
      BY <2>2
    <3>2. r[1] = e.path
      BY <3>1
    <3>3. r[1] \in Paths
      BY <1>1
    <3>. QED
      BY <1>2, <3>2, <3>3
  <2>. QED
    BY <1>1, <1>3, <2>1, <2>2
<1>4. files = FilesOf(Effective) /\ directories = DirectoriesOf(Effective)
  BY DEF IInv, InventoryIsClosure
<1>5. ASSUME NEW r \in Effective PROVE Ancestors(r[1]) \subseteq directories
  BY <1>3, <1>4, <1>5, PathFacts DEF DirectoriesOf
<1>6. ASSUME NEW p \in files PROVE Portable(p) /\ Ancestors(p) \subseteq directories
  <2>1. <<p, TRUE>> \in Effective
    BY <1>4, <1>6 DEF FilesOf
  <2>2. <<p, TRUE>>[1] = p
    OBVIOUS
  <2>. QED
    BY <1>3, <1>5, <2>1, <2>2
<1>7. ASSUME NEW p \in directories PROVE Portable(p) /\ Ancestors(p) \subseteq directories
  <2>1. CASE <<p, FALSE>> \in Effective
    <3>1. <<p, FALSE>>[1] = p
      OBVIOUS
    <3>. QED
      BY <1>3, <1>5, <2>1, <3>1
  <2>2. CASE \E r \in Effective : p \in Ancestors(r[1])
    <3>1. PICK r \in Effective : p \in Ancestors(r[1])
      BY <2>2
    <3>2. Portable(p)
      BY <1>3, <3>1, PortableAncestors
    <3>3. Ancestors(p) \subseteq Ancestors(r[1])
      BY <1>3, <3>1, AncestorsOfAncestor
    <3>. QED
      BY <1>5, <3>2, <3>3
  <2>. QED
    BY <1>4, <1>7, <2>1, <2>2 DEF DirectoriesOf
<1>8. ASSUME NEW i \in 1..Len(documents) PROVE documents[i].path \in files
  <2>1. <<documents[i].path, TRUE>> \in Effective
    BY DEF Effective
  <2>. QED
    BY <1>1, <1>4, <2>1 DEF FilesOf
<1>. QED
  BY <1>6, <1>7, <1>8 DEF EntriesInv

\* The two modules have the rules for paths in common.
LEMMA SameRules ==
    /\ \A p : Contract!Portable(p) <=> Portable(p)
    /\ \A p : Contract!Ancestors(p) = Ancestors(p)
    /\ \A p : Contract!CollisionKey(p) = CollisionKey(p)
    /\ \A F, D : Contract!EntryCount(F, D) = EntryCount(F, D)
    /\ \A list : Contract!TotalBytes(list) = TotalBytes(list)
<1>1. \A p : Contract!Portable(p) <=> Portable(p)
  BY DEF Contract!Portable, Portable
<1>2. \A p : Contract!Ancestors(p) = Ancestors(p)
  BY DEF Contract!Ancestors, Ancestors
<1>3. \A p : Contract!CollisionKey(p) = CollisionKey(p)
  BY DEF Contract!CollisionKey, CollisionKey
<1>4. \A F, D : Contract!EntryCount(F, D) = EntryCount(F, D)
  BY Zenon DEF Contract!EntryCount, EntryCount, Contract!Cardinality, Cardinality
<1>5. \A list : Contract!TotalBytes(list) = TotalBytes(list)
  BY Zenon DEF Contract!TotalBytes, TotalBytes
<1>. QED
  BY <1>1, <1>2, <1>3, <1>4, <1>5

\* from_documents_with_inventory implements Snapshot: a repository built in
\* memory, from any inventory and any batch, is unambiguous, rooted,
\* searchable and within the limits, and appears all at once.
THEOREM Refines == Spec => KeepsContract
<1>1. Init => Contract!Init
  BY DEF Init, Contract!Init, Ready
<1>2. ASSUME IInv, IInv', ContentInv', EntriesInv', [Next]_vars
      PROVE  [Contract!Next]_(Contract!vars)
  <2>1. CASE stage' = stage
    <3>1. CASE stage = "ready"
      <4>1. UNCHANGED vars
        BY <1>2, <2>1, <3>1 DEF Next, Insert, Refuse, HandOver, RejectBatch, AcceptBatch, Reject,
           InsertDocument, RefuseDocument, RejectCollision, Publish, Answered
      <4>. QED
        BY <4>1 DEF Contract!vars, Ready, vars
    <3>2. CASE stage # "ready"
      BY <2>1, <3>2 DEF Contract!vars, Ready
    <3>. QED
      BY <3>1, <3>2
  <2>2. CASE stage' # stage
    <3>1. stage \notin {"ready", "rejected"}
      BY <1>2, <2>2 DEF Next, Insert, Refuse, HandOver, RejectBatch, AcceptBatch, Reject,
         InsertDocument, RefuseDocument, RejectCollision, Publish, Answered, vars
    <3>2. CASE stage' = "rejected"
      BY <3>1, <3>2 DEF Contract!Next, Contract!Reject, Ready
    <3>3. CASE stage' = "ready"
      <4>1. Contract!Unambiguous(files', directories')
        <5>1. ~Collides(files', directories')
          BY <1>2, <3>3 DEF IInv, StageInv
        <5>. QED
          BY <5>1, SameRules DEF Contract!Unambiguous, Collides
      <4>2. /\ \A p \in files' \cup directories' :
                  Portable(p) /\ Ancestors(p) \subseteq directories'
            /\ \A i \in 1..Len(documents') : documents'[i].path \in files'
        BY <1>2 DEF EntriesInv
      <4>3. Contract!Rooted(files', directories')
        BY <4>2, SameRules DEF Contract!Rooted
      <4>4. Contract!Searchable(files', documents')
        BY <1>2, <4>2 DEF ContentInv, SortedInv, Contract!Searchable
      <4>5. Contract!WithinLimits(files', directories', documents')
        <5>1. EntryCount(files', directories') <= MaxEntries
          BY <1>2 DEF IInv, EntriesBounded
        <5>2. /\ Len(batch') <= MaxDocuments /\ TotalBytes(batch') <= MaxBytes /\ pending' = {}
          BY <1>2, <3>3 DEF IInv, StageInv, Checked
        <5>3. Len(documents') <= MaxDocuments
          <6>1. Len(documents') + Cardinality(pending') = Len(batch')
                /\ Len(documents') \in Nat
            BY <1>2, LenProperties DEF IInv, DocumentsInv, TypeOK
          <6>. QED
            BY <5>2, <6>1, FS_EmptySet
        <5>4. TotalBytes(documents') <= MaxBytes
          <6> DEFINE R == Remaining(batch', pending')
          <6>1. documents' \in Seq(Documents) /\ batch' \in Seq(Documents)
            BY <1>2 DEF IInv, TypeOK
          <6>2. TotalBytes(documents') \in Nat /\ TotalBytes(R) \in Nat
            BY <6>1, RemainingType, TotalIsNat DEF Documents, Measured
          <6>3. TotalBytes(documents') + TotalBytes(R) = TotalBytes(batch')
            BY <1>2 DEF ContentInv, BytesInv
          <6> HIDE DEF R
          <6>. QED
            BY <5>2, <6>2, <6>3, LimitsAssumption
        <5>. QED
          BY <5>1, <5>3, <5>4, SameRules DEF Contract!WithinLimits
      <4>. QED
        BY <3>1, <3>3, <4>1, <4>3, <4>4, <4>5 DEF Contract!Next, Contract!Publish, Ready
    <3>4. CASE stage' \notin {"ready", "rejected"}
      BY <3>1, <3>4 DEF Contract!vars, Ready
    <3>. QED
      BY <3>2, <3>3, <3>4
  <2>. QED
    BY <2>1, <2>2
<1>. QED
  BY <1>1, <1>2, Invariance, ContentInvariance, EntriesArePortable, PTL
     DEF Spec, Contract!Spec, KeepsContract
=============================================================================
