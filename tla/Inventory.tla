----------------------------- MODULE Inventory -----------------------------
(***************************************************************************)
(* A repository built in memory (repository.rs): a caller fills a          *)
(* RepositoryInventory with insert_file and insert_directory, in any order *)
(* and going on after errors, then hands it over with a batch of parsed    *)
(* documents to from_documents_with_inventory.                             *)
(***************************************************************************)
EXTENDS RepositoryPaths

CONSTANTS
    Requests,  \* the paths the caller inserts
    Batches    \* the document batches it may hand over

Documents == [path : Paths, size : Nat]

\* A SourceDocument is only made for a portable path of a recognized name.
ASSUME InputsAssumption ==
    /\ Requests \subseteq Paths
    /\ Batches \subseteq Seq(Documents)
    /\ \A b \in Batches : \A i \in 1..Len(b) : Portable(b[i].path) /\ Recognized(b[i].path)

VARIABLES
    stage,        \* where the caller and the constructor are
    files,        \* RepositoryInventory::files
    directories,  \* RepositoryInventory::directories
    answer,       \* what the last call answered
    batch,        \* the documents handed over
    pending,      \* the positions of those not yet inserted
    documents,    \* those inserted, in the order of ModelRepository::documents
    accepted      \* history: the <<path, is it a file>> the caller inserted

vars == <<stage, files, directories, answer, batch, pending, documents, accepted>>

Stages  == {"collecting", "checking", "inserting", "ready", "rejected"}
Answers == {"none", "inserted", "known", "unsafe", "entries", "documents",
            "bytes", "duplicate", "collision"}

(***************************************************************************)
(* RepositoryInventory::insert, as a function of the inventory.            *)
(***************************************************************************)
\* Mutant of MissingParents: the loop stops at the first parent.
MissingParent(p) == {q \in Ancestors(p) : Len(q) = Len(p) - 1} \ directories

MissingParents(p) == Ancestors(p) \ directories

\* Mutant of Present: every insertion counts as an addition.
NeverPresent(p, file) == FALSE

Present(p, file) == p \in (IF file THEN files ELSE directories)

\* Mutant of Additions: all parents are counted.
AdditionsWithAllParents(p, file) ==
    (IF Present(p, file) THEN 0 ELSE 1) + Cardinality(Ancestors(p))

Additions(p, file) ==
    (IF Present(p, file) THEN 0 ELSE 1) + Cardinality(MissingParents(p))

Fits(p, file) == EntryCount(files, directories) + Additions(p, file) <= MaxEntries

Store(p, file) ==
    /\ files' = IF file THEN files \cup {p} ELSE files
    /\ directories' =
          directories \cup MissingParents(p) \cup (IF file THEN {} ELSE {p})

-----------------------------------------------------------------------------

Init ==
    /\ stage = "collecting"
    /\ files = {} /\ directories = {}
    /\ answer = "none"
    /\ batch = <<>> /\ pending = {} /\ documents = <<>>
    /\ accepted = {}

\* insert_file and insert_directory.
Insert(p, file) ==
    /\ stage = "collecting"
    /\ Portable(p)
    /\ Fits(p, file)
    /\ Store(p, file)
    /\ answer' = IF Present(p, file) THEN "known" ELSE "inserted"
    /\ accepted' = accepted \cup {<<p, file>>}
    /\ UNCHANGED <<stage, batch, pending, documents>>

\* An insertion that fails leaves the inventory as it was.
Refuse(p, file) ==
    /\ stage = "collecting"
    /\ ~Portable(p) \/ ~Fits(p, file)
    /\ answer' = IF Portable(p) THEN "entries" ELSE "unsafe"
    /\ UNCHANGED <<stage, files, directories, batch, pending, documents, accepted>>

\* from_documents_with_inventory is called.
HandOver(b) ==
    /\ stage = "collecting"
    /\ stage' = "checking"
    /\ answer' = "none"
    /\ batch' = b
    /\ pending' = 1..Len(b)
    /\ UNCHANGED <<files, directories, documents, accepted>>

Reject(error) ==
    /\ stage' = "rejected"
    /\ answer' = error
    /\ UNCHANGED <<files, directories, batch, pending, documents, accepted>>

HasDuplicate(b) == \E i, j \in 1..Len(b) : i # j /\ b[i].path = b[j].path

\* The checks on the batch alone, in the order the code makes them.
RejectBatch ==
    /\ stage = "checking"
    /\ \/ Len(batch) > MaxDocuments /\ Reject("documents")
       \/ /\ Len(batch) <= MaxDocuments
          /\ ~(TotalBytes(batch) <= MaxBytes)
          /\ Reject("bytes")
       \/ /\ Len(batch) <= MaxDocuments
          /\ TotalBytes(batch) <= MaxBytes
          /\ HasDuplicate(batch)
          /\ Reject("duplicate")

AcceptBatch ==
    /\ stage = "checking"
    /\ Len(batch) <= MaxDocuments
    /\ TotalBytes(batch) <= MaxBytes
    /\ ~HasDuplicate(batch)
    /\ stage' = "inserting"
    /\ UNCHANGED <<files, directories, answer, batch, pending, documents, accepted>>

\* Mutant of IsNext: the documents are taken in the order they were given.
IsNextGiven(i) == i \in pending /\ \A j \in pending : i <= j

\* The documents were sorted, so the next one is the first of those left.
IsNext(i) ==
    /\ i \in pending
    /\ \A j \in pending : Order[batch[i].path] <= Order[batch[j].path]

InsertDocument(i) ==
    /\ stage = "inserting"
    /\ IsNext(i)
    /\ Fits(batch[i].path, TRUE)
    /\ Store(batch[i].path, TRUE)
    /\ documents' = Append(documents, batch[i])
    /\ pending' = pending \ {i}
    /\ UNCHANGED <<stage, answer, batch, accepted>>

RefuseDocument(i) ==
    /\ stage = "inserting"
    /\ IsNext(i)
    /\ ~Fits(batch[i].path, TRUE)
    /\ Reject("entries")

RejectCollision ==
    /\ stage = "inserting"
    /\ pending = {}
    /\ Collides(files, directories)
    /\ Reject("collision")

Publish ==
    /\ stage = "inserting"
    /\ pending = {}
    /\ ~Collides(files, directories)
    /\ stage' = "ready"
    /\ UNCHANGED <<files, directories, answer, batch, pending, documents, accepted>>

\* The caller has its answer and nothing more happens.
Answered ==
    /\ stage \in {"ready", "rejected"}
    /\ UNCHANGED vars

Next ==
    \/ \E p \in Requests, file \in BOOLEAN : Insert(p, file) \/ Refuse(p, file)
    \/ \E b \in Batches : HandOver(b)
    \/ RejectBatch
    \/ AcceptBatch
    \/ \E i \in pending : InsertDocument(i) \/ RefuseDocument(i)
    \/ RejectCollision
    \/ Publish
    \/ Answered

Spec == Init /\ [][Next]_vars

-----------------------------------------------------------------------------

\* The variables have their types.
TypeOK ==
    /\ stage \in Stages
    /\ files \subseteq Paths /\ directories \subseteq Paths
    /\ answer \in Answers
    /\ batch \in Seq(Documents) /\ documents \in Seq(Documents)
    /\ pending \subseteq 1..Len(batch)
    /\ accepted \subseteq Paths \X BOOLEAN

\* What a set of insertions should amount to, whatever their order.
FilesOf(requests) == {p \in Paths : <<p, TRUE>> \in requests}

DirectoriesOf(requests) ==
    {d \in Paths : \/ <<d, FALSE>> \in requests
                   \/ \E r \in requests : d \in Ancestors(r[1])}

EntriesOf(requests) == EntryCount(FilesOf(requests), DirectoriesOf(requests))

\* The insertions that took effect: the caller's, then the documents'.
Effective == accepted \cup {<<documents[i].path, TRUE>> : i \in 1..Len(documents)}
Requested == accepted \cup {<<batch[i].path, TRUE>> : i \in 1..Len(batch)}

\* The inventory is the closure of the accepted insertions under parent
\* directories: it does not depend on their order, on how often one was
\* repeated, or on the insertions that failed in between.
InventoryIsClosure ==
    /\ files = FilesOf(Effective)
    /\ directories = DirectoriesOf(Effective)

\* The inventory never exceeds MAX_REPOSITORY_ENTRIES, parents included.
EntriesBounded == EntryCount(files, directories) <= MaxEntries

\* insert refuses a portable path only when the inventory with it would
\* exceed the limit, with the missing parents and nothing else counted.
RefusedOnlyWhenFull ==
    [][\A p \in Requests, file \in BOOLEAN :
          Refuse(p, file) /\ Portable(p)
              => EntriesOf(accepted \cup {<<p, file>>}) > MaxEntries]_vars

\* No two requested paths, at any depth, are one path on another file system,
\* and none continues below a path that was inserted as a file.
ReadyIsUnambiguous ==
    stage = "ready" =>
        \A r, q \in Requested :
            /\ \A m \in 1..Len(r[1]), n \in 1..Len(q[1]) :
                  CollisionKey(SubSeq(r[1], 1, m)) = CollisionKey(SubSeq(q[1], 1, n))
                      => SubSeq(r[1], 1, m) = SubSeq(q[1], 1, n)
            /\ r[2] => r[1] \notin Ancestors(q[1]) /\ (r[1] = q[1] => q[2])

\* What a batch and an inventory must be for a repository to be built.
Buildable ==
    /\ Len(batch) <= MaxDocuments
    /\ TotalBytes(batch) <= MaxBytes
    /\ ~HasDuplicate(batch)
    /\ EntriesOf(Requested) <= MaxEntries
    /\ ~Collides(FilesOf(Requested), DirectoriesOf(Requested))

\* The constructor accepts exactly the buildable ones: no order of insertion
\* makes it fail halfway on an inventory that fits in the end.
BuildIsExact ==
    /\ stage = "ready" => Buildable
    /\ stage = "rejected" => ~Buildable

\* A repository that is ready has every document it was given, once.
NothingLost ==
    stage = "ready" =>
        /\ Len(documents) = Len(batch)
        /\ \A i \in 1..Len(batch) : \E j \in 1..Len(documents) : documents[j] = batch[i]

-----------------------------------------------------------------------------

\* What the caller sees: the repository when it is ready, nothing before.
Ready == stage = "ready"

Contract == INSTANCE Snapshot WITH
    status      <- IF stage \in {"ready", "rejected"} THEN stage ELSE "building",
    files       <- IF Ready THEN files ELSE {},
    directories <- IF Ready THEN directories ELSE {},
    documents   <- IF Ready THEN documents ELSE <<>>

\* from_documents_with_inventory keeps what constructing a ModelRepository
\* promises.
KeepsContract == Contract!Spec
=============================================================================
