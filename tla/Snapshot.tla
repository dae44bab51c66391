------------------------------ MODULE Snapshot ------------------------------
(***************************************************************************)
(* What constructing a ModelRepository promises, from a directory or from  *)
(* memory: it ends once, with an error or with a repository in which every *)
(* path has one meaning on every file system, every directory that exists  *)
(* is known, the documents are files in lookup order, and nothing exceeds  *)
(* the limits.  Before that there is nothing to see.                       *)
(***************************************************************************)
EXTENDS RepositoryPaths

VARIABLES
    status,       \* "building", "ready" or "rejected"
    files,        \* ModelRepository::files
    directories,  \* ModelRepository::directories
    documents     \* ModelRepository::documents

vars == <<status, files, directories, documents>>

\* One entry per path, whatever the case and normal form of the file system.
Unambiguous(fs, ds) ==
    /\ fs \cap ds = {}
    /\ \A p, q \in fs \cup ds : CollisionKey(p) = CollisionKey(q) => p = q

\* A portable path lies in directories of the repository, up to the root.
Rooted(fs, ds) ==
    \A p \in fs \cup ds : Portable(p) /\ Ancestors(p) \subseteq ds

\* `document` finds a document by binary search and each one is a file.
Searchable(fs, docs) ==
    /\ \A i \in 1..Len(docs) : docs[i].path \in fs
    /\ \A i, j \in 1..Len(docs) : i < j => Order[docs[i].path] < Order[docs[j].path]

WithinLimits(fs, ds, docs) ==
    /\ EntryCount(fs, ds) <= MaxEntries
    /\ Len(docs) <= MaxDocuments
    /\ TotalBytes(docs) <= MaxBytes

Init ==
    /\ status = "building"
    /\ files = {} /\ directories = {} /\ documents = <<>>

Publish ==
    /\ status = "building"
    /\ status' = "ready"
    /\ Unambiguous(files', directories')
    /\ Rooted(files', directories')
    /\ Searchable(files', documents')
    /\ WithinLimits(files', directories', documents')

Reject ==
    /\ status = "building"
    /\ status' = "rejected"
    /\ UNCHANGED <<files, directories, documents>>

Next == Publish \/ Reject

Spec == Init /\ [][Next]_vars
=============================================================================
