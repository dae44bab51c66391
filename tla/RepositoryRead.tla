--------------------------- MODULE RepositoryRead ---------------------------
(***************************************************************************)
(* ModelRepository::read (repository.rs, document.rs) on a directory that   *)
(* other processes change while it is read: collect_paths walks the tree,  *)
(* every recognized document is measured, then each one is read.  Nothing  *)
(* ties these passes together, so each may see another directory.          *)
(*                                                                         *)
(* A path keeps its type whenever it exists, a listing is one step, and    *)
(* so is a read of the bytes of a file.  The root is the empty path.       *)
(***************************************************************************)
EXTENDS RepositoryPaths

CONSTANTS
    Kind,              \* the type of the entry at each path
    ExcludedNames,     \* is_excluded_metadata_name
    NonUtf8Names,      \* names that are not UTF-8
    Malformed,         \* the files whose bytes SourceDocument refuses to parse
    Sizes,             \* how long a document may be
    Starts,            \* what the directory may be at first
    Volatile,          \* bound: others change a directory of these paths only
    MaxDocumentBytes,  \* MAX_SOURCE_DOCUMENT_BYTES
    MaxChanges         \* bound: how often others change the directory

Root      == <<>>
Parent(p) == SubSeq(p, 1, Len(p) - 1)

IsDocument(p) == Kind[p] = "file" /\ Recognized(p)
Documents     == [path : Paths, size : Nat]

ASSUME DirectoryAssumption ==
    /\ Kind \in [Paths -> {"file", "dir", "link", "other"}]
    /\ \A p \in Paths : \A q \in Ancestors(p) : Kind[q] = "dir"
    /\ Malformed \subseteq Paths
    /\ Sizes \subseteq Nat /\ Sizes # {}
    /\ Volatile \subseteq Paths
    /\ \A s \in Starts :
          /\ s.present \subseteq Paths
          /\ \A p \in s.present : Ancestors(p) \subseteq s.present
          /\ s.size \in [{p \in Paths : IsDocument(p)} -> Sizes]
    /\ MaxDocumentBytes \in Nat /\ MaxChanges \in Nat

VARIABLES
    present,      \* the paths that exist
    size,         \* how long the document at each path is
    changes,      \* how often the directory was changed since the read began
    steady,       \* history: the paths that have existed all along
    seen,         \* history: the paths that existed at some time
    stage,        \* what the reader does next
    stack,        \* the frames of collect_paths, innermost first
    entriesSeen,  \* entries_seen
    files,        \* the regular files found
    directories,  \* the directories found
    links,        \* the links reported as skipped
    todo,         \* the documents the current pass has not come to
    bytes,        \* the bytes the current pass has added up
    documents,    \* the documents read
    error         \* why the read failed

directory == <<present, size, changes, steady, seen>>
scan      == <<stack, entriesSeen, files, directories, links>>
reading   == <<todo, bytes, documents>>
vars      == <<directory, stage, scan, reading, error>>

Stages == {"listing", "visiting", "checking", "sizing", "probing", "loading",
           "ready", "failed"}
Errors == {"none", "read", "entries", "nonutf8", "unsafe", "collision",
           "resources", "toolarge", "malformed"}

Over == stage \in {"ready", "failed"}

Children(P, d) == {p \in P : Parent(p) = d}

First(P) == CHOOSE p \in P : \A q \in P : Order[p] <= Order[q]

-----------------------------------------------------------------------------

Init ==
    /\ \E start \in Starts : present = start.present /\ size = start.size
    /\ changes = 0 /\ steady = present /\ seen = present
    /\ stage = "listing"
    /\ stack = <<[dir |-> Root, rest |-> {}]>>
    /\ entriesSeen = 0
    /\ files = {} /\ directories = {} /\ links = {}
    /\ todo = {} /\ bytes = 0 /\ documents = <<>>
    /\ error = "none"

(***************************************************************************)
(* Other processes.                                                        *)
(***************************************************************************)
Change ==
    /\ ~Over
    /\ changes < MaxChanges
    /\ seen \subseteq Volatile
    /\ changes' = changes + 1
    /\ UNCHANGED <<stage, scan, reading, error>>

Create(p) ==
    /\ Change
    /\ p \in Volatile \ present
    /\ Ancestors(p) \subseteq present
    /\ present' = present \cup {p}
    /\ seen' = seen \cup {p}
    /\ UNCHANGED <<size, steady>>

Delete(p) ==
    /\ Change
    /\ p \in present
    /\ Children(present, p) = {}
    /\ present' = present \ {p}
    /\ steady' = steady \ {p}
    /\ UNCHANGED <<size, seen>>

Rewrite(p, n) ==
    /\ Change
    /\ IsDocument(p) /\ p \in Volatile
    /\ n # size[p]
    /\ size' = [size EXCEPT ![p] = n]
    /\ UNCHANGED <<present, steady, seen>>

(***************************************************************************)
(* collect_paths.                                                          *)
(***************************************************************************)
Fail(reason) ==
    /\ stage' = "failed"
    /\ error' = reason
    /\ UNCHANGED <<directory, scan, reading>>

Top     == Head(stack)

\* Mutant of Listing: metadata directories are walked.
ListingOfAll == Children(present, Top.dir)

Listing == {p \in Children(present, Top.dir) : Name(p) \notin ExcludedNames}

ListFails ==
    /\ stage = "listing"
    /\ \/ Top.dir # Root /\ Top.dir \notin present /\ Fail("read")
       \/ (\E p \in Listing : Name(p) \in NonUtf8Names) /\ Fail("nonutf8")
       \/ entriesSeen + Cardinality(Listing) > MaxEntries /\ Fail("entries")

ListEntries ==
    /\ stage = "listing"
    /\ Top.dir = Root \/ Top.dir \in present
    /\ \A p \in Listing : Name(p) \notin NonUtf8Names
    /\ entriesSeen + Cardinality(Listing) <= MaxEntries
    /\ stack' = [stack EXCEPT ![1].rest = Listing]
    /\ stage' = "visiting"
    /\ UNCHANGED <<directory, entriesSeen, files, directories, links, reading, error>>

\* The entries of a listing are visited in the order of their names.
Visiting(p) ==
    /\ stage = "visiting"
    /\ Top.rest # {}
    /\ p = First(Top.rest)

\* The type of an entry comes with the listing or, on some file systems,
\* from a call that fails when the entry is gone.
VisitFails(p) ==
    /\ Visiting(p)
    /\ \/ entriesSeen + 1 > MaxEntries /\ Fail("entries")
       \/ entriesSeen + 1 <= MaxEntries /\ p \notin present /\ Fail("read")
       \/ /\ entriesSeen + 1 <= MaxEntries
          /\ Kind[p] # "other"
          /\ ~Portable(p)
          /\ Fail("unsafe")

\* Mutant of Visit: a directory is not counted, what is in it is.
VisitUncounted(p) ==
    /\ Visiting(p)
    /\ entriesSeen + 1 <= MaxEntries
    /\ Kind[p] # "other" => Portable(p)
    /\ entriesSeen' = IF Kind[p] = "dir" THEN entriesSeen ELSE entriesSeen + 1
    /\ LET left == [stack EXCEPT ![1].rest = @ \ {p}]
       IN  stack' = IF Kind[p] = "dir" THEN <<[dir |-> p, rest |-> {}]>> \o left ELSE left
    /\ stage' = IF Kind[p] = "dir" THEN "listing" ELSE "visiting"
    /\ files' = IF Kind[p] = "file" THEN files \cup {p} ELSE files
    /\ directories' = IF Kind[p] = "dir" THEN directories \cup {p} ELSE directories
    /\ links' = IF Kind[p] = "link" THEN links \cup {p} ELSE links
    /\ UNCHANGED <<directory, reading, error>>

Visit(p) ==
    /\ Visiting(p)
    /\ entriesSeen + 1 <= MaxEntries
    /\ Kind[p] # "other" => Portable(p)
    /\ entriesSeen' = entriesSeen + 1
    /\ LET left == [stack EXCEPT ![1].rest = @ \ {p}]
       IN  stack' = IF Kind[p] = "dir" THEN <<[dir |-> p, rest |-> {}]>> \o left ELSE left
    /\ stage' = IF Kind[p] = "dir" THEN "listing" ELSE "visiting"
    /\ files' = IF Kind[p] = "file" THEN files \cup {p} ELSE files
    /\ directories' = IF Kind[p] = "dir" THEN directories \cup {p} ELSE directories
    /\ links' = IF Kind[p] = "link" THEN links \cup {p} ELSE links
    /\ UNCHANGED <<directory, reading, error>>

\* A directory is done; the walk ends with the root.
Return ==
    /\ stage = "visiting"
    /\ Top.rest = {}
    /\ stack' = Tail(stack)
    /\ stage' = IF Len(stack) = 1 THEN "checking" ELSE "visiting"
    /\ UNCHANGED <<directory, entriesSeen, files, directories, links, reading, error>>

(***************************************************************************)
(* The rest of `read`.                                                     *)
(***************************************************************************)
Recognizable == {p \in files : Recognized(p)}

CheckFails ==
    /\ stage = "checking"
    /\ Collides(files, directories)
    /\ Fail("collision")

Check ==
    /\ stage = "checking"
    /\ ~Collides(files, directories)
    /\ stage' = "sizing"
    /\ todo' = Recognizable
    /\ UNCHANGED <<directory, scan, bytes, documents, error>>

\* std::fs::metadata on every document.
SizeFails ==
    /\ stage = "sizing"
    /\ todo # {}
    /\ First(todo) \notin present
    /\ Fail("read")

Size ==
    /\ stage = "sizing"
    /\ todo # {}
    /\ First(todo) \in present
    /\ bytes' = bytes + size[First(todo)]
    /\ todo' = todo \ {First(todo)}
    /\ UNCHANGED <<directory, scan, stage, documents, error>>

\* Mutant of Exceeds: a repository that fills a limit is over it.
Reaches(count, total) == count >= MaxDocuments \/ total >= MaxBytes

\* check_document_resource_limits on the sizes: a count or a sum that only
\* grows exceeds its limit at some document if it does after the last.
Exceeds(count, total) == count > MaxDocuments \/ total > MaxBytes

LimitFails ==
    /\ stage = "sizing"
    /\ todo = {}
    /\ Exceeds(Cardinality(Recognizable), bytes)
    /\ Fail("resources")

Limit ==
    /\ stage = "sizing"
    /\ todo = {}
    /\ ~Exceeds(Cardinality(Recognizable), bytes)
    /\ stage' = "probing"
    /\ todo' = Recognizable
    /\ bytes' = 0
    /\ UNCHANGED <<directory, scan, documents, error>>

\* SourceDocument::read looks at the length before it opens the file.
ProbeFails ==
    /\ stage = "probing"
    /\ todo # {}
    /\ \/ First(todo) \notin present /\ Fail("read")
       \/ /\ First(todo) \in present
          /\ size[First(todo)] > MaxDocumentBytes
          /\ Fail("toolarge")

Probe ==
    /\ stage = "probing"
    /\ todo # {}
    /\ First(todo) \in present
    /\ size[First(todo)] <= MaxDocumentBytes
    /\ stage' = "loading"
    /\ UNCHANGED <<directory, scan, reading, error>>

\* The bytes are read, measured again and parsed; `read` then adds them up.
LoadFails ==
    /\ stage = "loading"
    /\ LET p == First(todo)
       IN  \/ p \notin present /\ Fail("read")
           \/ p \in present /\ size[p] > MaxDocumentBytes /\ Fail("toolarge")
           \/ /\ p \in present
              /\ size[p] <= MaxDocumentBytes
              /\ p \in Malformed
              /\ Fail("malformed")
           \/ /\ p \in present
              /\ size[p] <= MaxDocumentBytes
              /\ p \notin Malformed
              /\ Exceeds(Len(documents) + 1, bytes + size[p])
              /\ Fail("resources")

\* Mutant of Load: the sizes that were measured are trusted.
LoadUnmeasured ==
    /\ stage = "loading"
    /\ LET p == First(todo)
       IN  /\ p \in present
           /\ size[p] <= MaxDocumentBytes
           /\ p \notin Malformed
           /\ documents' = Append(documents, [path |-> p, size |-> size[p]])
           /\ bytes' = bytes + size[p]
           /\ todo' = todo \ {p}
    /\ stage' = "probing"
    /\ UNCHANGED <<directory, scan, error>>

Load ==
    /\ stage = "loading"
    /\ LET p == First(todo)
       IN  /\ p \in present
           /\ size[p] <= MaxDocumentBytes
           /\ p \notin Malformed
           /\ ~Exceeds(Len(documents) + 1, bytes + size[p])
           /\ documents' = Append(documents, [path |-> p, size |-> size[p]])
           /\ bytes' = bytes + size[p]
           /\ todo' = todo \ {p}
    /\ stage' = "probing"
    /\ UNCHANGED <<directory, scan, error>>

Publish ==
    /\ stage = "probing"
    /\ todo = {}
    /\ stage' = "ready"
    /\ UNCHANGED <<directory, scan, reading, error>>

Read ==
    \/ ListFails \/ ListEntries
    \/ \E p \in Paths : VisitFails(p) \/ Visit(p)
    \/ Return
    \/ CheckFails \/ Check
    \/ SizeFails \/ Size
    \/ LimitFails \/ Limit
    \/ ProbeFails \/ Probe
    \/ LoadFails \/ Load
    \/ Publish

\* The caller has its answer and nothing more happens.
Answered ==
    /\ Over
    /\ UNCHANGED vars

Next ==
    \/ Read
    \/ \E p \in Paths : Create(p) \/ Delete(p)
    \/ \E p \in Paths, n \in Sizes : Rewrite(p, n)
    \/ Answered

Spec == Init /\ [][Next]_vars

\* The reading thread runs on, whatever the others do.
FairSpec == Spec /\ WF_vars(Read)

-----------------------------------------------------------------------------

\* The variables have their types.
TypeOK ==
    /\ present \subseteq Paths /\ steady \subseteq present /\ present \subseteq seen
    /\ seen \subseteq Paths
    /\ size \in [{p \in Paths : IsDocument(p)} -> Sizes]
    /\ changes \in 0..MaxChanges
    /\ stage \in Stages /\ error \in Errors
    /\ stack \in Seq([dir : Paths \cup {Root}, rest : SUBSET Paths])
    /\ entriesSeen \in Nat /\ bytes \in Nat
    /\ files \subseteq Paths /\ directories \subseteq Paths /\ links \subseteq Paths
    /\ todo \subseteq files
    /\ documents \in Seq(Documents)

\* What the reader keeps stays within the limits at every step, however the
\* directory grows between the walk, the measuring and the reading.
RetainedIsBounded ==
    /\ EntryCount(files, directories) + Cardinality(links) <= MaxEntries
    /\ Len(documents) <= MaxDocuments
    /\ TotalBytes(documents) <= MaxBytes
    /\ \A i \in 1..Len(documents) : documents[i].size <= MaxDocumentBytes

\* A path is inventoried when no segment of it is metadata and it is a
\* regular file or a directory.
Inventoried(p) ==
    /\ Kind[p] \in {"file", "dir"}
    /\ \A i \in 1..Len(p) : p[i] \notin ExcludedNames

\* Whatever is added, removed and rewritten around it, an entry that existed
\* all along is in the repository that is read.
SteadyIsFound ==
    stage = "ready" =>
        \A p \in steady : Inventoried(p) => p \in files \cup directories

\* The repository holds nothing that never existed, nothing excluded and no
\* link (repository.rs:141).
NothingInvented ==
    /\ files \cup directories \subseteq {p \in seen : Inventoried(p)}
    /\ links \subseteq {p \in seen : Kind[p] = "link"}

\* A document that disappears after the walk fails the read: a repository is
\* never ready with a recognized file it lists and has not read.
EveryDocumentRead ==
    stage = "ready" =>
        {documents[i].path : i \in 1..Len(documents)} = Recognizable

\* What is read of a directory that changes is still faithful to it.
ReadIsFaithful == SteadyIsFound /\ NothingInvented /\ EveryDocumentRead

\* What a directory must be to be read, were it to stand still.
Visible ==
    {p \in present : \A i \in 1..Len(p) : p[i] \notin ExcludedNames}
FilesNow       == {p \in Visible : Kind[p] = "file"}
DirectoriesNow == {p \in Visible : Kind[p] = "dir"}
DocumentsNow   == {p \in FilesNow : Recognized(p)}
BytesNow ==
    LET total[P \in SUBSET DocumentsNow] ==
            IF P = {} THEN 0 ELSE size[First(P)] + total[P \ {First(P)}]
    IN  total[DocumentsNow]

Readable ==
    /\ Cardinality(Visible) <= MaxEntries
    /\ \A p \in Visible : Name(p) \notin NonUtf8Names /\ (Kind[p] # "other" => Portable(p))
    /\ ~Collides(FilesNow, DirectoriesNow)
    /\ Cardinality(DocumentsNow) <= MaxDocuments /\ BytesNow <= MaxBytes
    /\ \A p \in DocumentsNow : size[p] <= MaxDocumentBytes /\ p \notin Malformed

\* A directory that stands still is read exactly when it is readable, and
\* exactly as it is, its links reported.
QuietReadIsExact ==
    changes = 0 =>
        /\ stage = "failed" => ~Readable
        /\ stage = "ready" =>
              /\ Readable
              /\ files = FilesNow /\ directories = DirectoriesNow
              /\ links = {p \in Visible : Kind[p] = "link"}
              /\ \A i \in 1..Len(documents) : documents[i].size = size[documents[i].path]

\* How many steps are left of a read at most, by the limits alone.  An entry
\* it may still see is visited, listed and left; a document is measured, then
\* looked at and read.
StepsLeft ==
    LET entries == MaxEntries - entriesSeen
        later   == MaxEntries + 2 * MaxDocuments + 3
    IN  CASE stage = "listing"  -> 3 * entries + Len(stack) + 1 + later
          [] stage = "visiting" -> 3 * entries + Len(stack) + later
          [] stage = "checking" -> later
          [] stage = "sizing"   -> Cardinality(todo) + 2 * MaxDocuments + 2
          [] stage = "probing"  -> 2 * Cardinality(todo) + 1
          [] stage = "loading"  -> 2 * Cardinality(todo)
          [] OTHER              -> 0

\* Whatever others add beneath a directory that is being walked, each step of
\* the reader uses up one of those, and no change gives any back.
StepsAreLimited ==
    [][StepsLeft' \in 0..(StepsLeft - 1)]_<<stage, scan, reading, error>>

\* The read ends, even of a directory that others keep changing, and within
\* the steps the limits allow.
Terminates == <>Over /\ StepsAreLimited

-----------------------------------------------------------------------------

Ready == stage = "ready"

Contract == INSTANCE Snapshot WITH
    status      <- IF Ready THEN "ready" ELSE IF Over THEN "rejected" ELSE "building",
    files       <- IF Ready THEN files ELSE {},
    directories <- IF Ready THEN directories ELSE {},
    documents   <- IF Ready THEN documents ELSE <<>>

\* `read` keeps what constructing a ModelRepository promises, though the
\* directory it reads may never have existed at any one moment.
KeepsContract == Contract!Spec
=============================================================================
