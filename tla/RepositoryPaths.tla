-------------------------- MODULE RepositoryPaths --------------------------
(***************************************************************************)
(* Repository-relative paths and the rules that make a set of them a       *)
(* repository (path_serde.rs, document.rs, repository.rs).  A path is the   *)
(* nonempty sequence of its segments.  A segment is a model value or a     *)
(* short string; what the code looks at in one is which other segments it  *)
(* folds together with, whether it is portable, whether it names a         *)
(* recognized document, and where it sorts.                                *)
(***************************************************************************)
EXTENDS Integers, Sequences, FiniteSets

CONSTANTS
    Paths,            \* the paths there are
    Order,            \* where a path sorts, as a slash-separated string
    Fold,             \* segment |-> NFC, case fold, NFC of the segment
    UnsafeNames,      \* segments path_serde::validate refuses
    RecognizedNames,  \* file names DocumentKind::from_path recognizes
    MaxEntries,       \* MAX_REPOSITORY_ENTRIES
    MaxDocuments,     \* MAX_REPOSITORY_DOCUMENTS
    MaxBytes          \* MAX_REPOSITORY_SOURCE_BYTES

\* The directories a path lies in, the root excluded.
Ancestors(p) == {SubSeq(p, 1, n) : n \in 1..Len(p) - 1}

Name(p) == p[Len(p)]

Segments == UNION {{p[i] : i \in 1..Len(p)} : p \in Paths}

ASSUME PathsAssumption ==
    /\ IsFiniteSet(Paths)
    /\ Paths \subseteq Seq(Segments) \ {<<>>}
    /\ \A p \in Paths : Ancestors(p) \subseteq Paths

ASSUME OrderAssumption ==
    /\ Order \in [Paths -> Nat]
    /\ \A p, q \in Paths : Order[p] = Order[q] => p = q

ASSUME LimitsAssumption ==
    MaxEntries \in Nat /\ MaxDocuments \in Nat /\ MaxBytes \in Nat

\* path_serde::validate
Portable(p) == \A i \in 1..Len(p) : p[i] \notin UnsafeNames

\* DocumentKind::from_path
Recognized(p) == Name(p) \in RecognizedNames

\* Two paths with one key are one path on some file system.
CollisionKey(p) == [i \in 1..Len(p) |-> Fold[p[i]]]

\* Mutants of Collides: a path that is a file and a directory is no
\* collision, or names are compared as they are.
CollidesIgnoringType(files, directories) ==
    \E p, q \in files \cup directories : p # q /\ CollisionKey(p) = CollisionKey(q)

CollidesUnfolded(files, directories) == files \cap directories # {}

\* validate_no_portable_collisions: an entry meets another one under its key
\* that is not the same path of the same type.
Collides(files, directories) ==
    \/ files \cap directories # {}
    \/ \E p, q \in files \cup directories : p # q /\ CollisionKey(p) = CollisionKey(q)

EntryCount(files, directories) == Cardinality(files) + Cardinality(directories)

\* check_document_resource_limits adds the sizes up, saturating far above
\* the limit it compares each sum with.
TotalBytes(documents) ==
    LET total[n \in 0..Len(documents)] ==
            IF n = 0 THEN 0 ELSE total[n - 1] + documents[n].size
    IN  total[Len(documents)]
=============================================================================
