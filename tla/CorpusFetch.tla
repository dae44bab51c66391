---------------------------- MODULE CorpusFetch ----------------------------
(***************************************************************************)
(* `corpus_inventory.py fetch`: a pool of workers downloads the supported  *)
(* documents of repositories at the revision the hub reports, replaces     *)
(* them in the corpus one by one, and records what it got in a metadata    *)
(* file that the next command can resume from.  The hub moves on while a   *)
(* command runs, requests fail, and the tool can be killed anywhere.       *)
(*                                                                         *)
(* One command runs at a time.  The requests _http_bytes retries are one   *)
(* step with its final outcome.                                            *)
(***************************************************************************)
EXTENDS Integers, FiniteSets

CONSTANTS
    Ids,           \* the repository ids there are
    Key,           \* id |-> its case fold, which identifies the repository
    Order,         \* id |-> its place in the order by case fold, then id
    Files,         \* the supported documents there are
    FileOrder,     \* file |-> its place in a repository's list
    Hub,           \* Hub[key][revision]: the documents, file |-> content
    LookupErrors,  \* id |-> how looking it up may fail
    FileErrors,    \* id |-> how downloading or writing one document may fail
    Requests,      \* the lists of ids a command may be given
    ResumeFlags,   \* whether --resume is given: {TRUE}, {FALSE} or both
    Limits,        \* what --limit may be; many ids stand for no limit
    Workers,       \* --workers
    MaxCrashes     \* bound: how often the tool is killed

Keys      == {Key[id] : id \in Ids}
Revisions == UNION {DOMAIN Hub[k] : k \in Keys}
NoContent == "none"
Torn      == "torn"
Contents  ==
    UNION {UNION {{Hub[k][r][f] : f \in DOMAIN Hub[k][r]} : r \in DOMAIN Hub[k]} : k \in Keys}

\* The outcomes of a document and of a repository; one status code stands for
\* those that are treated alike.
Written   == {"downloaded", "unchanged", "updated"}
Transient == {"error", "http_429", "http_503", "invalid_api_response", "network_error"}
Permanent == {"too_large", "unsafe_filesystem_path", "http_401", "http_404",
              "unauthorized", "forbidden", "not_found", "nonportable_inventory"}

ASSUME FetchAssumption ==
    /\ IsFiniteSet(Ids) /\ IsFiniteSet(Files)
    /\ Order \in [Ids -> Nat] /\ FileOrder \in [Files -> Nat]
    /\ \A i, j \in Ids : Order[i] = Order[j] => i = j
    /\ \A f, g \in Files : FileOrder[f] = FileOrder[g] => f = g
    /\ \A k \in Keys :
          /\ 1 \in DOMAIN Hub[k]
          /\ \A r \in DOMAIN Hub[k] : r \in Nat \ {0} /\ 1..r \subseteq DOMAIN Hub[k]
    /\ \A k \in Keys : \A r \in DOMAIN Hub[k] : DOMAIN Hub[k][r] \subseteq Files
    /\ {NoContent, Torn} \cap Contents = {}
    /\ LookupErrors \in [Ids -> SUBSET (Transient \cup Permanent)]
    /\ FileErrors \in [Ids -> SUBSET (Transient \cup Permanent)]
    /\ Requests \subseteq SUBSET Ids /\ ResumeFlags \subseteq BOOLEAN
    /\ Limits \subseteq Nat \ {0} /\ Workers \in Nat \ {0} /\ MaxCrashes \in Nat

VARIABLES
    revision,  \* the hub: the current revision of each repository
    disk,      \* the corpus: the content of each document
    manifest,  \* the metadata file: key |-> the record of a repository
    running,   \* is a command running?
    previous,  \* the records it resumes from
    task,      \* the pool: id |-> how far its repository is
    crashes,   \* how often the tool was killed
    fresh      \* history: has a command without --resume not yet been saved?

vars == <<revision, disk, manifest, running, previous, task, crashes, fresh>>

Empty == [k \in {} |-> 0]

\* A task; in its stage "done" it is the record of its repository.
NoTask == [stage |-> "idle", status |-> "none", revision |-> 0, todo |-> {}, files |-> Empty]
Queued == [NoTask EXCEPT !.stage = "queued"]

Failed(status) == [NoTask EXCEPT !.stage = "done", !.status = status]

InStage(stages) == {id \in Ids : task[id].stage \in stages}
Active == InStage({"lookup", "files", "writing"})

File(id) == CHOOSE f \in task[id].todo : \A g \in task[id].todo : FileOrder[f] <= FileOrder[g]

Content(id) == Hub[Key[id]][task[id].revision][File(id)]

(***************************************************************************)
(* What a command fetches.                                                 *)
(***************************************************************************)
\* _casefold_unique: the first spelling of every repository.
Unique(ids) == {i \in ids : \A j \in ids : Key[i] = Key[j] => Order[i] <= Order[j]}

\* Mutant of Retryable: every partial record is tried again.
RetryablePartial(record) == record.status \in Transient \cup {"partial"}

\* _retryable_fetch_entry
Retryable(record) ==
    IF record.status # "partial"
    THEN record.status \in Transient
    ELSE \E f \in DOMAIN record.files : record.files[f].status \in Transient

\* _pending_repository_ids
Pending(ids, records) ==
    {i \in Unique(ids) : Key[i] \in DOMAIN records => Retryable(records[Key[i]])}

\* Mutant of FirstOf: the last one is left out.
FirstButOne(ids, limit) == {i \in ids : Cardinality({j \in ids : Order[j] < Order[i]}) < limit - 1}

FirstOf(ids, limit) == {i \in ids : Cardinality({j \in ids : Order[j] < Order[i]}) < limit}

\* Mutant of Merge: the records of this command replace the file.
MergeNew(records, done) ==
    [k \in {Key[i] : i \in done} |->
        LET i == CHOOSE j \in done : Key[j] = k
        IN  [id |-> i, status |-> task[i].status,
             revision |-> task[i].revision, files |-> task[i].files]]

\* merge_fetch_manifests
Merge(records, done) ==
    [k \in DOMAIN records \cup {Key[i] : i \in done} |->
        IF \E i \in done : Key[i] = k
        THEN LET i == CHOOSE j \in done : Key[j] = k
             IN  [id |-> i, status |-> task[i].status,
                  revision |-> task[i].revision, files |-> task[i].files]
        ELSE records[k]]

-----------------------------------------------------------------------------

Init ==
    /\ revision = [k \in Keys |-> 1]
    /\ disk = [id \in Ids |-> [f \in Files |-> NoContent]]
    /\ manifest = Empty
    /\ running = FALSE /\ previous = Empty
    /\ task = [id \in Ids |-> NoTask]
    /\ crashes = 0 /\ fresh = FALSE

\* The hub gets a new revision.
Push(k) ==
    /\ revision[k] + 1 \in DOMAIN Hub[k]
    /\ revision' = [revision EXCEPT ![k] = @ + 1]
    /\ UNCHANGED <<disk, manifest, running, previous, task, crashes, fresh>>

\* main and the submissions of fetch_repositories.
Start(ids, resume, limit) ==
    /\ ~running
    /\ running' = TRUE
    /\ previous' = IF resume THEN manifest ELSE Empty
    /\ LET batch == FirstOf(Pending(ids, previous'), limit)
       IN  task' = [id \in Ids |-> IF id \in batch THEN Queued ELSE NoTask]
    /\ fresh' = (fresh \/ ~resume)
    /\ UNCHANGED <<revision, disk, manifest, crashes>>

\* A worker takes the next repository.
Begin(id) ==
    /\ task[id].stage = "queued"
    /\ \A j \in InStage({"queued"}) : Order[id] <= Order[j]
    /\ Cardinality(Active) < Workers
    /\ task' = [task EXCEPT ![id].stage = "lookup"]
    /\ UNCHANGED <<revision, disk, manifest, running, previous, crashes, fresh>>

(***************************************************************************)
(* _fetch_repository.                                                      *)
(***************************************************************************)
Lookup(id) ==
    /\ task[id].stage = "lookup"
    /\ LET r == revision[Key[id]]
       IN  task' = [task EXCEPT ![id].stage = "files", ![id].revision = r,
                                ![id].todo = DOMAIN Hub[Key[id]][r]]
    /\ UNCHANGED <<revision, disk, manifest, running, previous, crashes, fresh>>

LookupFails(id) ==
    /\ task[id].stage = "lookup"
    /\ \E status \in LookupErrors[id] : task' = [task EXCEPT ![id] = Failed(status)]
    /\ UNCHANGED <<revision, disk, manifest, running, previous, crashes, fresh>>

\* The outcome of one document is added to the list.
Got(id, status, content) ==
    task' = [task EXCEPT
        ![id].stage = "files",
        ![id].todo  = @ \ {File(id)},
        ![id].files = [f \in DOMAIN @ \cup {File(id)} |->
                          IF f = File(id) THEN [status |-> status, content |-> content]
                          ELSE @[f]]]

\* The bytes in the corpus are what was downloaded.
Unchanged(id) ==
    /\ task[id].stage = "files"
    /\ task[id].todo # {}
    /\ disk[id][File(id)] = Content(id)
    /\ Got(id, "unchanged", Content(id))
    /\ UNCHANGED <<revision, disk, manifest, running, previous, crashes, fresh>>

\* Mutant of Prepare: the document is written in place.
PrepareInPlace(id) ==
    /\ task[id].stage = "files"
    /\ task[id].todo # {}
    /\ disk[id][File(id)] # Content(id)
    /\ task' = [task EXCEPT ![id].stage = "writing"]
    /\ disk' = [disk EXCEPT ![id][File(id)] = Torn]
    /\ UNCHANGED <<revision, manifest, running, previous, crashes, fresh>>

\* The bytes are new; they are in a temporary file next to the document.
Prepare(id) ==
    /\ task[id].stage = "files"
    /\ task[id].todo # {}
    /\ disk[id][File(id)] # Content(id)
    /\ task' = [task EXCEPT ![id].stage = "writing"]
    /\ UNCHANGED <<revision, disk, manifest, running, previous, crashes, fresh>>

\* Mutant of Replace: the hub is asked for its current revision.
ReplaceLatest(id) ==
    /\ task[id].stage = "writing"
    /\ LET latest == Hub[Key[id]][revision[Key[id]]]
           now    == IF File(id) \in DOMAIN latest THEN latest[File(id)] ELSE Content(id)
       IN  /\ disk' = [disk EXCEPT ![id][File(id)] = now]
           /\ Got(id, IF disk[id][File(id)] = NoContent THEN "downloaded" ELSE "updated", now)
    /\ UNCHANGED <<revision, manifest, running, previous, crashes, fresh>>

Replace(id) ==
    /\ task[id].stage = "writing"
    /\ disk' = [disk EXCEPT ![id][File(id)] = Content(id)]
    /\ Got(id, IF disk[id][File(id)] = NoContent THEN "downloaded" ELSE "updated", Content(id))
    /\ UNCHANGED <<revision, manifest, running, previous, crashes, fresh>>

\* A document that cannot be downloaded, or whose place in the corpus is a
\* link, is listed with its error.
FileFails(id) ==
    /\ task[id].stage = "files"
    /\ task[id].todo # {}
    /\ \E status \in FileErrors[id] \ {"error"} : Got(id, status, NoContent)
    /\ UNCHANGED <<revision, disk, manifest, running, previous, crashes, fresh>>

\* The place is checked again before the document is replaced.
ReplaceFails(id) ==
    /\ task[id].stage = "writing"
    /\ "unsafe_filesystem_path" \in FileErrors[id]
    /\ Got(id, "unsafe_filesystem_path", NoContent)
    /\ UNCHANGED <<revision, disk, manifest, running, previous, crashes, fresh>>

\* Any other exception ends the repository; `results` gets a bare "error".
FileEscapes(id) ==
    /\ task[id].stage \in {"files", "writing"}
    /\ task[id].todo # {}
    /\ "error" \in FileErrors[id]
    /\ task' = [task EXCEPT ![id] = Failed("error")]
    /\ UNCHANGED <<revision, disk, manifest, running, previous, crashes, fresh>>

AllWritten(files) == \A f \in DOMAIN files : files[f].status \in Written

Close(id) ==
    /\ task[id].stage = "files"
    /\ task[id].todo = {}
    /\ task' = [task EXCEPT ![id].stage = "done",
                            ![id].status = IF AllWritten(task[id].files) THEN "ok" ELSE "partial"]
    /\ UNCHANGED <<revision, disk, manifest, running, previous, crashes, fresh>>

\* Every future is done: the metadata file is replaced and the command ends.
Save ==
    /\ running
    /\ InStage({"idle", "done"}) = Ids
    /\ manifest' = Merge(previous, InStage({"done"}))
    /\ running' = FALSE
    /\ previous' = Empty
    /\ task' = [id \in Ids |-> NoTask]
    /\ fresh' = (fresh /\ previous # Empty)
    /\ UNCHANGED <<revision, disk, crashes>>

\* The tool is killed.
Crash ==
    /\ running
    /\ crashes < MaxCrashes
    /\ crashes' = crashes + 1
    /\ running' = FALSE
    /\ previous' = Empty
    /\ task' = [id \in Ids |-> NoTask]
    /\ UNCHANGED <<revision, disk, manifest, fresh>>

Fetch(id) ==
    \/ Begin(id) \/ Lookup(id) \/ LookupFails(id)
    \/ Unchanged(id) \/ Prepare(id) \/ Replace(id)
    \/ FileFails(id) \/ ReplaceFails(id) \/ FileEscapes(id)
    \/ Close(id)

Next ==
    \/ \E k \in Keys : Push(k)
    \/ \E ids \in Requests, resume \in ResumeFlags, limit \in Limits : Start(ids, resume, limit)
    \/ \E id \in Ids : Fetch(id)
    \/ Save
    \/ Crash

Spec == Init /\ [][Next]_vars

\* The threads of the pool run, requests time out, and somebody repeats the
\* command with --resume, as corpus/README.md asks.
FairSpec ==
    /\ Spec
    /\ WF_vars((\E id \in Ids : Fetch(id)) \/ Save)
    /\ \A ids \in Requests, limit \in Limits : WF_vars(Start(ids, TRUE, limit))

-----------------------------------------------------------------------------

FileRecords == [status : Transient \cup Permanent \cup Written, content : Contents \cup {NoContent}]
Statuses    == Transient \cup Permanent \cup {"ok", "partial"}

\* A document is in the corpus as the record says.
Backed(k) ==
    \A f \in DOMAIN manifest[k].files :
        manifest[k].files[f].status \in Written =>
            disk[manifest[k].id][f] = manifest[k].files[f].content

IsManifest(records) ==
    /\ DOMAIN records \subseteq Keys
    /\ \A k \in DOMAIN records :
          /\ DOMAIN records[k].files \subseteq Files
          /\ records[k] \in [id : Ids, status : Statuses, revision : Revisions \cup {0},
                             files : [DOMAIN records[k].files -> FileRecords]]
          /\ Key[records[k].id] = k

\* The variables have their types.
TypeOK ==
    /\ revision \in [Keys -> Revisions]
    /\ DOMAIN disk = Ids /\ \A id \in Ids : DOMAIN disk[id] = Files
    /\ IsManifest(manifest) /\ IsManifest(previous)
    /\ running \in BOOLEAN /\ fresh \in BOOLEAN
    /\ crashes \in 0..MaxCrashes
    /\ \A id \in Ids :
          /\ DOMAIN task[id].files \subseteq Files
          /\ task[id] \in
                [stage : {"idle", "queued", "lookup", "files", "writing", "done"},
                 status : Statuses \cup {"none"}, revision : Revisions \cup {0},
                 todo : SUBSET Files, files : [DOMAIN task[id].files -> FileRecords]]

\* A reader of the corpus never meets half a document, wherever the tool is
\* killed (corpus/README.md, "atomic replacement").
NoTornDocument ==
    \A id \in Ids, f \in Files :
        disk[id][f] \in {NoContent} \cup
            {Hub[Key[id]][r][f] : r \in {q \in 1..revision[Key[id]] : f \in DOMAIN Hub[Key[id]][q]}}

\* The documents of a record are those of the one revision it names, though
\* the hub moves on between the requests ("revision-pinned").
RevisionPinned ==
    \A k \in DOMAIN manifest :
        \A f \in DOMAIN manifest[k].files :
            LET r == manifest[k].revision
            IN  /\ f \in DOMAIN Hub[k][r]
                /\ manifest[k].files[f].status \in Written =>
                      manifest[k].files[f].content = Hub[k][r][f]

\* A record says "ok" only when all documents of its revision were written.
OkIsWhole ==
    \A k \in DOMAIN manifest :
        manifest[k].status = "ok" =>
            /\ DOMAIN manifest[k].files = DOMAIN Hub[k][manifest[k].revision]
            /\ AllWritten(manifest[k].files)

\* When the corpus has gone past a record, because a command was killed
\* between replacing a document and saving, the next command with --resume
\* fetches that repository again; unless the one killed had no --resume.
StaleIsRetried ==
    ~fresh => \A k \in DOMAIN manifest :
        Backed(k) \/ manifest[k].status \in Transient
                  \/ \E f \in DOMAIN manifest[k].files :
                        manifest[k].files[f].status \in Transient

\* No two workers write to one repository, whatever spellings are asked for.
OneWriter ==
    \A i, j \in Active : Key[i] = Key[j] => i = j

\* The documents of the corpus are documents of the hub, each written by one
\* worker at a time, in every state a crash may leave.
DocumentsAreWhole == TypeOK /\ NoTornDocument /\ OneWriter

\* A record is true of the hub: its documents are those of its revision, and
\* "ok" says that none is missing.
RecordsAreTrue == RevisionPinned /\ OkIsWhole

\* A command that ends has a record for every repository it was to fetch and
\* keeps the others that it resumes from; those with nothing transient in
\* them are as they were ("retain completed metadata").
CompletedKept ==
    [][manifest' # manifest =>
          /\ \A i \in Ids : task[i].stage # "idle" => Key[i] \in DOMAIN manifest'
          /\ \A k \in DOMAIN previous :
                /\ k \in DOMAIN manifest'
                /\ \/ manifest'[k] = previous[k]
                   \/ previous[k].status \in Transient
                   \/ \E f \in DOMAIN previous[k].files :
                         previous[k].files[f].status \in Transient]_vars

\* Repeating the command reaches every repository of the list, though some
\* keep failing (corpus/README.md, "batches of 450 are resumable").
EveryoneReached ==
    \A ids \in Requests : <>(\A id \in ids : Key[id] \in DOMAIN manifest)
=============================================================================
