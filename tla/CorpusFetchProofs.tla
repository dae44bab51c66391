------------------------- MODULE CorpusFetchProofs -------------------------
(***************************************************************************)
(* Theorems about CorpusFetch for any hub, any list of repositories, any   *)
(* number of workers and any number of crashes.                            *)
(***************************************************************************)
EXTENDS CorpusFetch, WellFoundedInduction, TLAPS

(***************************************************************************)
(* The proofs by induction rest on one fact about numbers: to show that    *)
(* something holds of all of them, look at the least at which it does not. *)
(***************************************************************************)

\* A set of numbers that is not empty has a least one.
LEMMA Least ==
    ASSUME NEW S \in SUBSET Nat, S # {}
    PROVE  \E n \in S : \A m \in S : n <= m
<1> DEFINE R == {s \in Nat \X Nat : s[1] < s[2]}
<1>1. R = OpToRel(<, Nat)
  BY DEF OpToRel
<1>2. IsWellFoundedOn(R, Nat)
  BY <1>1, NatLessThanWellFounded
<1>3. PICK n \in S : \A m \in S : ~ (<<m, n>> \in R)
  BY <1>2, WFMin
<1>4. SUFFICES ASSUME NEW m \in S PROVE n <= m
  OBVIOUS
<1>5. m \in Nat /\ n \in Nat /\ ~ (<<m, n>> \in R)
  BY <1>3
<1>. QED
  BY <1>5

(***************************************************************************)
(* The inductive invariant.                                                *)
(***************************************************************************)
TaskType(t) ==
    /\ DOMAIN t.files \subseteq Files
    /\ t \in [stage : {"idle", "queued", "lookup", "files", "writing", "done"},
              status : Statuses \cup {"none"}, revision : Revisions \cup {0},
              todo : SUBSET Files, files : [DOMAIN t.files -> FileRecords]]

\* What a worker has of a repository: the documents of the one revision it
\* looked up, each either to do or listed, and those listed as written are
\* in the corpus.
Progress(id, t, rev, d) ==
    LET k == Key[id]
        r == t.revision
    IN  /\ t.stage \in {"files", "writing"} => r # 0
        /\ t.stage \in {"idle", "queued", "lookup"} => r = 0
        /\ t.stage = "writing" => t.todo # {}
        /\ t.stage = "done" <=> t.status # "none"
        /\ t.status = "ok" => r # 0 /\ t.todo = {} /\ AllWritten(t.files)
        /\ r = 0 => DOMAIN t.files = {}
        /\ r # 0 =>
              /\ r \in DOMAIN Hub[k] /\ r <= rev[k]
              /\ DOMAIN t.files \cup t.todo = DOMAIN Hub[k][r]
              /\ DOMAIN t.files \cap t.todo = {}
              /\ \A f \in DOMAIN t.files :
                    t.files[f].status \in Written =>
                        t.files[f].content = Hub[k][r][f] /\ d[id][f] = Hub[k][r][f]

TasksInv ==
    /\ DOMAIN task = Ids
    /\ \A id \in Ids : Progress(id, task[id], revision, disk)
    /\ \A i, j \in Ids :
          task[i].stage # "idle" /\ task[j].stage # "idle" /\ Key[i] = Key[j] => i = j

HubInv == \A k \in Keys : revision[k] \in DOMAIN Hub[k]

\* A command resumes from what is saved or from nothing, and works only on
\* what it does not resume or what may be tried again.
RunInv ==
    /\ ~running => previous = Empty /\ \A id \in Ids : task[id].stage = "idle"
    /\ previous = Empty \/ previous = manifest
    /\ running /\ ~fresh => previous = manifest
    /\ \A id \in Ids :
          task[id].stage # "idle" /\ Key[id] \in DOMAIN previous
              => Retryable(previous[Key[id]])

IInv ==
    /\ TypeOK
    /\ HubInv
    /\ TasksInv
    /\ RunInv
    /\ NoTornDocument
    /\ RecordsAreTrue
    /\ StaleIsRetried

-----------------------------------------------------------------------------

(***************************************************************************)
(* Facts about the hub and the operators of the tool.                      *)
(***************************************************************************)

LEMMA HubFacts ==
    ASSUME NEW id \in Ids
    PROVE  /\ Key[id] \in Keys
           /\ 1 \in DOMAIN Hub[Key[id]]
           /\ \A r \in DOMAIN Hub[Key[id]] :
                 /\ r \in Nat /\ r # 0 /\ r \in Revisions /\ r \in 1..r
                 /\ \A q \in 1..r : q \in DOMAIN Hub[Key[id]]
                 /\ DOMAIN Hub[Key[id]][r] \subseteq Files
                 /\ \A f \in DOMAIN Hub[Key[id]][r] : Hub[Key[id]][r][f] \in Contents
<1>1. Key[id] \in Keys
  BY DEF Keys
<1>2. \A r \in DOMAIN Hub[Key[id]] : r \in Revisions
  BY <1>1 DEF Revisions
<1>3. \A r \in DOMAIN Hub[Key[id]] : \A f \in DOMAIN Hub[Key[id]][r] :
         Hub[Key[id]][r][f] \in Contents
  BY <1>1 DEF Contents
<1>4. \A r \in DOMAIN Hub[Key[id]] : r \in Nat \ {0} /\ 1..r \subseteq DOMAIN Hub[Key[id]]
  BY <1>1, FetchAssumption
<1>. QED
  BY <1>1, <1>2, <1>3, <1>4, FetchAssumption

LEMMA RetryableIs ==
    ASSUME NEW record, Retryable(record)
    PROVE  \/ record.status \in Transient
           \/ \E f \in DOMAIN record.files : record.files[f].status \in Transient
BY DEF Retryable

\* The next document is one of those to do.
LEMMA FileIs ==
    ASSUME NEW id \in Ids, task[id].todo \subseteq Files, task[id].todo # {}
    PROVE  File(id) \in task[id].todo
<1> DEFINE S == {FileOrder[f] : f \in task[id].todo}
<1>1. S \in SUBSET Nat /\ S # {}
  BY FetchAssumption
<1> HIDE DEF S
<1>2. PICK n \in S : \A m \in S : n <= m
  BY <1>1, Least
<1>3. PICK f \in task[id].todo : FileOrder[f] = n
  BY <1>2 DEF S
<1>4. \A g \in task[id].todo : FileOrder[f] <= FileOrder[g]
  BY <1>2, <1>3 DEF S
<1>. QED
  BY <1>4 DEF File

LEMMA TypeFacts ==
    ASSUME TypeOK
    PROVE  /\ \A id \in Ids : TaskType(task[id])
           /\ \A k \in DOMAIN manifest : manifest[k].id \in Ids /\ Key[manifest[k].id] = k
           /\ \A k \in DOMAIN manifest : DOMAIN manifest[k].files \subseteq Files
<1>1. \A id \in Ids : TaskType(task[id])
  BY DEF TypeOK, TaskType
<1>. QED
  BY <1>1 DEF TypeOK, IsManifest

LEMMA InitInv == Init => IInv
<1> SUFFICES ASSUME Init PROVE IInv
  OBVIOUS
<1>1. /\ \A id \in Ids : task[id] = NoTask
      /\ DOMAIN task = Ids /\ DOMAIN manifest = {} /\ DOMAIN previous = {}
      /\ \A k \in Keys : revision[k] = 1
  BY DEF Init, Empty
<1>2. TaskType(NoTask)
  BY DEF TaskType, NoTask, Empty
<1>3. HubInv
  BY <1>1, FetchAssumption DEF HubInv
<1>4. revision \in [Keys -> Revisions]
  <2>1. \A k \in Keys : 1 \in Revisions
    BY FetchAssumption DEF Revisions
  <2>. QED
    BY <2>1 DEF Init
<1>5. TypeOK
  <2>1. crashes \in 0..MaxCrashes
    BY FetchAssumption DEF Init
  <2>. QED
    BY <1>1, <1>2, <1>4, <2>1 DEF TypeOK, TaskType, IsManifest, Init
<1>6. TasksInv
  BY <1>1 DEF TasksInv, Progress, NoTask, Empty
<1>7. RunInv
  BY <1>1 DEF RunInv, NoTask, Init
<1>8. NoTornDocument
  BY DEF NoTornDocument, Init
<1>. QED
  BY <1>1, <1>3, <1>5, <1>6, <1>7, <1>8
     DEF IInv, RecordsAreTrue, RevisionPinned, OkIsWhole, StaleIsRetried

-----------------------------------------------------------------------------

(***************************************************************************)
(* A step of one worker.  It moves its own task, and may replace one       *)
(* document of its repository by one the hub has had.                      *)
(***************************************************************************)
Known(id, content, f) ==
    \E r \in 1..revision[Key[id]] :
        f \in DOMAIN Hub[Key[id]][r] /\ content = Hub[Key[id]][r][f]

WorkerMoves(id) ==
    /\ DOMAIN task' = Ids /\ \A j \in Ids : j # id => task'[j] = task[j]
    /\ DOMAIN disk' = Ids /\ \A j \in Ids : j # id => disk'[j] = disk[j]
    /\ DOMAIN disk'[id] = Files
    /\ \A f \in Files : disk'[id][f] = disk[id][f] \/ Known(id, disk'[id][f], f)
    /\ UNCHANGED <<revision, manifest, running, previous, crashes, fresh>>

LEMMA WorkerInv ==
    ASSUME IInv, NEW id \in Ids, WorkerMoves(id),
           task[id].stage # "idle", task'[id].stage # "idle",
           TaskType(task'[id]), Progress(id, task'[id], revision, disk')
    PROVE  IInv'
<1>1. /\ \A j \in Ids : j # id => task'[j] = task[j] /\ disk'[j] = disk[j]
      /\ UNCHANGED <<revision, manifest, running, previous, crashes, fresh>>
      /\ DOMAIN task' = Ids /\ DOMAIN disk' = Ids /\ DOMAIN disk'[id] = Files
  BY DEF WorkerMoves
<1>2. /\ \A j \in Ids : TaskType(task[j])
      /\ \A k \in DOMAIN manifest : manifest[k].id \in Ids /\ Key[manifest[k].id] = k
      /\ \A k \in DOMAIN manifest : DOMAIN manifest[k].files \subseteq Files
  BY TypeFacts DEF IInv
<1>3. TypeOK'
  <2>1. \A j \in Ids : TaskType(task'[j])
    BY <1>1, <1>2
  <2>2. \A j \in Ids : DOMAIN disk'[j] = Files
    BY <1>1 DEF IInv, TypeOK
  <2>3. IsManifest(manifest)' /\ IsManifest(previous)'
    BY <1>1 DEF IInv, TypeOK, IsManifest
  <2>. QED
    BY <1>1, <2>1, <2>2, <2>3 DEF IInv, TypeOK, TaskType
<1>4. HubInv'
  BY <1>1 DEF IInv, HubInv
<1>5. TasksInv'
  <2>1. \A j \in Ids : Progress(j, task'[j], revision, disk')
    <3> SUFFICES ASSUME NEW j \in Ids, j # id PROVE Progress(j, task'[j], revision, disk')
      OBVIOUS
    <3>1. Progress(j, task[j], revision, disk) /\ task'[j] = task[j] /\ disk'[j] = disk[j]
      BY <1>1 DEF IInv, TasksInv
    <3>. QED
      BY <3>1 DEF Progress
  <2>2. \A i, j \in Ids :
           task'[i].stage # "idle" /\ task'[j].stage # "idle" /\ Key[i] = Key[j] => i = j
    BY <1>1 DEF IInv, TasksInv
  <2>. QED
    BY <1>1, <2>1, <2>2 DEF TasksInv
<1>6. RunInv'
  <2>1. running
    BY DEF IInv, RunInv
  <2>2. \A j \in Ids : task'[j].stage # "idle" => task[j].stage # "idle"
    BY <1>1
  <2>. QED
    BY <1>1, <2>1, <2>2 DEF IInv, RunInv
<1>7. NoTornDocument'
  <2> SUFFICES ASSUME NEW j \in Ids, NEW f \in Files
               PROVE  disk'[j][f] = NoContent \/ Known(j, disk'[j][f], f)
    BY <1>1 DEF NoTornDocument, Known
  <2>1. disk[j][f] = NoContent \/ Known(j, disk[j][f], f)
    BY DEF IInv, NoTornDocument, Known
  <2>2. CASE j = id
    BY <2>1, <2>2 DEF WorkerMoves
  <2>3. CASE j # id
    BY <1>1, <2>1, <2>3
  <2>. QED
    BY <2>2, <2>3
<1>8. RecordsAreTrue'
  BY <1>1 DEF IInv, RecordsAreTrue, RevisionPinned, OkIsWhole
<1>9. StaleIsRetried'
  <2> SUFFICES ASSUME ~fresh, NEW k \in DOMAIN manifest
               PROVE  \/ Backed(k)' \/ manifest[k].status \in Transient
                      \/ \E f \in DOMAIN manifest[k].files :
                            manifest[k].files[f].status \in Transient
    BY <1>1 DEF StaleIsRetried
  <2>1. CASE manifest[k].id = id
    <3>1. previous = manifest /\ Key[id] = k
      BY <1>2, <2>1 DEF IInv, RunInv
    <3>2. Retryable(manifest[k])
      BY <3>1 DEF IInv, RunInv
    <3>. QED
      BY <3>2, RetryableIs
  <2>2. CASE manifest[k].id # id
    <3>1. disk'[manifest[k].id] = disk[manifest[k].id]
      BY <1>1, <1>2, <2>2
    <3>2. Backed(k) => Backed(k)'
      BY <1>1, <3>1 DEF Backed
    <3>. QED
      BY <3>2 DEF IInv, StaleIsRetried
  <2>. QED
    BY <2>1, <2>2
<1>. QED
  BY <1>3, <1>4, <1>5, <1>6, <1>7, <1>8, <1>9 DEF IInv

\* What is known of a task before its worker moves.
LEMMA TaskFacts ==
    ASSUME IInv, NEW id \in Ids
    PROVE  /\ TaskType(task[id]) /\ Progress(id, task[id], revision, disk)
           /\ DOMAIN task = Ids /\ DOMAIN disk = Ids /\ DOMAIN disk[id] = Files
           /\ revision[Key[id]] \in DOMAIN Hub[Key[id]]
           /\ revision[Key[id]] \in Nat /\ revision[Key[id]] # 0
           /\ revision[Key[id]] \in Revisions
  BY TypeFacts, HubFacts DEF IInv, TasksInv, HubInv, TypeOK

LEMMA BeginInv ==
    ASSUME IInv, NEW id \in Ids, Begin(id)
    PROVE  IInv'
<1>1. /\ task[id].stage = "queued" /\ task' = [task EXCEPT ![id].stage = "lookup"]
      /\ UNCHANGED <<revision, disk, manifest, running, previous, crashes, fresh>>
  BY DEF Begin
<1>2. task'[id] = [task[id] EXCEPT !.stage = "lookup"]
  BY <1>1, TaskFacts
<1>3. WorkerMoves(id)
  BY <1>1, TaskFacts DEF WorkerMoves
<1>4. TaskType(task'[id])
  BY <1>2, TaskFacts DEF TaskType
<1>5. Progress(id, task'[id], revision, disk')
  BY <1>1, <1>2, TaskFacts DEF Progress, TaskType
<1>6. task'[id].stage # "idle"
  BY <1>2, TaskFacts DEF TaskType
<1>. QED
  BY <1>1, <1>3, <1>4, <1>5, <1>6, WorkerInv

LEMMA LookupInv ==
    ASSUME IInv, NEW id \in Ids, Lookup(id)
    PROVE  IInv'
<1> DEFINE r == revision[Key[id]]
<1>1. /\ task[id].stage = "lookup"
      /\ task' = [task EXCEPT ![id].stage = "files", ![id].revision = r,
                              ![id].todo = DOMAIN Hub[Key[id]][r]]
      /\ UNCHANGED <<revision, disk, manifest, running, previous, crashes, fresh>>
  BY DEF Lookup
<1>2. task'[id] = [task[id] EXCEPT !.stage = "files", !.revision = r,
                                   !.todo = DOMAIN Hub[Key[id]][r]]
  BY <1>1, TaskFacts
<1>3. /\ task'[id].stage = "files" /\ task'[id].revision = r
      /\ task'[id].todo = DOMAIN Hub[Key[id]][r]
      /\ task'[id].status = task[id].status /\ task'[id].files = task[id].files
  BY <1>2, TaskFacts DEF TaskType
<1>4. WorkerMoves(id)
  BY <1>1, TaskFacts DEF WorkerMoves
<1>5. r \in DOMAIN Hub[Key[id]] /\ DOMAIN Hub[Key[id]][r] \subseteq Files /\ r \in Revisions
      /\ r # 0 /\ r <= revision[Key[id]]
  BY TaskFacts, HubFacts
<1>6. TaskType(task'[id])
  <2> DEFINE D == DOMAIN Hub[Key[id]][r]
  <2>1. D \in SUBSET Files /\ r \in Revisions \cup {0}
    BY <1>5
  <2>2. task'[id] = [task[id] EXCEPT !.stage = "files", !.revision = r, !.todo = D]
    BY <1>2
  <2> HIDE DEF D, r
  <2>. QED
    BY <2>1, <2>2, TaskFacts DEF TaskType
<1>7. Progress(id, task'[id], revision, disk')
  BY <1>1, <1>3, <1>5, TaskFacts DEF Progress
<1>. QED
  BY <1>1, <1>3, <1>4, <1>6, <1>7, WorkerInv

\* A repository that ends with an error has no documents in its record.
LEMMA FailedInv ==
    ASSUME IInv, NEW id \in Ids, task[id].stage # "idle",
           NEW status \in Transient \cup Permanent,
           task' = [task EXCEPT ![id] = Failed(status)],
           UNCHANGED <<revision, disk, manifest, running, previous, crashes, fresh>>
    PROVE  IInv'
<1>1. task'[id] = Failed(status)
  BY TaskFacts
<1>2. WorkerMoves(id)
  BY TaskFacts DEF WorkerMoves
<1>3. TaskType(Failed(status))
  BY DEF TaskType, Failed, NoTask, Empty, Statuses
<1>4. status # "ok" /\ status # "none"
  BY DEF Transient, Permanent
<1>5. Progress(id, Failed(status), revision, disk')
  BY <1>4 DEF Progress, Failed, NoTask, Empty
<1>6. Failed(status).stage # "idle"
  BY DEF Failed, NoTask
<1>. QED
  BY <1>1, <1>2, <1>3, <1>5, <1>6, WorkerInv

\* The outcome of one document: the one that was to do is listed, and if it
\* is listed as written it is in the corpus.
LEMMA GotInv ==
    ASSUME IInv, NEW id \in Ids,
           task[id].stage \in {"files", "writing"}, task[id].todo # {},
           NEW status \in Transient \cup Permanent \cup Written,
           NEW content \in Contents \cup {NoContent}, Got(id, status, content),
           WorkerMoves(id),
           \A f \in Files : f # File(id) => disk'[id][f] = disk[id][f],
           status \in Written => content = Content(id) /\ disk'[id][File(id)] = Content(id)
    PROVE  IInv'
<1> DEFINE t == task[id]
           F == File(id)
           R == Hub[Key[id]][t.revision]
           L == [f \in DOMAIN t.files \cup {F} |->
                    IF f = F THEN [status |-> status, content |-> content] ELSE t.files[f]]
           u == task'[id]
<1>1. TaskType(t) /\ Progress(id, t, revision, disk) /\ DOMAIN task = Ids
  BY TaskFacts
<1>2. /\ t.todo \subseteq Files /\ DOMAIN t.files \subseteq Files
      /\ t.files \in [DOMAIN t.files -> FileRecords]
  BY <1>1 DEF TaskType
<1>3. F \in t.todo /\ F \in Files
  BY <1>2, FileIs
<1>4. u = [t EXCEPT !.stage = "files", !.todo = t.todo \ {F}, !.files = L]
  BY <1>1 DEF Got
<1>5. /\ u.stage = "files" /\ u.todo = t.todo \ {F} /\ u.files = L
      /\ u.status = t.status /\ u.revision = t.revision
  BY <1>1, <1>4 DEF TaskType
<1>6. DOMAIN L = DOMAIN t.files \cup {F} /\ L \in [DOMAIN L -> FileRecords]
  <2>1. [status |-> status, content |-> content] \in FileRecords
    BY DEF FileRecords
  <2>. QED
    BY <1>2, <2>1
<1>7. TaskType(u)
  <2> DEFINE T == t.todo \ {F}
  <2>1. T \in SUBSET Files /\ DOMAIN L \subseteq Files
    BY <1>2, <1>3, <1>6
  <2>2. u = [t EXCEPT !.stage = "files", !.todo = T, !.files = L]
    BY <1>4
  <2> HIDE DEF T, L, F, t, u
  <2>. QED
    BY <1>1, <1>6, <2>1, <2>2 DEF TaskType
<1>8. Progress(id, u, revision, disk')
  <2>1. /\ t.revision # 0 /\ t.status = "none"
        /\ t.revision \in DOMAIN Hub[Key[id]] /\ t.revision <= revision[Key[id]]
        /\ DOMAIN t.files \cup t.todo = DOMAIN R
        /\ DOMAIN t.files \cap t.todo = {}
        /\ \A f \in DOMAIN t.files :
              t.files[f].status \in Written =>
                  t.files[f].content = R[f] /\ disk[id][f] = R[f]
    BY <1>1 DEF Progress
  <2>2. DOMAIN L \cup (t.todo \ {F}) = DOMAIN R /\ DOMAIN L \cap (t.todo \ {F}) = {}
    BY <1>3, <1>6, <2>1
  <2>3. ASSUME NEW f \in DOMAIN L, L[f].status \in Written
        PROVE  L[f].content = R[f] /\ disk'[id][f] = R[f]
    <3>1. CASE f = F
      <4>1. L[f] = [status |-> status, content |-> content]
        BY <1>6, <3>1
      <4>2. status \in Written /\ L[f].content = content
        BY <2>3, <4>1
      <4>. QED
        BY <3>1, <4>2 DEF Content
    <3>2. CASE f # F
      <4>1. f \in DOMAIN t.files /\ L[f] = t.files[f] /\ f \in Files
        BY <1>2, <1>6, <3>2
      <4>. QED
        BY <2>1, <2>3, <3>2, <4>1
    <3>. QED
      BY <3>1, <3>2
  <2> HIDE DEF L, F, t, u
  <2>. QED
    BY <1>5, <2>1, <2>2, <2>3 DEF Progress
<1>9. u.stage # "idle"
  BY <1>5
<1> HIDE DEF u
<1>. QED
  BY <1>7, <1>8, <1>9, WorkerInv DEF u

\* The document that is due: the corpus may be given it.
LEMMA ContentFacts ==
    ASSUME IInv, NEW id \in Ids, task[id].stage \in {"files", "writing"}, task[id].todo # {}
    PROVE  /\ File(id) \in Files
           /\ Content(id) \in Contents
           /\ Known(id, Content(id), File(id))
<1> DEFINE t == task[id]
<1>1. /\ t.todo \subseteq Files /\ t.revision # 0
      /\ t.revision \in DOMAIN Hub[Key[id]] /\ t.revision <= revision[Key[id]]
      /\ t.todo \subseteq DOMAIN Hub[Key[id]][t.revision]
  BY TaskFacts DEF TaskType, Progress
<1>2. File(id) \in t.todo
  BY <1>1, FileIs
<1>3. t.revision \in 1..revision[Key[id]]
  BY <1>1, HubFacts, TaskFacts
<1>. QED
  BY <1>1, <1>2, <1>3, HubFacts DEF Content, Known

LEMMA UnchangedInv ==
    ASSUME IInv, NEW id \in Ids, Unchanged(id)
    PROVE  IInv'
<1>1. /\ task[id].stage = "files" /\ task[id].todo # {}
      /\ disk[id][File(id)] = Content(id) /\ Got(id, "unchanged", Content(id))
      /\ UNCHANGED <<revision, disk, manifest, running, previous, crashes, fresh>>
  BY DEF Unchanged
<1>2. WorkerMoves(id)
  BY <1>1, TaskFacts DEF WorkerMoves, Got
<1>3. Content(id) \in Contents /\ "unchanged" \in Written
  BY <1>1, ContentFacts DEF Written
<1>. QED
  BY <1>1, <1>2, <1>3, GotInv

LEMMA PrepareInv ==
    ASSUME IInv, NEW id \in Ids, Prepare(id)
    PROVE  IInv'
<1>1. /\ task[id].stage = "files" /\ task[id].todo # {}
      /\ task' = [task EXCEPT ![id].stage = "writing"]
      /\ UNCHANGED <<revision, disk, manifest, running, previous, crashes, fresh>>
  BY DEF Prepare
<1>2. task'[id] = [task[id] EXCEPT !.stage = "writing"]
  BY <1>1, TaskFacts
<1>3. /\ task'[id].stage = "writing" /\ task'[id].todo = task[id].todo
      /\ task'[id].status = task[id].status /\ task'[id].files = task[id].files
      /\ task'[id].revision = task[id].revision
  BY <1>2, TaskFacts DEF TaskType
<1>4. WorkerMoves(id)
  BY <1>1, TaskFacts DEF WorkerMoves
<1>5. TaskType(task'[id])
  BY <1>2, TaskFacts DEF TaskType
<1>6. Progress(id, task'[id], revision, disk')
  BY <1>1, <1>3, TaskFacts DEF Progress
<1>. QED
  BY <1>1, <1>3, <1>4, <1>5, <1>6, WorkerInv

LEMMA ReplaceInv ==
    ASSUME IInv, NEW id \in Ids, Replace(id)
    PROVE  IInv'
<1> DEFINE status == IF disk[id][File(id)] = NoContent THEN "downloaded" ELSE "updated"
<1>1. /\ task[id].stage = "writing"
      /\ disk' = [disk EXCEPT ![id][File(id)] = Content(id)]
      /\ Got(id, status, Content(id))
      /\ UNCHANGED <<revision, manifest, running, previous, crashes, fresh>>
  BY DEF Replace
<1>2. task[id].todo # {} /\ DOMAIN disk = Ids /\ DOMAIN disk[id] = Files /\ DOMAIN task = Ids
  BY <1>1, TaskFacts DEF Progress
<1>3. File(id) \in Files /\ Content(id) \in Contents /\ Known(id, Content(id), File(id))
  BY <1>1, <1>2, ContentFacts
<1>4. /\ DOMAIN disk' = Ids /\ \A j \in Ids : j # id => disk'[j] = disk[j]
      /\ DOMAIN disk'[id] = Files /\ disk'[id][File(id)] = Content(id)
      /\ \A f \in Files : f # File(id) => disk'[id][f] = disk[id][f]
  BY <1>1, <1>2, <1>3
<1>5. \A f \in Files : disk'[id][f] = disk[id][f] \/ Known(id, disk'[id][f], f)
  BY <1>3, <1>4
<1>6. DOMAIN task' = Ids /\ \A j \in Ids : j # id => task'[j] = task[j]
  BY <1>1, <1>2 DEF Got
<1>7. WorkerMoves(id)
  BY <1>1, <1>4, <1>5, <1>6 DEF WorkerMoves
<1>8. status \in Written
  BY DEF Written
<1> HIDE DEF status
<1>. QED
  BY <1>1, <1>2, <1>3, <1>4, <1>7, <1>8, GotInv

\* A document that fails is listed with its error.
LEMMA ErrorInv ==
    ASSUME IInv, NEW id \in Ids, task[id].stage \in {"files", "writing"}, task[id].todo # {},
           NEW status \in Transient \cup Permanent, Got(id, status, NoContent),
           UNCHANGED <<revision, disk, manifest, running, previous, crashes, fresh>>
    PROVE  IInv'
<1>1. WorkerMoves(id)
  BY TaskFacts DEF WorkerMoves, Got
<1>2. status \notin Written
  BY DEF Transient, Permanent, Written
<1>. QED
  BY <1>1, <1>2, GotInv

LEMMA CloseInv ==
    ASSUME IInv, NEW id \in Ids, Close(id)
    PROVE  IInv'
<1> DEFINE status == IF AllWritten(task[id].files) THEN "ok" ELSE "partial"
<1>1. /\ task[id].stage = "files" /\ task[id].todo = {}
      /\ task' = [task EXCEPT ![id].stage = "done", ![id].status = status]
      /\ UNCHANGED <<revision, disk, manifest, running, previous, crashes, fresh>>
  BY DEF Close
<1>2. task'[id] = [task[id] EXCEPT !.stage = "done", !.status = status]
  BY <1>1, TaskFacts
<1>3. /\ status \in Statuses /\ status # "none"
      /\ status = "ok" => AllWritten(task[id].files)
  BY DEF Statuses
<1> HIDE DEF status
<1>4. /\ task'[id].stage = "done" /\ task'[id].todo = {} /\ task'[id].status = status
      /\ task'[id].files = task[id].files /\ task'[id].revision = task[id].revision
  BY <1>1, <1>2, TaskFacts DEF TaskType
<1>5. WorkerMoves(id)
  BY <1>1, TaskFacts DEF WorkerMoves
<1>6. TaskType(task'[id])
  BY <1>2, <1>3, TaskFacts DEF TaskType
<1>7. Progress(id, task'[id], revision, disk')
  BY <1>1, <1>3, <1>4, TaskFacts DEF Progress
<1>. QED
  BY <1>1, <1>4, <1>5, <1>6, <1>7, WorkerInv

LEMMA FetchInv ==
    ASSUME IInv, NEW id \in Ids, Fetch(id)
    PROVE  IInv'
<1>1. ASSUME LookupFails(id) PROVE IInv'
  <2>1. PICK status \in LookupErrors[id] : task' = [task EXCEPT ![id] = Failed(status)]
    BY <1>1 DEF LookupFails
  <2>2. status \in Transient \cup Permanent /\ task[id].stage # "idle"
    BY <1>1, FetchAssumption DEF LookupFails
  <2>. QED
    BY <1>1, <2>1, <2>2, FailedInv DEF LookupFails
<1>2. ASSUME FileFails(id) PROVE IInv'
  <2>1. PICK status \in FileErrors[id] \ {"error"} : Got(id, status, NoContent)
    BY <1>2 DEF FileFails
  <2>2. status \in Transient \cup Permanent
    BY FetchAssumption
  <2>. QED
    BY <1>2, <2>1, <2>2, ErrorInv DEF FileFails
<1>3. ASSUME ReplaceFails(id) PROVE IInv'
  <2>1. "unsafe_filesystem_path" \in Transient \cup Permanent
    BY DEF Permanent
  <2>2. task[id].stage = "writing" /\ task[id].todo # {}
    BY <1>3, TaskFacts DEF ReplaceFails, Progress
  <2>. QED
    BY <1>3, <2>1, <2>2, ErrorInv DEF ReplaceFails
<1>4. ASSUME FileEscapes(id) PROVE IInv'
  <2>1. "error" \in Transient \cup Permanent /\ task[id].stage # "idle"
    BY <1>4 DEF Transient, FileEscapes
  <2>. QED
    BY <1>4, <2>1, FailedInv DEF FileEscapes
<1>. QED
  BY <1>1, <1>2, <1>3, <1>4, BeginInv, LookupInv, UnchangedInv, PrepareInv, ReplaceInv,
     CloseInv DEF Fetch

-----------------------------------------------------------------------------

(***************************************************************************)
(* The steps of the hub and of the command.                                *)
(***************************************************************************)

\* A new revision leaves what is known of the old ones as it is.
LEMMA PushInv ==
    ASSUME IInv, NEW k \in Keys, Push(k)
    PROVE  IInv'
<1>1. /\ revision[k] + 1 \in DOMAIN Hub[k]
      /\ revision' = [revision EXCEPT ![k] = revision[k] + 1]
      /\ UNCHANGED <<disk, manifest, running, previous, task, crashes, fresh>>
  BY DEF Push
<1>2. revision \in [Keys -> Revisions] /\ HubInv
  BY DEF IInv, TypeOK
<1>3. \A l \in Keys : revision[l] \in Nat
  BY <1>2, FetchAssumption DEF HubInv
<1>4. /\ revision' \in [Keys -> Revisions] /\ HubInv'
      /\ \A l \in Keys : revision'[l] \in Nat /\ revision[l] <= revision'[l]
  <2>1. revision[k] + 1 \in Revisions
    BY <1>1 DEF Revisions
  <2>. QED
    BY <1>1, <1>2, <1>3, <2>1 DEF HubInv
<1>5. TypeOK'
  BY <1>1, <1>4 DEF IInv, TypeOK, IsManifest
<1>6. TasksInv'
  <2> SUFFICES ASSUME NEW id \in Ids PROVE Progress(id, task[id], revision', disk)
    BY <1>1 DEF IInv, TasksInv
  <2>1. Progress(id, task[id], revision, disk)
    BY TaskFacts
  <2>2. task[id].revision # 0 => task[id].revision <= revision'[Key[id]]
    <3>1. \A r \in DOMAIN Hub[Key[id]] : r \in Nat
      BY HubFacts
    <3>. QED
      BY <1>3, <1>4, <2>1, <3>1, HubFacts DEF Progress
  <2>. QED
    BY <2>1, <2>2 DEF Progress
<1>7. RunInv'
  BY <1>1 DEF IInv, RunInv
<1>8. NoTornDocument'
  <2> SUFFICES ASSUME NEW id \in Ids, NEW f \in Files,
                      NEW r \in 1..revision[Key[id]]
               PROVE  r \in 1..revision'[Key[id]]
    BY <1>1 DEF IInv, NoTornDocument
  <2>. QED
    BY <1>3, <1>4, HubFacts
<1>9. RecordsAreTrue' /\ StaleIsRetried'
  BY <1>1 DEF IInv, RecordsAreTrue, RevisionPinned, OkIsWhole, StaleIsRetried, Backed
<1>. QED
  BY <1>4, <1>5, <1>6, <1>7, <1>8, <1>9 DEF IInv

\* What a step keeps that leaves hub, corpus and metadata file alone.
LEMMA SavedKept ==
    ASSUME IInv, UNCHANGED <<revision, disk, manifest>>
    PROVE  HubInv' /\ NoTornDocument' /\ RecordsAreTrue' /\ IsManifest(manifest)'
BY DEF IInv, HubInv, NoTornDocument, RecordsAreTrue, RevisionPinned, OkIsWhole, TypeOK,
       IsManifest

LEMMA EmptyIsManifest == IsManifest(Empty) /\ DOMAIN Empty = {}
BY DEF IsManifest, Empty

LEMMA IdleTask ==
    ASSUME NEW t \in {NoTask, Queued}
    PROVE  TaskType(t) /\ \A id \in Ids : Progress(id, t, revision, disk)
<1>1. /\ t.stage \in {"idle", "queued"} /\ t.status = "none" /\ t.revision = 0
      /\ t.todo = {} /\ t.files = Empty /\ DOMAIN Empty = {}
      /\ t = [stage |-> t.stage, status |-> "none", revision |-> 0, todo |-> {}, files |-> Empty]
  BY DEF Queued, NoTask, Empty
<1>2. Empty \in [{} -> FileRecords]
  BY DEF Empty
<1>3. TaskType(t)
  BY <1>1, <1>2 DEF TaskType
<1>4. \A id \in Ids : Progress(id, t, revision, disk)
  BY <1>1 DEF Progress
<1>. QED
  BY <1>3, <1>4

LEMMA StartInv ==
    ASSUME IInv, NEW ids \in Requests, NEW resume \in ResumeFlags, NEW limit \in Limits,
           Start(ids, resume, limit)
    PROVE  IInv'
<1> DEFINE batch == FirstOf(Pending(ids, previous'), limit)
<1>1. /\ ~running /\ running' = TRUE
      /\ previous' = IF resume THEN manifest ELSE Empty
      /\ task' = [id \in Ids |-> IF id \in batch THEN Queued ELSE NoTask]
      /\ fresh' = (fresh \/ ~resume)
      /\ UNCHANGED <<revision, disk, manifest, crashes>>
  BY DEF Start
<1>2. \A id \in batch : id \in Unique(ids) /\ id \in Ids
                        /\ (Key[id] \in DOMAIN previous' => Retryable(previous'[Key[id]]))
  BY FetchAssumption DEF FirstOf, Pending, Unique
<1> HIDE DEF batch
<1>3. /\ \A id \in Ids : task'[id] \in {NoTask, Queued}
      /\ \A id \in Ids : task'[id].stage # "idle" => id \in batch
      /\ DOMAIN task' = Ids
  BY <1>1 DEF NoTask
<1>4. TypeOK'
  <2>1. \A id \in Ids : TaskType(task'[id])
    BY <1>3, IdleTask
  <2>2. IsManifest(previous)' /\ IsManifest(manifest)'
    BY <1>1, EmptyIsManifest, SavedKept DEF IInv, TypeOK, IsManifest
  <2>3. running' \in BOOLEAN /\ fresh' \in BOOLEAN
    BY <1>1 DEF IInv, TypeOK
  <2>. QED
    BY <1>1, <2>1, <2>2, <2>3 DEF IInv, TypeOK, TaskType
<1>5. TasksInv'
  <2>1. \A id \in Ids : Progress(id, task'[id], revision', disk')
    BY <1>1, <1>3, IdleTask DEF Progress
  <2>2. \A i, j \in batch : Key[i] = Key[j] => i = j
    <3> SUFFICES ASSUME NEW i \in batch, NEW j \in batch, Key[i] = Key[j] PROVE i = j
      OBVIOUS
    <3>1. i \in Ids /\ j \in Ids /\ Order[i] <= Order[j] /\ Order[j] <= Order[i]
      BY <1>2 DEF Unique
    <3>. QED
      BY <3>1, FetchAssumption
  <2>. QED
    BY <1>3, <2>1, <2>2 DEF TasksInv
<1>6. RunInv'
  BY <1>1, <1>2, <1>3, FetchAssumption DEF IInv, RunInv
<1>7. StaleIsRetried'
  BY <1>1 DEF IInv, StaleIsRetried, Backed
<1>. QED
  BY <1>1, <1>4, <1>5, <1>6, <1>7, SavedKept DEF IInv

\* The record of a repository that is done.
RecordOf(id) ==
    [id |-> id, status |-> task[id].status, revision |-> task[id].revision,
     files |-> task[id].files]

LEMMA MergeIs ==
    ASSUME NEW done \in SUBSET Ids, NEW merged, merged = Merge(previous, done)
    PROVE  /\ DOMAIN merged = DOMAIN previous \cup {Key[i] : i \in done}
           /\ \A k \in DOMAIN merged :
                 \/ \E i \in done : Key[i] = k /\ merged[k] = RecordOf(i)
                 \/ k \in DOMAIN previous /\ merged[k] = previous[k]
<1>1. DOMAIN merged = DOMAIN previous \cup {Key[i] : i \in done}
  BY DEF Merge
<1>2. ASSUME NEW k \in DOMAIN merged, NEW j \in done, Key[j] = k
      PROVE  \E i \in done : Key[i] = k /\ merged[k] = RecordOf(i)
  <2> DEFINE i == CHOOSE l \in done : Key[l] = k
  <2>1. i \in done /\ Key[i] = k
    BY <1>2
  <2>2. merged[k] = RecordOf(i)
    BY <1>1, <1>2 DEF Merge, RecordOf
  <2>. QED
    BY <2>1, <2>2
<1>3. ASSUME NEW k \in DOMAIN merged, ~\E i \in done : Key[i] = k
      PROVE  k \in DOMAIN previous /\ merged[k] = previous[k]
  BY <1>1, <1>3 DEF Merge
<1>. QED
  BY <1>1, <1>2, <1>3

\* A record of a repository that is done is true of hub and corpus.
LEMMA RecordIsTrue ==
    ASSUME IInv, NEW id \in Ids, task[id].stage = "done"
    PROVE  /\ Key[id] \in Keys
           /\ DOMAIN RecordOf(id).files \subseteq Files
           /\ RecordOf(id) \in [id : Ids, status : Statuses, revision : Revisions \cup {0},
                                files : [DOMAIN RecordOf(id).files -> FileRecords]]
           /\ RecordOf(id).id = id
           /\ \A f \in DOMAIN RecordOf(id).files :
                 /\ f \in DOMAIN Hub[Key[id]][RecordOf(id).revision]
                 /\ RecordOf(id).files[f].status \in Written =>
                       /\ RecordOf(id).files[f].content = Hub[Key[id]][RecordOf(id).revision][f]
                       /\ disk[id][f] = RecordOf(id).files[f].content
           /\ RecordOf(id).status = "ok" =>
                 /\ DOMAIN RecordOf(id).files = DOMAIN Hub[Key[id]][RecordOf(id).revision]
                 /\ AllWritten(RecordOf(id).files)
<1> DEFINE t == task[id]
<1>1. TaskType(t) /\ Progress(id, t, revision, disk)
  BY TaskFacts
<1>2. /\ RecordOf(id).files = t.files /\ RecordOf(id).status = t.status
      /\ RecordOf(id).revision = t.revision /\ RecordOf(id).id = id
  BY DEF RecordOf
<1>3. Key[id] \in Keys
  BY HubFacts
<1> HIDE DEF t
<1>4. /\ DOMAIN t.files \subseteq Files /\ t.status \in Statuses
      /\ t.revision \in Revisions \cup {0} /\ t.files \in [DOMAIN t.files -> FileRecords]
  BY <1>1 DEF TaskType, Progress, t
<1>5. RecordOf(id) \in [id : Ids, status : Statuses, revision : Revisions \cup {0},
                        files : [DOMAIN RecordOf(id).files -> FileRecords]]
  BY <1>2, <1>4 DEF RecordOf, t
<1>6. ASSUME NEW f \in DOMAIN t.files
      PROVE  /\ f \in DOMAIN Hub[Key[id]][t.revision]
             /\ t.files[f].status \in Written =>
                   t.files[f].content = Hub[Key[id]][t.revision][f]
                   /\ disk[id][f] = t.files[f].content
  BY <1>1, <1>6 DEF Progress
<1>7. t.status = "ok" =>
         DOMAIN t.files = DOMAIN Hub[Key[id]][t.revision] /\ AllWritten(t.files)
  BY <1>1 DEF Progress
<1>. QED
  BY <1>2, <1>3, <1>4, <1>5, <1>6, <1>7

LEMMA SaveInv ==
    ASSUME IInv, Save
    PROVE  IInv'
<1> DEFINE done == InStage({"done"})
<1>1. /\ running /\ InStage({"idle", "done"}) = Ids
      /\ manifest' = Merge(previous, done)
      /\ running' = FALSE /\ previous' = Empty
      /\ task' = [id \in Ids |-> NoTask]
      /\ fresh' = (fresh /\ previous # Empty)
      /\ UNCHANGED <<revision, disk, crashes>>
  BY DEF Save
<1>2. done \subseteq Ids /\ \A id \in done : task[id].stage = "done"
  BY DEF InStage
<1> HIDE DEF done
<1>3. /\ DOMAIN manifest' = DOMAIN previous \cup {Key[i] : i \in done}
      /\ \A k \in DOMAIN manifest' :
            \/ \E i \in done : Key[i] = k /\ manifest'[k] = RecordOf(i)
            \/ k \in DOMAIN previous /\ manifest'[k] = previous[k]
  BY <1>1, <1>2, MergeIs
<1>4. /\ IsManifest(previous)
      /\ \A k \in DOMAIN previous : k \in DOMAIN manifest /\ manifest[k] = previous[k]
  BY EmptyIsManifest DEF IInv, TypeOK, RunInv
<1>5. IsManifest(manifest')
  <2>1. DOMAIN manifest' \subseteq Keys
    BY <1>2, <1>3, <1>4, RecordIsTrue DEF IsManifest
  <2>2. ASSUME NEW k \in DOMAIN manifest'
        PROVE  /\ DOMAIN manifest'[k].files \subseteq Files
               /\ manifest'[k] \in [id : Ids, status : Statuses, revision : Revisions \cup {0},
                                    files : [DOMAIN manifest'[k].files -> FileRecords]]
               /\ Key[manifest'[k].id] = k
    <3>1. CASE \E i \in done : Key[i] = k /\ manifest'[k] = RecordOf(i)
      <4>1. PICK i \in done : Key[i] = k /\ manifest'[k] = RecordOf(i)
        BY <3>1
      <4>2. i \in Ids /\ task[i].stage = "done"
        BY <1>2
      <4>. QED
        BY <4>1, <4>2, RecordIsTrue
    <3>2. CASE k \in DOMAIN previous /\ manifest'[k] = previous[k]
      BY <1>4, <3>2 DEF IsManifest
    <3>. QED
      BY <1>3, <3>1, <3>2
  <2>. QED
    BY <2>1, <2>2 DEF IsManifest
<1>6. \A id \in Ids : task'[id] \in {NoTask, Queued} /\ task'[id].stage = "idle"
  BY <1>1 DEF NoTask
<1>7. TypeOK'
  <2>1. \A id \in Ids : TaskType(task'[id])
    BY <1>6, IdleTask
  <2>2. IsManifest(previous') /\ running' \in BOOLEAN /\ fresh' \in BOOLEAN
    BY <1>1, EmptyIsManifest DEF IInv, TypeOK
  <2>. QED
    BY <1>1, <1>5, <2>1, <2>2 DEF IInv, TypeOK, TaskType
<1>8. TasksInv'
  <2>1. \A id \in Ids : Progress(id, task'[id], revision', disk')
    BY <1>1, <1>6, IdleTask
  <2>. QED
    BY <1>1, <1>6, <2>1 DEF TasksInv
<1>9. RunInv'
  BY <1>1, <1>6 DEF RunInv
<1>10. HubInv' /\ NoTornDocument'
  BY <1>1 DEF IInv, HubInv, NoTornDocument
<1>11. RecordsAreTrue'
  <2>1. ASSUME NEW k \in DOMAIN manifest'
        PROVE  /\ \A f \in DOMAIN manifest'[k].files :
                     /\ f \in DOMAIN Hub[k][manifest'[k].revision]
                     /\ manifest'[k].files[f].status \in Written =>
                           manifest'[k].files[f].content = Hub[k][manifest'[k].revision][f]
               /\ manifest'[k].status = "ok" =>
                     /\ DOMAIN manifest'[k].files = DOMAIN Hub[k][manifest'[k].revision]
                     /\ AllWritten(manifest'[k].files)
    <3>1. CASE \E i \in done : Key[i] = k /\ manifest'[k] = RecordOf(i)
      <4>1. PICK i \in done : Key[i] = k /\ manifest'[k] = RecordOf(i)
        BY <3>1
      <4>2. i \in Ids /\ task[i].stage = "done"
        BY <1>2
      <4>. QED
        BY <4>1, <4>2, RecordIsTrue
    <3>2. CASE k \in DOMAIN previous /\ manifest'[k] = previous[k]
      BY <1>4, <3>2 DEF IInv, RecordsAreTrue, RevisionPinned, OkIsWhole
    <3>. QED
      BY <1>3, <3>1, <3>2
  <2>. QED
    BY <2>1 DEF RecordsAreTrue, RevisionPinned, OkIsWhole
<1>12. StaleIsRetried'
  <2> SUFFICES ASSUME ~fresh', NEW k \in DOMAIN manifest'
               PROVE  \/ Backed(k)' \/ manifest'[k].status \in Transient
                      \/ \E f \in DOMAIN manifest'[k].files :
                            manifest'[k].files[f].status \in Transient
    BY DEF StaleIsRetried
  <2>1. CASE \E i \in done : Key[i] = k /\ manifest'[k] = RecordOf(i)
    <3>1. PICK i \in done : Key[i] = k /\ manifest'[k] = RecordOf(i)
      BY <2>1
    <3>2. i \in Ids /\ task[i].stage = "done"
      BY <1>2
    <3>3. Backed(k)'
      BY <1>1, <3>1, <3>2, RecordIsTrue DEF Backed
    <3>. QED
      BY <3>3
  <2>2. CASE k \in DOMAIN previous /\ manifest'[k] = previous[k]
    <3>1. ~fresh
      BY <1>1, <2>2, EmptyIsManifest
    <3>2. k \in DOMAIN manifest /\ manifest'[k] = manifest[k]
      BY <1>4, <2>2
    <3>3. Backed(k) => Backed(k)'
      BY <1>1, <3>2 DEF Backed
    <3>. QED
      BY <3>1, <3>2, <3>3 DEF IInv, StaleIsRetried
  <2>. QED
    BY <1>3, <2>1, <2>2
<1>. QED
  BY <1>7, <1>8, <1>9, <1>10, <1>11, <1>12 DEF IInv

LEMMA CrashInv ==
    ASSUME IInv, Crash
    PROVE  IInv'
<1>1. /\ crashes < MaxCrashes /\ crashes' = crashes + 1
      /\ running' = FALSE /\ previous' = Empty /\ task' = [id \in Ids |-> NoTask]
      /\ UNCHANGED <<revision, disk, manifest, fresh>>
  BY DEF Crash
<1>2. \A id \in Ids : task'[id] \in {NoTask, Queued} /\ task'[id].stage = "idle"
  BY <1>1 DEF NoTask
<1>3. TypeOK'
  <2>1. \A id \in Ids : TaskType(task'[id])
    BY <1>2, IdleTask
  <2>2. crashes' \in 0..MaxCrashes
    BY <1>1, FetchAssumption DEF IInv, TypeOK
  <2>3. IsManifest(previous') /\ IsManifest(manifest')
    BY <1>1, EmptyIsManifest DEF IInv, TypeOK
  <2>. QED
    BY <1>1, <2>1, <2>2, <2>3 DEF IInv, TypeOK, TaskType
<1>4. TasksInv'
  <2>1. \A id \in Ids : Progress(id, task'[id], revision', disk')
    BY <1>1, <1>2, IdleTask
  <2>. QED
    BY <1>1, <1>2, <2>1 DEF TasksInv
<1>5. RunInv'
  BY <1>1, <1>2 DEF RunInv
<1>6. StaleIsRetried'
  BY <1>1 DEF IInv, StaleIsRetried, Backed
<1>. QED
  BY <1>1, <1>3, <1>4, <1>5, <1>6, SavedKept DEF IInv

LEMMA StutterInv ==
    ASSUME IInv, UNCHANGED vars
    PROVE  IInv'
<1>1. UNCHANGED <<revision, disk, manifest, running, previous, task, crashes, fresh>>
  BY DEF vars
<1>2. TypeOK' /\ TasksInv' /\ RunInv' /\ StaleIsRetried'
  BY <1>1 DEF IInv, TypeOK, IsManifest, TasksInv, Progress, RunInv, StaleIsRetried, Backed
<1>. QED
  BY <1>1, <1>2, SavedKept DEF IInv

LEMMA Invariance == Spec => []IInv
<1>1. IInv /\ [Next]_vars => IInv'
  <2> SUFFICES ASSUME IInv, [Next]_vars PROVE IInv'
    OBVIOUS
  <2>1. ASSUME NEW k \in Keys, Push(k) PROVE IInv'
    BY <2>1, PushInv
  <2>2. ASSUME NEW ids \in Requests, NEW resume \in ResumeFlags, NEW limit \in Limits,
               Start(ids, resume, limit)
        PROVE  IInv'
    BY <2>2, StartInv
  <2>3. ASSUME NEW id \in Ids, Fetch(id) PROVE IInv'
    BY <2>3, FetchInv
  <2>4. CASE Save
    BY <2>4, SaveInv
  <2>5. CASE Crash
    BY <2>5, CrashInv
  <2>6. CASE UNCHANGED vars
    BY <2>6, StutterInv
  <2>. QED
    BY <2>1, <2>2, <2>3, <2>4, <2>5, <2>6 DEF Next
<1>. QED
  BY <1>1, InitInv, PTL DEF Spec

-----------------------------------------------------------------------------

\* Every document of the corpus is one the hub has had, whole, wherever the
\* tool is killed, and no two workers write to one repository.
THEOREM Whole == Spec => []DocumentsAreWhole
<1>1. IInv => DocumentsAreWhole
  <2> SUFFICES ASSUME IInv PROVE OneWriter
    BY DEF IInv, DocumentsAreWhole
  <2>1. \A id \in Active : id \in Ids /\ task[id].stage # "idle"
    BY DEF Active, InStage
  <2>. QED
    BY <2>1 DEF OneWriter, IInv, TasksInv
<1>. QED
  BY <1>1, Invariance, PTL

\* The records of the metadata file are revision-pinned, and "ok" says that
\* no document of the revision is missing.
THEOREM Recorded == Spec => []RecordsAreTrue
<1>1. IInv => RecordsAreTrue
  BY DEF IInv
<1>. QED
  BY <1>1, Invariance, PTL

\* A record the corpus has gone past is one that --resume fetches again.
THEOREM Retried == Spec => []StaleIsRetried
<1>1. IInv => StaleIsRetried
  BY DEF IInv
<1>. QED
  BY <1>1, Invariance, PTL

\* A command that ends has a record of every repository it was to fetch and
\* keeps those it resumes from.
THEOREM Kept == Spec => CompletedKept
<1>1. ASSUME IInv, [Next]_vars, manifest' # manifest
      PROVE  /\ \A i \in Ids : task[i].stage # "idle" => Key[i] \in DOMAIN manifest'
             /\ \A k \in DOMAIN previous :
                   /\ k \in DOMAIN manifest'
                   /\ \/ manifest'[k] = previous[k]
                      \/ previous[k].status \in Transient
                      \/ \E f \in DOMAIN previous[k].files :
                            previous[k].files[f].status \in Transient
  <2> DEFINE done == InStage({"done"})
  <2>1. InStage({"idle", "done"}) = Ids /\ manifest' = Merge(previous, done)
    BY <1>1 DEF Next, Push, Start, Fetch, Begin, Lookup, LookupFails, Unchanged, Prepare,
       Replace, FileFails, ReplaceFails, FileEscapes, Close, Save, Crash, vars
  <2>2. done \subseteq Ids /\ \A i \in Ids : task[i].stage # "idle" <=> i \in done
    BY <2>1 DEF InStage
  <2> HIDE DEF done
  <2>3. /\ DOMAIN manifest' = DOMAIN previous \cup {Key[i] : i \in done}
        /\ \A k \in DOMAIN manifest' :
              \/ \E i \in done : Key[i] = k /\ manifest'[k] = RecordOf(i)
              \/ k \in DOMAIN previous /\ manifest'[k] = previous[k]
    BY <1>1, <2>1, <2>2, MergeIs
  <2>4. \A i \in Ids : task[i].stage # "idle" => Key[i] \in DOMAIN manifest'
    BY <2>2, <2>3
  <2>5. ASSUME NEW k \in DOMAIN previous, manifest'[k] # previous[k]
        PROVE  \/ previous[k].status \in Transient
               \/ \E f \in DOMAIN previous[k].files :
                     previous[k].files[f].status \in Transient
    <3>1. PICK i \in done : Key[i] = k
      BY <2>3, <2>5
    <3>2. Retryable(previous[k])
      BY <1>1, <2>2, <3>1 DEF IInv, RunInv
    <3>. QED
      BY <3>2, RetryableIs
  <2>. QED
    BY <2>3, <2>4, <2>5
<1>. QED
  BY <1>1, Invariance, PTL DEF CompletedKept, Spec
=============================================================================
