------------------------------ MODULE Manifest ------------------------------
(***************************************************************************)
(* The compatibility manifest (manifest.rs): what is written of a          *)
(* repository, and what the reader accepts.  A repository is filled,       *)
(* member by member of its root documents; its manifest is written as      *)
(* JSON; somebody may edit that JSON; it is read.                          *)
(*                                                                         *)
(* The JSON of a manifest is a record.  `repeated` says that an object in  *)
(* it repeats a member, `malformed` that a field is missing or has a wrong *)
(* type, and `unknown` holds the fields that schema 1 does not have.  A    *)
(* document's kind is the file name it is known by.  Lists of findings are *)
(* never full here: module Diagnostics has that case.                      *)
(***************************************************************************)
EXTENDS Normalization

CONSTANTS
    Members,        \* what may be added to a root: <<path, name, value>>
    OtherDocuments, \* paths of documents that are not roots
    Reports,        \* findings about a repository with a root
    Sizes,          \* path |-> bytes of the document there
    LongTexts,      \* strings over MAX_DIAGNOSTIC_TEXT_BYTES
    MaxSource,      \* MAX_SOURCE_DOCUMENT_BYTES
    MaxFindings,    \* MAX_REPOSITORY_DIAGNOSTICS
    Unknowns,       \* values of a field that schema 1 does not have
    Renames,        \* names and identities an edit may put in
    MaxParts        \* bound of the model: documents, members and findings

ASSUME InputsAssumption ==
    /\ \A m \in Members : m[1] \in {ModelIndexPath, ConfigPath}
    /\ {ModelIndexPath, ConfigPath} \cup OtherDocuments \subseteq Paths
    /\ Sizes \in [Paths -> Nat]
    /\ MaxParts \in Nat /\ MaxSource \in Nat /\ MaxFindings \in Nat \ {0}

\* Members are of a root that the parser accepts; findings have their
\* fields, and none says what only the writer does.
ASSUME MembersAssumption == \A m \in Members : Nested(m[3], MaxNesting - 1)

ASSUME ReportsAssumption ==
    \A f \in Reports :
        /\ f = [level |-> f.level, code |-> f.code, message |-> f.message,
                document_path |-> f.document_path, json_path |-> f.json_path,
                related_path |-> f.related_path]
        /\ f.code # "manifest_sensitive_data_omitted"

\* What components may be called, and the fields of defaults.
Nameable ==
    {m[2] : m \in {m \in Members : m[1] = ModelIndexPath /\ ~Metadata(m[2]) /\ ComponentTuple(m[3])}}
    \cup Renames

NoField == <<"text", <<"vae">>>>

DefaultFields == {Field(name) : name \in Nameable} \cup {NoField}

\* Different strings have different bytes, and a name that is safe has no
\* slash.
ASSUME BytesAssumption ==
    /\ Bytes(<<"components">>) \in Seq(Nat) /\ Bytes(<<"path">>) \in Seq(Nat)
    /\ \A name \in Nameable : SafeName(name) => Slash \notin ToSet(Bytes(name))
    /\ \A name \in Nameable : Bytes(name) \in Seq(Nat)
    /\ \A a, b \in Nameable : Bytes(a) = Bytes(b) => a = b
    /\ \A field \in DefaultFields : FieldBytes(field) \in Seq(Nat)
    /\ \A f, g \in DefaultFields : FieldBytes(f) = FieldBytes(g) => f = g

VARIABLES
    stage,      \* "filling", "written", "refused" or "read"
    documents,  \* the repository's documents, by path
    findings,   \* what its validation reports of them
    manifest,   \* the manifest of the repository, once it is written
    wire,       \* its JSON, perhaps edited
    edited,     \* was it edited?
    answer      \* what the reader says: <<"ok", manifest>> or <<"error", kind>>

vars == <<stage, documents, findings, manifest, wire, edited, answer>>

\* One order for all lists of the same findings: the comparison looks at
\* every field.
Sorted(list) ==
    LET places == 1..Len(list)
    IN  CHOOSE s \in {[i \in places |-> list[p[i]]] : p \in Bijection(places, places)} : TRUE

DocumentPaths(list) == {list[i].path : i \in 1..Len(list)}
ByPath(c, d)        == Order[c.path] < Order[d.path]

-----------------------------------------------------------------------------
(***************************************************************************)
(* Writing: CompatibilityManifest::from_repository.                        *)
(***************************************************************************)

Finding(level, code, path) ==
    [level |-> level, code |-> code, message |-> <<code>>,
     document_path |-> path, json_path |-> None, related_path |-> None]

OmittedFinding(path) == Finding("warning", "manifest_sensitive_data_omitted", Some(path))

RedactedMessage == <<"redacted">>

\* What stands in for sensitive text is not sensitive, nor is what is written
\* of every default.
ASSUME MarkersAssumption ==
    /\ ~SensitiveMessage(Redacted) /\ ~SensitiveMessage(RedactedMessage)
    /\ ~SensitivePath(<<<<"components">>, <<"path">>>>) /\ ~SensitiveMessage(DefaultRule)

Unless(sensitive, option) == IF sensitive THEN None ELSE option

\* Mutant of RedactFinding: a message stays when only a path goes.
RedactFindingFields(f) ==
    LET document == Of(f.document_path, SensitivePath)
        related  == Of(f.related_path, SensitivePath)
        pointer  == Of(f.json_path, SensitivePointer)
    IN  [f EXCEPT
            !.document_path = Unless(document, @),
            !.related_path  = Unless(related, @),
            !.json_path     = Unless(pointer, @)]

\* A finding loses the locations that are sensitive, and its message with
\* them or for itself.
RedactFinding(f) ==
    LET document == Of(f.document_path, SensitivePath)
        related  == Of(f.related_path, SensitivePath)
        pointer  == Of(f.json_path, SensitivePointer)
    IN  [f EXCEPT
            !.document_path = Unless(document, @),
            !.related_path  = Unless(related, @),
            !.json_path     = Unless(pointer, @),
            !.message       =
                IF document \/ related \/ pointer \/ SensitiveMessage(@)
                THEN RedactedMessage ELSE @]

Recorded(path) ==
    [path |-> path, kind |-> Name(path), digest |-> "hex", size |-> Sizes[path]]

\* The findings of validate_repository: what normalization says, and more.
NormalizationFinding ==
    LET outcome == Normalize(documents)
    IN  IF outcome[1] = "ok" THEN <<>>
        ELSE <<Finding("error", outcome[2], RootPath(documents))>>

FromRepository ==
    LET outcome    == Normalize(documents)
        normalized == IF outcome[1] = "ok" THEN ManifestSafe(outcome[2]) ELSE None
        omitted    == IF outcome[1] = "ok" /\ normalized = None
                      THEN <<OmittedFinding(outcome[2].source_path)>> ELSE <<>>
        all        == NormalizationFinding \o findings \o omitted
    IN  IF \E path \in DOMAIN documents : SensitivePath(path)
        THEN <<"error", "ManifestSensitivePath">>
        ELSE <<"ok",
               [documents   |-> InOrder({Recorded(path) : path \in DOMAIN documents}, ByPath),
                normalized  |-> normalized,
                diagnostics |-> Sorted([i \in 1..Len(all) |-> RedactFinding(all[i])])]>>

\* The codes of what is found on the way to a manifest.
WriterCodes ==
    {"MissingRootConfig", "DuplicateKeys", "ExpectedObject", "MissingArchitecture",
     "manifest_sensitive_data_omitted"}

\* to_json_pretty
Profile == <<"dinoml-v1">>

ToWire(m) ==
    [repeated |-> FALSE, malformed |-> FALSE, unknown |-> Null,
     schema_version |-> 1, normalization_profile |-> Profile,
     documents |-> m.documents, normalized |-> m.normalized, diagnostics |-> m.diagnostics]

-----------------------------------------------------------------------------
(***************************************************************************)
(* Reading: CompatibilityManifest::from_json.  A check is the kind of its  *)
(* error, or "ok"; of several checks the first that fails counts.          *)
(***************************************************************************)

Check(refused, kind) == IF refused THEN kind ELSE "ok"

First(checks) ==
    LET failed == {i \in 1..Len(checks) : checks[i] # "ok"}
    IN  IF failed = {} THEN "ok" ELSE checks[Min(failed)]

\* Every string of a list, judged one by one.
Each(list, Test(_)) == \E i \in 1..Len(list) : Test(list[i])

SensitiveTask(task) == task[1] = "other" /\ SensitiveMessage(task[2])

SensitiveComponentTexts(c) ==
    \/ SensitiveMessage(c.name)
    \/ Of(c.path, SensitivePathText)
    \/ Of(c.library, SensitiveMessage)
    \/ Of(c.architecture, SensitiveMessage)

SensitiveValue(value) ==
    \/ \E name \in Names(value) : SensitiveKey(name) \/ SensitiveMessage(name)
    \/ \E string \in Strings(value) : SensitiveMessage(string)

SensitiveDefaultTexts(d) ==
    SensitivePointer(d.field) \/ SensitiveValue(d.value) \/ SensitiveMessage(d.rule)

SensitiveConfigTexts(n) ==
    \/ SensitivePathText(n.source_path)
    \/ SensitiveMessage(n.architecture)
    \/ Of(n.model_type, SensitiveMessage)
    \/ Of(n.transformers_version, SensitiveMessage)
    \/ Of(n.diffusers_version, SensitiveMessage)
    \/ Of(n.task, SensitiveTask)
    \/ Each(n.components, SensitiveComponentTexts)
    \/ SensitiveValue(Object(n.extra))
    \/ Each(n.applied_defaults, SensitiveDefaultTexts)

SensitiveFindingTexts(f) ==
    \/ SensitiveMessage(f.message)
    \/ Of(f.document_path, SensitivePathText)
    \/ Of(f.json_path, SensitivePointer)
    \/ Of(f.related_path, SensitivePathText)

\* json_scan::duplicate_keys on the whole text: every name and every string
\* in it, wherever it is, but the two places where a pointer is expected.
SensitiveScan(w) ==
    \/ SensitiveMessage(w.normalization_profile)
    \/ \E path \in DocumentPaths(w.documents) : SensitivePathText(path)
    \/ Of(w.normalized, SensitiveConfigTexts)
    \/ Each(w.diagnostics, SensitiveFindingTexts)
    \/ SensitiveValue(w.unknown)

\* parse_manifest_wire, validate_normalization_profile
TextCheck(w) ==
    First(<<Check(SensitiveScan(w), "SensitiveContent"),
            Check(w.repeated, "DuplicateObjectMember"),
            Check(w.schema_version # 1, "UnsupportedSchemaVersion"),
            Check(w.normalization_profile = <<>>, "InvalidNormalizationProfile"),
            Check(w.normalization_profile # Profile, "UnsupportedNormalizationProfile"),
            Check(w.malformed, "Json")>>)

PathCheck(option, kind) ==
    IF option = None THEN "ok"
    ELSE First(<<Check(SensitivePath(option[1]), "SensitiveContent"),
                 Check(~Portable(option[1]), kind)>>)

\* into_wire: diagnostic_from_wire, normalized_from_wire, component_from_wire
ConversionCheck(w) ==
    First([i \in 1..Len(w.diagnostics) |->
              First(<<PathCheck(w.diagnostics[i].document_path, "InvalidDiagnosticPath"),
                      PathCheck(w.diagnostics[i].related_path, "InvalidDiagnosticPath")>>)]
          \o
          IF w.normalized = None THEN <<>>
          ELSE <<PathCheck(Some(w.normalized[1].source_path), "InvalidNormalizedSourcePath")>>
               \o [i \in 1..Len(w.normalized[1].components) |->
                      PathCheck(w.normalized[1].components[i].path, "InvalidDinomlV1Normalization")])

\* expected_diagnostic_level, for the codes the model has
ExpectedLevel(code) ==
    CASE code \in {"MissingRootConfig", "DuplicateKeys", "ExpectedObject",
                   "MissingArchitecture", "missing_component_directory"}     -> Some("error")
      [] code \in {"symlink_skipped", "manifest_sensitive_data_omitted"}     -> Some("warning")
      [] OTHER                                                               -> None

LongPointer(pointer) ==
    IF pointer[1] = "text" THEN pointer[2] \in LongTexts
    ELSE \E i \in 1..Len(pointer[2]) : pointer[2][i] \in LongTexts
NotPointer(pointer)  == pointer[1] = "text"

\* validate_manifest_diagnostic
FindingCheck(f) ==
    First(<<Check(f.message \in LongTexts, "DiagnosticTextTooLarge"),
            Check(Of(f.json_path, LongPointer), "DiagnosticTextTooLarge"),
            Check(Of(f.json_path, NotPointer), "InvalidDiagnosticJsonPointer"),
            Check(ExpectedLevel(f.code) # None /\ ExpectedLevel(f.code) # Some(f.level),
                  "InvalidDiagnosticLevel")>>)

SensitiveFinding(f) ==
    \/ SensitiveMessage(f.message)
    \/ Of(f.document_path, SensitivePath)
    \/ Of(f.related_path, SensitivePath)
    \/ Of(f.json_path, SensitivePointer)

\* Findings are made with the levels of their codes, cut to fit, and of paths
\* that are portable; names that are safe are shorter than any limit.
ASSUME LimitsKept ==
    /\ \A f \in Reports :
          /\ ExpectedLevel(f.code) \in {None, Some(f.level)}
          /\ f.message \notin LongTexts
          /\ ~Of(f.json_path, LongPointer) /\ ~Of(f.json_path, NotPointer)
          /\ f.related_path = None \/ Portable(f.related_path[1])
    /\ LongTexts \cap ({DefaultRule, <<"components">>, <<"path">>, RedactedMessage}
                       \cup {<<code>> : code \in WriterCodes}) = {}
    /\ \A name \in Nameable : SafeName(name) => name \notin LongTexts

LongDefault(d) == LongPointer(d.field) \/ d.rule \in LongTexts

\* validate_manifest_wire
WireCheck(w) ==
    First(<<Check(Len(w.documents) > MaxDocuments, "DocumentLimit"),
            Check(Len(w.diagnostics) > MaxFindings, "DiagnosticLimit"),
            First([i \in 1..Len(w.diagnostics) |-> FindingCheck(w.diagnostics[i])]),
            Check(w.normalized # None /\ Each(w.normalized[1].applied_defaults, LongDefault),
                  "NormalizedTextTooLarge"),
            Check(\/ w.normalized # None /\ ~ManifestIsSafe(w.normalized[1])
                  \/ Each(w.diagnostics, SensitiveFinding),
                  "SensitiveContent")>>)

\* validate_manifest_document and the limits, for the i-th document
DocumentCheck(list, i) ==
    LET d       == list[i]
        parents == UNION {Ancestors(list[j].path) : j \in 1..i}
    IN  First(<<Check(SensitivePath(d.path), "SensitiveContent"),
                Check(~Portable(d.path), "UnsafeDocumentPath"),
                Check(d.size > MaxSource, "DocumentSourceTooLarge"),
                Check(~Recognized(d.path), "UnsupportedDocumentPath"),
                Check(d.kind # Name(d.path), "DocumentKindMismatch"),
                Check(\E j \in 1..i - 1 : list[j].path = d.path, "DuplicateDocumentPath"),
                Check(d.digest # "hex", "InvalidDocumentDigest"),
                Check(TotalBytes(SubSeq(list, 1, i)) > MaxBytes, "AggregateDocumentBytesLimit"),
                Check(Len(list) + Cardinality(parents) > MaxEntries, "RepositoryEntryLimit")>>)

\* validate_manifest_documents
DocumentsCheck(list) ==
    LET paths == DocumentPaths(list)
    IN  First([i \in 1..Len(list) |-> DocumentCheck(list, i)]
              \o <<Check(Collides(paths, UNION {Ancestors(p) : p \in paths}),
                         "NonPortableDocumentPaths")>>)

\* canonicalize_normalized
OrderCheck(n) ==
    First(<<Check(\E i, j \in 1..Len(n.components) :
                     i # j /\ n.components[i].name = n.components[j].name,
                  "DuplicateNormalizedComponentName"),
            Check(\E i, j \in 1..Len(n.applied_defaults) :
                     i # j /\ n.applied_defaults[i].field = n.applied_defaults[j].field,
                  "DuplicateAppliedDefaultField")>>)

\* Mutant of Canonical: the defaults stay as they are.
CanonicalComponents(n) ==
    [n EXCEPT !.components = InOrder(ToSet(@), ByName)]

Canonical(n) ==
    [n EXCEPT !.components       = InOrder(ToSet(@), ByName),
              !.applied_defaults = InOrder(ToSet(@), ByField)]

\* The scalar part of validate_dinoml_v1_normalized.
ScalarsPossible(n) ==
    /\ n.model_type # Some(<<>>)
    /\ n.transformers_version # Some(<<>>)
    /\ n.diffusers_version # Some(<<>>)
    /\ ~ (n.task # None /\ n.task[1][1] = "other" /\ n.task[1][2] \in KnownTasks \cup {<<>>})
    /\ n.architecture_source = "config_model_type" => n.model_type = Some(n.architecture)
    /\ n.model_type # None => <<"model_type">> \notin DOMAIN n.extra
    /\ n.transformers_version # None => <<"transformers_version">> \notin DOMAIN n.extra
    /\ n.diffusers_version # None => <<"_diffusers_version">> \notin DOMAIN n.extra
    /\ n.architecture_source \in {"model_index_class_name", "config_class_name"} =>
          <<"_class_name">> \notin DOMAIN n.extra

ComponentPossible(c, extra) ==
    /\ ~Metadata(c.name) /\ c.name \notin DOMAIN extra
    /\ IF c.optional
       THEN c.path = None /\ c.library = None /\ c.architecture = None /\ ~c.requires_code
       ELSE /\ c.architecture # None
            /\ c.requires_code <=> c.library = None
            /\ c.path = PathOf(c.name)

\* Mutant of DefaultsPossible: surplus defaults are accepted.
DefaultsPossibleSurplus(n) ==
    LET list    == n.components
        derived == AtPlaces(list, {i \in 1..Len(list) : ~list[i].optional /\ SafeName(list[i].name)})
    IN  /\ Len(derived) <= Len(n.applied_defaults)
        /\ \A i \in 1..Len(derived) : n.applied_defaults[i] = Default(derived[i].name)

\* The defaults are those of the components, one by one in their orders.
DefaultsPossible(n) ==
    LET list    == n.components
        derived == AtPlaces(list, {i \in 1..Len(list) : ~list[i].optional /\ SafeName(list[i].name)})
    IN  /\ Len(derived) = Len(n.applied_defaults)
        /\ \A i \in 1..Len(derived) : n.applied_defaults[i] = Default(derived[i].name)

\* validate_dinoml_v1_normalized, for the kind of the source document
Possible(n, kind) ==
    /\ ScalarsPossible(n)
    /\ IF kind = <<"config.json">>
       THEN n.components = <<>> /\ n.applied_defaults = <<>>
       ELSE /\ \A name \in DOMAIN n.extra : Metadata(name) \/ ~ComponentTuple(n.extra[name])
            /\ \A c \in ToSet(n.components) : ComponentPossible(c, n.extra)
            /\ DefaultsPossible(n)

\* validate_manifest_relationships
RelationCheck(w, n) ==
    LET paths   == DocumentPaths(w.documents)
        outside == Each(w.diagnostics, LAMBDA f : f.document_path # None /\ f.document_path[1] \notin paths)
        kind    == IF n = None THEN <<>> ELSE Name(n[1].source_path)
        sources == IF kind = <<"config.json">>
                   THEN {"config_architectures", "config_class_name", "config_model_type"}
                   ELSE {"model_index_class_name"}
    IN  IF outside THEN "MissingDiagnosticSourceDocument"
        ELSE IF n = None THEN "ok"
        ELSE First(<<Check(n[1].source_path \notin paths, "MissingNormalizedSourceDocument"),
                     Check(kind \notin {<<"config.json">>, <<"model_index.json">>},
                           "InvalidNormalizedSourceKind"),
                     Check(Len(n[1].source_path) # 1, "InvalidNormalizedSourcePath"),
                     Check(n[1].architecture = <<>>, "InvalidNormalizedArchitecture"),
                     Check(kind = <<"config.json">> /\ ModelIndexPath \in paths,
                           "NormalizedSourcePrecedenceMismatch"),
                     Check(n[1].architecture_source \notin sources, "ArchitectureSourceMismatch"),
                     Check(~Possible(n[1], kind), "InvalidDinomlV1Normalization")>>)

\* CompatibilityManifest::from_json
FromJson(w) ==
    LET early == First(<<TextCheck(w), ConversionCheck(w), WireCheck(w), DocumentsCheck(w.documents),
                         IF w.normalized = None THEN "ok" ELSE OrderCheck(w.normalized[1])>>)
        n     == IF w.normalized = None THEN None ELSE Some(Canonical(w.normalized[1]))
        check == IF early # "ok" THEN early ELSE RelationCheck(w, n)
    IN  IF check # "ok" THEN <<"error", check>>
        ELSE <<"ok", [documents   |-> InOrder(ToSet(w.documents), ByPath),
                      normalized  |-> n,
                      diagnostics |-> Sorted(w.diagnostics)]>>

-----------------------------------------------------------------------------

Empty == [json |-> Object(<<>>), repeated |-> FALSE]

Roots == {ModelIndexPath, ConfigPath} \cap DOMAIN documents

RootMembers(root) ==
    IF documents[root].json[1] = "object" THEN DOMAIN documents[root].json[2] ELSE {}

Parts ==
    /\ stage = "filling"
    /\ Cardinality(DOMAIN documents) + Len(findings)
          + Cardinality(UNION {{<<root, name>> : name \in RootMembers(root)} : root \in Roots})
       < MaxParts
    /\ UNCHANGED <<stage, manifest, wire, edited, answer>>

Init ==
    /\ stage = "filling"
    /\ documents = <<>> /\ findings = <<>>
    /\ manifest = <<>> /\ wire = <<>> /\ edited = FALSE /\ answer = <<>>

\* What is constructed of a repository with such documents keeps its limits,
\* whichever files it has besides (module Snapshot).
Constructible(paths) ==
    LET parents == UNION {Ancestors(path) : path \in paths}
    IN  /\ \A path \in paths : Portable(path) /\ Recognized(path) /\ Sizes[path] <= MaxSource
        /\ ~Collides(paths, parents)
        /\ EntryCount(paths, parents) <= MaxEntries
        /\ Cardinality(paths) <= MaxDocuments
        /\ TotalBytes(InOrder({Recorded(path) : path \in paths}, ByPath)) <= MaxBytes

AddDocument(path) ==
    /\ Parts
    /\ path \notin DOMAIN documents
    /\ Constructible(DOMAIN documents \cup {path})
    /\ documents' = With(documents, path, Empty)
    /\ UNCHANGED findings

AddMember(root, name, value) ==
    /\ Parts
    /\ root \in Roots /\ documents[root].json[1] = "object"
    /\ name \notin RootMembers(root)
    /\ documents' = [documents EXCEPT ![root].json = Object(With(@[2], name, value))]
    /\ UNCHANGED findings

\* A root that is no object, or that repeats a member.
Spoil(root, spoiled) ==
    /\ Parts
    /\ root \in Roots
    /\ documents' = [documents EXCEPT ![root] =
          IF spoiled THEN [json |-> Null, repeated |-> FALSE] ELSE [@ EXCEPT !.repeated = TRUE]]
    /\ UNCHANGED findings

\* Validation reports documents of the repository, in a list that has room
\* for what normalization and the manifest add (bound of the model).
Report(f) ==
    /\ Parts
    /\ Len(findings) < MaxFindings - 1
    /\ Of(f.document_path, LAMBDA path : path \in DOMAIN documents) \/ f.document_path = None
    /\ findings' = Append(findings, f)
    /\ UNCHANGED documents

Write ==
    /\ stage = "filling"
    /\ LET outcome == FromRepository
       IN  IF outcome[1] = "ok"
           THEN /\ stage' = "written"
                /\ manifest' = outcome[2]
                /\ wire' = ToWire(outcome[2])
           ELSE stage' = "refused" /\ UNCHANGED <<manifest, wire>>
    /\ UNCHANGED <<documents, findings, edited, answer>>

Read ==
    /\ stage = "written"
    /\ stage' = "read"
    /\ answer' = FromJson(wire)
    /\ UNCHANGED <<documents, findings, manifest, wire, edited>>

(***************************************************************************)
(* What may happen to the text between the two: a member or an element is  *)
(* changed, removed or repeated, and lists change their order.             *)
(***************************************************************************)
Backwards(n) == [n EXCEPT !.components = Reverse(@), !.applied_defaults = Reverse(@)]

Reversed(w) ==
    [w EXCEPT
        !.documents   = Reverse(@),
        !.diagnostics = Reverse(@),
        !.normalized  = IF @ = None THEN None ELSE Some(Backwards(@[1]))]

Put(w) ==
    /\ stage = "written" /\ ~edited
    /\ edited' = TRUE
    /\ wire' \in {w, Reversed(w)}
    /\ UNCHANGED <<stage, documents, findings, manifest, answer>>

\* A list without its i-th element, with it twice, or with others there.
Changed(list, i, others) ==
    {RemoveAt(list, i), Append(list, list[i])} \cup {[list EXCEPT ![i] = x] : x \in others}

EditEnvelope ==
    \/ Put(wire)
    \/ Put([wire EXCEPT !.repeated = TRUE])
    \/ Put([wire EXCEPT !.malformed = TRUE])
    \/ Put([wire EXCEPT !.schema_version = 2])
    \/ \E profile \in {<<>>, <<"dinoml-v2">>} : Put([wire EXCEPT !.normalization_profile = profile])
    \/ \E value \in Unknowns : Put([wire EXCEPT !.unknown = value])

EditDocument(i) ==
    LET d == wire.documents[i]
        others == {[d EXCEPT !.kind = <<"tokenizer_config.json">>], [d EXCEPT !.digest = "upper"],
                   [d EXCEPT !.size = MaxSource + 1], [d EXCEPT !.size = MaxSource]}
                  \cup {[d EXCEPT !.path = p, !.kind = Name(p)] : p \in Paths}
    IN  \E list \in Changed(wire.documents, i, others) : Put([wire EXCEPT !.documents = list])

EditFinding(i) ==
    LET f == wire.diagnostics[i]
        others == {[f EXCEPT !.level = "info"], [f EXCEPT !.code = "unknown", !.level = "info"]}
                  \cup {[f EXCEPT !.message = text] : text \in Renames \cup LongTexts}
                  \cup {[f EXCEPT !.document_path = Some(p)] : p \in Paths}
                  \cup {[f EXCEPT !.related_path = Some(p)] : p \in Paths}
                  \cup {[f EXCEPT !.json_path = Some(<<form, <<>>>>)] : form \in {"text", "pointer"}}
    IN  \E list \in Changed(wire.diagnostics, i, others) : Put([wire EXCEPT !.diagnostics = list])

PutConfig(n) == Put([wire EXCEPT !.normalized = Some(n)])

EditScalar ==
    LET n == wire.normalized[1]
    IN  \/ Put([wire EXCEPT !.normalized = None])
        \/ \E path \in Paths : PutConfig([n EXCEPT !.source_path = path])
        \/ \E text \in Renames \cup {<<>>} :
              \/ PutConfig([n EXCEPT !.architecture = text])
              \/ PutConfig([n EXCEPT !.model_type = Some(text)])
              \/ PutConfig([n EXCEPT !.task = Some(<<"other", text>>)])
        \/ PutConfig([n EXCEPT !.model_type = None, !.task = None])
        \/ \E source \in {"model_index_class_name", "config_architectures",
                           "config_class_name", "config_model_type"} :
              PutConfig([n EXCEPT !.architecture_source = source])

EditExtra ==
    LET n == wire.normalized[1]
    IN  \/ \E m \in Members : PutConfig([n EXCEPT !.extra = With(@, m[2], m[3])])
        \/ \E name \in DOMAIN n.extra :
              PutConfig([n EXCEPT !.extra = Restrict(@, DOMAIN @ \ {name})])

EditComponent(i) ==
    LET n == wire.normalized[1]
        c == n.components[i]
        others == {[c EXCEPT !.path = None], [c EXCEPT !.library = None],
                   [c EXCEPT !.architecture = None], [c EXCEPT !.optional = ~@],
                   [c EXCEPT !.requires_code = ~@]}
                  \cup {[c EXCEPT !.name = name] : name \in Renames}
                  \cup {[c EXCEPT !.name = name, !.path = Some(<<name>>)] : name \in Renames}
    IN  \E list \in Changed(n.components, i, others) : PutConfig([n EXCEPT !.components = list])

EditDefault(i) ==
    LET n == wire.normalized[1]
        d == n.applied_defaults[i]
        others == {[d EXCEPT !.rule = <<"other">>], [d EXCEPT !.value = Null],
                   [d EXCEPT !.field = NoField]}
                  \cup {Default(name) : name \in Renames}
    IN  \E list \in Changed(n.applied_defaults, i, others) :
            PutConfig([n EXCEPT !.applied_defaults = list])

Edit ==
    /\ stage = "written" /\ ~edited
    /\ \/ EditEnvelope
       \/ \E i \in 1..Len(wire.documents) : EditDocument(i)
       \/ \E i \in 1..Len(wire.diagnostics) : EditFinding(i)
       \/ /\ wire.normalized # None
          /\ \/ EditScalar
             \/ EditExtra
             \/ \E i \in 1..Len(wire.normalized[1].components) : EditComponent(i)
             \/ \E i \in 1..Len(wire.normalized[1].applied_defaults) : EditDefault(i)

Ended == stage \in {"refused", "read"} /\ UNCHANGED vars

Next ==
    \/ \E path \in {ModelIndexPath, ConfigPath} \cup OtherDocuments : AddDocument(path)
    \/ \E m \in Members : AddMember(m[1], m[2], m[3])
    \/ \E root \in {ModelIndexPath, ConfigPath}, spoiled \in BOOLEAN : Spoil(root, spoiled)
    \/ \E f \in Reports : Report(f)
    \/ Write
    \/ Edit
    \/ Read
    \/ Ended

Spec == Init /\ [][Next]_vars

-----------------------------------------------------------------------------

\* The variables have their types.
TypeOK ==
    /\ stage \in {"filling", "written", "refused", "read"}
    /\ DOMAIN documents \subseteq Paths
    /\ \A path \in DOMAIN documents : documents[path].repeated \in BOOLEAN
    /\ \A i \in 1..Len(findings) : findings[i] \in Reports
    /\ edited \in BOOLEAN
    /\ stage \in {"written", "read"} =>
          \A n \in ToSet(manifest.normalized) : \A c \in ToSet(n.components) :
              c.path = None \/ Portable(c.path[1])
    /\ stage = "read" => answer[1] \in {"ok", "error"}

Written  == stage \in {"written", "read"}
Accepted == stage = "read" /\ answer[1] = "ok"
Own      == stage = "read" /\ ~edited

\* Two components whose names compare as their fields do not: one name goes
\* on where the other ends, with a byte below the slash.
Misordered(n) ==
    \E i, j \in 1..Len(n.applied_defaults) :
        LET short == Bytes(n.applied_defaults[i].value[2])
            long  == Bytes(n.applied_defaults[j].value[2])
        IN  IsStrictPrefix(short, long) /\ long[Len(short) + 1] < Slash

\* A manifest the crate wrote is read back as what it was.  It is refused
\* only when two components are misordered, or when the reader, which
\* searches every word of every string and whole paths, finds what the
\* writer, which looks at identities and segments as they begin, does not.
OwnManifestIsRead ==
    Own =>
        IF SensitiveScan(wire) THEN answer = <<"error", "SensitiveContent">>
        ELSE IF manifest.normalized # None /\ Misordered(manifest.normalized[1])
        THEN answer = <<"error", "InvalidDinomlV1Normalization">>
        ELSE answer = <<"ok", manifest>>

\* A reader that reports InvalidDinomlV1Normalization has a record that the
\* rules cannot produce: never one the crate has just produced by them.
InvalidMeansImpossible ==
    Own => answer # <<"error", "InvalidDinomlV1Normalization">>

Values(n) ==
    {n.extra[name] : name \in DOMAIN n.extra}
    \cup {n.applied_defaults[i].value : i \in 1..Len(n.applied_defaults)}

\* What is written of the root's members, of findings and of components
\* holds no secret: no string begins as or contains one, no member has the
\* name of one, however deep, and no message quotes one.
NothingSensitiveIsWritten ==
    Written =>
        /\ \A i \in 1..Len(manifest.diagnostics) :
              LET f == manifest.diagnostics[i]
              IN  ~SensitiveMessage(f.message) /\ ~Of(f.related_path, SensitivePath)
        /\ Of(manifest.normalized, LAMBDA n :
              /\ DOMAIN n.extra \cap {name \in DOMAIN n.extra : SensitiveKey(name)} = {}
              /\ \A value \in Values(n) :
                    /\ \A string \in Strings(value) : ~SensitiveMessage(string)
                    /\ \A name \in Names(value) : ~SensitiveKey(name)
              /\ \A i \in 1..Len(n.components) :
                    LET c == n.components[i]
                    IN  \A text \in {c.name} \cup ToSet(c.library) \cup ToSet(c.architecture) :
                            ~SensitiveText(text))
           \/ manifest.normalized = None

\* What stands in the same place of a value and of what is shown of it.
Beside(value, shown) ==
    CASE value[1] = "list"   -> {<<value[2][i], shown[2][i]>> : i \in 1..Len(value[2])}
      [] value[1] = "object" -> {<<value[2][name], shown[2][name]>> : name \in Showable(value[2])}
      [] OTHER               -> {}

\* All of a value that may be shown of it, what is in it aside.
ShownAs(value, shown) ==
    CASE value[1] = "text"   -> shown = value \/ SensitiveMessage(value[2])
      [] value[1] = "list"   -> shown[1] = "list" /\ Len(shown[2]) = Len(value[2])
      [] value[1] = "object" -> shown[1] = "object" /\ Showable(value[2]) \subseteq DOMAIN shown[2]
      [] OTHER               -> shown = value

\* Whether `shown` is `value` with nothing gone but what is sensitive.
Faithful(value, shown) ==
    LET level[n \in 0..MaxNesting] ==
            IF n = 0 THEN {<<value, shown>>} ELSE UNION {Beside(p[1], p[2]) : p \in level[n - 1]}
    IN  \A n \in 0..MaxNesting : \A p \in level[n] : ShownAs(p[1], p[2])

\* Nothing else is kept from the manifest: every member that is not consumed
\* and whose name may be shown is there, with all of its value that may be.
\* The identity is never redacted in part: it is there as it was, or the
\* whole record is omitted and a finding says so.
NothingElseIsOmitted ==
    (Written /\ Normalize(documents)[1] = "ok") =>
        LET config  == Normalize(documents)[2]
            omitted == \E i \in 1..Len(manifest.diagnostics) :
                          manifest.diagnostics[i].code = "manifest_sensitive_data_omitted"
        IN  IF manifest.normalized = None THEN omitted
            ELSE LET n == manifest.normalized[1]
                 IN  /\ ~omitted
                     /\ n.components = config.components
                     /\ n.architecture = config.architecture /\ n.task = config.task
                     /\ Faithful(Object(config.extra), Object(n.extra))

\* Every finding stays, with its code, and loses its message when any of its
\* locations is withheld: the message may quote it.
FindingsAreKept ==
    Written =>
        \A i \in 1..Len(findings) :
            \E j \in 1..Len(manifest.diagnostics) :
                LET f == findings[i]
                    g == manifest.diagnostics[j]
                IN  /\ g.code = f.code /\ g.level = f.level
                    /\ \/ g = f
                       \/ /\ g.message = RedactedMessage
                          /\ g.document_path \in {None, f.document_path}
                          /\ g.related_path \in {None, f.related_path}

Member(object, name, value) == name \in DOMAIN object /\ object[name] = value

\* Where a member of the root went, if the configuration has no such extra.
Consumed(name, value, n) ==
    \/ name = <<"model_type">> /\ n.model_type = Some(value[2])
    \/ name = <<"transformers_version">> /\ n.transformers_version = Some(value[2])
    \/ name = <<"_diffusers_version">> /\ n.diffusers_version = Some(value[2])
    \/ name = <<"_class_name">> /\ n.architecture = value[2]
    \/ name = <<"architectures">> /\ \E i \in 1..Len(value[2]) : value[2][i] = Text(n.architecture)
    \/ name \in {<<"pipeline_tag">>, <<"task">>} /\ n.task = Some(TaskKind(value[2]))
    \/ \E i \in 1..Len(n.components) :
          n.components[i].name = name /\ n.components[i] = Component(name, value)

\* Normalization loses no member: each is an extra, with its value, or its
\* value is one the configuration has, and never both.
EveryMemberIsAccountedFor ==
    LET outcome == Normalize(documents)
    IN  outcome[1] = "ok" =>
            LET n    == outcome[2]
                root == documents[n.source_path].json[2]
            IN  \A name \in DOMAIN root :
                    \/ Member(n.extra, name, root[name])
                    \/ name \notin DOMAIN n.extra /\ Consumed(name, root[name], n)

\* An index at the root is authoritative, however broken: config.json never
\* stands in for it, in the record that is written and in any that is read.
IndexIsAuthoritative ==
    /\ (Written /\ ModelIndexPath \in DOMAIN documents) =>
          ~Of(manifest.normalized, LAMBDA n : n.source_path # ModelIndexPath)
    /\ (Accepted /\ ModelIndexPath \in DocumentPaths(answer[2].documents)) =>
          ~Of(answer[2].normalized, LAMBDA n : n.source_path # ModelIndexPath)

\* No text with anything sensitive in it is accepted, wherever it stands:
\* in fields of schema 1 or in ones it does not have.
AcceptedIsSafe ==
    Accepted =>
        /\ ~SensitiveScan(wire)
        /\ ~Of(answer[2].normalized, LAMBDA n : ~ManifestIsSafe(n))

\* What is accepted does not depend on the order of the lists in the text,
\* and, written again in any order, is read as the same manifest.
OrderIsIrrelevant ==
    Accepted =>
        /\ FromJson(Reversed(wire)) = answer
        /\ FromJson(Reversed(ToWire(answer[2]))) = answer

\* The root document a record would come from, by its members: a name and a
\* value each.
ExtraMembers(n) == {<<name, n.extra[name]>> : name \in DOMAIN n.extra}

TextMember(name, option) == IF option = None THEN {} ELSE {<<name, Text(option[1])>>}

ClassMember(n) ==
    CASE n.architecture_source = "config_model_type"    -> {}
      [] n.architecture_source = "config_architectures" ->
            {<<<<"architectures">>, List(<<Text(n.architecture)>>)>>}
      [] OTHER -> {<<<<"_class_name">>, Text(n.architecture)>>}

TaskSpelling(task) == IF task[1] = "kind" THEN <<task[2]>> ELSE task[2]

TaskMember(n) ==
    IF n.task = None THEN {}
    ELSE {<<IF <<"pipeline_tag">> \in DOMAIN n.extra THEN <<"task">> ELSE <<"pipeline_tag">>,
            Text(TaskSpelling(n.task[1]))>>}

TextOrNull(option) == IF option = None THEN Null ELSE Text(option[1])

PartMembers(n) ==
    {<<c.name, List(<<TextOrNull(c.library), TextOrNull(c.architecture)>>)>> : c \in ToSet(n.components)}

ScalarMembers(n) ==
    ClassMember(n) \cup TaskMember(n)
    \cup TextMember(<<"model_type">>, n.model_type)
    \cup TextMember(<<"transformers_version">>, n.transformers_version)
    \cup TextMember(<<"_diffusers_version">>, n.diffusers_version)

MembersOf(n) == ExtraMembers(n) \cup ScalarMembers(n) \cup PartMembers(n)

Rebuilt(n) ==
    [name \in {m[1] : m \in MembersOf(n)} |-> (CHOOSE m \in MembersOf(n) : m[1] = name)[2]]

RebuiltDocuments(n) ==
    [path \in {n.source_path} |-> [json |-> Object(Rebuilt(n)), repeated |-> FALSE]]

\* Extras the rules would have consumed, and components named as a member
\* that has given a text; the reader does not look for all.
Unconsumed(n) ==
    \/ \E name \in {<<"model_type">>, <<"transformers_version">>, <<"_diffusers_version">>} :
          Given(n.extra, name)
    \/ Given(n.extra, <<"pipeline_tag">>)
    \/ Given(n.extra, <<"task">>) /\ (n.task = None \/ <<"pipeline_tag">> \in DOMAIN n.extra)
    \/ n.task # None /\ {<<"pipeline_tag">>, <<"task">>} \subseteq DOMAIN n.extra
    \/ n.architecture_source # "model_index_class_name" /\ <<"architectures">> \in DOMAIN n.extra
    \/ n.architecture_source = "config_model_type" /\ Given(n.extra, <<"_class_name">>)
    \/ \E i \in 1..Len(n.components) :
          \/ n.components[i].name = <<"model_type">> /\ n.model_type # None
          \/ n.components[i].name = <<"transformers_version">> /\ n.transformers_version # None

\* An accepted record is the work of the rules: unless it shows an extra
\* that they would have consumed, or has one member twice, there is a root
\* document of which normalization makes exactly this record, components,
\* derived paths and applied defaults included.
AcceptedIsProducible ==
    Accepted =>
        ~Of(answer[2].normalized, LAMBDA n :
              ~Unconsumed(n) /\ Normalize(RebuiltDocuments(n)) # <<"ok", n>>)

-----------------------------------------------------------------------------
(* The properties as the runs check them. *)

\* Neither what is written nor what is accepted shows anything sensitive.
NothingSensitiveIsShown == NothingSensitiveIsWritten /\ AcceptedIsSafe

\* Redaction takes only what is sensitive, of the record and of findings.
OnlySensitiveIsOmitted == NothingElseIsOmitted /\ FindingsAreKept

\* A record, written or accepted, is one that normalization makes of some
\* repository, and of its authoritative root.
RecordsAreProducible == TypeOK /\ IndexIsAuthoritative /\ AcceptedIsProducible
=============================================================================
