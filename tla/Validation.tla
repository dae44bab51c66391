----------------------------- MODULE Validation -----------------------------
(***************************************************************************)
(* What validation reports of a repository (validation.rs).  It asks the   *)
(* normalization, then goes over the documents in four passes: references, *)
(* shapes and fields, configuration references, executable metadata.       *)
(*                                                                         *)
(* A finding keeps its level, code, document, JSON pointer and related     *)
(* path; its message is left out.  The list of findings is never full here *)
(* (module Diagnostics has that case), and the order of findings about the *)
(* members of one object, which is that of the source, is left open.       *)
(***************************************************************************)
EXTENDS Normalization, Views, Selection

CONSTANTS
    Repositories,  \* what may be validated: documents, files, directories
    Spelled,       \* string |-> the path it spells, if that has several segments
    Dotted,        \* strings that begin with "./" |-> the rest
    Escaping,      \* other strings explicit_local_adapter_path knows as local
    Tildes,        \* strings that begin with a tilde
    MaxPointer     \* MAX_DIAGNOSTIC_TEXT_BYTES of a pointer, counting tokens

VARIABLES
    repository,  \* the repository that is validated
    pass,        \* what validate_repository is at
    left,        \* the documents the pass has not come to
    findings     \* the diagnostics so far

vars == <<repository, pass, left, findings>>

Kinds ==
    [name \in {"config.json", "generation_config.json", "tokenizer_config.json",
               "special_tokens_map.json", "preprocessor_config.json",
               "processor_config.json", "scheduler_config.json", "model_index.json",
               "adapter_config.json", "quantization_config.json", "chat_template.jinja"} |->
        CASE name = "config.json"              -> "Config"
          [] name = "generation_config.json"   -> "GenerationConfig"
          [] name = "tokenizer_config.json"    -> "TokenizerConfig"
          [] name = "special_tokens_map.json"  -> "SpecialTokensMap"
          [] name = "preprocessor_config.json" -> "PreprocessorConfig"
          [] name = "processor_config.json"    -> "ProcessorConfig"
          [] name = "scheduler_config.json"    -> "SchedulerConfig"
          [] name = "model_index.json"         -> "ModelIndex"
          [] name = "adapter_config.json"      -> "AdapterConfig"
          [] name = "quantization_config.json" -> "QuantizationConfig"
          [] name = "chat_template.jinja"      -> "ChatTemplate"]

\* DocumentKind::from_path, of a recognized path.
Kind(path) ==
    IF Name(path)[1] \in DOMAIN Kinds THEN Kinds[Name(path)[1]] ELSE "SafetensorsIndex"

Parent(path) == SubSeq(path, 1, Len(path) - 1)

-----------------------------------------------------------------------------

Report(level, code, path, pointer, related) ==
    [level |-> level, code |-> code, document |-> path, pointer |-> pointer, related |-> related]

Error(code, path, pointer)   == Report("error", code, Some(path), pointer, None)
Warning(code, path, pointer) == Report("warning", code, Some(path), pointer, None)

InvalidField(path, pointer) == Error("invalid_document_shape", path, pointer)

When(condition, list) == IF condition THEN list ELSE <<>>

\* The findings Of(x) reports for every x, in some order.
Each(set, Of1(_)) ==
    LET s == SetToSeq(set) IN FlattenSeq([i \in 1..Len(s) |-> Of1(s[i])])

\* bounded_pointer_child and bounded_pointer_index
Child(pointer, token) ==
    IF pointer = None \/ Len(pointer[1]) >= MaxPointer THEN None
    ELSE Some(Append(pointer[1], token))

Top(token) == Child(Some(<<>>), token)

\* logical_join
Join(base, child) ==
    IF (base = <<>> \/ Valid(base)) /\ Valid(child) /\ Valid(base \o child)
    THEN Some(base \o child) ELSE None

PathSpelled(string) ==
    IF string \in DOMAIN Spelled THEN Spelled[string] ELSE IF string = <<>> THEN <<>> ELSE <<string>>

\* What the parser leaves of a document, by its path: the text of a template
\* or its bytes; a value, and the places where an object repeats a member.
Readable(path, document) ==
    /\ Name(path)[1] \in DOMAIN Kinds => Name(path) = <<Name(path)[1]>>
    /\ document.json \in {<<"source">>, <<"bytes">>} <=> Kind(path) = "ChatTemplate"
    /\ document.json[1] = "malformed" => document.json = <<"malformed">>
    /\ document.json[1] \in {"source", "bytes", "malformed"} => ~document.repeated
    /\ Nested(document.json, MaxNesting)
    /\ IsFiniteSet(document.duplicates) /\ document.truncated \in BOOLEAN
    /\ document.repeated = (document.duplicates # {} \/ document.truncated)

\* A repository that was constructed: its documents are files, its paths are
\* valid, and a directory is there for whatever lies in it.
Constructed(r) ==
    /\ DOMAIN r.documents \subseteq r.files
    /\ r.files \cup r.directories \subseteq Paths
    /\ r.files \cap r.directories = {}
    /\ \A p \in r.files \cup r.directories : Valid(p) /\ Ancestors(p) \subseteq r.directories
    /\ \A p \in DOMAIN r.documents : Readable(p, r.documents[p])

\* The order of the components tells their names apart.
NamesApart(r) ==
    ModelIndexPath \in DOMAIN r.documents /\ Usable(r.documents[ModelIndexPath]) =>
        LET names == ComponentNames(r.documents[ModelIndexPath].json[2])
        IN  /\ \A name \in names : Bytes(name) \in Seq(Nat)
            /\ \A a, b \in names : Bytes(a) = Bytes(b) => a = b

\* One segment fits a path.  The names of fields fit a pointer, alone and
\* beneath two others.
ASSUME ValidationAssumption ==
    /\ MaxPath \in Nat /\ MaxPath >= 3 /\ MaxPointer \in Nat /\ MaxPointer >= 3
    /\ \A string \in DOMAIN Spelled : Spelled[string] \in Seq(ToSet(Spelled[string]))
    /\ \A r \in Repositories : Constructed(r) /\ NamesApart(r)

-----------------------------------------------------------------------------
(***************************************************************************)
(* The references pass.                                                    *)
(***************************************************************************)

\* A library or null, and a class.
PresentTuple(value) ==
    /\ IsPair(value)
    /\ IsText(value[2][1]) \/ value[2][1] = Null
    /\ IsText(value[2][2])

PresentNames(object) == {name \in DOMAIN object : ~Metadata(name) /\ PresentTuple(object[name])}

\* Mutant of ComponentReference: a component's directory may be a file.
ComponentReferenceEntry(r, path, name) ==
    LET related == Join(Parent(path), <<name>>)
    IN  IF ~SafeName(name) THEN <<>>
        ELSE IF related = None THEN <<Error("unsafe_reference_path", path, Top(name))>>
        ELSE When(related[1] \notin r.directories \cup r.files,
                  <<Report("error", "missing_component_directory", Some(path), Top(name), related)>>)

\* Of one component: an unsafe name is left to the pass over the fields.
ComponentReference(r, path, name) ==
    LET related == Join(Parent(path), <<name>>)
    IN  IF ~SafeName(name) THEN <<>>
        ELSE IF related = None THEN <<Error("unsafe_reference_path", path, Top(name))>>
        ELSE When(related[1] \notin r.directories,
                  <<Report("error", "missing_component_directory", Some(path), Top(name), related)>>)

\* validate_model_index_references
IndexReferences(r, path) ==
    LET object == r.documents[path].json[2]
        reference(name) == ComponentReference(r, path, name)
    IN  IF Usable(r.documents[path]) THEN Each(PresentNames(object), reference) ELSE <<>>

WeightMap == Top(<<"weight_map">>)

\* A shard that is no safe path, or is not there.
ShardFindings(r, path, shard) ==
    LET unsafe  == Error("unsafe_checkpoint_shard_path", path, WeightMap)
        related == Join(Parent(path), PathSpelled(shard))
    IN  IF ~Valid(PathSpelled(shard)) THEN <<unsafe>>
        ELSE IF related = None THEN <<unsafe>>
        ELSE When(related[1] \notin r.files,
                  <<Report("error", "missing_checkpoint_shard", Some(path), WeightMap, related)>>)

\* The shards of a weight map: what names none, then every shard once.
ShardReferences(r, path) ==
    LET map       == r.documents[path].json[2][<<"weight_map">>][2]
        nameless  == {tensor \in DOMAIN map : ~(IsText(map[tensor]) /\ map[tensor][2] # <<>>)}
        entry(tensor) == <<InvalidField(path, Child(WeightMap, tensor))>>
        shard(s)      == ShardFindings(r, path, s)
    IN  Each(nameless, entry) \o Each({map[tensor][2] : tensor \in DOMAIN map \ nameless}, shard)

\* validate_safetensors_index
SafetensorsReferences(r, path) ==
    LET object == r.documents[path].json[2]
    IN  IF ~Usable(r.documents[path]) THEN <<>>
        ELSE IF <<"weight_map">> \notin DOMAIN object THEN <<InvalidField(path, WeightMap)>>
        ELSE IF object[<<"weight_map">>][1] # "object" THEN <<InvalidField(path, WeightMap)>>
        ELSE IF DOMAIN object[<<"weight_map">>][2] = {}
        THEN <<Error("empty_checkpoint_weight_map", path, WeightMap)>>
        ELSE ShardReferences(r, path)

BaseName == <<"base_model_name_or_path">>

\* explicit_local_adapter_path
LocalPath(string) ==
    IF string \in DOMAIN Dotted THEN Some(Dotted[string])
    ELSE IF string \in Escaping \cup Tildes THEN Some(string)
    ELSE None

\* validate_adapter: only what is explicitly a local path is looked up.
AdapterReference(r, path) ==
    LET object  == r.documents[path].json[2]
        local   == LocalPath(object[BaseName][2])
        related == Join(Parent(path), PathSpelled(local[1]))
        unsafe  == Error("unsafe_adapter_base_path", path, Top(BaseName))
    IN  IF ~Usable(r.documents[path]) THEN <<>>
        ELSE IF BaseName \notin DOMAIN object THEN <<>>
        ELSE IF ~IsText(object[BaseName]) THEN <<>>
        ELSE IF local = None THEN <<>>
        ELSE IF local[1] \in Tildes \/ ~Valid(PathSpelled(local[1])) THEN <<unsafe>>
        ELSE IF related = None THEN <<unsafe>>
        ELSE When(related[1] \notin r.files \cup r.directories,
                  <<Report("error", "missing_adapter_base_path", Some(path), Top(BaseName), related)>>)

References(r, path) ==
    CASE Kind(path) = "SafetensorsIndex" -> SafetensorsReferences(r, path)
      [] Kind(path) = "AdapterConfig"    -> AdapterReference(r, path)
      [] Kind(path) = "ModelIndex"       -> IndexReferences(r, path)
      [] OTHER                           -> <<>>

-----------------------------------------------------------------------------
(***************************************************************************)
(* The pass over shapes and fields.                                        *)
(***************************************************************************)

\* Mutant of ShapeFindings: that locations were omitted is not told.
ShapeFindingsUntold(r, path) ==
    LET document == r.documents[path]
        duplicate(pointer) == <<Error("duplicate_json_key", path, Some(pointer))>>
    IN  IF Kind(path) = "ChatTemplate"
        THEN When(document.json = <<"bytes">>, <<Error("invalid_text_encoding", path, None)>>)
        ELSE When(document.json = <<"malformed">>, <<Error("invalid_json", path, None)>>)
             \o Each(document.duplicates, duplicate)
             \o When(document.json[1] \notin {"malformed", "object"}, <<InvalidField(path, None)>>)

\* validate_document_shape: a template that is no text; malformed JSON; every
\* repeated member; a value that is no object.
ShapeFindings(r, path) ==
    LET document == r.documents[path]
        duplicate(pointer) ==
            <<Error("duplicate_json_key", path,
                    IF Len(pointer) <= MaxPointer THEN Some(pointer) ELSE None)>>
    IN  IF Kind(path) = "ChatTemplate"
        THEN When(document.json = <<"bytes">>, <<Error("invalid_text_encoding", path, None)>>)
        ELSE When(document.json = <<"malformed">>, <<Error("invalid_json", path, None)>>)
             \o Each(document.duplicates, duplicate)
             \o When(document.truncated, <<Error("duplicate_json_key", path, None)>>)
             \o When(document.json[1] \notin {"malformed", "object"}, <<InvalidField(path, None)>>)

\* The fields of the kind's table.
TableFindings(path, object) ==
    LET misshapen == {field \in FieldsOf(Kind(path)) : Misshapen(object, field.name, field.type)}
        invalid(field) == <<InvalidField(path, Some(<<field.name>>))>>
    IN  Each(misshapen, invalid)

\* validate_added_token
AddedToken(path, token, pointer) ==
    LET flags == {name \in AddedTokenFlags \cap DOMAIN token :
                     token[name] # Null /\ token[name][1] # "bool"}
        field(name) == <<InvalidField(path, Child(pointer, name))>>
    IN  When(<<"content">> \notin DOMAIN token, field(<<"content">>))
        \o Each({name \in {<<"content">>} \cap DOMAIN token : ~IsText(token[name])}, field)
        \o Each(flags, field)

\* A token: a string, or an object that describes one.
TokenFindings(path, value, pointer) ==
    CASE value[1] = "text"   -> <<>>
      [] value[1] = "object" -> AddedToken(path, value[2], pointer)
      [] OTHER               -> <<InvalidField(path, pointer)>>

\* The tokens of a list or, by their ids, of an object.
TokensFindings(path, object, name, type) ==
    LET entry(key) == TokenFindings(path, object[name][2][key], Child(Some(<<name>>), key))
    IN  IF name \notin DOMAIN object THEN <<>>
        ELSE IF object[name] = Null THEN <<>>
        ELSE IF object[name][1] # type THEN <<InvalidField(path, Some(<<name>>))>>
        ELSE Each(DOMAIN object[name][2], entry)

\* validate_special_token_fields
SpecialTokenFindings(path, object) ==
    LET token(name) == When(object[name] # Null, TokenFindings(path, object[name], Some(<<name>>)))
    IN  Each(SpecialTokenFields \cap DOMAIN object, token)
        \o TokensFindings(path, object, <<"additional_special_tokens">>, "list")
        \o When(Kind(path) = "TokenizerConfig",
                TokensFindings(path, object, <<"added_tokens_decoder">>, "object"))

\* validate_architectures
ArchitecturesFindings(path, object) ==
    LET name  == <<"architectures">>
        value == object[name]
        entry(i) == When(value[2][i] # Null /\ ~IsText(value[2][i]),
                         <<InvalidField(path, Some(<<name, i>>))>>)
    IN  IF name \notin DOMAIN object THEN <<>>
        ELSE IF value = Null THEN <<>>
        ELSE IF value[1] # "list" THEN <<InvalidField(path, Some(<<name>>))>>
        ELSE Each(1..Len(value[2]), entry)

\* DiffusersComponents and ModelIndexExtraFields: the members of an index
\* that are components, and those that are nothing the view knows.
Declared(object) == {name \in DOMAIN object : ~Metadata(name) /\ TupleShaped(object[name])}
Unknown(object)  == {name \in DOMAIN object : ~Metadata(name) /\ ~TupleShaped(object[name])}

\* Mutant of ComponentField: the name of an optional component must be safe.
ComponentFieldOptional(path, object, name) ==
    IF ~ComponentTuple(object[name]) THEN <<InvalidField(path, Top(name))>>
    ELSE When(~SafeName(name), <<Error("unsafe_reference_path", path, Top(name))>>)

\* Of one component: what is no tuple, and an unsafe name.
ComponentField(path, object, name) ==
    IF ~ComponentTuple(object[name]) THEN <<InvalidField(path, Top(name))>>
    ELSE When(PresentTuple(object[name]) /\ ~SafeName(name),
              <<Error("unsafe_reference_path", path, Top(name))>>)

\* validate_model_index_components
IndexComponents(path, object) ==
    LET component(name) == ComponentField(path, object, name)
    IN  Each(Declared(object), component)

InlineTemplateFindings(path, object) ==
    LET name == <<"chat_template">>
    IN  When(/\ name \in DOMAIN object /\ object[name] # Null
             /\ object[name][1] \notin {"text", "object", "list"},
             <<InvalidField(path, Some(<<name>>))>>)

MetadataFindings(path, object) ==
    LET name == <<"metadata">>
        size == <<"total_size">>
    IN  IF name \notin DOMAIN object THEN <<>>
        ELSE IF object[name] = Null THEN <<>>
        ELSE IF object[name][1] # "object" THEN <<InvalidField(path, Some(<<name>>))>>
        ELSE When(Misshapen(object[name][2], size, "U64"),
                  <<InvalidField(path, Some(<<name, size>>))>>)

\* validate_semantic_fields
FieldFindings(r, path) ==
    LET object == r.documents[path].json[2]
        kind   == Kind(path)
    IN  IF ~Usable(r.documents[path]) THEN <<>>
        ELSE TableFindings(path, object)
             \o When(kind \in {"TokenizerConfig", "SpecialTokensMap"}, SpecialTokenFindings(path, object))
             \o When(kind = "Config", ArchitecturesFindings(path, object))
             \o When(kind = "ModelIndex", IndexComponents(path, object))
             \o When(kind \in {"TokenizerConfig", "ProcessorConfig"}, InlineTemplateFindings(path, object))
             \o When(kind = "SafetensorsIndex", MetadataFindings(path, object))

-----------------------------------------------------------------------------
(***************************************************************************)
(* The configuration pass.                                                 *)
(***************************************************************************)

HasDocument(r, directory, name) ==
    LET path == Join(directory, <<<<name>>>>) IN path # None /\ path[1] \in DOMAIN r.documents

\* has_component_configuration
HasConfiguration(r, directory) ==
    \E name \in {"config.json", "tokenizer_config.json", "preprocessor_config.json",
                 "processor_config.json", "scheduler_config.json", "model_index.json",
                 "adapter_config.json", "quantization_config.json"} :
        HasDocument(r, directory, name)

\* Of one component: a directory that holds no configuration.
ComponentConfiguration(r, path, name) ==
    LET related == Join(Parent(path), <<name>>)
    IN  IF ~SafeName(name) \/ related = None THEN <<>>
        ELSE When(related[1] \in r.directories /\ ~HasConfiguration(r, related[1]),
                  <<Report("warning", "missing_component_config", Some(path), Top(name), related)>>)

\* validate_model_index_configuration_references
IndexConfigurations(r, path) ==
    LET object == r.documents[path].json[2]
        configuration(name) == ComponentConfiguration(r, path, name)
    IN  IF Usable(r.documents[path]) THEN Each(PresentNames(object), configuration) ELSE <<>>

\* is_nonempty_string is Given; an embedded declaration is a string or an
\* object, and not empty.
Embedded(object, name) ==
    \/ Given(object, name)
    \/ name \in DOMAIN object /\ object[name][1] = "object" /\ DOMAIN object[name][2] # {}

\* validate_processor
ProcessorCompanions(r, path) ==
    LET object == r.documents[path].json[2]
        tokenizer    == Given(object, <<"tokenizer_class">>) \/ Embedded(object, <<"tokenizer">>)
        preprocessor ==
            \/ Given(object, <<"feature_extractor_type">>) \/ Given(object, <<"image_processor_type">>)
            \/ Embedded(object, <<"feature_extractor">>) \/ Embedded(object, <<"image_processor">>)
    IN  IF ~Usable(r.documents[path]) THEN <<>>
        ELSE When(tokenizer /\ ~HasDocument(r, Parent(path), "tokenizer_config.json"),
                  <<Warning("missing_tokenizer_config", path, None)>>)
             \o When(preprocessor /\ ~HasDocument(r, Parent(path), "preprocessor_config.json"),
                     <<Warning("missing_preprocessor_config", path, None)>>)

Configurations(r, path) ==
    CASE Kind(path) = "ModelIndex"      -> IndexConfigurations(r, path)
      [] Kind(path) = "ProcessorConfig" -> ProcessorCompanions(r, path)
      [] OTHER                          -> <<>>

-----------------------------------------------------------------------------
(***************************************************************************)
(* The pass over executable metadata.                                      *)
(***************************************************************************)

Inert(path, pointer) == Warning("executable_reference_inert", path, pointer)

\* is_known_component_library
KnownLibraries ==
    {<<l>> : l \in {"diffusers", "transformers", "flax", "k_diffusion", "onnxruntime", "optimum",
                    "peft", "sentence_transformers", "stable_diffusion", "timm", "torch"}}

\* Of one component: no library, or one that is not known.
ComponentCode(path, object, name) ==
    LET library == object[name][2][1]
    IN  IF library = Null
        THEN <<Warning("custom_component_requires_code", path, Top(name))>>
        ELSE When(library[2] \notin KnownLibraries, <<Inert(path, Top(name))>>)

\* validate_model_index_executable_references
IndexExecutables(r, path) ==
    LET object == r.documents[path].json[2]
        component(name) == ComponentCode(path, object, name)
    IN  IF Usable(r.documents[path]) THEN Each(PresentNames(object), component) ELSE <<>>

Locators ==
    {<<"auto_map">>, <<"auto_mapping">>, <<"_module">>, <<"custom_pipeline">>, <<"trust_remote_code">>}

\* is_executable_locator
ExecutableLocator(name, value) ==
    /\ name \in Locators
    /\ value \notin {Null, Bool(FALSE)}
    /\ value[1] \in {"text", "list", "object"} => DOMAIN value[2] # {}

\* is_custom_class_locator
CustomClass(name, value) ==
    /\ name \in {<<"feature_extractor_type">>, <<"image_processor_type">>, <<"processor_class">>,
                 <<"slow_tokenizer_class">>, <<"tokenizer_class">>}
    /\ IsText(value) /\ value[2] # <<>>

\* A pointer that is built by bounded_pointer_child from the root.
Pointer(place) == IF Len(place) <= MaxPointer THEN Some(place) ELSE None

\* Is a member of an object reported?  A class name counts beside a locator.
Reported(object, name) ==
    \/ ExecutableLocator(name, object[name])
    \/ /\ CustomClass(name, object[name])
       /\ \E other \in DOMAIN object : ExecutableLocator(other, object[other])

\* Mutant of Walk: the walk does not enter what it has reported.
WalkBeside(path, json) ==
    LET walk[place \in Places(json)] ==
            LET value        == At(json, place)
                child(key)   == walk[Append(place, key)]
                member(name) ==
                    IF Reported(value[2], name) THEN <<Inert(path, Pointer(Append(place, name)))>>
                    ELSE child(name)
            IN  CASE value[1] = "object" -> Each(DOMAIN value[2], member)
                  [] value[1] = "list"   -> Each(DOMAIN value[2], child)
                  [] OTHER               -> <<>>
    IN  walk[<<>>]

\* walk_executable_references, from every place of a value.
Walk(path, json) ==
    LET walk[place \in Places(json)] ==
            LET value        == At(json, place)
                child(key)   == walk[Append(place, key)]
                member(name) ==
                    When(Reported(value[2], name), <<Inert(path, Pointer(Append(place, name)))>>)
                    \o child(name)
            IN  CASE value[1] = "object" -> Each(DOMAIN value[2], member)
                  [] value[1] = "list"   -> Each(DOMAIN value[2], child)
                  [] OTHER               -> <<>>
    IN  walk[<<>>]

\* validate_executable_references, after the components of an index.  A chat
\* template and malformed JSON have no value.
Executables(r, path) ==
    LET document == r.documents[path]
    IN  When(Kind(path) = "ModelIndex", IndexExecutables(r, path))
        \o When(~document.repeated, Walk(path, document.json))

-----------------------------------------------------------------------------

Passes == <<"references", "fields", "configuration", "executable">>

PassFindings(r, p, path) ==
    CASE p = "references"    -> References(r, path)
      [] p = "fields"        -> ShapeFindings(r, path) \o FieldFindings(r, path)
      [] p = "configuration" -> Configurations(r, path)
      [] p = "executable"    -> Executables(r, path)

\* Mutant of RootFindings: a root of another type is left to the pass over
\* the fields.
RootFindingsObject(r) ==
    LET normalized == Normalize(r.documents)
        root       == RootPath(r.documents)
    IN  CASE normalized[2] = "MissingRootConfig"   -> <<Report("error", "missing_root_config", None, None, None)>>
          [] normalized[2] = "MissingArchitecture" -> <<Error("missing_architecture", root[1], None)>>
          [] OTHER                                 -> <<>>

\* normalization_diagnostic: what is reported as malformed or repeated later
\* is not reported here.
RootFindings(r) ==
    LET error == Normalize(r.documents)[2]
        root  == RootPath(r.documents)
    IN  CASE error = "MissingRootConfig"   -> <<Report("error", "missing_root_config", None, None, None)>>
          [] error = "MissingArchitecture" -> <<Error("missing_architecture", root[1], None)>>
          [] error = "ExpectedObject"      ->
                When(r.documents[root[1]].json # <<"malformed">>, <<Error("root_not_object", root[1], None)>>)
          [] error = "DuplicateKeys"       -> <<>>

Init ==
    /\ repository \in Repositories
    /\ pass = "normalization"
    /\ left = {}
    /\ findings = <<>>

\* validate_repository asks for the normalized configuration first.
ValidateRoot ==
    /\ pass = "normalization"
    /\ findings' = IF Normalize(repository.documents)[1] = "ok" THEN <<>> ELSE RootFindings(repository)
    /\ pass' = Passes[1]
    /\ left' = DOMAIN repository.documents
    /\ UNCHANGED repository

\* Documents are in the order of their paths.
ValidateDocument(p, path) ==
    /\ pass = p
    /\ path \in left
    /\ \A q \in left : Order[path] <= Order[q]
    /\ findings' = findings \o PassFindings(repository, p, path)
    /\ left' = left \ {path}
    /\ UNCHANGED <<repository, pass>>

EndPass(i) ==
    /\ pass = Passes[i]
    /\ left = {}
    /\ pass' = IF i < Len(Passes) THEN Passes[i + 1] ELSE "done"
    /\ left' = IF i < Len(Passes) THEN DOMAIN repository.documents ELSE {}
    /\ UNCHANGED <<repository, findings>>

Done == pass = "done" /\ UNCHANGED vars

Next ==
    \/ ValidateRoot
    \/ \E p \in ToSet(Passes), path \in left : ValidateDocument(p, path)
    \/ \E i \in 1..Len(Passes) : EndPass(i)
    \/ Done

Spec == Init /\ [][Next]_vars

-----------------------------------------------------------------------------

IsDone == pass = "done"

ReportedAt(code, path, pointer) ==
    {i \in 1..Len(findings) :
        /\ findings[i].code = code
        /\ findings[i].document = Some(path)
        /\ findings[i].pointer = pointer}

ErrorsAt(path, pointer) ==
    {i \in 1..Len(findings) :
        /\ findings[i].level = "error"
        /\ findings[i].document = Some(path)
        /\ findings[i].pointer = pointer}

ReportedOnce(set, condition) == Cardinality(set) = IF condition THEN 1 ELSE 0

\* The variables have their types: a finding names a document of the
\* repository, and a related path is one the repository could hold.
TypeOK ==
    /\ DOMAIN repository.documents \subseteq repository.files
    /\ pass \in {"normalization", "done"} \cup ToSet(Passes)
    /\ left \subseteq DOMAIN repository.documents
    /\ \A i \in 1..Len(findings) :
          /\ findings[i].level \in {"error", "warning"}
          /\ IF findings[i].code = "missing_root_config" THEN findings[i].document = None
             ELSE findings[i].document[1] \in DOMAIN repository.documents
          /\ findings[i].related # None => Valid(findings[i].related[1])

\* The components of an index that its source names, broken or not.
IndexDocuments == {p \in DOMAIN repository.documents :
                      Kind(p) = "ModelIndex" /\ Usable(repository.documents[p])}

Usual(name) == name # <<>> /\ name \notin UnsafeNames

\* A component whose class is given but whose directory is not in the
\* repository is reported by one error, whichever of the three passes that
\* look at it finds out; a tuple of neither form too; and no other one is.  A
\* directory that is there and holds no configuration is one warning.
BrokenComponentsAreReportedOnce ==
    IsDone => \A p \in IndexDocuments :
        LET object == repository.documents[p].json[2]
        IN  \A name \in Declared(object) :
            LET value     == object[name][2]
                directory == Append(Parent(p), name)
                there     == Usual(name) /\ directory \in repository.directories
                configured == \E d \in DOMAIN repository.documents :
                                 /\ Parent(d) = directory
                                 /\ Kind(d) \notin {"GenerationConfig", "SpecialTokensMap",
                                                    "ChatTemplate", "SafetensorsIndex"}
            IN  /\ ReportedOnce(ErrorsAt(p, Some(<<name>>)),
                                IF value[2] = Null THEN value[1] # Null ELSE ~there)
                /\ ReportedOnce(ReportedAt("missing_component_config", p, Some(<<name>>)),
                                value[2] # Null /\ there /\ ~configured)

\* A shard, however many tensors it holds, is reported by one error if it is
\* no file of the repository; every tensor whose entry the view does not read
\* as a shard, or whose shard has no name, is one error too.  An adapter's
\* base is an error if it is explicitly a local path and nothing is there; a
\* name on a hub is never looked up.
BrokenFilesAreReportedOnce ==
    IsDone => \A p \in DOMAIN repository.documents :
        LET object  == repository.documents[p].json[2]
            there(string, set) ==
                PathSpelled(string) # <<>> /\ Parent(p) \o PathSpelled(string) \in set
            named(map) == {map[t][2] : t \in {u \in DOMAIN map : Given(map, u)}}
        IN  /\ /\ Kind(p) = "SafetensorsIndex" /\ Usable(repository.documents[p])
               /\ <<"weight_map">> \in DOMAIN object /\ object[<<"weight_map">>][1] = "object"
               => LET map == object[<<"weight_map">>][2]
                  IN  /\ Cardinality(ErrorsAt(p, Some(<<<<"weight_map">>>>))) =
                            IF DOMAIN map = {} THEN 1
                            ELSE Cardinality({s \in named(map) : ~there(s, repository.files)})
                      /\ \A tensor \in DOMAIN map :
                            ReportedOnce(ErrorsAt(p, Some(<<<<"weight_map">>, tensor>>)),
                                         ShardEntry(map[tensor]) # "Value" \/ map[tensor][2] = <<>>)
            /\ /\ Kind(p) = "AdapterConfig" /\ Usable(repository.documents[p])
               /\ BaseName \in DOMAIN object /\ IsText(object[BaseName])
               => ReportedOnce(ErrorsAt(p, Some(<<BaseName>>)),
                     LET local == LocalPath(object[BaseName][2])
                     IN  /\ local # None
                         /\ \/ local[1] \in Tildes
                            \/ ~there(local[1], repository.files \cup repository.directories))

\* A repository has a normalized configuration exactly if nothing structural
\* is reported of its root; and what keeps the root from being read is not
\* reported twice when it is malformed or repeats members.
RootIsNormalizedOrReported ==
    IsDone =>
        LET root       == RootPath(repository.documents)
            structural == {i \in 1..Len(findings) :
                \/ findings[i].code \in {"missing_root_config", "root_not_object", "missing_architecture"}
                \/ /\ findings[i].code \in {"invalid_json", "duplicate_json_key"}
                   /\ root # None /\ findings[i].document = root}
        IN  /\ Normalize(repository.documents)[1] = "ok" <=> structural = {}
            /\ root # None /\ repository.documents[root[1]].json = <<"malformed">>
               => Cardinality(structural) = 1
            /\ root # None /\ repository.documents[root[1]].repeated
               => \A i \in structural : findings[i].code = "duplicate_json_key"

\* What normalization shows as a component is what the validators checked:
\* it has a path exactly if its directory was looked up, and one that needs
\* code is always announced.
NormalizedComponentsAreChecked ==
    IsDone /\ RootPath(repository.documents) = Some(ModelIndexPath)
           /\ Normalize(repository.documents)[1] = "ok" =>
        \A c \in ToSet(Normalize(repository.documents)[2].components) :
            LET at == Some(<<c.name>>)
            IN  /\ ReportedOnce(ReportedAt("custom_component_requires_code", ModelIndexPath, at),
                                c.requires_code)
                /\ ReportedOnce(ReportedAt("unsafe_reference_path", ModelIndexPath, at),
                                c.path = None /\ ~c.optional)
                /\ ReportedOnce(ReportedAt("missing_component_directory", ModelIndexPath, at),
                                c.path # None /\ c.path[1] \notin repository.directories)

\* The typed views show what normalization takes: the components of an index
\* that are not invalid, and the architecture of a config.  What an index
\* view does not know, or calls invalid, stays in `extra`, but for the two
\* members that are normalized from either root.
ViewsAgreeWithNormalization ==
    IsDone /\ Normalize(repository.documents)[1] = "ok" =>
        LET root       == RootPath(repository.documents)[1]
            object     == repository.documents[root].json[2]
            normalized == Normalize(repository.documents)[2]
            shown(value) == {name \in Declared(object) : ComponentValue(object[name]) = value}
            taken(absent) == {c.name : c \in {d \in ToSet(normalized.components) : d.optional = absent}}
        IN  IF root = ModelIndexPath
            THEN /\ shown("Reference") = taken(FALSE)
                 /\ shown("Optional") = taken(TRUE)
                 /\ shown("Invalid") \cup Unknown(object) \subseteq
                       DOMAIN normalized.extra \cup {<<"model_type">>, <<"transformers_version">>}
            ELSE FirstArchitecture(object) = "Value"
                    <=> normalized.architecture_source = "config_architectures"

\* A typed view is refused exactly for the documents something structural is
\* reported of.
ViewsAreRefusedIffReported ==
    IsDone => \A p \in DOMAIN repository.documents : Kind(p) # "ChatTemplate" =>
        (ViewError(repository.documents[p]) # {}
            <=> \/ ReportedAt("invalid_json", p, None) # {}
                \/ ReportedAt("invalid_document_shape", p, None) # {}
                \/ \E i \in 1..Len(findings) :
                      findings[i].code = "duplicate_json_key" /\ findings[i].document = Some(p))

\* An accessor of a typed view returns Invalid exactly for the members that
\* are reported as misshapen, and the members only `extra` shows are not
\* checked at all.
InvalidIffReported ==
    IsDone => \A p \in DOMAIN repository.documents :
        LET object == repository.documents[p].json[2]
        IN  Kind(p) # "ChatTemplate" /\ ViewError(repository.documents[p]) = {} =>
            /\ \A field \in ViewOf(Kind(p)) : field.type # "Raw" =>
                  (SourceField(object, field.name, field.type) = "Invalid"
                      => ErrorsAt(p, Some(<<field.name>>)) # {})
            /\ \A field \in ViewOf(Kind(p)) :
                  /\ ReportedAt("invalid_document_shape", p, Some(<<field.name>>)) # {}
                  /\ field.name \in DOMAIN object
                  /\ field.type # "Raw"
                  => \/ SourceField(object, field.name, field.type) = "Invalid"
                     \/ Kind(p) = "SafetensorsIndex" /\ object[field.name] = Null
            /\ Kind(p) \notin {"Config", "ModelIndex"} =>
                  \A name \in Extra(Kind(p), object) :
                     ReportedAt("invalid_document_shape", p, Some(<<name>>)) = {}

\* The same of the entries of a list or map of special tokens, and of the
\* fields of a token: what classify_special_token or an accessor of
\* AddedTokenView calls invalid is reported where it is.  Beyond the views,
\* a token's content is required.
InvalidTokensAreReported ==
    IsDone => \A p \in DOMAIN repository.documents :
        LET object == repository.documents[p].json[2]
            lists  == {field \in ViewOf(Kind(p)) : field.type \in {"Tokens", "TokensById"}}
        IN  Kind(p) \in {"TokenizerConfig", "SpecialTokensMap"} /\ Usable(repository.documents[p]) =>
            \A list \in lists : SourceField(object, list.name, list.type) = "Value" =>
                \A key \in DOMAIN object[list.name][2] :
                    LET token == object[list.name][2][key]
                        at    == <<list.name, key>>
                    IN  /\ ReportedOnce(ErrorsAt(p, Some(at)), InvalidToken(token))
                        /\ token[1] = "object" => \A field \in AddedTokenView :
                              ReportedOnce(ErrorsAt(p, Some(Append(at, field.name))),
                                  LET source == SourceField(token[2], field.name, field.type)
                                  IN  \/ source = "Invalid"
                                      \/ field.name = <<"content">> /\ source # "Value")

\* Selecting a source never passes over something in silence: what blocks a
\* fallback without being usable is reported, and so is an inline template
\* or a legacy field that is there and not taken.  The misshapen legacy
\* fields of a config that is taken are reported.
SelectionIsNeverSilent ==
    IsDone => \A scope \in {Parent(p) : p \in DOMAIN repository.documents} :
        LET documents == repository.documents
            generation == IF scope = <<>> THEN GenerationSource(documents, scope)
                          ELSE GenerationSourceIn(documents, scope)
            about(p)  == {i \in 1..Len(findings) : findings[i].document = Some(p)}
            dedicated == Scoped(scope, "generation_config.json")
            legacy    == Scoped(scope, "config.json")
        IN  /\ dedicated \in DOMAIN documents =>
                  /\ generation = Selected(dedicated)
                  /\ ~Usable(documents[dedicated]) => about(dedicated) # {}
            /\ generation = Selected(legacy) =>
                  \A field \in GenerationConfigView :
                     /\ field.name \in LegacyGenerationFields
                     /\ SourceField(documents[legacy].json[2], field.name, field.type) = "Invalid"
                     => ErrorsAt(legacy, Some(<<field.name>>)) # {}
            /\ generation = Nothing /\ legacy \in DOMAIN documents =>
                  \/ about(legacy) # {}
                  \/ \A name \in DOMAIN documents[legacy].json[2] :
                        name \notin NamesOf(FieldsOf("Config")) \ NamesOf(ConfigFields)
            /\ \A inline \in {"tokenizer_config.json", "processor_config.json"} :
                  LET document == Scoped(scope, inline)
                      template == Scoped(scope, "chat_template.jinja")
                      chosen   == IF scope = <<>> THEN ChatTemplate(documents, scope, inline)
                              ELSE ChatTemplateIn(documents, scope, inline)
                  IN  /\ template \in DOMAIN documents =>
                            \/ chosen = Selected(template)
                            \/ about(template) # {} /\ chosen = Refused("InvalidUtf8")
                      /\ chosen = Nothing /\ document \in DOMAIN documents =>
                            \/ about(document) # {}
                            \/ <<"chat_template">> \notin DOMAIN documents[document].json[2]
                            \/ documents[document].json[2][<<"chat_template">>] = Null

\* Nothing is interpreted of a document that repeats a member: it is reported
\* once for every location and once if locations were omitted.
RepeatedIsNotInterpreted ==
    IsDone => \A p \in DOMAIN repository.documents : repository.documents[p].repeated =>
        /\ \A i \in 1..Len(findings) : findings[i].document = Some(p) =>
              \/ findings[i].code = "duplicate_json_key"
              \/ findings[i].code = "invalid_document_shape" /\ findings[i].pointer = None
        /\ Cardinality({i \in 1..Len(findings) :
                           /\ findings[i].document = Some(p)
                           /\ findings[i].code = "duplicate_json_key"}) =
              Cardinality(repository.documents[p].duplicates)
              + IF repository.documents[p].truncated THEN 1 ELSE 0

\* Does a place name code that a loader might run?
Executable(value, place) ==
    LET object == At(value, SubSeq(place, 1, Len(place) - 1))
    IN  /\ object[1] = "object"
        /\ \/ ExecutableLocator(Last(place), object[2][Last(place)])
           \/ /\ CustomClass(Last(place), object[2][Last(place)])
              /\ \E name \in DOMAIN object[2] : ExecutableLocator(name, object[2][name])

\* Every such place is reported once, at any depth and beneath another one;
\* deeper than a pointer can say, it is reported without one.
ExecutablesAreReportedOnce ==
    IsDone => \A p \in DOMAIN repository.documents :
        LET value  == repository.documents[p].json
            places == {place \in Places(value) \ {<<>>} : Executable(value, place)}
            custom == IF p \in IndexDocuments
                      THEN {<<name>> : name \in {n \in Declared(value[2]) :
                               /\ PresentTuple(value[2][n]) /\ value[2][n][2][1] # Null
                               /\ value[2][n][2][1][2] \notin KnownLibraries}}
                      ELSE {}
        IN  ~repository.documents[p].repeated =>
            /\ \A place \in Places(value) : Len(place) <= MaxPointer =>
                  ReportedOnce(ReportedAt("executable_reference_inert", p, Some(place)),
                               place \in places \cup custom)
            /\ Cardinality(ReportedAt("executable_reference_inert", p, None)) =
                  Cardinality({place \in places : Len(place) > MaxPointer})

\* Members of the root that normalization takes if they are strings.
Candidates(root) ==
    {<<"_class_name">>, <<"model_type">>, <<"transformers_version">>, <<"_diffusers_version">>,
     <<"pipeline_tag">>, <<"task">>}
    \cup IF root = ConfigPath THEN {<<"architectures">>} ELSE {}

WrongTypes(root) ==
    LET object == repository.documents[root].json[2]
    IN  {name \in Candidates(root) \cap DOMAIN object :
            /\ object[name] # Null
            /\ ~IF name = <<"architectures">> THEN object[name][1] = "list" ELSE IsText(object[name])}

\* A root config's member of the wrong type that normalization passes over is
\* reported.
ConfigCandidatesAreDiagnosed ==
    IsDone /\ ConfigPath \in DOMAIN repository.documents /\ Usable(repository.documents[ConfigPath]) =>
        \A name \in WrongTypes(ConfigPath) : ErrorsAt(ConfigPath, Some(<<name>>)) # {}

\* "A recognized name with the wrong type remains recoverable as generic data
\* and receives a diagnostic" (RFC 0001, "Unknown-field preservation"), of
\* either root.
WrongTypeIsDiagnosed ==
    IsDone => \A root \in {ModelIndexPath, ConfigPath} \cap DOMAIN repository.documents :
        Usable(repository.documents[root]) =>
            \A name \in WrongTypes(root) : ErrorsAt(root, Some(<<name>>)) # {}

-----------------------------------------------------------------------------
(* The properties as the runs check them. *)

\* Whatever names a directory or a file that is not there is one finding.
BrokenReferencesAreReportedOnce ==
    TypeOK /\ BrokenComponentsAreReportedOnce /\ BrokenFilesAreReportedOnce

\* What normalization makes of the root, or cannot, is explained by findings.
NormalizationIsExplained == RootIsNormalizedOrReported /\ ConfigCandidatesAreDiagnosed

\* Normalization, validators and views agree on what a component is.
ComponentReadingsAgree == NormalizedComponentsAreChecked /\ ViewsAgreeWithNormalization

\* A member, an entry of it or a field of that is Invalid to an accessor
\* exactly if it is reported where it is.
InvalidValuesAreReported == InvalidIffReported /\ InvalidTokensAreReported

\* A document no view is made of is reported, and not interpreted.
UnreadableIsReported == RepeatedIsNotInterpreted /\ ViewsAreRefusedIffReported
=============================================================================
