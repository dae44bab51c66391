--------------------------- MODULE Normalization ---------------------------
(***************************************************************************)
(* How the root document becomes the normalized configuration of a         *)
(* repository, under the rules of profile dinoml-v1, and which projection  *)
(* of it a manifest may show (normalize.rs).                               *)
(*                                                                         *)
(* The documents of a repository are a function from their paths; a        *)
(* document is its parsed value and whether an object in it repeats a      *)
(* member.  An option is a sequence of at most one element.                *)
(***************************************************************************)
EXTENDS RepositoryPaths, Sensitivity

CONSTANTS
    Underscored,  \* words that begin with an underscore
    Spelling      \* word |-> its bytes, as ranks; a space is 0, a slash 2

ASSUME SpellingAssumption == \A word \in DOMAIN Spelling : Spelling[word] \in Seq(Nat)

\* The names with an underscore that the code has as constants.
ASSUME UnderscoredAssumption ==
    {"_class_name", "_diffusers_version", "_module", "_name_or_path"} \subseteq Underscored

None    == <<>>
Some(x) == <<x>>

ModelIndexPath == <<<<"model_index.json">>>>
ConfigPath     == <<<<"config.json">>>>

\* root_source
RootPath(documents) ==
    IF ModelIndexPath \in DOMAIN documents THEN Some(ModelIndexPath)
    ELSE IF ConfigPath \in DOMAIN documents THEN Some(ConfigPath)
    ELSE None

-----------------------------------------------------------------------------

\* A member that is a string and not empty.
Given(object, name) ==
    name \in DOMAIN object /\ IsText(object[name]) /\ object[name][2] # <<>>

\* What take_string returns of an object, and the members it removes.
StringOf(object, name) == IF Given(object, name) THEN Some(object[name][2]) ELSE None
Used(object, name)     == IF Given(object, name) THEN {name} ELSE {}

Architectures(object) ==
    IF <<"architectures">> \in DOMAIN object /\ object[<<"architectures">>][1] = "list"
    THEN object[<<"architectures">>][2]
    ELSE <<>>

\* The places of the ones that are strings and not empty.
UsableArchitectures(object) ==
    {i \in 1..Len(Architectures(object)) :
        IsText(Architectures(object)[i]) /\ Architectures(object)[i][2] # <<>>}

\* take_architecture: the name, where it comes from, and the members
\* removed.  A list with anything but strings and nulls in it stays.
TakeArchitecture(object, root) ==
    LET found(id, source, used) == Some([id |-> id, source |-> source, used |-> used])
        usable == UsableArchitectures(object)
        clean  == \A value \in ToSet(Architectures(object)) : value = Null \/ IsText(value)
    IN  IF root = ModelIndexPath
        THEN IF Given(object, <<"_class_name">>)
             THEN found(object[<<"_class_name">>][2], "model_index_class_name", {<<"_class_name">>})
             ELSE None
        ELSE IF usable # {}
        THEN found(Architectures(object)[Min(usable)][2], "config_architectures",
                   IF clean THEN {<<"architectures">>} ELSE {})
        ELSE IF Given(object, <<"_class_name">>)
        THEN found(object[<<"_class_name">>][2], "config_class_name", {<<"_class_name">>})
        ELSE IF Given(object, <<"model_type">>)
        THEN found(object[<<"model_type">>][2], "config_model_type", {})
        ELSE None

KnownTasks ==
    {<<t>> : t \in
        {"text-generation", "text-classification", "token-classification",
         "question-answering", "feature-extraction", "image-classification",
         "object-detection", "image-segmentation", "automatic-speech-recognition",
         "text-to-speech", "text-to-image", "image-to-image", "image-inpainting",
         "inpainting", "unconditional-image-generation", "text-to-video",
         "image-to-video", "video-generation", "text-to-audio", "audio-generation"}}

\* TaskKind::from_source; a kind has the name of its own spelling.
TaskKind(spelling) ==
    CASE spelling = <<"image-inpainting">>                         -> <<"kind", "inpainting">>
      [] spelling \in {<<"text-to-video">>, <<"image-to-video">>}  -> <<"kind", "video-generation">>
      [] spelling = <<"text-to-audio">>                            -> <<"kind", "audio-generation">>
      [] spelling \in KnownTasks /\ spelling \notin
            {<<"image-inpainting">>, <<"text-to-video">>, <<"image-to-video">>, <<"text-to-audio">>}
                                                                   -> <<"kind", spelling[1]>>
      [] OTHER                                                     -> <<"other", spelling>>

\* Mutant of TaskName: the alias is removed when the tag is there.
TaskNameBoth(object) ==
    IF Given(object, <<"pipeline_tag">>) THEN {<<"pipeline_tag">>, <<"task">>}
    ELSE IF Given(object, <<"task">>) THEN {<<"task">>} ELSE {}

\* The member the task comes from, if any: the alias only without the tag.
TaskName(object) ==
    IF Given(object, <<"pipeline_tag">>) THEN {<<"pipeline_tag">>}
    ELSE IF Given(object, <<"task">>) THEN {<<"task">>} ELSE {}

-----------------------------------------------------------------------------

\* views::is_model_index_metadata
Metadata(name) ==
    \/ name # <<>> /\ name[1] \in Underscored
    \/ name \in {<<"pipeline_tag">>, <<"task">>, <<"auto_map">>, <<"auto_mapping">>,
                 <<"custom_pipeline">>, <<"trust_remote_code">>}

\* Mutant of ComponentTuple: a library without a class counts.
ComponentTupleLoose(value) ==
    IsPair(value) /\ \A i \in 1..2 : value[2][i] = Null \/ IsText(value[2][i])

\* The tuples take_components takes and is_model_index_component_tuple knows:
\* library and class, class only, or neither.
ComponentTuple(value) ==
    /\ IsPair(value)
    /\ \/ IsText(value[2][2]) /\ (IsText(value[2][1]) \/ value[2][1] = Null)
       \/ value[2][1] = Null /\ value[2][2] = Null

ComponentNames(object) ==
    {name \in DOMAIN object : ~Metadata(name) /\ ComponentTuple(object[name])}

\* is_safe_component_name: one segment of a portable path.
SafeName(name) == name # <<>> /\ name \notin UnsafeNames

PathOf(name) == IF SafeName(name) THEN Some(<<name>>) ELSE None

\* The component a tuple stands for.
Component(name, value) ==
    LET library == value[2][1]
        class   == value[2][2]
    IN  [name          |-> name,
         path          |-> IF class = Null THEN None ELSE PathOf(name),
         library       |-> IF IsText(library) THEN Some(library[2]) ELSE None,
         architecture  |-> IF IsText(class) THEN Some(class[2]) ELSE None,
         optional      |-> class = Null,
         requires_code |-> class # Null /\ library = Null]

\* derive_component_path records the default it applies.
DefaultRule   == <<"diffusers-component-name-is-path-v1">>
Field(name)   == <<"pointer", <<<<"components">>, name, <<"path">>>>>>
Default(name) == [field |-> Field(name), value |-> Text(name), rule |-> DefaultRule]

Space == 0
Slash == 2

\* The bytes of a string and of a field's pointer.  (Escapes do not change
\* how two names compare.)
Bytes(string) ==
    FlattenSeq([i \in 1..Len(string) |->
        (IF i = 1 THEN <<>> ELSE <<Space>>) \o Spelling[string[i]]])

FieldBytes(field) ==
    IF field[1] = "text" THEN Bytes(field[2])
    ELSE FlattenSeq([i \in 1..Len(field[2]) |-> <<Slash>> \o Bytes(field[2][i])])

\* Strings compare by their bytes.
ByName(c, d)  == Before(Bytes(c.name), Bytes(d.name))
ByField(c, d) == Before(FieldBytes(c.field), FieldBytes(d.field))

\* take_components
Components(object) ==
    InOrder({Component(name, object[name]) : name \in ComponentNames(object)}, ByName)

AppliedDefaults(object) ==
    LET derived == {name \in ComponentNames(object) :
                        Component(name, object[name]).path # None}
    IN  InOrder({Default(name) : name \in derived}, ByField)

\* normalize, once the root is an object and has an architecture.
Configuration(object, root, architecture) ==
    LET index == root = ModelIndexPath
        rest  == DOMAIN object \ architecture.used
        texts == {<<"model_type">>, <<"transformers_version">>, <<"_diffusers_version">>}
        used  == (UNION {Used(object, name) : name \in texts})
                   \cup TaskName(object)
                   \cup (IF index THEN ComponentNames(object) ELSE {})
    IN  [source_path          |-> root,
         architecture         |-> architecture.id,
         architecture_source  |-> architecture.source,
         model_type           |-> StringOf(object, <<"model_type">>),
         transformers_version |-> StringOf(object, <<"transformers_version">>),
         diffusers_version    |-> StringOf(object, <<"_diffusers_version">>),
         task                 |-> LET name == TaskName(object)
                                  IN  IF name = {} THEN None
                                      ELSE IF <<"pipeline_tag">> \in name
                                      THEN Some(TaskKind(object[<<"pipeline_tag">>][2]))
                                      ELSE Some(TaskKind(object[<<"task">>][2])),
         components           |-> IF index THEN Components(object) ELSE <<>>,
         extra                |-> Restrict(object, rest \ used),
         applied_defaults     |-> IF index THEN AppliedDefaults(object) ELSE <<>>]

\* normalize: <<"ok", configuration>> or <<"error", its kind>>.
Normalize(documents) ==
    IF RootPath(documents) = None THEN <<"error", "MissingRootConfig">>
    ELSE LET root     == RootPath(documents)[1]
             document == documents[root]
         IN  IF document.repeated THEN <<"error", "DuplicateKeys">>
             ELSE IF document.json[1] # "object" THEN <<"error", "ExpectedObject">>
             ELSE LET architecture == TakeArchitecture(document.json[2], root)
                  IN  IF architecture = None THEN <<"error", "MissingArchitecture">>
                      ELSE <<"ok", Configuration(document.json[2], root, architecture[1])>>

-----------------------------------------------------------------------------

Of(option, Test(_)) == option # None /\ Test(option[1])

\* manifest_identity_is_sensitive
SensitiveIdentity(config) ==
    \/ SensitivePath(config.source_path)
    \/ SensitiveText(config.architecture)
    \/ Of(config.model_type, SensitiveText)
    \/ Of(config.transformers_version, SensitiveText)
    \/ Of(config.diffusers_version, SensitiveText)
    \/ config.task # None /\ config.task[1][1] = "other" /\ SensitiveText(config.task[1][2])
    \/ \E component \in ToSet(config.components) :
          \/ SensitiveText(component.name)
          \/ Of(component.path, SensitivePath)
          \/ Of(component.library, SensitiveText)
          \/ Of(component.architecture, SensitiveText)

Shown(name)          == ~SensitiveKey(name) /\ ~SensitiveText(name)
ShownDefault(default) == ~SensitivePointer(default.field) /\ ~SensitiveMessage(default.rule)

\* manifest_safe: nothing if the identity is sensitive; otherwise members
\* and defaults go by their names and lose the sensitive parts of their
\* values.
ManifestSafe(config) ==
    IF SensitiveIdentity(config) THEN None
    ELSE LET list     == config.applied_defaults
             defaults == AtPlaces(list, {i \in 1..Len(list) : ShownDefault(list[i])})
             shown    == {name \in DOMAIN config.extra : Shown(name)}
         IN  Some([config EXCEPT
                !.extra = [name \in shown |-> Redact(config.extra[name])],
                !.applied_defaults = [i \in 1..Len(defaults) |->
                    [defaults[i] EXCEPT !.value = Redact(@)]]])

\* manifest_is_safe
ManifestIsSafe(config) ==
    /\ ~SensitiveIdentity(config)
    /\ \A name \in DOMAIN config.extra : Shown(name) /\ Safe(config.extra[name])
    /\ \A default \in ToSet(config.applied_defaults) :
          ShownDefault(default) /\ Safe(default.value)
=============================================================================
