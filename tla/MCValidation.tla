---------------------------- MODULE MCValidation ----------------------------
(* Small repositories, in families: every field of every kind of document   *)
(* with every type of value; components, shards and bases that are there,   *)
(* missing or unsafe; tokens; executable metadata; documents that cannot be *)
(* interpreted; the candidates of a selection.                              *)
EXTENDS Validation

t(w)    == Text(<<w>>)
number  == Numeral("small")
pair(a, b) == List(<<a, b>>)
at(name)   == <<<<name>>>>
in(directory, name) == <<<<directory>>, <<name>>>>

doc(json)      == [json |-> json, repeated |-> FALSE, duplicates |-> {}, truncated |-> FALSE]
twice(json, pointers, cut) ==
    [json |-> json, repeated |-> TRUE, duplicates |-> pointers, truncated |-> cut]
object(name, value) == doc(Object(name :> value))
one(path, document) == path :> document

repo(documents, files, directories) ==
    LET all == DOMAIN documents \cup files
    IN  [documents   |-> documents, files |-> all,
         directories |-> directories \cup UNION {Ancestors(p) : p \in all \cup directories}]

\* One value of every type, and more of those whose contents are looked at.
Values ==
    {Null, Bool(FALSE), Bool(TRUE), Text(<<>>), t("ok"), List(<<>>), Object(<<>>),
     Object(<<"ok">> :> number), List(<<number, Numeral("negative")>>), List(<<number, Numeral("large")>>),
     List(<<t("ok"), Null>>), List(<<t("ok"), t("ok")>>), List(<<Null, number>>)}
    \cup {Numeral(r) : r \in {"small", "large", "negative", "fraction", "infinite"}}

Fieldwise ==
    {repo(one(at(name), object(field, value)), {}, {}) :
        <<name, field, value>> \in
            UNION {{name} \X (NamesOf(FieldsOf(Kinds[name])) \cup NamesOf(ViewOf(Kinds[name]))
                              \cup {<<"architectures">>, <<"chat_template">>, <<"model_type">>, <<"other">>}) \X Values :
                     name \in DOMAIN Kinds \ {"chat_template.jinja"}}}
    \cup {repo(one(at("model.safetensors.index.json"), object(<<field>>, value)), {}, {}) :
             field \in {"metadata", "weight_map"},
             value \in Values \cup {Object(<<"total_size">> :> v) : v \in Values}}

Indexes ==
    {repo(documents @@ one(IF scope = "" THEN at("model_index.json") ELSE in(scope, "model_index.json"),
                           doc(Object(<<name>> :> value @@ class))),
          {}, {}) :
        scope \in {"", "pipe"}, name \in {"vae", "..", "wide", "_vae", "task"},
        value \in {pair(t("diffusers"), t("Cls")), pair(t("lib"), t("Cls")), pair(Null, t("Cls")),
                   pair(Null, Null), pair(t("lib"), Null), pair(number, t("Cls")), t("ok")},
        class \in {<<>>, <<"_class_name">> :> t("Pipe")},
        documents \in {<<>>} \cup {one(in("vae", name2), doc(Object(<<>>))) :
                                      name2 \in {"config.json", "special_tokens_map.json"}}}
    \cup {repo(one(at("model_index.json"), doc(Object(<<>> :> pair(Null, t("Cls"))))), {}, {})}
    \cup {repo(one(at("model_index.json"), doc(Object(<<"vae">> :> value))), files, directories) :
             value \in {pair(t("diffusers"), t("Cls")), pair(Null, Null)},
             files \in {{}, {at("vae")}}, directories \in {{}, {at("pipe")}}}
    \cup {repo(one(at("model_index.json"), object(<<"vae">>, value)), {}, {at("vae")}) :
             value \in {pair(t("diffusers"), t("Cls")), pair(Null, Null), pair(t("lib"), Null)}}

Shards ==
    {repo(one(IF scope = "" THEN at("model.safetensors.index.json")
              ELSE in(scope, "model.safetensors.index.json"),
              object(<<"weight_map">>, Object(<<"t1">> :> first @@ <<"t2">> :> second))),
          files, {at("sub")}) :
        scope \in {"", "pipe"},
        first  \in {t("part"), t("sub/part"), t("../part"), t("sub"), t("wide"), Text(<<>>), Null},
        second \in {t("part"), t("sub/part"), number},
        files \in SUBSET {at("part"), in("sub", "part"), in("pipe", "part")}}

Bases ==
    {repo(one(IF scope = "" THEN at("adapter_config.json") ELSE in(scope, "adapter_config.json"),
              object(BaseName, base)),
          files, directories) :
        scope \in {"", "pipe"},
        base \in {t(w) : w \in {"org/model", "./base", "./~base", "./", "~base", "../base", "./wide"}}
                 \cup {Text(<<>>), number},
        files \in SUBSET {in("pipe", "base")}, directories \in SUBSET {at("base")}}

Tokens ==
    {Null, Bool(TRUE), t("ok"), number, List(<<>>), Object(<<>>)}
    \cup {Object(<<"content">> :> t("ok") @@ field :> v) : field \in AddedTokenFlags, v \in {Null, t("ok"), Bool(TRUE)}}
    \cup {Object(<<"content">> :> v) : v \in {Null, number, t("ok"), Text(<<>>)}}

SpecialTokens ==
    {repo(one(at(name), object(<<field>>, value)), {}, {}) :
        name \in {"tokenizer_config.json", "special_tokens_map.json"},
        field \in {"bos_token", "additional_special_tokens", "added_tokens_decoder"},
        value \in Tokens \cup {List(<<t("ok"), token>>) : token \in Tokens}
                  \cup {Object(<<"one">> :> t("ok") @@ <<"two">> :> token) : token \in Tokens}}

locator(name, value) == Object(<<name>> :> value @@ <<"tokenizer_class">> :> t("Cls"))

Code ==
    {repo(one(at(name), doc(Object(<<"auto_map">> :> first @@ <<"ok">> :> second @@ <<"processor_class">> :> t("Cls")))),
          {}, {}) :
        name \in {"config.json", "processor_config.json"},
        first \in {Null, Bool(FALSE), Bool(TRUE), number, Text(<<>>), t("ok"), List(<<>>), Object(<<>>),
                   locator("_module", t("ok")), List(<<locator("custom_pipeline", t("ok"))>>)},
        second \in {Null, locator("trust_remote_code", Bool(TRUE)), locator("trust_remote_code", Bool(FALSE)),
                    locator("auto_mapping", Object(<<>>)),
                    List(<<number, Object(<<"ok">> :> locator("_module", t("ok")))>>)}}
    \cup {repo(one(at("config.json"), doc(List(<<locator("auto_map", t("ok"))>>))), {}, {}),
          repo(one(at("model_index.json"),
                   doc(Object(<<"vae">> :> pair(t("lib"), t("Cls")) @@ <<"auto_map">> :> t("ok")
                              @@ <<"processor_class">> :> t("Cls")))), {}, {})}

Companions ==
    {repo(one(at("processor_config.json"), doc(Object(<<first>> :> value))) @@ companions, {}, {}) :
        first \in {"tokenizer_class", "tokenizer", "image_processor_type", "image_processor"},
        value \in {Null, Text(<<>>), t("ok"), Object(<<>>), Object(<<"ok">> :> number)},
        companions \in {<<>>, one(at("tokenizer_config.json"), doc(Object(<<>>))),
                        one(at("preprocessor_config.json"), doc(List(<<>>)))}}

deep == <<<<"ok">>, <<"ok">>, <<"ok">>, <<"ok">>>>

Odd(json) ==
    {doc(<<"malformed">>), doc(List(<<>>)), doc(Null), doc(json), twice(json, {<<<<"ok">>>>}, FALSE),
     twice(json, {<<<<"ok">>>>, deep}, TRUE), twice(List(<<>>), {deep}, FALSE), twice(json, {}, TRUE)}

Roots ==
    {repo(documents, {}, {}) :
        documents \in
            {one(at(name), document) : name \in DOMAIN Kinds \ {"chat_template.jinja"},
                                       document \in Odd(locator("auto_map", t("ok")))}
            \cup {one(at("config.json"), first) @@ one(at("model_index.json"), second) :
                     first  \in Odd(Object(<<"model_type">> :> t("ok"))),
                     second \in Odd(Object(<<"_class_name">> :> t("Pipe")))}}

Candidates1(json) == {<<>>} \cup {<<d>> : d \in {doc(j) : j \in json}}

Selections ==
    LET place(scope, name) == IF scope = "" THEN at(name) ELSE in(scope, name)
        some(path, option) == IF option = <<>> THEN <<>> ELSE one(path, option[1])
    IN  {repo(some(place(scope, "generation_config.json"), generation)
              @@ some(place(scope, "config.json"), config)
              @@ some(place(scope, "chat_template.jinja"), template)
              @@ some(place(scope, inline), holder), {}, {}) :
            scope \in {"", "pipe"}, inline \in {"tokenizer_config.json", "processor_config.json"},
            generation \in Candidates1({Object(<<>>), List(<<>>), <<"malformed">>}),
            config \in Candidates1({Object(<<"top_k">> :> Numeral("large")), Object(<<"max_time">> :> t("ok")),
                                   Object(<<"model_type">> :> t("ok")), List(<<>>)})
                       \cup {<<twice(Object(<<"top_k">> :> number), {<<<<"top_k">>>>}, FALSE)>>},
            template \in Candidates1({<<"source">>, <<"bytes">>}),
            holder \in Candidates1({Object(<<"chat_template">> :> t("ok")), Object(<<"chat_template">> :> number),
                                   Object(<<"chat_template">> :> Null), Object(<<>>), List(<<>>)})}

MCRepositories ==
    Fieldwise \cup Indexes \cup Shards \cup Bases \cup SpecialTokens \cup Code \cup Companions
    \cup Roots \cup {r \in Selections : DOMAIN r.documents # {}}

-----------------------------------------------------------------------------

MCSpelled  == (<<"sub/part">> :> in("sub", "part")) @@ (<<"../part">> :> in("..", "part"))
MCDotted   == (<<"./base">> :> <<"base">>) @@ (<<"./~base">> :> <<"~base">>)
              @@ (<<"./">> :> <<>>) @@ (<<"./wide">> :> <<"wide">>)
MCEscaping == {<<"../base">>}
MCTildes   == {<<"~base">>}
MCWide     == {<<"wide">>}

MCUnsafe      == {<<"..">>, <<"../base">>}
MCUnderscored == {"_class_name", "_diffusers_version", "_module", "_name_or_path", "_vae"}

\* The words of the fields of a root index, each with bytes of its own.
IndexWords ==
    {"architectures", "chat_template", "model_type", "other"}
    \cup {name[1] : name \in NamesOf(FieldsOf("ModelIndex")) \cup NamesOf(ViewOf("ModelIndex"))}

MCSpelling ==
    ("components" :> <<3>>) @@ ("path" :> <<9>>) @@ ("vae" :> <<7>>) @@ ("wide" :> <<8>>) @@ (".." :> <<1, 1>>)
    @@ LET words == FoldSet(LAMBDA w, list : Append(list, w), <<>>, IndexWords)
       IN  [w \in IndexWords |-> <<10 + CHOOSE i \in DOMAIN words : words[i] = w>>]

Names1 ==
    <<"adapter_config.json", "base", "chat_template.jinja", "config.json", "generation_config.json",
      "model.safetensors.index.json", "model_index.json", "part", "preprocessor_config.json",
      "processor_config.json", "quantization_config.json", "scheduler_config.json",
      "special_tokens_map.json", "tokenizer_config.json">>

PathList ==
    [i \in 1..8 |-> at(Names1[i])]
    \o <<at("pipe")>> \o [i \in 1..Len(Names1) |-> in("pipe", Names1[i])]
    \o [i \in 1..Len(Names1) - 9 |-> at(Names1[i + 8])]
    \o <<at("sub"), in("sub", "part"), at("tokenizer_config.json"), at("vae"),
         in("vae", "config.json"), in("vae", "special_tokens_map.json")>>
MCPaths == ToSet(PathList)
MCOrder == [p \in MCPaths |-> CHOOSE i \in 1..Len(PathList) : PathList[i] = p]
MCFold  == [s \in UNION {ToSet(p) : p \in MCPaths} |-> s]
MCRecognized == {<<name>> : name \in DOMAIN Kinds \cup {"model.safetensors.index.json"}}
=============================================================================
