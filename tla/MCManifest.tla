----------------------------- MODULE MCManifest -----------------------------
(* A repository with few members, among them the ones that are hard to     *)
(* write or to read: "-" sorts before "/" and "/" before letters.          *)
EXTENDS Manifest

word(w) == <<w>>

MCRooted     == {"~bar"}
MCTokens     == {"hf_x"}
MCTrimmed    == [w \in {"'~bar'"} |-> "~bar"]
MCParameters == [w \in {"http://h?sig"} |-> {<<"sig">>}]
MCKeyParts   ==
    [w \in {"hf_token_value", "bos_token", "_name_or_path"} |->
        CASE w = "hf_token_value" -> <<"hf", "token", "value", "text">>
          [] w = "bos_token"      -> <<"bos", "token">>
          [] w = "_name_or_path"  -> <<"name", "or", "path">>]
MCUnderscored == {"_class_name", "_name_or_path", "_diffusers_version", "_module"}
MCSpelling    ==
    [w \in {"components", "path", "vae", "vae-decoder", "a/b", "x", "~bar", "token", "inpainting"} |->
        CASE w = "components"  -> <<3>>
          [] w = "path"        -> <<9>>
          [] w = "vae"         -> <<7, 4>>
          [] w = "vae-decoder" -> <<7, 4, 1, 5>>
          [] w = "a/b"         -> <<4, 2, 5>>
          [] w = "x"           -> <<8>>
          [] w = "~bar"        -> <<10>>
          [] w = "token"       -> <<6>>
          [] w = "inpainting"  -> <<5>>]

pair(a, b) == List(<<a, b>>)
t(w)       == Text(<<w>>)

notes == Object(<<"bos_token">> :> t("ok") @@ <<"hf_token_value">> :> t("ok")
                @@ <<"list">> :> List(<<t("'~bar'"), t("ok")>>))

MCMembers ==
    {<<ModelIndexPath>> \o m : m \in
        {<<word("_class_name"), t("Pipe")>>, <<word("_class_name"), Text(<<"Foo", "~bar">>)>>,
         <<word("vae"), pair(t("lib"), t("Cls"))>>, <<word("vae"), pair(Null, Null)>>,
         <<word("vae"), pair(t("lib"), Null)>>,
         <<word("vae-decoder"), pair(Null, t("Cls"))>>,
         <<word("a/b"), pair(t("~bar"), t("Cls"))>>,
         <<word("token"), pair(t("lib"), t("Cls"))>>,
         <<<<"x", "~bar">>, Number>>, <<word("notes"), notes>>,
         <<word("pipeline_tag"), t("inpainting")>>, <<word("pipeline_tag"), Number>>,
         <<word("task"), t("chess")>>}}
    \cup
    {<<ConfigPath>> \o m : m \in
        {<<word("architectures"), pair(Null, t("A"))>>, <<word("architectures"), pair(t("A"), Number)>>,
         <<word("_class_name"), t("B")>>, <<word("model_type"), t("bert")>>,
         <<word("model_type"), Text(<<>>)>>, <<word("transformers_version"), t("hf_x")>>,
         <<word("_name_or_path"), t("ok")>>, <<word("task"), t("image-inpainting")>>}}

nested  == <<<<"vae">>, <<"config.json">>>>
odd     == <<<<"x", "~bar">>, <<"config.json">>>>
secret  == <<<<"token">>, <<"config.json">>>>
upper   == <<<<"VAE">>, <<"config.json">>>>
unsafe  == <<<<"a/b">>, <<"config.json">>>>
strange == <<<<"vae">>>>

PathList ==
    <<ConfigPath, ModelIndexPath, <<<<"VAE">>>>, upper, <<<<"a/b">>>>, unsafe, <<<<"token">>>>, secret,
      strange, nested, <<<<"x", "~bar">>>>, odd>>
MCPaths == ToSet(PathList)
MCOther == {nested, odd, secret}
MCOrder == [p \in MCPaths |-> CHOOSE i \in 1..Len(PathList) : PathList[i] = p]
MCSizes == [p \in MCPaths |-> 1]

MCUnsafe     == {<<"a/b">>}
MCRecognized == {<<"config.json">>, <<"model_index.json">>}
MCFold       ==
    [s \in UNION {{p[i] : i \in 1..Len(p)} : p \in MCPaths} |-> IF s = <<"VAE">> THEN <<"vae">> ELSE s]

report(code, level, message, path, pointer, related) ==
    [level |-> level, code |-> code, message |-> message, document_path |-> path,
     json_path |-> pointer, related_path |-> related]

MCReports ==
    {report("missing_component_directory", "error", <<"no", "vae">>, Some(ModelIndexPath),
            Some(<<"pointer", <<<<"vae">>>>>>), Some(strange)),
     report("missing_component_directory", "error", <<"no", "token">>, Some(ModelIndexPath),
            Some(<<"pointer", <<<<"hf_token_value">>>>>>), Some(<<<<"token">>>>)),
     report("symlink_skipped", "warning", <<"skipped", "'~bar'">>, None, None, Some(<<<<"VAE">>>>))}

MCLong     == {<<"long">>}
MCUnknowns == {Object(<<"list">> :> List(<<t("'~bar'")>>)), t("ok")}
MCRenames  == {<<"vae">>, <<"vae-decoder">>, <<"x", "~bar">>, <<"inpainting">>, <<"a/b">>}
=============================================================================
