------------------------------ MODULE Selection ------------------------------
(***************************************************************************)
(* Which document is the effective source of the generation settings and   *)
(* of a chat template in a scope (selection.rs).  A scope is a directory,  *)
(* the root being the empty path.  Selecting never merges two documents.   *)
(***************************************************************************)
EXTENDS RepositoryPaths, Fields

CONSTANTS
    Wide,    \* segments of many bytes: they count for three
    MaxPath  \* MAX_REPOSITORY_PATH_BYTES, counting segments

Size(path) == Len(path) + 2 * Cardinality({i \in 1..Len(path) : path[i] \in Wide})

\* path_serde::validate, with the length.
Valid(path) == path # <<>> /\ Portable(path) /\ Size(path) <= MaxPath

Selected(path) == <<"selected", path>>
Refused(error) == <<"error", error>>
Nothing        == <<"none">>

Scoped(scope, name) == Append(scope, <<name>>)

\* GENERATION_FIELDS of selection.rs
LegacyGenerationFields ==
    {<<w>> : w \in {
        "assistant_confidence_threshold", "assistant_early_exit",
        "assistant_lookbehind", "bad_words_ids", "begin_suppress_tokens",
        "bos_token_id", "cache_config", "cache_implementation",
        "compile_config", "constraints", "continuous_batching_config",
        "decoder_start_token_id", "disable_compile", "diversity_penalty",
        "do_sample", "dola_layers", "early_stopping",
        "encoder_no_repeat_ngram_size", "encoder_repetition_penalty",
        "eos_token_id", "eta_cutoff", "epsilon_cutoff",
        "exponential_decay_length_penalty", "force_words_ids",
        "forced_bos_token_id", "forced_decoder_ids", "forced_eos_token_id",
        "guidance_scale", "is_assistant", "length_penalty", "low_memory",
        "max_length", "max_matching_ngram_size", "max_new_tokens", "max_time",
        "min_length", "min_new_tokens", "min_p", "no_repeat_ngram_size",
        "num_assistant_tokens", "num_assistant_tokens_schedule", "num_beams",
        "num_beam_groups", "num_return_sequences", "output_attentions",
        "output_hidden_states", "output_logits", "output_scores",
        "pad_token_id", "penalty_alpha", "prefill_chunk_size",
        "prompt_lookup_num_tokens", "repetition_penalty",
        "remove_invalid_values", "renormalize_logits",
        "return_dict_in_generate", "sequence_bias", "suppress_tokens",
        "stop_strings", "target_lookbehind", "temperature", "token_healing",
        "top_h", "top_k", "top_p", "typical_p", "use_cache",
        "watermarking_config"}}

\* generation_source_at: the path of the source, if there is one.
GenerationSource(documents, scope) ==
    LET dedicated == Scoped(scope, "generation_config.json")
        legacy    == Scoped(scope, "config.json")
    IN  IF dedicated \in DOMAIN documents THEN Selected(dedicated)
        ELSE IF /\ legacy \in DOMAIN documents /\ Usable(documents[legacy])
                /\ DOMAIN documents[legacy].json[2] \cap LegacyGenerationFields # {}
        THEN Selected(legacy)
        ELSE Nothing

\* Where a caller may ask: the root, by a function of its own, or a path that
\* path_serde::validate lets pass.
GenerationSourceIn(documents, scope) ==
    IF Valid(scope) THEN GenerationSource(documents, scope)
    ELSE Refused("UnsafePath")

\* An inline template that may be selected.
InlineTemplate(document) ==
    /\ Usable(document)
    /\ <<"chat_template">> \in DOMAIN document.json[2]
    /\ document.json[2][<<"chat_template">>][1] \in {"text", "object", "list"}

\* Mutant of ChatTemplate: bytes that are no text do not block the inline
\* template.
ChatTemplateFallback(documents, scope, inline) ==
    LET standalone == Scoped(scope, "chat_template.jinja")
        document   == Scoped(scope, inline)
    IN  IF standalone \in DOMAIN documents /\ documents[standalone].json = <<"source">>
        THEN Selected(standalone)
        ELSE IF document \in DOMAIN documents /\ InlineTemplate(documents[document])
        THEN Selected(document)
        ELSE Nothing

\* chat_template_from_at: the path of the template's document, the error of a
\* standalone template that is not UTF-8, or nothing.  The text of a template
\* is <<"source">>, bytes that are no text are <<"bytes">>.
ChatTemplate(documents, scope, inline) ==
    LET standalone == Scoped(scope, "chat_template.jinja")
        document   == Scoped(scope, inline)
    IN  IF standalone \in DOMAIN documents
        THEN IF documents[standalone].json = <<"source">> THEN Selected(standalone) ELSE Refused("InvalidUtf8")
        ELSE IF document \in DOMAIN documents /\ InlineTemplate(documents[document])
        THEN Selected(document)
        ELSE Nothing

\* tokenizer_chat_template_in and processor_chat_template_in
ChatTemplateIn(documents, scope, inline) ==
    IF Valid(scope) THEN ChatTemplate(documents, scope, inline)
    ELSE Refused("UnsafePath")
=============================================================================
