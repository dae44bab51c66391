-------------------------------- MODULE Views --------------------------------
(***************************************************************************)
(* The typed views (views.rs): which members of a document each view has   *)
(* an accessor for, and what the accessor makes of the value there.  The   *)
(* views and the tables of module Fields are two readings of the same      *)
(* documents; nothing in the code ties one to the other.                   *)
(***************************************************************************)
EXTENDS Fields

ConfigView ==
    Typed("String", {
        "_name_or_path", "_class_name", "model_type", "transformers_version",
        "_diffusers_version", "pipeline_tag", "task", "torch_dtype"})
    \cup Typed("Raw", {
        "architectures", "auto_map", "bos_token_id", "eos_token_id",
        "pad_token_id", "decoder_start_token_id"})
    \cup Typed("Bool", {"tie_word_embeddings", "is_encoder_decoder"})
    \cup Typed("U64", {"vocab_size"})
    \cup Typed("Object", {
        "text_config", "vision_config", "audio_config", "encoder",
        "encoder_config", "decoder", "decoder_config", "quantization_config"})

GenerationConfigView ==
    Typed("Bool", {
        "_from_model_config", "do_sample", "use_cache", "output_scores",
        "return_dict_in_generate"})
    \cup Typed("String", {
        "transformers_version", "cache_implementation",
        "num_assistant_tokens_schedule"})
    \cup Typed("U64", {
        "max_length", "max_new_tokens", "min_length", "min_new_tokens",
        "num_beams", "no_repeat_ngram_size", "encoder_no_repeat_ngram_size",
        "num_assistant_tokens", "assistant_lookbehind", "target_lookbehind"})
    \cup Typed("F64", {
        "temperature", "top_p", "typical_p", "repetition_penalty",
        "encoder_repetition_penalty", "length_penalty",
        "assistant_confidence_threshold"})
    \cup Typed("I64", {"top_k"})
    \cup Typed("Raw", {
        "early_stopping", "bos_token_id", "eos_token_id", "pad_token_id",
        "decoder_start_token_id", "bad_words_ids", "forced_bos_token_id",
        "forced_eos_token_id", "stop_strings"})

TokenizerConfigView ==
    Typed("String", {"tokenizer_class", "padding_side", "truncation_side"})
    \cup Typed("Raw", {"auto_map", "model_max_length", "chat_template"})
    \cup Typed("Bool", {"clean_up_tokenization_spaces", "add_prefix_space"})
    \cup Typed("Token", {
        "bos_token", "eos_token", "unk_token", "sep_token", "pad_token",
        "cls_token", "mask_token"})
    \cup Typed("Tokens", {"additional_special_tokens"})
    \cup Typed("TokensById", {"added_tokens_decoder"})

SpecialTokensMapView ==
    Typed("Token", {
        "bos_token", "eos_token", "unk_token", "sep_token", "pad_token",
        "cls_token", "mask_token"})
    \cup Typed("Tokens", {"additional_special_tokens"})

PreprocessorConfigView ==
    Typed("String", {
        "feature_extractor_type", "image_processor_type", "processor_class"})
    \cup Typed("Bool", {
        "do_resize", "do_center_crop", "do_rescale", "do_normalize",
        "return_attention_mask"})
    \cup Typed("Raw", {
        "size", "crop_size", "resample", "image_mean", "image_std"})
    \cup Typed("F64", {"rescale_factor"})
    \cup Typed("U64", {"sampling_rate"})

ProcessorConfigView ==
    Typed("String", {
        "processor_class", "image_processor_type", "feature_extractor_type",
        "tokenizer_class", "vision_feature_select_strategy"})
    \cup Typed("Raw", {"auto_map", "chat_template"})
    \cup Typed("U64", {"num_additional_image_tokens", "patch_size"})

SchedulerConfigView ==
    Typed("String", {
        "_class_name", "_diffusers_version", "beta_schedule",
        "prediction_type", "timestep_spacing", "variance_type"})
    \cup Typed("F64", {"beta_start", "beta_end"})
    \cup Typed("Raw", {"trained_betas"})
    \cup Typed("U64", {"num_train_timesteps"})
    \cup Typed("I64", {"steps_offset"})
    \cup Typed("Bool", {"clip_sample", "set_alpha_to_one", "skip_prk_steps"})

AdapterConfigView ==
    Typed("String", {
        "peft_type", "task_type", "base_model_name_or_path", "revision", "bias"})
    \cup Typed("Bool", {
        "inference_mode", "fan_in_fan_out", "use_dora", "use_rslora"})
    \cup Typed("U64", {"r"})
    \cup Typed("F64", {"lora_alpha", "lora_dropout"})
    \cup Typed("Raw", {"target_modules", "modules_to_save", "auto_mapping"})

QuantizationConfigView ==
    Typed("String", {
        "quant_method", "bnb_4bit_compute_dtype", "bnb_4bit_quant_type"})
    \cup Typed("U64", {"bits"})
    \cup Typed("Bool", {
        "load_in_4bit", "load_in_8bit", "bnb_4bit_use_double_quant",
        "llm_int8_has_fp16_weight", "llm_int8_enable_fp32_cpu_offload"})
    \cup Typed("F64", {"llm_int8_threshold"})
    \cup Typed("Raw", {
        "llm_int8_skip_modules", "modules_to_not_convert", "config_groups"})

ModelIndexView ==
    Typed("String", {
        "_class_name", "_diffusers_version", "_name_or_path", "pipeline_tag",
        "task"})

SafetensorsIndexView == Typed("Object", {"metadata", "weight_map"})

SafetensorsMetadataView == Typed("U64", {"total_size"})

AddedTokenView ==
    Typed("String", {"content"})
    \cup Typed("Bool", {"single_word", "lstrip", "rstrip", "normalized", "special"})

\* TypedDocumentView::try_from, by the view's accessors.
ViewOf(kind) ==
    CASE kind = "Config"             -> ConfigView
      [] kind = "GenerationConfig"   -> GenerationConfigView
      [] kind = "TokenizerConfig"    -> TokenizerConfigView
      [] kind = "SpecialTokensMap"   -> SpecialTokensMapView
      [] kind = "PreprocessorConfig" -> PreprocessorConfigView
      [] kind = "ProcessorConfig"    -> ProcessorConfigView
      [] kind = "SchedulerConfig"    -> SchedulerConfigView
      [] kind = "ModelIndex"         -> ModelIndexView
      [] kind = "AdapterConfig"      -> AdapterConfigView
      [] kind = "QuantizationConfig" -> QuantizationConfigView
      [] kind = "SafetensorsIndex"   -> SafetensorsIndexView
      [] OTHER                       -> {}

\* KNOWN_FIELDS names what the accessors read, and in a generation config
\* also the members that only `parameter` reads.
Known(kind) ==
    NamesOf(ViewOf(kind)) \cup
    IF kind # "GenerationConfig" THEN {} ELSE {<<w>> : w \in {
        "assistant_early_exit", "begin_suppress_tokens", "cache_config",
        "compile_config", "constraints", "continuous_batching_config",
        "disable_compile", "diversity_penalty", "dola_layers",
        "epsilon_cutoff", "eta_cutoff", "exponential_decay_length_penalty",
        "force_words_ids", "forced_decoder_ids", "guidance_scale",
        "is_assistant", "low_memory", "max_matching_ngram_size", "max_time",
        "min_p", "num_beam_groups", "num_return_sequences",
        "output_attentions", "output_hidden_states", "output_logits",
        "penalty_alpha", "prefill_chunk_size", "prompt_lookup_num_tokens",
        "remove_invalid_values", "renormalize_logits", "sequence_bias",
        "suppress_tokens", "token_healing", "top_h", "watermarking_config"}}

\* ExtraFields
Extra(kind, object) == DOMAIN object \ Known(kind)

-----------------------------------------------------------------------------

\* ObjectView::new: a view of a document with repeated members, or without an
\* object, is refused.
ViewError(document) ==
    IF document.repeated THEN {"DuplicateKeys"}
    ELSE IF document.json[1] # "object" THEN {"ExpectedObject"}
    ELSE {}

Accepts(accessor, value) ==
    CASE accessor = "Raw"        -> TRUE
      [] accessor = "String"     -> IsText(value)
      [] accessor = "Bool"       -> value[1] = "bool"
      [] accessor = "U64"        -> AsU64(value)
      [] accessor = "I64"        -> AsI64(value)
      [] accessor = "F64"        -> AsF64(value)
      [] accessor = "Object"     -> value[1] = "object"
      [] accessor = "Token"      -> IsText(value) \/ value[1] = "object"
      [] accessor = "Tokens"     -> value[1] = "list"
      [] accessor = "TokensById" -> value[1] = "object"

\* The SourceField an accessor returns.
SourceField(object, name, accessor) ==
    IF name \notin DOMAIN object THEN "Missing"
    ELSE IF object[name] = Null THEN "Null"
    ELSE IF Accepts(accessor, object[name]) THEN "Value"
    ELSE "Invalid"

\* classify_special_token: null is no special token.
InvalidToken(value) == ~IsText(value) /\ value[1] # "object"

\* What SafetensorsWeightMapEntries makes of the shard of a tensor.
ShardEntry(value) ==
    CASE value = Null  -> "Null"
      [] IsText(value) -> "Value"
      [] OTHER         -> "Invalid"

\* ConfigView::first_architecture
FirstArchitecture(object) ==
    IF <<"architectures">> \notin DOMAIN object THEN "Missing"
    ELSE IF object[<<"architectures">>] = Null THEN "Null"
    ELSE IF /\ object[<<"architectures">>][1] = "list"
            /\ \E i \in 1..Len(object[<<"architectures">>][2]) :
                  LET value == object[<<"architectures">>][2][i]
                  IN  IsText(value) /\ value[2] # <<>>
    THEN "Value"
    ELSE "Invalid"

\* DiffusersComponent::value
ComponentValue(value) ==
    CASE value[1] # "list" \/ ~IsPair(value)                    -> "Invalid"
      [] IsPair(value) /\ IsText(value[2][2]) /\ IsText(value[2][1])  -> "Reference"
      [] IsPair(value) /\ IsText(value[2][2]) /\ value[2][1] = Null   -> "Reference"
      [] IsPair(value) /\ value[2][1] = Null /\ value[2][2] = Null    -> "Optional"
      [] OTHER                                                  -> "Invalid"

\* is_component_tuple
TupleShaped(value) ==
    IsPair(value) /\ \A i \in 1..2 : value[2][i] = Null \/ IsText(value[2][i])
=============================================================================
