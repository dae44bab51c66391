------------------------------- MODULE Fields -------------------------------
(***************************************************************************)
(* The fields of a document that validation checks, and the shape each one *)
(* must have if it is there and not null (validation.rs).  A document is   *)
(* its parsed value and whether an object in it repeats a member.          *)
(***************************************************************************)
EXTENDS Json

\* The object of a document that can be interpreted: no member is repeated.
Usable(document) == ~document.repeated /\ document.json[1] = "object"

AsU64(value) == value \in {Numeral("small"), Numeral("large")}
AsF64(value) == value[1] = "number" /\ value # Numeral("infinite")

AsI64(value) == value \in {Numeral("small"), Numeral("negative")}

ListOf(value, Test(_)) == value[1] = "list" /\ \A i \in 1..Len(value[2]) : Test(value[2][i])

\* validate_typed_field
HasShape(shape, value) ==
    CASE shape = "Array"               -> value[1] = "list"
      [] shape = "String"              -> IsText(value)
      [] shape = "Bool"                -> value[1] = "bool"
      [] shape = "BoolOrString"        -> value[1] = "bool" \/ IsText(value)
      [] shape = "U64"                 -> AsU64(value)
      [] shape = "I64"                 -> AsI64(value)
      [] shape = "I64OrI64Array"       -> AsI64(value) \/ ListOf(value, AsI64)
      [] shape = "F64"                 -> AsF64(value)
      [] shape = "Object"              -> value[1] = "object"
      [] shape = "StringOrI64Array"    -> IsText(value) \/ ListOf(value, AsI64)
      [] shape = "StringOrStringArray" -> IsText(value) \/ ListOf(value, IsText)

\* Mutant of Misshapen: null is not exempt.
MisshapenNull(object, name, shape) ==
    name \in DOMAIN object /\ ~HasShape(shape, object[name])

Misshapen(object, name, shape) ==
    name \in DOMAIN object /\ object[name] # Null /\ ~HasShape(shape, object[name])

-----------------------------------------------------------------------------

\* A table: which members, of which type.
Typed(type, words) == {[name |-> <<w>>, type |-> type] : w \in words}

NamesOf(table) == {field.name : field \in table}

ConfigFields ==
    Typed("String", {
        "_name_or_path", "_class_name", "_diffusers_version", "model_type",
        "transformers_version", "pipeline_tag", "task", "torch_dtype"})
    \cup Typed("Bool", {"tie_word_embeddings", "is_encoder_decoder"})
    \cup Typed("U64", {"vocab_size"})
    \cup Typed("Object", {
        "audio_config", "decoder", "decoder_config", "encoder",
        "encoder_config", "quantization_config", "text_config", "vision_config"})

GenerationFields ==
    Typed("Bool", {
        "_from_model_config", "disable_compile", "do_sample", "is_assistant",
        "low_memory", "output_attentions", "output_hidden_states",
        "output_logits", "output_scores", "remove_invalid_values",
        "renormalize_logits", "return_dict_in_generate", "token_healing",
        "use_cache"})
    \cup Typed("F64", {
        "assistant_confidence_threshold", "diversity_penalty",
        "encoder_repetition_penalty", "epsilon_cutoff", "eta_cutoff",
        "guidance_scale", "length_penalty", "max_time", "min_p",
        "penalty_alpha", "repetition_penalty", "temperature", "top_h", "top_p",
        "typical_p"})
    \cup Typed("U64", {
        "assistant_early_exit", "assistant_lookbehind",
        "encoder_no_repeat_ngram_size", "max_length",
        "max_matching_ngram_size", "max_new_tokens", "min_length",
        "min_new_tokens", "no_repeat_ngram_size", "num_assistant_tokens",
        "num_beam_groups", "num_beams", "num_return_sequences",
        "prefill_chunk_size", "prompt_lookup_num_tokens", "target_lookbehind"})
    \cup Typed("Array", {
        "bad_words_ids", "begin_suppress_tokens", "constraints",
        "exponential_decay_length_penalty", "force_words_ids",
        "forced_decoder_ids", "suppress_tokens"})
    \cup Typed("I64", {
        "bos_token_id", "forced_bos_token_id", "pad_token_id", "top_k"})
    \cup Typed("Object", {
        "cache_config", "compile_config", "continuous_batching_config",
        "sequence_bias", "watermarking_config"})
    \cup Typed("String", {
        "cache_implementation", "num_assistant_tokens_schedule",
        "transformers_version"})
    \cup Typed("I64OrI64Array", {
        "decoder_start_token_id", "eos_token_id", "forced_eos_token_id"})
    \cup Typed("StringOrI64Array", {"dola_layers"})
    \cup Typed("BoolOrString", {"early_stopping"})
    \cup Typed("StringOrStringArray", {"stop_strings"})

TokenizerFields ==
    Typed("String", {"tokenizer_class", "padding_side", "truncation_side"})
    \cup Typed("Bool", {"clean_up_tokenization_spaces", "add_prefix_space"})

PreprocessorFields ==
    Typed("String", {
        "feature_extractor_type", "image_processor_type", "processor_class"})
    \cup Typed("Bool", {
        "do_resize", "do_center_crop", "do_rescale", "do_normalize",
        "return_attention_mask"})
    \cup Typed("F64", {"rescale_factor"})
    \cup Typed("U64", {"sampling_rate"})

ProcessorFields ==
    Typed("String", {
        "processor_class", "image_processor_type", "feature_extractor_type",
        "tokenizer_class", "vision_feature_select_strategy"})
    \cup Typed("U64", {"num_additional_image_tokens", "patch_size"})

SchedulerFields ==
    Typed("String", {
        "_class_name", "_diffusers_version", "beta_schedule",
        "prediction_type", "timestep_spacing", "variance_type"})
    \cup Typed("F64", {"beta_start", "beta_end"})
    \cup Typed("U64", {"num_train_timesteps"})
    \cup Typed("I64", {"steps_offset"})
    \cup Typed("Bool", {"clip_sample", "set_alpha_to_one", "skip_prk_steps"})

AdapterFields ==
    Typed("String", {
        "peft_type", "task_type", "base_model_name_or_path", "revision", "bias"})
    \cup Typed("Bool", {
        "inference_mode", "fan_in_fan_out", "use_dora", "use_rslora"})
    \cup Typed("U64", {"r"})
    \cup Typed("F64", {"lora_alpha", "lora_dropout"})

QuantizationFields ==
    Typed("String", {
        "quant_method", "bnb_4bit_compute_dtype", "bnb_4bit_quant_type"})
    \cup Typed("U64", {"bits"})
    \cup Typed("Bool", {
        "load_in_4bit", "load_in_8bit", "bnb_4bit_use_double_quant",
        "llm_int8_has_fp16_weight", "llm_int8_enable_fp32_cpu_offload"})
    \cup Typed("F64", {"llm_int8_threshold"})

ModelIndexFields ==
    Typed("String", {
        "_class_name", "_diffusers_version", "_name_or_path", "pipeline_tag",
        "task"})

\* The tables of validate_semantic_fields: a config may hold the generation
\* fields too, but for those about the generation config itself.
FieldsOf(kind) ==
    CASE kind = "Config" ->
            ConfigFields \cup {field \in GenerationFields :
                field.name \notin {<<"_from_model_config">>, <<"transformers_version">>}}
      [] kind = "GenerationConfig"   -> GenerationFields
      [] kind = "TokenizerConfig"    -> TokenizerFields
      [] kind = "PreprocessorConfig" -> PreprocessorFields
      [] kind = "ProcessorConfig"    -> ProcessorFields
      [] kind = "SchedulerConfig"    -> SchedulerFields
      [] kind = "AdapterConfig"      -> AdapterFields
      [] kind = "QuantizationConfig" -> QuantizationFields
      [] kind = "ModelIndex"         -> ModelIndexFields
      [] OTHER                       -> {}

SpecialTokenFields ==
    {<<"bos_token">>, <<"eos_token">>, <<"unk_token">>, <<"sep_token">>,
     <<"pad_token">>, <<"cls_token">>, <<"mask_token">>}

AddedTokenFlags ==
    {<<"single_word">>, <<"lstrip">>, <<"rstrip">>, <<"normalized">>, <<"special">>}
=============================================================================
