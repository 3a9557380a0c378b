----------------------------- MODULE BundleRules -----------------------------
(***************************************************************************)
(* The rule table of _load_validated_artifacts in                          *)
(* tools/v5_1_runtime_bundle.py: in the order of the code, each artifact   *)
(* that is derived from others, the alternatives it may rest on, and which *)
(* of them the code looks up before their own rule has run.  An artifact   *)
(* is named by its file, without "v5_1_latest_" and ".json".               *)
(***************************************************************************)
EXTENDS Sequences

Rule(a, evidence) == [artifact |-> a, alternatives |-> {evidence}, early |-> {}]

\* poc_expansion_proof asks for progress_preview, read in line 914 and perhaps
\* dropped in line 936; visible_script_roundtrip for poc_expansion_proof, read
\* in line 963 and perhaps dropped in line 981.
DisplayRules == <<
    Rule("progress_preview", {"display_capture"}),
    Rule("visible_entry_proof", {"display_capture", "display_comparison", "display_review"}),
    [artifact |-> "poc_expansion_proof",
     alternatives |-> {{"display_capture", "display_comparison", "display_review",
                        "progress_preview"}},
     early |-> {"progress_preview"}],
    [artifact |-> "visible_script_roundtrip",
     alternatives |-> {{"poc_expansion_proof"}},
     early |-> {"poc_expansion_proof"}] >>

FontRules == <<
    Rule("renderer_output_trace", {"visible_script_roundtrip"}),
    Rule("visible_unicode_mapping", {"renderer_output_trace", "visible_script_roundtrip"}),
    Rule("initial_font_page_trace", {"visible_unicode_mapping"}),
    Rule("font_transfer_source",
         {"visible_unicode_mapping", "renderer_output_trace", "initial_font_page_trace"}) >>

PopulationRules == <<
    Rule("confirmed_group_extract", {"decoder_register_trace", "visible_script_roundtrip"}),
    Rule("target_group_usage", {"confirmed_group_extract"}),
    Rule("decoder_caller_resolution", {"target_group_usage"}),
    Rule("target_group_stream_map", {"target_group_usage", "confirmed_group_extract"}),
    Rule("target_group_population",
         {"target_group_usage", "target_group_stream_map", "confirmed_group_extract"}),
    Rule("target_group_population_decode", {"target_group_population"}) >>

GlyphRules == <<
    Rule("target_group_expanded_glyphs", {"target_group_population_decode"}),
    Rule("target_group_non_hangul_glyphs", {"target_group_expanded_glyphs"}),
    Rule("target_group_expanded_corpus",
         {"target_group_population_decode", "target_group_expanded_glyphs",
          "target_group_non_hangul_glyphs"}),
    Rule("target_group_record_quality", {"target_group_expanded_corpus"}) >>

PairingRules == <<
    Rule("source_target_anchor", {"target_group_record_quality", "source_script_reference"}),
    Rule("source_target_section_projection",
         {"target_group_record_quality", "source_script_reference", "source_target_anchor"}),
    Rule("source_target_structural_corroboration", {"source_target_section_projection"}),
    Rule("source_target_runtime_sequence",
         {"display_capture", "source_target_structural_corroboration"}),
    Rule("source_target_runtime_context",
         {"source_target_section_projection", "source_target_runtime_sequence"}) >>

DemandRules == <<
    Rule("runtime_context_glyph_demand",
         {"source_target_runtime_context", "source_target_section_projection",
          "source_target_runtime_sequence"}),
    Rule("runtime_context_glyph_candidates",
         {"runtime_context_glyph_demand", "target_group_expanded_glyphs",
          "target_group_non_hangul_glyphs"}),
    Rule("runtime_context_glyph_review",
         {"runtime_context_glyph_demand", "runtime_context_glyph_candidates"}),
    Rule("runtime_context_glyph_preservation",
         {"runtime_context_glyph_candidates", "runtime_context_glyph_review"}) >>

TranslationRules == <<
    Rule("first_context_translation_review",
         {"source_target_runtime_context", "runtime_context_glyph_preservation"}),
    Rule("first_context_translation_approval", {"first_context_translation_review"}),
    Rule("first_context_translation_capacity", {"first_context_translation_approval"}),
    Rule("first_context_translation_encoding",
         {"first_context_translation_capacity", "runtime_context_glyph_preservation"}),
    Rule("first_context_record_reinsertion", {"first_context_translation_encoding"}),
    Rule("first_context_translation_test_build", {"first_context_record_reinsertion"}),
    Rule("first_context_translation_runtime_capture",
         {"first_context_translation_test_build", "source_target_runtime_sequence"}),
    Rule("first_context_translation_visual_review",
         {"first_context_translation_runtime_capture"}) >>

\* The consumer trace rests on the reviewed capture or on the direct one.  The
\* alignment asks for two artifacts by variables read in lines 1508 and 1551.
ConsumerRules == <<
    [artifact |-> "first_context_consumer_trace",
     alternatives |-> {{"first_context_translation_test_build",
                        "first_context_translation_runtime_capture",
                        "first_context_translation_visual_review"},
                       {"first_context_direct_renderer_capture"}},
     early |-> {}],
    [artifact |-> "first_context_bit_alignment",
     alternatives |-> {{"first_context_consumer_trace", "first_context_translation_encoding",
                        "first_context_translation_test_build"}},
     early |-> {"first_context_translation_encoding",
                "first_context_translation_test_build"}] >>

GroupRules == <<
    Rule("group_context_resolution", {"confirmed_group_extract"}),
    Rule("group_runtime_context",
         {"confirmed_group_extract", "group_context_resolution", "renderer_observation"}),
    Rule("group_source_delta", {"confirmed_group_extract", "group_runtime_context"}),
    Rule("source_huffman_locator", {"group_source_delta"}),
    Rule("source_group_codec_probe",
         {"confirmed_group_extract", "group_source_delta", "source_huffman_locator"}) >>

TextRules == <<
    Rule("group_text_candidate_resolution",
         {"group_context_resolution", "group_source_delta", "visible_unicode_mapping"}),
    Rule("unmatched_glyph_fuzzy", {"group_text_candidate_resolution"}),
    Rule("group_script_corpus", {"group_text_candidate_resolution", "unmatched_glyph_fuzzy"}),
    Rule("source_record_pairing",
         {"confirmed_group_extract", "group_source_delta", "group_script_corpus"}),
    Rule("confirmed_group_unicode",
         {"confirmed_group_extract", "group_context_resolution", "group_runtime_context",
          "visible_unicode_mapping"}) >>

AllRules == DisplayRules \o FontRules \o PopulationRules \o GlyphRules \o PairingRules
            \o DemandRules \o TranslationRules \o ConsumerRules \o GroupRules \o TextRules

\* Pairs whose disagreement on an identity makes the whole publication raise.
IdentityPairs == {
    {"runtime_observation", "consumer_resolution"},
    {"renderer_observation", "runtime_observation"},
    {"route_capture", "renderer_observation"},
    {"display_capture", "consumer_resolution"},
    {"display_comparison", "consumer_resolution"},
    {"display_comparison", "display_capture"},
    {"display_review", "display_capture"} }

\* Each published image, with the artifact that vouches for it.
Receipts == [preview_png |-> "progress_preview",
             direct_capture_png |-> "first_context_direct_renderer_capture",
             direct_screenshot_png |-> "first_context_direct_renderer_screenshot"]

\* The artifacts that rest on no other.
BaseArtifacts == UNION IdentityPairs \cup
    {"decoder_register_trace", "source_script_reference",
     "first_context_direct_renderer_capture", "first_context_direct_renderer_screenshot"}
=============================================================================
