----------------------------- MODULE TargetGroup -----------------------------
(***************************************************************************)
(* The seventeen tools that turn the record on the screen into a corpus of  *)
(* the game's script (run_s25u_runtime_stage.sh 905-1027 and 1763-1878).    *)
(* A runtime stage runs them in order; each reads files of earlier ones,    *)
(* writes a published file and then a private one, and ends the stage if it *)
(* raises.  One half of the chain starts from every record a selector can   *)
(* address, the other from the group of the record on the screen.           *)
(*                                                                         *)
(* The target ROM never changes (verify_target_identity).  What a tool      *)
(* writes is a function of the ROM and of what it was made from, so a file   *)
(* here keeps that: the record seen, the font catalog and code, the start   *)
(* pages; and the tools whose present publication its hashes name.          *)
(***************************************************************************)
EXTENDS GroupRecords, GroupText

CONSTANTS Trees,        \* the codes of every context, as loaded from the ROM
          Images,       \* the ROMs considered: [bytes, table, source]
          MaxCaptures,  \* bound: records seen on the screen
          DrawContexts, \* bound: contexts the renderer started a record from
          MaxKills      \* bound: kills of a stage (time limit, reboot)

ASSUME ImagesAssumption == \A i \in Images : IsImage(i)
ASSUME BoundsAssumption == {MaxCaptures, MaxKills} \subseteq Nat

Chain == <<"visible", "extract", "usage", "stream", "population", "decode", "expanded",
           "nonHangul", "corpus", "quality", "context", "runtime", "delta", "text",
           "fuzzy", "script", "unicode">>
Tools == Range(Chain)

VARIABLES image,      \* the ROM
          seen,       \* the record last seen on the screen
          captures,
          code,       \* the version of the tools
          catalog,    \* the version that made the font catalog; 0 if it is missing
          safe,       \* published files, by tool
          local,      \* private files, by tool
          queue,      \* tools the stage has still to run
          writing,    \* the second write of a tool, or Done
          refusal,    \* the tool that ended the last stage, and over what
          kills,
          torn        \* history: decode, corpus, if a kill stopped it between its files

vars == <<image, seen, captures, code, catalog, safe, local, queue, writing, refusal,
          kills, torn>>

NotSeen == [selector |-> -1, ordinal |-> 0, context |-> 0]
Done == [tool |-> "none", side |-> "none", file |-> 0]
NoRefusal == [tool |-> "none", over |-> "none"]
Missing == [seen |-> NotSeen, pages |-> {}, catalog |-> 0, named |-> 0, code |-> 0, from |-> {}]

Exist(files) == \A f \in files : f.code # 0

----------------------------------------------------------------------------
(* What the tools compute.                                                  *)

Font(version) == Hangul[version]

Payloads(of) == LET group == GroupOf(image, of) IN [o \in DOMAIN group |-> group[o].payload]
Selected(of) == Last(Payloads(of))

\* The records the running game can have drawn: they decode from the
\* terminator (v5_1_visible_script_record.py) and from the context it used.
Drawable(i) ==
    {s \in [selector : ValidSelectors(i), ordinal : 0 .. Addressable - 1, context : DrawContexts] :
        LET group == GroupOf(i, s)
        IN  /\ group # NoGroup
            /\ Last(group).end <= BankEnd
            /\ Last(group).payload # <<>>
            /\ {End, s.context} \subseteq DOMAIN CandidateDecodes(Trees, Last(group).payload)}

VisibleSymbols == DecodeFrom1(Trees, Selected(seen), End)

\* build_confirmed_group_extract: "confirmed-group-roundtrip-pass", or records
\* that are empty or do not decode from the terminator are left unresolved
Complete(of) == \A o \in DOMAIN Payloads(of) :
    Payloads(of)[o] # <<>> /\ DecodeFrom1(Trees, Payloads(of)[o], End) # Error

Nonempty == {r.payload : r \in {q \in Population(image) : q.payload # <<>>}}
Decodable == {p \in Nonempty : DOMAIN CandidateDecodes(Trees, p) # {}}

\* The tokens of the texts a decode found, and of those of a group
DecodeTexts(f) == {TextTokens(Trees, p, Font(f.catalog), f.pages) :
    p \in {q \in Decodable : HasText(Trees, q, Font(f.catalog), f.pages)}}
GroupTexts(f) == {TextTokens(Trees, p, Font(f.catalog), f.pages) :
    p \in {q \in Range(Payloads(f.seen)) : HasText(Trees, q, Font(f.catalog), f.pages)}}

Overrides(f) == FuzzyOverrides(Unmatched(DecodeTexts(f)), Font(f.code))
Exacts(f) == NonHangulOverrides(Unmatched(DecodeTexts(f)))

\* assemble_script_corpus, classify_expanded_records: the records with text, their
\* glyphs that neither the font nor an override reads, and their controls.  All
\* of it goes by the font catalog, the start pages and the tools of the corpus.
CountsOf(made) ==
    LET texts == {p \in Decodable : HasText(Trees, p, Font(made.catalog), made.pages)}
        known == DOMAIN Overrides(made) \cup DOMAIN Exacts(made)
        total(Test(_)) == MapThenSumSet(
            LAMBDA p : CountOf(TextTokens(Trees, p, Font(made.catalog), made.pages), Test), texts)
    IN  [records    |-> Cardinality(texts),
         unresolved |-> total(LAMBDA t : IsGlyph(t) /\ ~IsUnique(t)
                                             /\ <<t.page, t.symbol>> \notin known),
         controls   |-> total(LAMBDA t : t.kind = "control")]
CorpusCounts(f) == CountsOf([catalog |-> f.catalog, pages |-> f.pages, code |-> f.code])

\* Glyphs that are both clearly near a Hangul syllable and exactly another
\* character.
Overlap(f, g) == DOMAIN Overrides(f) \cap DOMAIN Exacts(g) # {}

RuntimeStreams == LET all == Payloads(local["runtime"].seen)
                      c   == local["runtime"].seen.context
                  IN  [o \in {n \in DOMAIN all : DecodeFrom1(Trees, all[n], c) # Error} |->
                          DecodeFrom1(Trees, all[o], c)]

----------------------------------------------------------------------------
(* The steps of a stage.                                                    *)

Running(t) == queue # <<>> /\ Head(queue) = t /\ writing = Done

\* Not ready, not required or nothing to do.
Pass == /\ queue' = Tail(queue)
        /\ UNCHANGED <<image, seen, captures, code, catalog, safe, local, writing, refusal, kills, torn>>

Refuse(t, over) ==
    /\ queue' = <<>> /\ refusal' = [tool |-> t, over |-> over]
    /\ UNCHANGED <<image, seen, captures, code, catalog, safe, local, writing, kills, torn>>

\* Hashes of the file that is replaced name nothing any more.
Replace(files, t, file) ==
    [u \in Tools |-> IF u = t THEN file ELSE [files[u] EXCEPT !.from = @ \ {t}]]
Stale(files, t) == [u \in Tools |-> [files[u] EXCEPT !.from = @ \ {t}]]

Publish(t, file) ==
    /\ safe' = Replace(safe, t, file)
    /\ local' = Stale(local, t)
    /\ writing' = [tool |-> t, side |-> "local", file |-> file]
    /\ UNCHANGED <<image, seen, captures, code, catalog, queue, refusal, kills, torn>>

WriteSecond ==
    /\ writing # Done
    /\ IF writing.side = "local"
       THEN local' = [local EXCEPT ![writing.tool] = writing.file] /\ UNCHANGED safe
       ELSE /\ safe' = Replace(safe, writing.tool, writing.file)
            /\ local' = Stale(local, writing.tool)
    /\ writing' = Done /\ queue' = Tail(queue)
    /\ UNCHANGED <<image, seen, captures, code, catalog, refusal, kills, torn>>

\* The shape of main of every tool: inputs are missing or none are due, files
\* disagree, records are not of the kind it expects, or it publishes.
Tool(t, waits, disagree, unfit, file) ==
    /\ Running(t)
    /\ IF waits THEN Pass
       ELSE IF disagree THEN Refuse(t, "files")
       ELSE IF unfit THEN Refuse(t, "records")
       ELSE Publish(t, file)

Made(of, pages, from) == [seen |-> of, pages |-> pages, catalog |-> catalog, named |-> catalog,
                          code |-> code, from |-> from]

----------------------------------------------------------------------------
(* The tools up to the corpus of all addressable records.                   *)

\* Main of v5_1_visible_unicode_mapping.py: a page select the record got wrong
\* raises.
Visible ==
    Tool("visible", seen = NotSeen \/ catalog = 0, FALSE,
         Raises(VisibleTokens(VisibleSymbols, Font(catalog))),
         Made(seen, InitialPages(VisibleSymbols, Font(catalog)), {}))

\* build_confirmed_group_extract
ExtractFile == Made(seen, {}, {})

Extract == Tool("extract", seen = NotSeen, FALSE, GroupOf(image, seen) = NoGroup, ExtractFile)

\* Main of v5_1_target_group_usage.py: what the code of the ROM passes to the
\* text drawer; the ROM alone decides.
Usage == Tool("usage", FALSE, FALSE, FALSE, Made(seen, {}, {}))

\* build_target_group_stream_map, build_target_group_population
StreamMapFile == Made(safe["extract"].seen, {}, {"usage", "extract"})
PopulationFile == Made(safe["extract"].seen, {}, {"usage", "stream", "extract"})

StreamMap ==
    Tool("stream", ~Exist({safe["usage"], safe["extract"]}), FALSE,
         StreamCrosses(image, safe["extract"].seen), StreamMapFile)

Populate ==
    Tool("population", ~Exist({safe["usage"], safe["stream"], safe["extract"]}), FALSE, FALSE,
         PopulationFile)

\* Planted fault: the catalog is not compared.
ReusableAnyCatalog ==
    /\ Exist({safe["decode"], local["decode"]})
    /\ local["decode"].pages = local["visible"].pages

\* The earlier decode is of the same records, start pages and font catalog:
\* the published file is asked for the catalog, the private one for the rest.
\* The records of a ROM never change.
Reusable ==
    /\ Exist({safe["decode"], local["decode"]})
    /\ safe["decode"].named = catalog
    /\ local["decode"].pages = local["visible"].pages

\* Main of v5_1_target_group_population_decode.py.  Reuse writes the private
\* file first, with the counts of the earlier decode and the hashes of now.
DecodeUnfit ==
    \/ Nonempty = {}
    \/ Decodable # {} /\ local["visible"].pages = {}

\* build_target_group_population_decode
DecodeFile == Made(local["visible"].seen, local["visible"].pages, {"population", "visible"})

DecodeReady == Exist({safe["population"], local["population"], safe["visible"], local["visible"]})
               /\ catalog # 0

PopulationDecode ==
    \/ ~(DecodeReady /\ Reusable)
       /\ Tool("decode", ~DecodeReady, FALSE, DecodeUnfit, DecodeFile)
    \/ /\ Running("decode") /\ DecodeReady /\ Reusable
       /\ writing' = [tool |-> "decode", side |-> "safe",
                      file |-> [local["decode"] EXCEPT !.named = catalog,
                                                      !.from = {"population", "visible"}]]
       /\ UNCHANGED <<image, seen, captures, code, catalog, safe, local, queue, refusal, kills, torn>>

Counted(f) == Cardinality(Unmatched(DecodeTexts(f)))

\* build_target_group_expanded_glyphs, build_target_group_non_hangul_glyphs:
\* both go by the glyphs the decode could not read
ExpandedFile ==
    [Made(seen, local["decode"].pages, {"decode"}) EXCEPT !.catalog = local["decode"].catalog]
NonHangulFile == [local["expanded"] EXCEPT !.from = {"expanded"}]

Expanded ==
    Tool("expanded", ~Exist({safe["decode"], local["decode"]}),
         Counted(safe["decode"]) # Counted(local["decode"]), FALSE, ExpandedFile)

NonHangul ==
    Tool("nonHangul", ~Exist({safe["expanded"], local["expanded"]}),
         Counted(safe["expanded"]) # Counted(local["expanded"]), FALSE, NonHangulFile)

CorpusInputs == {safe["decode"], local["decode"], safe["expanded"], local["expanded"],
                 safe["nonHangul"], local["nonHangul"]}
CorpusDisagrees ==
    \/ "decode" \notin safe["expanded"].from
    \/ "expanded" \notin safe["nonHangul"].from
    \/ Counted(safe["nonHangul"]) # Counted(local["nonHangul"])

\* build_target_group_expanded_corpus, build_target_group_record_quality
CorpusFile == [local["decode"] EXCEPT !.code = code, !.from = {"decode", "expanded", "nonHangul"}]
QualityFile == [local["corpus"] EXCEPT !.from = {"corpus"}]

\* Main of v5_1_target_group_expanded_corpus.py: without a single text an
\* earlier corpus stays.
Corpus ==
    Tool("corpus",
         ~Exist(CorpusInputs) \/ (~CorpusDisagrees /\ DecodeTexts(local["decode"]) = {}),
         CorpusDisagrees,
         Overlap(local["expanded"], local["nonHangul"]), CorpusFile)

Quality ==
    Tool("quality", ~Exist({safe["corpus"], local["corpus"]}),
         CorpusCounts(safe["corpus"]) # CorpusCounts(local["corpus"]), FALSE, QualityFile)

----------------------------------------------------------------------------
(* The tools for the group of the record on the screen.                     *)

\* Planted fault: the resolution does not name the extract it was made from.
NoStamp == {}

\* build_group_context_resolution: the extract of this moment, by hash
ContextStamp == {"extract"}
ContextFile == Made(local["extract"].seen, {}, ContextStamp)

\* Main of v5_1_group_context_resolution.py: not required when every record
\* decoded, and then an earlier resolution stays.
ContextResolution ==
    Tool("context", ~Exist({safe["extract"], local["extract"]}) \/ Complete(safe["extract"].seen),
         FALSE, <<>> \in Range(Payloads(local["extract"].seen)), ContextFile)

\* build_group_runtime_context
RuntimeFile ==
    Made([local["context"].seen EXCEPT !.context = seen.context], {}, {"extract", "context"})

RuntimeContext ==
    Tool("runtime", ~Exist({safe["extract"], safe["context"], local["context"]}) \/ seen = NotSeen,
         "extract" \notin safe["context"].from \cap local["context"].from,
         seen.context \notin DOMAIN CandidateDecodes(Trees, Selected(local["context"].seen)),
         RuntimeFile)

\* build_group_source_delta
DeltaFile == Made(safe["extract"].seen, {}, {"extract", "runtime"})

\* Main of v5_1_group_source_delta.py: the same group of the clean source ROM
SourceDelta ==
    Tool("delta",
         image.source = <<>>
           \/ ~Exist({safe["extract"], local["extract"], safe["runtime"], local["runtime"]}),
         "extract" \notin safe["runtime"].from \cap local["runtime"].from,
         \/ <<>> \in Range(Payloads(local["extract"].seen))
         \/ ParseGroup(image.source, Physical(image, safe["extract"].seen.selector),
                       safe["extract"].seen.ordinal + 1) = NoGroup,
         DeltaFile)

\* build_group_text_candidate_resolution
TextFile == Made(local["context"].seen, local["visible"].pages, {"context", "delta", "visible"})

\* Main of v5_1_group_text_candidate_resolution.py: every record of the group
\* must have a decode, and a start page must be left to try.
TextCandidates ==
    Tool("text",
         ~Exist({safe["context"], local["context"], safe["delta"], safe["visible"], local["visible"]})
           \/ catalog = 0,
         ("extract" \in safe["delta"].from) # ("extract" \in safe["context"].from),
         \/ local["visible"].pages = {}
         \/ \E p \in Range(Payloads(local["context"].seen)) : DOMAIN CandidateDecodes(Trees, p) = {},
         TextFile)

\* build_unmatched_glyph_fuzzy, build_group_script_corpus
FuzzyFile == [local["text"] EXCEPT !.code = code, !.from = {"text"}]
ScriptFile == [local["text"] EXCEPT !.from = {"text", "fuzzy"}]

GroupCounted(f) == Cardinality(Unmatched(GroupTexts(f)))
GroupOverrides(f) == FuzzyOverrides(Unmatched(GroupTexts(f)), Font(f.code))

Fuzzy ==
    Tool("fuzzy", ~Exist({safe["text"], local["text"]}),
         GroupCounted(safe["text"]) # GroupCounted(local["text"]), FALSE, FuzzyFile)

\* The glyphs of texts, each at its place, that no override reads
NoOverride(texts, overrides, Test(_)) ==
    {x \in UNION {{tokens} \X DOMAIN tokens : tokens \in texts} :
        LET t == x[1][x[2]] IN Test(t) /\ <<t.page, t.symbol>> \notin DOMAIN overrides}

\* The counts that assemble_script_corpus, lines 176-192, takes from the private
\* texts and overrides are those of the published files: here a glyph with several
\* characters is open as well, there only those with none.
CountsChanged(texts, published, overrides, fuzzied, known) ==
    \/ Cardinality(texts) # Cardinality(published)
    \/ Cardinality(NoOverride(texts, overrides, LAMBDA t : IsGlyph(t) /\ ~IsUnique(t)))
         # Cardinality(NoOverride(fuzzied, known, IsUnmatched))

\* Several characters look like one of the glyphs.
Ambiguous(texts) == \E tokens \in texts : \E k \in DOMAIN tokens :
    IsGlyph(tokens[k]) /\ ~IsUnique(tokens[k]) /\ ~IsUnmatched(tokens[k])

\* Main of v5_1_group_script_corpus.py: a group without any text raises.
Script ==
    Tool("script", ~Exist({safe["text"], local["text"], safe["fuzzy"], local["fuzzy"]}),
         \/ "text" \notin safe["fuzzy"].from
         \/ /\ GroupTexts(local["text"]) # {}
            /\ CountsChanged(GroupTexts(local["text"]), GroupTexts(safe["text"]),
                             GroupOverrides(local["fuzzy"]),
                             GroupTexts(safe["fuzzy"]), GroupOverrides(safe["fuzzy"])),
         GroupTexts(local["text"]) = {}, ScriptFile)

\* build_confirmed_group_unicode
UnicodeFile ==
    Made(local["runtime"].seen,
         CoveragePages(RuntimeStreams, Font(catalog), local["visible"].pages),
         {"extract", "context", "runtime", "visible"})

\* Main of v5_1_confirmed_group_unicode.py.
Unicode ==
    Tool("unicode",
         ~Exist({safe["extract"], safe["context"], safe["runtime"], local["runtime"],
                 safe["visible"], local["visible"]}) \/ catalog = 0,
         \/ "extract" \notin safe["context"].from
         \/ ~({"extract", "context"} \subseteq safe["runtime"].from \cap local["runtime"].from),
         \/ local["visible"].pages = {}
         \/ \E o \in DOMAIN RuntimeStreams : Raises(Tokens(RuntimeStreams[o], Font(catalog), 0)),
         UnicodeFile)

----------------------------------------------------------------------------
(* Around the stage.                                                        *)

\* prepare_visible_font_catalog makes a catalog that is missing once the
\* renderer chain is confirmed; a download that fails ends the stage here.
StartStage ==
    /\ queue = <<>>
    /\ queue' = Chain /\ refusal' = NoRefusal
    /\ catalog' = IF catalog = 0 /\ seen # NotSeen THEN code ELSE catalog
    /\ UNCHANGED <<image, seen, captures, code, safe, local, writing, kills, torn>>

\* Another text capture confirmed another record.
Capture ==
    /\ queue = <<>> /\ captures < MaxCaptures
    /\ \E s \in Drawable(image) : seen' = s
    /\ captures' = captures + 1
    /\ UNCHANGED <<image, code, catalog, safe, local, queue, writing, refusal, kills, torn>>

\* git pull between stages; the catalog made by earlier tools stays
Update ==
    /\ queue = <<>> /\ code < Len(Hangul)
    /\ code' = code + 1
    /\ UNCHANGED <<image, seen, captures, catalog, safe, local, queue, writing, refusal, kills, torn>>

LoseCatalog ==
    /\ queue = <<>> /\ catalog \notin {0, code}
    /\ catalog' = 0
    /\ UNCHANGED <<image, seen, captures, code, safe, local, queue, writing, refusal, kills, torn>>

Kill ==
    /\ queue # <<>> /\ kills < MaxKills
    /\ kills' = kills + 1
    /\ queue' = <<>> /\ writing' = Done
    /\ torn' = IF writing.side = "local" THEN torn \cup ({writing.tool} \cap {"decode", "corpus"})
             ELSE torn
    /\ UNCHANGED <<image, seen, captures, code, catalog, safe, local, refusal>>

Init ==
    /\ image \in Images
    /\ seen = NotSeen /\ captures = 0 /\ code = 1 /\ catalog = 0
    /\ safe = [t \in Tools |-> Missing] /\ local = [t \in Tools |-> Missing]
    /\ queue = <<>> /\ writing = Done /\ refusal = NoRefusal
    /\ kills = 0 /\ torn = {}

PopulationHalf == \/ Visible \/ Extract \/ Usage \/ StreamMap \/ Populate \/ PopulationDecode
                  \/ Expanded \/ NonHangul \/ Corpus \/ Quality
GroupHalf == \/ ContextResolution \/ RuntimeContext \/ SourceDelta \/ TextCandidates \/ Fuzzy
             \/ Script \/ Unicode

Next == \/ StartStage \/ PopulationHalf \/ GroupHalf \/ WriteSecond
        \/ Capture \/ Update \/ LoseCatalog \/ Kill

Spec == Init /\ [][Next]_vars

----------------------------------------------------------------------------
(* Properties.                                                              *)

\* An aligned stream map is what makes a selector and an ordinal a name: every
\* record any selector can address is one record of one sequence, so two of
\* them never share part of their bytes, whichever pointer each was reached
\* from (v5_1_target_group_stream_map.py 219-245, population 139-201).
AlignedRecordsAreDisjoint ==
    safe["population"] # Missing /\ "stream" \in safe["population"].from
        /\ StreamStatus(image, safe["stream"].seen) = "aligned" =>
            \A q, r \in Population(image) : q.at < r.at => q.end <= r.at

\* Whatever a kill left behind, no tool refuses because the files of the chain
\* disagree: the tools before it have just written them again.  There are three
\* exceptions.  Two are of tools that leave an earlier result as it is: a group
\* that decodes completely after one that did not, whose earlier context resolution
\* is refused by every later stage (v5_1_group_context_resolution.py 478,
\* v5_1_group_runtime_context.py 397), and records without a single text after a
\* kill parted the two files of a corpus, whose counts then disagree
\* (v5_1_target_group_expanded_corpus.py 352, v5_1_target_group_record_quality.py
\* 323).  The third is a text of the group with a glyph that several characters
\* look like, which only one of two counts has (v5_1_group_script_corpus.py 397).
FilesOfAStageAgree ==
    refusal.over = "files" =>
        \/ refusal.tool = "runtime" /\ Complete(safe["extract"].seen)
        \/ /\ refusal.tool = "quality" /\ "corpus" \in torn
           /\ DecodeTexts(local["decode"]) = {}
        \/ refusal.tool = "script" /\ Ambiguous(GroupTexts(local["text"]))

\* Once the decode of a stage is through, its private texts are those that the
\* present start pages and font catalog give, whether they were decoded now or
\* reused; a kill between the two files of a new decode breaks this for good
\* (v5_1_target_group_population_decode.py 437-496).
DecodeIsCurrent ==
    queue # <<>> /\ writing = Done /\ Head(queue) = "expanded" /\ safe["decode"] # Missing
        /\ DecodeReady /\ "decode" \notin torn =>
            DecodeTexts(local["decode"])
                = DecodeTexts([local["decode"] EXCEPT !.pages = local["visible"].pages,
                                                     !.catalog = catalog])

----------------------------------------------------------------------------
(* What lets the tools of a stage rely on each other.                       *)

Begun(t) == safe[t].code # 0 \/ local[t].code # 0
Whole(t) == safe[t].code # 0 /\ local[t].code # 0

IsFile(f) == f = [seen |-> f.seen, pages |-> f.pages, catalog |-> f.catalog,
                  named |-> f.named, code |-> f.code, from |-> f.from]
FilesAreFiles ==
    /\ DOMAIN safe = Tools /\ DOMAIN local = Tools
    /\ \A t \in Tools : IsFile(safe[t]) /\ IsFile(local[t])
    /\ code \in Nat \ {0}

\* The tool of the chain that is next, or running
Place == Len(Chain) + 1 - Len(queue)
HasRun(t) == queue # <<>> /\ \E n \in 1 .. Place - 1 : Chain[n] = t

QueueIsRest ==
    /\ queue \in Seq(Tools) /\ Len(queue) <= Len(Chain)
    /\ \A k \in DOMAIN queue : queue[k] = Chain[Place + k - 1]

WorldIsKnown ==
    /\ image \in Images
    /\ queue # <<>> /\ seen # NotSeen => catalog # 0

\* A file stays once it is there, and so do the files it was made of.
InputsOf(t) ==
    /\ t \in {"visible", "extract"} => seen # NotSeen
    /\ t = "decode" => Whole("population") /\ Whole("visible")
    /\ t = "expanded" => Whole("decode")
    /\ t = "nonHangul" => Whole("expanded")
    /\ t = "corpus" => Whole("nonHangul")
    /\ t = "context" => Whole("extract")
    /\ t = "runtime" => Whole("context")
    /\ t = "delta" => image.source # <<>> /\ Whole("runtime")
    /\ t = "text" => Whole("context") /\ Whole("visible") /\ safe["delta"].code # 0
    /\ t = "fuzzy" => Whole("text")
InputsStay == \A t \in Tools : Begun(t) => InputsOf(t)

SameTexts(f, g) == f.catalog = g.catalog /\ f.pages = g.pages
SameGroup(f, g) == SameTexts(f, g) /\ f.seen = g.seen
SameFuzzy(f, g) == SameGroup(f, g) /\ f.code = g.code
Names(t, u) == u \in safe[t].from \cap local[t].from

\* Of the private decode: it is that of the start pages and the catalog of now.
DecodeIsNew ==
    /\ local["decode"].pages = local["visible"].pages
    /\ "decode" \notin torn => local["decode"].catalog = catalog

\* The file a tool publishes
Fits(t, f) ==
    /\ t = "decode" => f.pages = local["visible"].pages /\ f.catalog = catalog /\ f.named = catalog
    /\ t = "expanded" => "decode" \in f.from
    /\ t = "nonHangul" => "expanded" \in f.from
    /\ t = "context" => "extract" \in f.from
    /\ t = "runtime" => {"extract", "context"} \subseteq f.from /\ Names("context", "extract")
    /\ t = "delta" => "extract" \in f.from
    /\ t = "fuzzy" => "text" \in f.from /\ SameGroup(f, local["text"])

\* The running tool has one file written and the other to write.
WritingIsOwn ==
    writing # Done =>
        LET t == writing.tool
            f == writing.file
        IN  /\ queue # <<>> /\ t = Head(queue) /\ IsFile(f) /\ f.code # 0
            /\ \/ writing.side = "local" /\ safe[t] = f /\ Fits(t, f)
               \/ /\ writing.side = "safe" /\ t = "decode" /\ Whole(t)
                  /\ SameTexts(f, local[t]) /\ f.named = catalog /\ safe[t].named = catalog
                  /\ DecodeIsNew

\* Files no kill has parted
PairsAreWhole ==
    /\ "decode" \notin torn /\ writing.tool # "decode" =>
           safe["decode"].named = local["decode"].catalog
    /\ "corpus" \notin torn /\ writing.tool # "corpus" =>
           SameTexts(safe["corpus"], local["corpus"]) /\ safe["corpus"].code = local["corpus"].code

\* What a tool that has run in this stage leaves to the later ones
Left(t) ==
    /\ t = "decode" /\ DecodeReady =>
           Whole(t) /\ SameTexts(safe[t], local[t]) /\ DecodeIsNew
    /\ t = "expanded" /\ Whole(t) => SameTexts(safe[t], local[t]) /\ "decode" \in safe[t].from
    /\ t = "nonHangul" /\ Whole(t) => SameTexts(safe[t], local[t]) /\ "expanded" \in safe[t].from
    /\ t = "corpus" /\ Whole(t) =>
           \/ SameTexts(safe[t], local[t]) /\ safe[t].code = local[t].code
           \/ "corpus" \in torn /\ DecodeTexts(local["decode"]) = {}
    /\ t = "context" /\ Whole(t) => Complete(safe["extract"].seen) \/ Names(t, "extract")
    /\ t = "runtime" /\ Whole(t) =>
           Names(t, "extract") /\ Names(t, "context") /\ Names("context", "extract")
    /\ t = "delta" /\ safe[t].code # 0 => "extract" \in safe[t].from
    /\ t = "text" /\ Whole(t) => SameTexts(safe[t], local[t]) /\ safe[t].seen = local[t].seen
    /\ t = "fuzzy" /\ Whole(t) =>
           /\ "text" \in safe[t].from
           /\ SameFuzzy(safe[t], local[t]) /\ SameGroup(safe[t], local["text"])
StageIsFit == \A t \in Tools : HasRun(t) => Left(t)

RefusalIsKnown == refusal.over = "files" => queue = <<>> /\ FilesOfAStageAgree

=============================================================================
