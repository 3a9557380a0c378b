----------------------------- MODULE Translation -----------------------------
(***************************************************************************)
(* The first translated dialogue, from the original script on a web page to *)
(* a ROM that shows Korean.  Sixteen tools run one after the other          *)
(* (tools/run_s25u_runtime_stage.sh 1029-1650), each reads the files of the *)
(* ones before it, leaves a private file and then a published one, and      *)
(* names in the published one, by hash, files it was made from.  Which of   *)
(* these hashes a later tool compares differs from tool to tool, and three  *)
(* of the tools are run again on their own when the renderer is examined    *)
(* (385-470).  A person approves the Korean lines and may look at an older  *)
(* review than the one on disk.                                             *)
(*                                                                         *)
(* A file is <<tool, side>>.  What names[t] holds are the files whose hash  *)
(* in the published file of t is still the hash of the file: whoever writes *)
(* a file takes it out everywhere.  Every rewrite counts as a change, since *)
(* a file has the time of its capture; the approval keeps its own.          *)
(***************************************************************************)
EXTENDS TranslationBuild

CONSTANTS Corpora,      \* what the quality tool may leave
          Sources,      \* versions of the web page
          Plays,        \* what the game may show, from its start on
          Visibles,     \* offsets of the record a display proof may name
          TestRoms,     \* ROMs the game may be run with
          MaxKills, MaxChanges    \* bounds of the model

ASSUME BoundsAssumption == {MaxKills, MaxChanges} \subseteq Nat
ASSUME PlaysAssumption == Plays \subseteq Seq(Entries)
ASSUME SourcesAssumption ==
    /\ Sources # {}
    /\ \A s \in Sources : \A n \in DOMAIN s :
           /\ s[n] \in Seq(Range(s[n]))
           /\ \A l \in DOMAIN s[n] : s[n][l].text \in DOMAIN Encoded

VARIABLES corpus, page, testRom,  \* the world: the records with text, from the
                                 \* quality tool; the page; the ROM to run
          file, names, \* the files; what the published ones still name
          mode, queue, \* why tools run; those still to run
          todo,        \* what the running tool has still to write
          reading,     \* the review rows the person last read
                 approvals,   \* all [read, over, targets] ever approved: the lines, the
                 \* batch they were read from, the one put over them (history)
          kills, changes

world == <<corpus, page, testRom>>
vars == <<world, file, names, mode, queue, todo, reading, approvals, kills, changes>>

Chain == <<"source", "anchor", "projection", "corroboration", "sequence", "context",
           "demand", "candidates", "glyphReview", "preservation", "review", "approval",
           "capacity", "encoding", "reinsertion", "build">>
DirectChain == <<"encoding", "reinsertion", "build">>
Tools == Range(Chain)

Priv(t) == <<t, "private">>
Pub(t) == <<t, "published">>
Quality == Pub("quality")
Overlay == <<"encoding", "font">>
Rom == <<"build", "rom">>

Exist(files) == files \subseteq DOMAIN file
Both(tools) == {Priv(t) : t \in tools} \cup {Pub(t) : t \in tools}
NamesOwn(t) == Priv(t) \in names[t]

Texts(rows) == [i \in DOMAIN rows |-> rows[i].text]

----------------------------------------------------------------------------
(* A tool that runs: nothing to do, refused, or its files are written.      *)

Written(entry) ==
    /\ file' = [f \in DOMAIN file \cup {entry.item} |->
                   IF f = entry.item THEN entry.data ELSE file[f]]
    /\ names' = [t \in Tools |-> IF entry.item = Pub(t) THEN entry.from
                                 ELSE names[t] \ {entry.item}]

Remaining(rest) == todo' = rest /\ queue' = IF rest = <<>> THEN Tail(queue) ELSE queue

\* The first write of a tool; the others are WriteOn.
Make(entries) == Written(Head(entries)) /\ Remaining(Tail(entries)) /\ UNCHANGED mode

Pass == queue' = Tail(queue) /\ UNCHANGED <<file, names, mode, todo>>
\* record_stage_failure: no later tool of the stage runs
Refuse == queue' = <<>> /\ UNCHANGED <<file, names, mode, todo>>

\* --if-ready is passed by the stage, not when the renderer is examined.
NotReady == IF mode = "direct" THEN Refuse ELSE Pass

Turn(t) == todo = <<>> /\ queue # <<>> /\ Head(queue) = t
Rest == UNCHANGED <<world, reading, approvals, kills, changes>>

PrivateFile(t, data) == [item |-> Priv(t), data |-> data, from |-> {}]
PublishedFile(t, data, from) == [item |-> Pub(t), data |-> data, from |-> from]

\* The main function of a tool, from its missing inputs to its two files.
Tool(t, inputs, refused, private, published, from) ==
    /\ Turn(t) /\ Rest
    /\ IF ~Exist(inputs) THEN NotReady
       ELSE IF refused THEN Refuse
       ELSE Make(<<PrivateFile(t, private),
                   PublishedFile(t, published, from \cup {Priv(t)})>>)

Yes == [done |-> TRUE]      \* a file nothing is read of but its hash

----------------------------------------------------------------------------
(* The sixteen tools.                                                       *)

\* The local sections are kept for ever; --refresh, by hand, fetches again,
\* and the page may be out of reach.
SourceScript ==
    /\ Turn("source") /\ Rest
    /\ LET fetched == ~Exist({Priv("source")}) \/ mode = "refresh"
           text    == IF fetched THEN page ELSE file[Priv("source")]
       IN  \/ Make(<<PrivateFile("source", text),
                     PublishedFile("source", Yes, {Priv("source")})>>)
           \/ fetched /\ Pass

AnchorFile == [resolved |-> TRUE]
Anchor ==
    Tool("anchor", Both({"source"}), ~AnchorIsUnique(corpus, file[Priv("source")]),
         Yes, AnchorFile, {Quality, Pub("source")})

ProjectionFile(pairs, source) == [ready |-> ProjectionReady(pairs, source)]

Projection ==
    LET source == file[Priv("source")]
    IN  Tool("projection", Both({"source", "anchor"}),
             \/ ~({Quality, Pub("source"), Priv("anchor")} \subseteq names["anchor"])
             \/ ~NamesOwn("source") \/ ~AnchorIsUnique(corpus, source),
             Pairs(corpus, source),
             ProjectionFile(Pairs(corpus, source), source),
             {Quality, Pub("source"), Pub("anchor")})

CorroborationFile(pairs) == [found |-> Corroborated(pairs)]
Corroboration ==
    Tool("corroboration", Both({"projection"}), ~NamesOwn("projection"),
         Yes, CorroborationFile(file[Priv("projection")]), {Pub("projection")})

\* A capture of the same ROM is kept, whatever its status; its hashes are
\* brought up to date.
SequenceReusable ==
    /\ Exist(Both({"sequence"})) /\ NamesOwn("sequence")
    /\ file[Priv("sequence")].rom = testRom

SequenceFiles(seen, rom) ==
    <<PrivateFile("sequence", [seen |-> seen, rom |-> rom]),
      PublishedFile("sequence", [status |-> SequenceStatus(seen)],
                    {Priv("sequence"), Pub("corroboration")})>>

Sequence ==
    /\ Turn("sequence") /\ Rest
    /\ IF ~Exist({Pub("corroboration")}) THEN NotReady
       ELSE IF SequenceReusable
       THEN IF Pub("corroboration") \in names["sequence"] THEN Pass
            ELSE Make(SequenceFiles(file[Priv("sequence")].seen, testRom))
       ELSE \/ \E play \in Plays : IF Captured(play) = <<>> THEN Refuse
                                   ELSE Make(SequenceFiles(Captured(play), testRom))
            \/ Refuse

ContextFile(rows) == [ready |-> ContextReady(rows)]
Context ==
    LET rows == ContextRows(file[Priv("sequence")].seen, file[Priv("projection")])
    IN  Tool("context", Both({"projection", "sequence"}),
             \/ file[Pub("sequence")].status # "ready" \/ file[Priv("projection")] = <<>>
             \/ ~NamesOwn("projection") \/ ~NamesOwn("sequence"),
             rows, ContextFile(rows), {Pub("projection"), Pub("sequence")})

DemandFile(demand) ==
    [blocked |-> Cardinality({i \in DOMAIN demand : demand[i] # <<>>}),
     distinct |-> Cardinality(Glyphs(demand))]
GlyphDemand ==
    LET rows == file[Priv("context")]
    IN  Tool("demand", Both({"projection", "sequence", "context"}),
             \/ ~file[Pub("context")].ready
             \/ ~({Pub("sequence"), Pub("projection"), Priv("context")} \subseteq names["context"])
             \/ ~NamesOwn("sequence") \/ ~NamesOwn("projection")
             \/ ~AllMapped(rows) \/ ~DemandAgrees(rows, Demand(rows)),
             Demand(rows), DemandFile(Demand(rows)), {Pub("context"), Pub("projection"), Pub("sequence")})

CandidatesFile(cards) == [checkpoint |-> CandidatesCheckpoint(cards)]
Candidates ==
    LET cards == Cards(file[Priv("demand")])
    IN  Tool("candidates", Both({"demand"}), ~NamesOwn("demand"),
             cards, CandidatesFile(cards), {Pub("demand")})

ReviewOfGlyphs ==
    LET cards == file[Priv("candidates")]
    IN  Tool("glyphReview", Both({"demand", "candidates"}),
             Pub("demand") \notin names["candidates"]
                 \/ ~NamesOwn("demand") \/ ~NamesOwn("candidates"),
             cards, ReviewCounts(cards, file[Priv("demand")]), {Pub("candidates")})

PreservationFile(cards) == [preserved |-> Cardinality(DOMAIN cards)]
Preservation ==
    LET cards == file[Priv("glyphReview")]
    IN  Tool("preservation", Both({"candidates", "glyphReview"}),
             \/ Pub("candidates") \notin names["glyphReview"]
             \/ ~NamesOwn("candidates") \/ ~NamesOwn("glyphReview")
             \/ ~Preservable(cards, file[Pub("glyphReview")]),
             cards, PreservationFile(cards), {Pub("candidates"), Pub("glyphReview")})

ReviewFile(rows) == [batch |-> Batch(rows)]

\* The preservation need not be the one of this context.
Review ==
    LET rows == file[Priv("context")]
    IN  Tool("review", Both({"context", "preservation"}),
             ~NamesOwn("context") \/ ~NamesOwn("preservation") \/ ~Reviewable(rows),
             Batch(rows), ReviewFile(rows), {Pub("context"), Pub("preservation")})

----------------------------------------------------------------------------
(* The approval and what is made of it.                                     *)

\* _load_review_inputs does not raise
ReviewStands == NamesOwn("review") /\ file[Priv("review")] = file[Pub("review")].batch

ApprovalFiles(local) ==
    <<PrivateFile("approval", local),
      PublishedFile("approval", [batch |-> local.batch], {Priv("approval")})>>

\* An approval of schema 1 has no batch, but hashes that nothing compares.
Unstamped == <<>>

\* migrate_legacy_local_approval: one of schema 1 gets the batch of now
Migrated(local) == [local EXCEPT !.batch = file[Pub("review")].batch]

\* The approval in the stage: a stored one is published again.
Approval ==
    /\ Turn("approval") /\ mode # "approve" /\ Rest
    /\ IF ~Exist(Both({"review"})) THEN Pass
       ELSE IF ~ReviewStands THEN Refuse
       ELSE IF ~Exist({Priv("approval")}) THEN Pass
       ELSE IF file[Priv("approval")].batch = Unstamped
       THEN Make(ApprovalFiles(Migrated(file[Priv("approval")])))
       ELSE IF file[Priv("approval")].batch # file[Pub("review")].batch THEN Refuse
       ELSE Make(Tail(ApprovalFiles(file[Priv("approval")])))

\* Lines for the review rows the person read, as they are stored
Given(local) == [read |-> reading, over |-> local.batch, targets |-> local.targets]

\* --record-approved-stdin: one line for each row, from the review the person
\* read, under the batch of the review that is there now
ApproveByHand ==
    /\ Turn("approval") /\ mode = "approve"
    /\ IF Exist(Both({"review"})) /\ ReviewStands /\ Len(reading) = Len(file[Priv("review")])
       THEN LET local == [batch   |-> file[Pub("review")].batch,
                          targets |-> Texts(reading)]
            IN  Make(ApprovalFiles(local)) /\ approvals' = approvals \cup {Given(local)}
       ELSE Refuse /\ UNCHANGED approvals
    /\ UNCHANGED <<world, reading, kills, changes>>

\* An earlier release of the tool, with schema 1, was there before this one.
ApproveBySchema1 ==
    /\ queue = <<>> /\ reading # <<>> /\ ~Exist({Priv("approval")})
    /\ LET local == [batch |-> Unstamped, targets |-> Texts(reading)]
       IN  /\ Written(PrivateFile("approval", local))
           /\ approvals' = approvals \cup {Given(local)}
    /\ UNCHANGED <<world, mode, queue, todo, reading, kills, changes>>

CapacityFile(approval) == [batch |-> approval.batch]
Capacity ==
    LET local == file[Priv("approval")]
    IN  Tool("capacity", Both({"review", "approval"}),
             \/ ~NamesOwn("approval") \/ local.batch # file[Pub("approval")].batch
             \/ file[Priv("review")] # file[Pub("approval")].batch
             \/ ~HasCapacity(file[Priv("review")], local.targets),
             Yes, CapacityFile(file[Pub("approval")]), {})

\* Planted fault: only the published files are asked for their batch.
SameBatchPublished == file[Pub("capacity")].batch = file[Pub("approval")].batch

\* The encoder compares the batches of three files, and no hashes.
SameBatch ==
    /\ file[Pub("capacity")].batch = file[Pub("approval")].batch
    /\ file[Priv("approval")].batch = file[Pub("capacity")].batch

EncodingInputs ==
    Both({"capacity", "approval", "preservation"})
        \cup {Priv(t) : t \in {"review", "context", "projection"}}

\* The font is written before the rows are encoded; for some texts no row of
\* symbols is found.  Which record is visible and whether the route of the font
\* is measured are what other tools found last; without a route a stage waits.
Encoding ==
    LET pairs   == file[Priv("projection")]
        targets == file[Priv("approval")].targets
        rows(visible) == EncodedRows(Rejoined(file[Priv("context")], pairs), targets, visible)
        batch   == file[Pub("capacity")].batch
        fits(visible) == Encodable(file[Priv("context")], pairs, targets,
                                   file[Priv("preservation")], visible)
    IN  /\ Turn("encoding") /\ Rest
        /\ IF ~Exist(EncodingInputs) THEN NotReady
           ELSE \/ mode = "main" /\ Pass
                \/ Refuse
                \/ \E visible \in Visibles :
                       /\ SameBatch /\ fits(visible)
                       /\ Make(<<[item |-> Overlay, data |-> Tiles(rows(visible)), from |-> {}],
                                 PrivateFile("encoding", [batch |-> batch, rows |-> rows(visible)]),
                                 PublishedFile("encoding", [batch |-> batch], {Priv("encoding")})>>)

ReinsertionFile(plan) == [ready |-> ReinsertionReady(plan)]

\* No hash is compared: the files are those that are there.
Reinsertion ==
    LET encoded == file[Priv("encoding")].rows
        rows    == file[Priv("context")]
        plan    == ReinsertionRows(rows, encoded)
    IN  Tool("reinsertion", Both({"encoding"}) \cup {Priv("context"), Priv("projection")},
             ~Insertable(rows, file[Priv("projection")], encoded),
             plan, ReinsertionFile(plan), {Pub("encoding")})

BuildFile(rom, plan, encoded) ==
    [complete |-> Verified(rom, plan, encoded), rows |-> Len(plan)]
Build ==
    LET plan    == file[Priv("reinsertion")]
        encoded == file[Priv("encoding")].rows
        tiles   == file[Overlay]
        rom     == Applied(Image.bytes, Plan(tiles, plan))
    IN  /\ Turn("build") /\ Rest
        /\ IF ~Exist(Both({"reinsertion"}) \cup {Priv("encoding"), Overlay}) THEN NotReady
           ELSE IF ~file[Pub("reinsertion")].ready THEN NotReady
           ELSE IF ~Buildable(tiles, plan) \/ Len(plan) # Len(encoded) THEN Refuse
           ELSE Make(<<[item |-> Rom, data |-> rom, from |-> {}],
                       PrivateFile("build", Yes),
                       PublishedFile("build", BuildFile(rom, plan, encoded),
                                     {Priv("build"), Rom})>>)

\* The next write of the tool that runs
WriteOn ==
    /\ todo # <<>>
    /\ Written(Head(todo)) /\ Remaining(Tail(todo))
    /\ UNCHANGED mode /\ Rest

----------------------------------------------------------------------------
(* What makes tools run, and the world they run in.                         *)

Start(why, tools) ==
    /\ queue = <<>> /\ queue' = tools /\ mode' = why
    /\ UNCHANGED <<world, file, todo, reading, approvals, kills, changes>>

\* A stage: the tools before the chain write the quality file anew.
StartStage ==
    /\ Start("main", Chain)
    /\ names' = [t \in Tools |-> names[t] \ {Quality}]

StartDirect  == Start("direct", DirectChain) /\ UNCHANGED names
StartRefresh == Start("refresh", <<"source">>) /\ UNCHANGED names
StartApprove == reading # <<>> /\ Start("approve", <<"approval">>) /\ UNCHANGED names

ReadReview ==
    /\ queue = <<>> /\ Exist({Priv("review")}) /\ reading' = file[Priv("review")]
    /\ UNCHANGED <<world, file, names, mode, queue, todo, approvals, kills, changes>>

\* The target group tools come to another corpus, the page is edited, or another
\* ROM is built for the runs of the game.
ChangeWorld ==
    /\ queue = <<>> /\ changes < MaxChanges /\ changes' = changes + 1
    /\ \/ corpus' \in Corpora \ {corpus} /\ UNCHANGED <<page, testRom>>
       \/ page' \in Sources \ {page} /\ UNCHANGED <<corpus, testRom>>
       \/ testRom' \in TestRoms \ {testRom} /\ UNCHANGED <<corpus, page>>
    /\ UNCHANGED <<file, names, mode, queue, todo, reading, approvals, kills>>

Kill ==
    /\ queue # <<>> /\ kills < MaxKills /\ kills' = kills + 1
    /\ queue' = <<>> /\ todo' = <<>>
    /\ UNCHANGED <<world, file, names, mode, reading, approvals, changes>>

Init ==
    /\ corpus \in Corpora
    /\ page = CHOOSE s \in Sources : TRUE
    /\ testRom = CHOOSE r \in TestRoms : TRUE
    /\ file = <<>> /\ names = [t \in Tools |-> {}]
    /\ mode = "main" /\ queue = <<>> /\ todo = <<>> /\ reading = <<>>
    /\ approvals = {} /\ kills = 0 /\ changes = 0

StageTool ==
    \/ SourceScript \/ Anchor \/ Projection \/ Corroboration \/ Sequence \/ Context
    \/ GlyphDemand \/ Candidates \/ ReviewOfGlyphs \/ Preservation \/ Review
    \/ Approval \/ Capacity \/ Encoding \/ Reinsertion \/ Build

Next ==
    \/ StageTool \/ ApproveByHand \/ ApproveBySchema1 \/ WriteOn
    \/ StartStage \/ StartDirect \/ StartRefresh \/ StartApprove
    \/ ReadReview \/ ChangeWorld \/ Kill

Spec == Init /\ [][Next]_vars

----------------------------------------------------------------------------
(* What must hold.                                                          *)

\* The window that is released for translation starts at the anchor, and each
\* of its lines is as far from the line of the anchor as its record is from the
\* record of the anchor, though pairs are made by counting only records with
\* text (project_anchored_section) and the game is watched without knowing
\* them (map_runtime_context).
ReadyContextIsInStep ==
    (Exist({Pub("context")}) /\ NamesOwn("context") /\ file[Pub("context")].ready) =>
        LET rows == file[Priv("context")]
        IN  \A i \in DOMAIN rows :
                /\ rows[i].entry = [selector |-> AnchorSelector, ordinal |-> AnchorOrdinal + i - 1]
                /\ rows[i].pair.line - rows[1].pair.line = rows[i].entry.ordinal - AnchorOrdinal

\* The lines of one approval under the batch put over them; nothing is over
\* one of schema 1
Approved(local, known) ==
    \E a \in known : a.targets = local.targets /\ a.over \in {local.batch, Unstamped}

EncodedApproval ==
    [batch |-> file[Priv("encoding")].batch, targets |-> Texts(file[Priv("encoding")].rows)]

\* An encoding that is published holds the lines of one approval of a person, under
\* the batch that was put over them, or of one of schema 1: neither a kill between
\* the two files of an approval nor the tools run on their own mix two approvals
\* (v5_1_first_context_translation_encoding.py _main).
EncodedTextsWereApproved ==
    (Exist({Pub("encoding")}) /\ NamesOwn("encoding")) => Approved(EncodedApproval, approvals)

\* "This stage records an explicit human decision"
\* (v5_1_first_context_translation_approval.py 7): the lines of an encoding that
\* is published were approved by a person who read the batch that it names.
EncodedForTheBatchRead ==
    (Exist({Pub("encoding")}) /\ NamesOwn("encoding")) =>
        \E a \in approvals :
            a.targets = EncodedApproval.targets /\ a.read = EncodedApproval.batch

Shows(rom, at, text) ==
    Slice(rom, at + 1, Len(Encoded[text])) = Encoded[text]

\* The i-th line from the anchor's on
PageLine(source, i) == Section(source)[AnchorLine(source) + i - 1]

\* Walking from the pointer of the anchor's selector, the game finds n lines of
\* one version of the page in the records from the anchor on.
RomShows(rom, n) ==
    LET walk == Addressed([bytes |-> rom, table |-> Image.table], AnchorSelector)
    IN  \E source \in Sources : \A i \in 1 .. n :
            Shows(rom, walk[AnchorOrdinal + i].at, PageLine(source, i).text)

\* A build that is published as complete and is still the ROM on disk shows the
\* lines of one version of the page from the anchor on, each in its record,
\* however old the files are that the tools before it were made from.
TextsGoToTheirRecords ==
    (Exist({Pub("build")}) /\ {Priv("build"), Rom} \subseteq names["build"]
        /\ file[Pub("build")].complete) => RomShows(file[Rom], file[Pub("build")].rows)

----------------------------------------------------------------------------
(* What is always so of the files, and lets the tools rely on each other.   *)

IsSeq(s) == s \in Seq(Range(s))

\* Lines of one version of the page, from the anchor's on
FromPage(texts) ==
    \E source \in Sources : \A i \in DOMAIN texts :
        texts[i] \in DOMAIN Encoded /\ texts[i] = PageLine(source, i).text

RowsFromPage(rows) ==
    \E source \in Sources :
        /\ AnchorLine(source) \in Nat
        /\ \A i \in DOMAIN rows :
               /\ rows[i].pair.line = AnchorLine(source) + i - 1
               /\ rows[i].pair.text = PageLine(source, i).text
               /\ rows[i].pair.text \in DOMAIN Encoded

SoundPairs(pairs) ==
    \E c \in Corpora, s \in Sources : AnchorIsUnique(c, s) /\ pairs = Pairs(c, s)

SoundSeen(seen) == seen \in Seq(Entries) /\ seen # <<>> /\ seen[1] = AnchorEntry

SoundContext(rows) ==
    /\ IsSeq(rows)
    /\ AllMapped(rows) => \A i \in DOMAIN rows :
           rows[i].entry = [selector |-> AnchorSelector, ordinal |-> AnchorOrdinal + i - 1]
    /\ AllMapped(rows) /\ LinesInStep(rows) => RowsFromPage(rows)

SoundBatch(batch) == IsSeq(batch) /\ FromPage(Texts(batch))

SoundApproval(a) == IsSeq(a.targets) /\ FromPage(a.targets)

\* known: what has been approved
SoundEncoding(local, known) ==
    /\ IsSeq(local.rows)
    /\ Approved([batch |-> local.batch, targets |-> Texts(local.rows)], known)
    /\ \A i \in DOMAIN local.rows : local.rows[i].bytes = Encoded[local.rows[i].text]

SoundPlan(plan) ==
    /\ IsSeq(plan)
    /\ \A i \in DOMAIN plan :
           /\ plan[i].selected = <<AnchorSelector, AnchorOrdinal + i - 1>>
           /\ plan[i].aliases = Aliases(plan[i].at)
    /\ \E source \in Sources : \A i \in DOMAIN plan :
           /\ PageLine(source, i).text \in DOMAIN Encoded
           /\ plan[i].bytes = Encoded[PageLine(source, i).text]

\* What a tool leaves in its private file
Sound(t, data, known) ==
    /\ t = "source" => data \in Sources
    /\ t = "projection" => SoundPairs(data)
    /\ t = "sequence" => SoundSeen(data.seen)
    /\ t = "context" => SoundContext(data)
    /\ t = "review" => data # <<>> /\ SoundBatch(data)
    /\ t = "approval" => data = [batch |-> data.batch, targets |-> data.targets]
                            /\ Approved(data, known)
    /\ t = "encoding" => SoundEncoding(data, known)
    /\ t = "reinsertion" => SoundPlan(data)

\* What it publishes of it, the build with the ROM there is
Fits(t, data, published, rom) ==
    /\ t = "sequence" => published.status = SequenceStatus(data.seen)
    /\ t = "context" => published.ready = ContextReady(data)
    /\ t = "reinsertion" => published.ready = ReinsertionReady(data)
    /\ t = "build" /\ published.complete => RomShows(rom, published.rows)

WorldIsKnown == corpus \in Corpora /\ page \in Sources
ReadingIsSound == reading = <<>> \/ SoundBatch(reading)
ApprovalsAreSound == \A a \in approvals : SoundApproval(a)

FilesAreSound == \A t \in Tools : Exist({Priv(t)}) => Sound(t, file[Priv(t)], approvals)
OwnFilesFit ==
    /\ Rom \in names["build"] => Exist({Rom})
    /\ \A t \in Tools : NamesOwn(t) =>
           /\ Exist({Priv(t), Pub(t)})
           /\ (t = "build" => Rom \in names[t]) =>
                  Fits(t, file[Priv(t)], file[Pub(t)], file[Rom])

\* A published file that is still to be written
IsPublished(t, data, rom, entry) ==
    /\ entry = PublishedFile(t, entry.data, entry.from)
    /\ Priv(t) \in entry.from /\ Fits(t, data, entry.data, rom)

TodoIsSound ==
    todo # <<>> =>
        /\ queue # <<>> /\ (Head(queue) = "build" => Exist({Rom}))
        /\ LET t == Head(queue)
           IN  \/ /\ todo = <<todo[1]>> /\ Exist({Priv(t)})
                  /\ IsPublished(t, file[Priv(t)], file[Rom], todo[1])
               \/ /\ todo = <<todo[1], todo[2]>> /\ t # "reinsertion"
                  /\ todo[1] = PrivateFile(t, todo[1].data) /\ Sound(t, todo[1].data, approvals)
                  /\ IsPublished(t, todo[1].data, file[Rom], todo[2])

\* The build runs behind the reinsertion: it does not compare the hash of the
\* plan, but the plan is the one the reinsertion before it left.
QueueIsChain ==
    /\ queue \in Seq(Tools)
    /\ \A k \in DOMAIN queue \ {1} : queue[k] = "build" => queue[k - 1] = "reinsertion"
PlanHasInputs ==
    Exist({Priv("reinsertion")}) =>
        Exist(Both({"encoding"}) \cup {Priv("context"), Priv("projection")})
PlanIsNew ==
    (queue # <<>> /\ Head(queue) = "build" /\ Exist(Both({"reinsertion"}))) =>
        NamesOwn("reinsertion")

=============================================================================
