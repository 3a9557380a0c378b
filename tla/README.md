# ShiningForceKR: specification of the device automation

TLA+ modules, TLC configurations and TLAPS proofs for the programs that run on
the S25U phone of this project. Paths are relative to the repository; `AP` is
`tools/run_s25u_autopilot.sh`, `ST` is `tools/run_s25u_runtime_stage.sh`, `RB` is
`tools/v5_1_runtime_bundle.py`, `MG` is `tools/manage_s25u_autopilot.sh`, `CP` is
`tools/v5_1_critical_path.py`, `FTE` is
`tools/v5_1_first_context_translation_encoding.py`.

    tlc -workers 2 -config <X>.cfg MC<Module>.tla     # one run
    tlapm <Module>Proofs.tla                          # all proofs of a module

## 1. The system

The repository translates a Game Gear ROM. The ROM never leaves the phone: the
phone runs an emulator and analyses, and publishes only sanitized JSON results
("artifacts") to `main` on GitHub, where the authors push the next commit.
What ties this together is a set of shell scripts and one Python publisher:

    authors --push--> GitHub main <--fetch, rebase, push-- autopilot (AP)
                                                              | runs, with a time limit
       manager (MG): start, stop, restart, boot               v
              \------------------------------------->  runtime stage (ST)
                                                              | runs about 60 tools
                        emulator probes (MCP over pipes) <----+--> artifacts on disk
                                                              |
                                           runtime bundle (RB): choose, commit

The tools of the stage form chains, each tool reading the files of the ones
before it: from the record on the screen to the script corpus (target group),
from the original script to a ROM with Korean text (translation), and from the
video memory back to the ROM (active path).

| part | state | operations | what makes it correct |
|---|---|---|---|
| autopilot lock (AP 164-222) | lock directory, pid file | start, recover a stale lock, exit trap | with the manager, one loop at a time; a dead owner never blocks a start; no lock is left by a normal exit |
| autopilot loop (AP 230-632) | `main` here and on GitHub, `origin/main`, working tree, `last_head`, options | publish pending artifacts, quarantine, fetch / fast-forward / rebase / push, decide, run the stage, record | a head is recorded only if a stage judged it; outputs are not taken for input; nothing but bundles is pushed; no commit is lost; every new commit is processed; STOP ends it |
| manager (MG) | STOP marker, wake lock and its marker, boot launcher | start, stop, restart, install, status, logs | a stop ends the autopilot and its stage; the wake lock is held while one works |
| runtime stage (ST) | focus, request marker, failure receipt, diagnostic | chains of substages, each with a timeout | first failure is the one reported; a request is done once; transient failures stay retryable |
| runtime bundle (RB) | set of artifacts to publish | validate, check identities, prune derived artifacts, choose images, commit | what is published rests on published evidence; what is valid is held back for two reasons only |
| critical path (CP) | none; reads the artifacts | choose the next evidence boundary | never back, never a finished tool again |
| active path (`v5_1_active_*.py`) | one published and one private file per tool | trace, classify, publish | results are about the ROM in place; each tool accepts its own result |
| target group (`v5_1_target_group_*.py`, ...) | two files per tool, the font catalog | walk records, decode, match glyphs, map | records do not overlap; the files of a stage agree; a reused decode is still right |
| translation (`v5_1_first_context_*.py`, ...) | two files per tool, the approval of a person | pair, review, approve, encode, insert, build | only approved texts reach the ROM, each in its record |
| row searches (FTE) | none | choose slots, pages and symbols for a line | the renderer shows the reviewed line and nothing else |
| Huffman codec (`sfgfc_huffman.py`) | context, bit position | decode, encode | encode inverts decode |
| image writes (`expected_writes.py`) | write plan, image | validate, apply, audit | a valid plan passes its audit |
| emulator probes (`run_s25u_*_probe.py`) | emulator paused or running, request ids | step one frame, wait for the barrier, breakpoints | a status belongs to the frame it is taken for |
| display comparison (ST 744-853) | candidate counter, rejected addresses | capture, compare, review | no candidate twice, bounded by eight |

How they interact: everything goes through the file system and git. The
autopilot and the stage share the checkout; a stage can outlive its autopilot
(SIGKILL of the parent), so both may use the checkout at once. A person at the
device uses the same checkout (`README.md:19` tells the user to `git pull`). The
authors push at any moment. Nothing is locked but the start of the autopilot.
The tools bind their files to one another only by hashes, and each compares some
of them.

What is hard: interleavings of these actors between two shell commands; SIGKILL
by Android at any step; a network and a rebase that fail; a time limit that ends
a stage in any of its phases; `git rebase` that leaves HEAD off `main`; results
of the device coming back as new commits; a pruning pass in which the order of
the rules matters; a stage that ends between the two files of a tool or between
two tools; a new ROM, page, font catalog or approval between two stages; a
search that prunes; a text that is longer than its record. `PROJECT.json` lists the main
of these as hazards, at their lines, with the properties that cover them.

## 2. Modules

| module | models | theorems in |
|---|---|---|
| `AutopilotLock` | AP 164-222, one action per file-system call | `ManagerProofs` |
| `Manager` (extends `AutopilotLock`) | MG 135-370, the process tree of an autopilot, the wake lock | `ManagerProofs` |
| `StageLedger` | what the loop promises of its stages (abstract) | |
| `Autopilot` | AP 32-83 and 230-632, one action per command others can observe | `AutopilotProofs` |
| `BundleRules` | the rule table of RB 648-1911 (data) | |
| `RuntimeBundle` | RB 809-1943 over any rule table | `AutopilotProofs` |
| `TraceAnalysis` | the five analyses of a ROM trace, up to the scope of its path | `TraceAnalysisProofs` |
| `ActivePath` | the files of eleven tracing tools and their selection (CP 665-759) | `ActivePathProofs` |
| `HuffmanCodec` | `sfgfc_huffman.py` | `RowEncodingProofs` |
| `GroupRecords`, `GroupText` | the walks over records; symbols to glyphs and text | `GroupRecordsProofs` |
| `TargetGroup` (extends both) | the seventeen tools from the screen to the corpus | `TargetGroupProofs` |
| `SourcePairs`, `GlyphReview`, `TranslationBuild` | what the sixteen translation tools compute | |
| `Translation` (extends them) | their files, the person, the world | `TranslationProofs` |
| `ImageWrites` | `expected_writes.py`, and what an IPS patch can hold | `TranslationProofs` |
| `RowSolvers`, `FixedCountRows`, `RowLayout` | the searches and the shortening of FTE | `RowEncodingProofs` |
| `RowEncoding` (extends them) | one encoding from the read record to the bits | `RowEncodingProofs` |
| `MC*` | instances for TLC: symmetry, tables, small ROMs and fonts | |

An operator under a comment "Planted fault" is not part of a specification: it
is a plausible bug in the definition after it. Replacing the definition by the
fault makes TLC find the named property violated; that is how each property is
known to depend on the code.

### AutopilotLock and Manager

State of the lock: does the directory exist, what is in the pid file (an empty
file is like none: `acquire_lock` treats them alike), and for each process its
step, pid and the pid it has read. `MakeDir`..`RewritePid` are the system calls
of `acquire_lock` in order, `BeginExit`..`RmdirOwn` those of the EXIT trap. `Kill`
may come at every step and leaves the lock as it is. `Live` is `kill -0`, which
succeeds for every program of the user, so `ForeignStart`/`ForeignExit` let the
kernel give pids to other programs. Three constants choose the environment:
`Overlap` (may one start or exit run during another), `PidReuse`, `Kills`.

`AutopilotLock` alone promises little: two starters at once can both get in, and a
reused pid refuses a start (section 5). What keeps the autopilots apart is
that starts come from the manager, one at a time and only when no live pid is named;
so `OneAutopilot` is a property of `Manager`, where starts, exits, kills, reboots and
reused pids overlap in every way that the scripts allow.

`Manager` puts two commanders, the person and the boot launcher, beside the
processes of the lock. Each autopilot has its place in the loop (`at`), a stage
(`shell`) and the tool the stage runs (`leaf`). `Look`, `SignalLeaf`,
`SignalShell`, `SignalSelf` are one stop: the list of descendants is taken once
(`"listed"`), then signalled in the order of `collect_owned_descendants`, leaves
first; what starts behind the list is `"unlisted"` and not hit. A TERM waits for
the foreground command (`asked`, `Obey`), except before the traps are set and
during the exit trap, where it ends the shell (`Ends`). `timeout`, which runs the
stage, passes a TERM to its group if it is still there. `Insist` is the KILL
after ten seconds; time itself is not modelled, so it may come at any moment of
the wait, also during the exit trap. `Check`..`Await` are a start. The wake
lock of Termux is one Boolean that manager, stage and autopilot all set and
clear; `wake_lock_owned` is another, which only manager and stage know.

### Autopilot

A head is the sequence of patches that lead to it. A patch is a `source` (the
authors), a `bundle` (the device's own results) or an `edit` (a person at the
device). Ancestry is `IsPrefix`; a rebase moves a suffix to another prefix. The
tree is the set of kinds of changes in `git status`: `valid`, `residual`,
`stale` (valid one by one, but in disagreement on an identity) and `unsafe`.
`pc` is the command the script is about to run:

    top -> publish -> quarantine -> fetch -> compare -> merge / push / rebase -> rebasing -> push
                                                 \-> decide -> stage -> report -> reported -> settle -> sleep -> top

`RebaseStops` is a conflict: whether patches go on top of a head is in their content
(`Conflicts`), so the same ones stop again in every cycle. It aborts the rebase, or
fails to, which the script ignores (AP 487): then HEAD stays off main, with unmerged
artifacts in the tree, and the loop goes on. `SyncAborts` collects every other early
end of a synchronisation, with the condition of each. `final` is set in the closing
synchronisation of `--once`. The stage
is what the autopilot can see of it: it writes artifacts, may publish in the
middle (ST 803-811), writes its diagnostic, publishes, exits. `innerTimeout` is
a substage that runs into its own `timeout` and makes the stage exit 124.
`Settle` is AP 547-596 with the second fetch. `input` and `concluded` are
history variables: the sources a stage started from, and those on which a stage
came to a conclusion. `Liberties` lists what the environment may do, `PersonAt`
the steps during which a person acts.

`StageLedger` says without git what a stage and the record are: `Ledger` maps the
sources of `main` here, the history variables and the record to its variables, and
`KeepsLedger` is that every step of `Autopilot` is a step of it or none.

### BundleRules and RuntimeBundle

One rule per derived artifact, 47 in the order of the code: the alternatives of
evidence it may rest on (two only for the consumer trace), and which of them
the code asks for by a variable that was filled before the rule of that
evidence ran (`early`). Whether the contents of an artifact match its evidence
(hashes, groups, checkpoints) is one bit per alternative, `matches`; the model
is about presence and order. `Raise` is the identity checks (RB 834-913), which
end the whole publication; which pairs of artifacts name different targets is free
(`disagreeing`). `OrderAssumption`, which the proofs need and TLC
evaluates on the real table, says that no artifact is dropped after it has
served as evidence.

### TraceAnalysis and ActivePath

`TraceAnalysis` runs a small program, made of basic blocks, over one register
pair; `trace` is what the emulator recorded of it (`Run` is the pass over a block,
each instruction from where the one before it left the pair). The five analyses
(`v5_1_active_rom_source_role`, `_read_block`, `_lookup_index_producer`,
`_cursor_reset`, `_path_scope`) are operators on the trace, window by window as in
the code; `MatchingReads` are the events that read from the window of the source,
and the lists the code counts are counts of such sets. Their properties compare
the class with what the program really did.

`ActivePath` has the same tools from outside. A file remembers the ROM it is
about and the tools whose present publication its hashes name; writing a file
takes it out of all others. A stage runs the selected tool or the "continue"
chain; each tool writes its published file, then its private one, and a kill
comes between any two writes. `Selection` is CP 665-759 with the currency test
of each tool.

### GroupRecords, GroupText, HuffmanCodec, TargetGroup

The codec works on sequences of bits, with one tree per preceding symbol, read
out of the ROM as the code reads it. The three walks over records have their own
bounds, as in the three tools. A glyph is read as the characters that have its
pixels, or the one clearly nearest. `TargetGroup` runs the seventeen tools on
small ROMs with records that overlap, end early or do not decode; between two
stages another record may be seen, the catalog or the tools may be renewed, and
a kill may come between any two files. `torn` remembers of which pairs it parted
the files. The tools overwrite their files whenever they run, with two
exceptions that leave an earlier result as it is: the context resolution when
every record decodes, and the corpus when no record has text. `FilesOfAStageAgree`
says that a later tool refuses over files that disagree in three cases only: the
runtime context and, once a kill had parted the corpus, the record quality, after
these two; and the script corpus, which compares a count of open glyphs with
another that leaves out the ambiguous ones (`CountsChanged`, GSC 397, where `GSC` is
`tools/v5_1_group_script_corpus.py`).

### SourcePairs, GlyphReview, TranslationBuild, Translation, ImageWrites

The first three say what each of the sixteen tools computes, refuses and reuses;
`Translation` has the files, with `names[t]` for the hashes that are still right,
and the order of the stage. A person approves a review, which may be older than
the one on disk; `approvals` remembers what was read, under which batch the lines
were put and the lines. An earlier release may have left an approval of schema 1,
which has no batch (`Unstamped`) and gets that of now (`Migrated`). The page
of the original script, the font corpora, the runs of the game and the test ROM
change between stages. Assumptions: commands by hand
and changes of the world come while no stage runs; whether the visible record
and the font route fit is free at the encoding; every rewrite changes the hash,
as files carry the time of their capture, except the approval, which keeps its
own.

`ImageWrites` is a plan of writes with what they expect, leave and may touch;
`TranslationBuild` uses it for the test ROM.

### RowSolvers, FixedCountRows, RowLayout, RowEncoding

A search is the set of rows it can return, so that every choice the code makes
by its preferences or limits is covered. The recursion of the code, glyph by glyph,
token by token, atom by atom, is a recursive function whose k-th value is the set
of partial rows with k of them (`OneGlyphMore`, `Spread`, `Segments`, `PadStep`,
`OneBlankMore`, `DirectMore`); only the relaxed test that prunes the exact searches
goes by what is still to be drawn. The bounded search over several pages is modelled
with all it drops: the routes between pages as the code's queue finds them (`Ways`,
with its order, as the cut goes by it), of those that end alike only as many as there
are glyphs (`Retained`), and each place once for the most bits left (`SamePlace`). The decoder is such a function
too (`Further`).
`RowEncoding` takes one scene through
reading, shortening, page allocation, search, drawing and encoding, and then
asks a reference renderer what is shown: it follows the symbols through the
pages and the redrawn font.

## 3. Runs

| run | instance | states | shows |
|---|---|---|---|
| `lock_serial` | 3 processes, 4 pids, kills, no overlap, no reuse | 384 | `RefusedOnlyByOwner` |
| `manager` | 2 processes, 3 pids, 2 commands of a person, one boot, overlap, kills, low memory; fair | 693,073 | `OneAutopilot`, `StopEndsAutopilot`, `StageEndsWithAutopilot`, `WakeLockHeld`, `NoLockLeft` |
| `autopilot_cycle` | 2 more sources, 2 bundles, 1 edit; a person during sleep and while the script is down; kills, orphans, patches that clash, failing aborts, stale artifacts, offline, time limits | 4,287,438 | `ProcessedWasRun`, `OffMainIsInert`, `KeepsLedger`, `NoFeedback`, `NothingLost`, `OnlyBundlesPushed`, `UnsafeTreeUntouched` |
| `autopilot_live` | 2 sources, 2 bundles, STOP, `--once`, conflicts, failing aborts, offline, time limits, no kills; fair | 50,422 | `SourceIsProcessed`, `BundleIsDelivered`, `StopIsHonoured`, `NoRepeat`, `OnceDelivers`, `ValidIsCommitted` |
| `bundle_pass` | the table of the code, any two faults | 571,628 | `PassIsEnough`, `OnTwoGroundsOnly` |
| `trace_analysis` | every program of at most 5 blocks, traces of at most 40 events, 2 memories | 104,832 | `NoToolRefusesItself`, `PopulationIsTheSlot`, `LiteralResetPredictsReads`, `PictureIsNoText` |
| `active_path` | 2 builds of the ROM, 1 kill; fair | 49,527 | `LaterStagesArePrepared`, `RoleRestsOnThisBuild`, `NeverAskedAgain`, `BoundaryNeverMovesBack`, `PreparedStageMovesOn` |
| `row_encoding` | 3 glyph symbols, 5 pages, 2 syllables, small scenes and trees | 66,501 | `RenderedAsReviewed`, `OldTextIsNotRead`, `BoundedSearchIsComplete`, `EntriesReadBack` |
| `row_layout` | the same | (violation) | `LayoutOnlyRemoves`: a row can gain an exclamation mark |
| `target_group` | 7 ROMs, 2 captures, 1 kill, 2 font catalogs, one with glyphs of several characters | 282,932 | `AlignedRecordsAreDisjoint`, `FilesOfAStageAgree`, `DecodeIsCurrent` |
| `translation` | 7 records, 2 versions of the page, 4 corpora, 5 plays, 2 test ROMs, 1 kill, 1 change | 968,209 | `ReadyContextIsInStep`, `EncodedTextsWereApproved`, `TextsGoToTheirRecords` |
| `translation_batch` | the same | (violation) | `EncodedForTheBatchRead`: an approval under a batch that was not read |

Symmetry is used only for the lock, whose actions neither compare nor order
processes or pids, and only with safety properties. `Manager`, which has a
liveness property, takes one free process and one free pid instead of any.

### Bounds

- Lock: three processes, because the races are between one owner (dead or
  alive) and two starters; one pid more than processes, so that a stale pid can
  lie unused. The theorems have no bound.
- `Manager`: two commands (`MaxCommands`) give every pair, with a boot at any
  moment as a third; two processes, since a start is only given while none is
  named, so a third would be the loser of two losers; three pids, so that a
  stale one and two live ones exist at once.
- `MaxSource`, `MaxBundle`, `MaxEdit` bound only how many patches exist. Two
  sources beyond the first head give "new work during a stage" and "new work
  again during the rebase"; two bundles give a publication that is rejected
  while another is pending, and a `--once` run with its own closing bundle beside
  one that waits.
  One edit suffices: the code only asks whether a commit is a bundle.
- `PersonAt` in the passing runs is sleep and down. A person who acts during a
  stage or between check and push does break properties, see section 5.
- `NoRepeat`, `OnceDelivers` and `ValidIsCommitted` exclude kills, as after one the
  stage has no record and is rightly run again; they are checked beside the liveness
  properties, whose run has no kills either, and proved for every bound and with a
  person and stale artifacts besides (section 4).
- `MaxFaults = 2`: one fault to drop the evidence, one more to interfere; any
  number is covered by the proofs. From a nearly complete set of artifacts every
  rule is exercised both ways; the pass looks backwards only, so shorter sets,
  which occur early in the project, behave like the prefix of the table.
- `MaxBlocks = 5`, `MaxTrace = 40`: long enough for two rounds of a loop with a
  load, a reset and a step, and for traces longer than both windows.
- `MaxRom = 2` and `MaxKills = 1` for the active path: the first ROM leaves
  files behind, the second meets them; one kill splits one pair of files, and
  what it leaves is met by every later tool.
- Target group: images of 20 bytes hold records that overlap, run past the
  bank, repeat and do not decode, and texts that only some fonts and start pages
  read in one way, so that texts can go and come again; two captures let the
  second meet the files of the first.
- Translation: three entries make the smallest window, seven records put a
  wrong, a missing and an unread one on each side of it; one change of the world
  at any point between stages, and one kill, meet each other in both orders.
- Row encoding: five pages, of which three end in the same digit, hence in the same
  context, so that the cut of the bounded search drops routes for rows of one and
  of two glyphs; texts of at most 16 symbols (`MaxSymbols`), lines of at most 8
  tokens (`MaxTokens`), at most 2 page tokens in a run (`MaxControls`); the theorems
  hold for all values of these. The alphabets are just large enough for a glyph that only one
  tree has, a page that must be selected, a page number of two digits, and a
  record with room to spare.

### Fairness

`FairSpec` of `Autopilot`, for `autopilot_live`: weak fairness of the script's
own steps: the script is a sequential process, and every command it waits for
ends (git by itself, the stage by `timeout -k`, AP 538). Strong fairness of
`Quarantine`, `Fetch`, `Push`: `git stash` and the network may fail any number of
times but not for ever; the script retries every cycle, so an action that is
possible again and again must succeed in the end. Nothing is assumed of the rebase:
the same bundles on the same head conflict in every cycle, and only the authors can
change that.
Strong fairness of a conclusive report, publication and exit: a stage is not cut
off by its time limit for ever. The authors, STOP, starts and kills are not
fair. Both delivery properties excuse the end of the script and what the loop cannot get
over by itself (`Stuck`): bundles that conflict with `main` as it is now, and a HEAD
that an abort left off `main`. When the authors change `main` so that the bundles
fit, the promise is due again. The run excludes `stale` artifacts, which do block the
loop for ever (section 5).

`ActivePath`: weak fairness of the tool at the head of the queue and of the next
stage. A tool ends or is killed, and the autopilot starts another stage.

`ManagerSpec`: weak fairness of each script and of the tools a stage runs, which
have time limits of their own; strong fairness of the end of a stage, which runs
finitely many tools and stands under `timeout -k`. Commands, the boot, kills and
the starts of stages are not fair.

## 4. Proofs

All theorems are checked by `tlapm` to the leaves, for every value of the
constants that satisfies the named assumptions.

`ManagerProofs`, the lock
- `TypeCorrect`, with no assumption on the environment.

`ManagerProofs`, the processes over it
- `NoOrphanStage`: `[]StageEndsWithAutopilot`, with overlap, kills, pid reuse and
  a reboot at every step. The invariant is `TreeInv`. `StageEndsWithAutopilot` is
  not inductive: a TERM ends an autopilot without traps on the spot, so one must
  know that it has no stage then (`UnarmedHasNoStage`); a KILL comes after a
  second list, so one must know that an autopilot that was asked begins no new
  stage (`TargetIsDoomed`) and that the stage is gone when the KILL reaches the
  autopilot (`KilledStageIsListed`).
- `NoLockIsLeft`: `[]NoLockLeft`. `LockIsOwed` says that a lock directory always
  has somebody who will fill or remove it, as long as no exit trap is cut short;
  it rests on distinct pids and on `NamedBeforeLock`.
- `OneAtATime`: `[]OneAutopilot`, with kills, reboots and reused pids at every step.
  The lock alone does not give this (section 5), so it rests on the manager: see the next.
- `WakeLockStays`: `[]WakeLockHeld`. While commands come one at a time
  (`OneCommand`), whoever holds, takes or gives up the lock is the autopilot the
  pid file names or the one a start waits for, never both (`HolderIsKnown`);
  therefore the unlock of an exit trap or a stop comes before the lock of the
  next start and not after it (`LockHeldRight`).

`AutopilotProofs`
- `TypeCorrect`, `OffMain` and `NothingIsLost`, with no assumption: kills,
  orphans, aborts that fail and a person at any step included. `OffMainInv` says why
  `OffMainIsInert` holds although a running loop does not look at the branch again:
  what the rebase left unmerged keeps it before the publication. `NothingIsLost` needs that
  rebasing keeps every patch (`RebaseContent`), which needs that the lengths of
  the shared histories are `1..k` (`SharedIsInitial`, by the least number
  principle).
- `ProcessedInvariant`: if `PersonAt` has no step of a stage, `[]CycleInv`.
  `ProcessedWasRun` is strengthened by `StageInputStands` (the sources of `main`
  do not move under a stage; bundles of an orphan may) and `SettlesConclusion`.
- `UnsafeStopsSync`: if `PersonAt` has no step of a synchronisation, through
  `PastPublish`.
- `HeadsInvariant`, under the same assumption, and with it `PushesBundlesOnly` and
  `OutputsAreNotWork`: patches are numbered in the order of their creation
  (`Numbered`), `main` here and on GitHub fork only in bundles (`Forked`), a push
  is between a check and a HEAD that differ by nothing but bundles
  (`OnlyBundlesGo`), and the recorded head is behind `main` (`RecordIsBehind`). The
  numbers make two histories with the same sources comparable, which is what
  `NoFeedback` comes down to. `NoHeadAssumption`: the marker of an empty record is
  not a head.
- `StagesKeepTheLedger`: `KeepsLedger`, if `PersonAt` has no step of a
  synchronisation or a stage. Every action is mapped to a step of `StageLedger`; that a
  rebase and an orphan leave the sources alone comes from `HeadsInv`, that what is
  recorded was concluded from `CycleInv`.
- `NothingIsRunTwice`: with no kills and no `innerTimeout` besides, every conclusion
  is on record before the next decision (`ConcludedIsRecorded`).
- `ValidGoesIntoABundle`, `OnceHasDelivered`: without kills; the second also
  without a person in a synchronisation.

`AutopilotProofs`, the choice of the bundle, for every rule table with `OrderAssumption`
- `BundleTypeCorrect`, for every table at all.
- `OnePassIsEnough`: what is published rests on published evidence, except what
  is looked up early. The invariant `RulesRunStand` says so for the rules that
  have run; a later rule cannot drop evidence of an earlier one.
- `NothingElseIsHeldBack`: `[]OnTwoGroundsOnly`. Each artifact that is out has a reason
  that lasts, and a publication that raises has two artifacts that disagree.

`ActivePathProofs`, for any number of builds and kills
- `AcceptedRole`, `PreparedSelection`, `FinishedIsNotAskedAgain`. The invariant is
  `PathInv`. What a tool may publish is stated once (`Warrant`) and shown to keep
  the invariant for any tool (`PublishKeeps`): a publication takes its tool out of
  the hashes of all other files, so a hash that still is in place ties the role to
  the trace of its source (`RoleNamesTrace`), which is what the lookup demands and
  the selector does not ask. `NoFutureRom` makes a new build newer than every file;
  `LocalMirrors` says that only a kill parts a private file from the published
  one; `WrittenIsDemanded` carries what was published over to the second write.
- `BoundaryHolds`: an action property. `QueueShape` says what a stage has still to
  run and `StillAsked` that its first tool is still the one the selector asks for;
  every tool either passes that test on or leaves the boundary behind it.

`GroupRecordsProofs`, for every image of any size that holds the mapped bank
(`IsImage`)
- `AlignedIsDisjoint`. The walk over the records is a recursive function; what it
  returns is shown by induction over the number of records, which is stated with
  sets (`Induction`: a set of numbers with 0 and with the successor of each of its
  members has them all). A walk is ordered (`WalkIsOrdered`), two walks that meet
  are one (`SameWalk`), and a walk that can go on has all records between its start
  and its end (`FullWalkHasAll`). An aligned map has every pointer as the start of a
  record of one walk, so all that is addressed lies in one (`AddressedInOneWalk`).

`TargetGroupProofs`, for any ROMs, fonts, trees, captures, updates and kills
- `StageInvariant`: what a tool that has run leaves fits what the later ones read.
  None of the three properties is inductive. The tools behind look at pairs of
  files whose first halves were written many steps before, so the invariant has
  the place of the stage in the chain (`QueueIsRest`), that files are there only
  with those they were made of (`InputsStay`), what the running tool has still to
  write (`WritingIsOwn`), which pairs no kill has parted (`PairsAreWhole`) and, for
  each tool that has run, what it leaves (`Left`). `LeftKept` shows once for all
  that a later tool, which takes its own name out of the hashes of all files, does
  not disturb what an earlier one left. What the tools compute is not looked into:
  it is enough that two files were made from the same start pages and catalog.
- `RefusalsAreTheThree`, `DecodeIsOfNow`, and with `AlignedIsDisjoint`
  `AlignedIsOneSequence`. The proof of the first found its second exception, which
  the small instance had not reached; the instance was extended until TLC did. For the
  third one counts sets of glyphs (`CountsDiffer`): two counts over the same texts
  differ only by ambiguous glyphs, and at the script corpus the texts are the same.

`TranslationProofs`, for any pages, corpora, plays, decisions and kills
- `AppliedPlanPassesAudit`: for every image and every valid plan, the result of
  the writes differs from the image exactly where the plan changes bytes, and
  holds what every write leaves. The order of the writes does not matter because
  a valid plan has disjoint writes.
- `FilesInvariant`: each file holds what the tool after it may rely on (`Sound`),
  whether or not its hash is still named; `Fits` says it of the file a tool is
  about to write and `PlanIsNew` of a plan that is being applied. A tool can meet
  files of any two stages, so what the later tools need must hold of every file by
  itself or be tested when two are joined, and the proof goes through each tool
  to see that it is.
- `ContextStaysInStep`, `OnlyApprovedIsEncoded`, `TextsReachTheirRecords`. The second
  says that the lines are those of one approval, under the batch put over it, by hand or
  by the migration (`ApprovedIsSound`); that this batch was read is false
  (`translation_batch`). The last
  compares two walks over the records, of the ROM before and after the writes: a
  write keeps the length of its record, so both walks have the same records, and
  disjoint writes leave to each its own text.
- Assumptions: `FontAssumption` (the font lies outside the bank of the records:
  `v5_1_test_phrase.py:68` and the bank 8 of the records), `AnchorAssumption` (the
  anchor is a selector of the image) and the types in `ImageAssumption`,
  `EncodedAssumption`, `SourcesAssumption` and `PlaysAssumption`. That an encoded
  row fits the record it replaces is no assumption: it is what `Encodable` tests.

`TraceAnalysisProofs`, for any program, memory, records and windows
- `TraceInvariant`: each event starts from where the one before it left the pair
  and leaves what its instruction makes of it (`TraceInv`). By induction over `Run`,
  for blocks of any length and for the loop, which runs the whole trace again.
- `NoToolRefuses`: the counts a tool publishes agree with each other. The read
  block counts addresses and the bytes they project to; they are as many because
  `Physical` is injective on one window (`PhysicalIsInjective`). The counts by
  category add up because every definition found has exactly one category
  (`SumOfParts`, `LastDefinition`).
- `PopulationIsOneWindow`: two finite sets, one in the other, have the same size
  only if they are equal; an address with the slot of the source is in the ROM.
- `LiteralsPredictReads`: between the reset and the last step only steps of one
  direction move the pair (`ResetIsLast`), each by one modulo 65536
  (`StepsAreCounted`, by induction over the events), and between that step and the
  read nothing does (`NothingBetween`). It holds for windows of any size: a read
  whose step or reset lies before the window only takes the class away.
- `PicturesHoldNoText`: the read block looked for records at the reads of one
  window; that these are all reads is `Population`, which is why the scope may only
  be decided after the lookup tool has compared the two counts.
- Assumptions: `TraceAssumption` (windows are not empty, literals fit the pair),
  `ProgramAssumption` and `WorldsAssumption` (types; the records are finitely many).

`RowEncodingProofs`, for any alphabet, trees, font, scenes and sizes of records
- `RenderedCorrect`, `OldTextCorrect` and `EntriesCorrect`, from the invariant `IInv`
  (`InductiveInvariant`). `RenderedAsReviewed` is not inductive: it speaks of the
  finished font, while what makes it true happens before. A row is right when it is
  built only if every search keeps its promise; it still is right when it is drawn
  only if no other row draws on its slots; and what the runtime reads is right only
  if the row has the count the record had when it was decoded. So `IInv` has what is
  known of the records (`Recorded`: they hold a text, which the codec reads back),
  the limits taken from them (`Limited`), the pages chosen so far, pairwise disjoint
  (`Selected`), the rows built so far, each with its line on the slots it claims and
  with the count and the bits of its record (`Good`), and that the font, once drawn,
  has every visual on its slot (`Painted`).
- The codec. `DecodeReads`: where the bits of a text stand in a stream, the decoder
  reads that text and stops behind it, by a count or by the terminator. Trees are
  prefix-free, so exactly one symbol is spelled at each bit. `EntriesComeBack` is
  what follows for entries one behind the other, however many there are.
- The renderer. The page of each glyph is given by the tokens before it, and the
  digits of a token look like glyphs; `Formed` says that a sequence of symbols is
  tokens and glyphs in an order that draws exactly certain slots, and that the
  renderer, which reads symbol by symbol, draws those.
- The searches. Each is shown by the same two lemmas, `SearchesExist` and
  `SearchesStay`: sets of partial rows of which each is made from the one before keep
  what every step keeps.
  What they keep differs: `BoundedMultiPage` and `FixedCountRowMultiPage` draw each
  glyph on a slot of its own on the pages of the row; padding keeps the atoms of a
  row in order with fillers that draw nothing before them (`Pads`); blanks after the
  text keep off its slots (`Apart`), although one blank may serve twice; the direct
  way (`DirectRow`) uses a place twice only for the same visual. `InferredMap` says
  that the map it infers from the screen is the true one wherever it says anything.
- Each row claims pages of its own (`UsedPages`), so that drawing one
  row leaves the others as they are; within a row equal slots have equal visuals
  (`Agreeing`), so that the order in which they are drawn does not matter.
- Assumptions: `CodecAssumption` (bytes have bits, texts may have three symbols),
  `LayoutAssumption` (a type), `AlphabetAssumption` (the page-select symbol, the
  terminator and the glyphs differ, and the digits of a page number are glyphs:
  FTE `page_select_symbols`), `VectorsAssumption` (the trees of the ROM are binary
  with their symbols at the leaves: what `parse_tree` builds, `sfgfc_huffman.py`
  83-122), `ScenesAssumption` (a record was read from its captured context up to
  a terminator, or from the canonical one, of which nothing is known),
  `CapturesAssumption` (the tiles of one screen lie at one distance from the font),
  `ExtraAssumption` (`DIRECT_RENDERER_EXTRA_SYMBOL_COUNT = 0`). TLC evaluates all of
  them on the instance of `row_encoding`.

`IInv` of `RowEncoding` itself is not a property of a run: that a record holds a text
is an existence over all sequences, which TLC cannot enumerate. Its other parts are
named, and the three properties it implies are what the run checks.

Only model-checked: liveness (`StopEndsAutopilot`, the first three of `autopilot_live`,
`PreparedStageMovesOn`), which is out of the prover's reach, and
`BoundedSearchIsComplete`. That no row is missed needs an exchange argument over the
whole of a row: an arbitrary row is turned, glyph by glyph, into one that the pruned
search follows, each time by a cheaper way to a page that is still free. The
induction theorems of the library cannot be used, as their argument is an operator;
where a proof needs induction it is done on sets, function by function
(`RecordsFrom`, `Kept`, `RebaseContent`, `Chain`).

## 5. Where code and documents disagree

Violation runs, each a finding in `PROJECT.json`:
- `translation_batch`: "an explicit human decision"
  (`v5_1_first_context_translation_approval.py:7`) gets the batch of now, by the
  migration of schema 1 (484) without a look at the hashes of its review, and by hand
  (466) whatever was on the screen.
- `row_layout`: `build_runtime_layout_rows` says that it removes only spacing and
  punctuation (FTE 831); a row of one clause that ends in an exclamation mark gets a
  second one (FTE 957).

Visible in the models when a constant allows it, and the reason why a passing run
does not:
- `Overlap` in the lock alone: a second starter that comes between `mkdir` (AP 165)
  and the pid (AP 166), or beside the recovery of a stale lock (AP 185-195), runs
  beside the first, without any kill; `PROJECT_HANDOFF.md:62` says that the lock does
  not compete with a live process. The manager keeps starts apart (`OneAutopilot`)
  unless two commands come at once or a start is not answered: `calm`.
- `PidReuse` with `Kills`: a stale lock whose pid now belongs to another program
  refuses every start, with the message that another autopilot owns it (AP 178-179;
  `read_live_pid` of the manager does check the command).
- `disagreeing` in `RuntimeBundle`: "a stale or malformed local artifact must never
  block publication" (RB 821), and one of an earlier target, valid by itself, does
  block all of it, by the identity checks (RB 834-913): the first conjunct of
  `OnTwoGroundsOnly`.
- A stage step in `PersonAt`: a `git pull` during a stage, as `README.md:19`
  tells the user to do, makes the loop record a head that no stage has run, since
  `last_head` is read after the stage (AP 547).
- `push` in `PersonAt`: a commit made between the check (AP 473, 482) and the push
  (AP 477, 491) is pushed unchecked, because HEAD is resolved again.
- `innerTimeout` in `Liberties`: a substage that always runs into its own limit
  ends the stage with 124 (ST 89), which the loop takes for its own time limit
  and retries for ever.
- `stale` in `Liberties` with fairness: artifacts that disagree on an identity
  stop, with the publication of all, also the fetch of a repair (RB 839).
- A conflict between bundles and `main`, and an abort of it that fails (AP 486-489),
  are retried in every cycle without end: `Stuck` in the delivery properties. The
  branch is looked at once, at the start (AP 249), not by a loop that goes on.
- A forced stage that hits the time limit on a head processed before is not
  retried, since `force` is cleared whatever the result (AP 596).
- `early` in the rule table: three artifacts are looked up in variables that
  still hold what a rule has dropped (RB 969); `PassIsEnough` leaves them out.
- A stop that returned is undone by a start of the boot launcher that was
  already past its check (MG 332): `taken` in `StopEndsAutopilot`. A tool begun
  behind the list outlives the tree, which MG 22 calls "the owned process tree".
  Two managers at once can leave an autopilot without the wake lock (`calm` in
  `WakeLockHeld`).
- The docstring CP 666 says that a focused stage is returned only when all its
  prerequisites are current; the first stages are returned before theirs are.
  `LaterStagesArePrepared` claims it of those after them.
- The selector of the active path knows schema 3 of a trace whose capture has
  moved on to schema 8, so that trace is asked for again until its successor
  exists.
- A runtime sequence that is reused in part keeps frames of the earlier run
  (`v5_1_source_target_runtime_sequence.py:862`); a context resolved for an older
  capture is kept when only its address is the same; the decode pair can be torn
  by a kill between its two files, which the next stage repairs
  (`v5_1_target_page_decode.py:604`).
- A group with an ambiguous glyph is refused by the script corpus in every stage
  ("group script corpus counts changed", GSC 397), although nothing has changed.

## 6. Not modelled, and why

- The emulator and what talks to it: the probes and their frame barrier, the
  display capture and comparison with its candidate loop, the runtime and direct
  captures of the built ROM, the consumer trace, the VRAM difference, the glyph
  route, the bit alignment, the traces of the decoder. Their results are inputs
  of the models that read them.
- The request and receipt files of a stage (ST 133-180, 1888-1893,
  `v5_1_runtime_stage_failure.py`): `Autopilot` has their effects, `ActivePath`,
  `TargetGroup` and `Translation` the order of the chains.
- The commands below the level of one git command (index locks), except the
  rebase, which is two steps because a kill inside it has lasting effects.
- The status file, logs and notifications: no decision reads them. `install`
  writes the boot launcher and then starts; the launcher is `Reboot`.
- Validators of single artifacts, pixel comparison, BPS, the Windows bridge and
  the build pipeline: data transformations without shared state, or commands that
  run once.
- Merge commits: the script only fast-forwards and rebases. A rebase that fails
  without a conflict, for which the abort fails as well.
- RB: the one text artifact (independent of the others) and staged deletions.
- The compaction of the last record (FTE 247), which no stage chooses.

## 7. Plan

Done: the lock and its manager, the loop, the choice of the bundle, the three
chains of tools that share files, the searches and the codec under them, image
writes. In this order because the loop decides what is run and recorded, and
everything else is called by it.

1. `RuntimeStage` (ST): focus and request, the first failure receipt, the request
   marker, the publications in the middle and at the end; a refinement to the
   stage as `Autopilot` sees it.
2. `CandidateLoop` (ST 744-853): no candidate is tried twice, at most eight, each
   rejection is backed by a comparison.
3. `FrameBarrier` (`run_s25u_runtime_probe.py` 515-548): one-frame steps, the
   answer before completion, retries; a status is never of the frame before.
4. Proofs: `BoundedSearchIsComplete`; that `LoadTrees` gives a codec for every stored
   tree; `AlignedIsDisjoint` for the stream of the source ROM.
