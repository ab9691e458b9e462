# TLA+ models of codex-apply-patch

`apply_patch` reads a patch made of *hunks* (Add File, Delete File, Update File
with an optional Move to) and applies them to a tree of files. This directory
holds TLA+ models of the program, the TLC runs that check them on small
instances, and proofs checked by TLAPS. `PROJECT.json` lists the components, the
runs, the lines each definition models, the hazards and the theorems.

To check a run: `tlc -config <run>.cfg <module>.tla`. To check the proofs of a
module: `tlapm <module>.tla`.

## 1. The system

| Component | Source | State | Operations |
|---|---|---|---|
| Streaming parser | `src/streaming_parser.rs`, `src/parser.rs` | mode, hunks so far, environment id, the partial line | `push_delta`, `finish` |
| Patch boundaries | `src/parser.rs` | none | `parse_patch`: trims, strips a heredoc wrapper, feeds the parser |
| Apply engine | `src/lib.rs` | position in the patch, what was read, delta, affected paths; the tree itself | one storage call after another for each hunk |
| Delta | `src/lib.rs` | list of changes, flag `exact` | append, replace the last Add by an Update, clear `exact` |
| File update | `src/file_update.rs`, `src/seek_sequence.rs`, `src/text_file.rs` | `line_index`, list of replacements | locate each chunk, rebuild the file |
| Invocation, verification | `src/invocation.rs` | the map of predicted changes, the text and directory of the action | `intercepts_command`, `maybe_parse_apply_patch_verified` |
| Executable | `src/standalone_executable.rs`, `src/main.rs` | exit code | `run_main` |
| Storage, path URIs | external crates | the tree | `read_file_text`, `get_metadata`, `write_file`, `create_directory`, `remove` |
| Mirror automation | `sync/`, `.github/workflows/daily-sync.yml` | baseline release id, main branch, tags, releases and their bundles, the run that waits | list, tag, create, upload, record |

**How they interact.** A caller streams patch text into the parser and shows
the hunks that come back after every delta; or `parse_patch` feeds the whole text
at once. The engine takes the hunks in order. For an update it hands the source
text and the chunks of the hunk to the file update, which answers with a new text or
an error. Every storage call is awaited and may fail. The engine returns the
delta in both outcomes: a caller uses it to show or undo what happened.

There are two ways to the engine. A host that is about to run a command asks
`intercepts_command` whether the command is a patch, and
`maybe_parse_apply_patch_verified` what it would do: the targets are read, and the
answer is an action with the changes to show, the text of the patch and a
directory. Later the host calls `apply_patch_with_options` with the text and the
directory of the action; the text is parsed and the targets are read again, and between
the two calls the tree belongs to nobody. Or the executable is started with a patch
as its argument or on stdin, and turns the outcome into an exit code.

Apart from the program stands the workflow that mirrors upstream releases: its first
job lists the releases behind a baseline and creates them, its second one adds a bundle to
each and records the new baseline. They share the repository and its releases, and
each run starts from what the runs before it have left.

**What is hard here.** The engine is a sequence of awaited calls, any of which
may fail, some of them after having had an effect. A move is two calls. The
delta has to be right at every one of these points. Hunks of one patch build on
each other. The file update works on three index spaces at once (source lines, old
lines, new lines), with a search that skips forward, a pattern that may shrink, and a
sort that must be stable. The parser goes on after errors, and what it has shown
may not change. Verification and application are two readings of one tree, and
two implementations of what a patch means. The workflow may stop at any of its
steps, upstream publishes while it lists, and a run that waited starts from an old
commit. Nothing in the crate runs concurrently with itself, and the
patch format tells callers not to run `apply_patch` in parallel with another
tool (`SKILL.md:17`).

**What makes each part correct.**

- *Engine*: hunks take effect in order, and an error leaves exactly the effects
  of the hunks before it; a move never loses the text; with `follow_symlinks` off
  nothing is read or written through a link; the engine stops only where a hunk cannot be
  applied; it returns.
- *Delta*: while it says it is exact, it describes every change, in order, with
  what was replaced; it is not inexact without a cause; the summary agrees with it.
- *File update*: replacements are disjoint; the new file is the source with
  the removed lines gone, the added ones in their places and every other line,
  context first of all, untouched; a chunk for the end of the file ends there.
- *Parser*: hunks that were shown stay; a finished patch holds no empty update;
  no content line is lost; context pairs are aligned, which the file update relies
  on.
- *Invocation and verification*: what is intercepted is what is verified; the hunks
  applied are the ones verified, contents included; what was shown is what happens to every path nobody
  else touched; a patch that verifies can be applied.
- *Executable*: the exit code tells whether the whole patch took effect.
- *Workflow*: no release is skipped, a release behind the baseline has its
  bundles, the baseline never goes back, every release is mirrored in the end.

## 2. The modules

```
Delta ── DeltaJournal ── DeltaJournalProofs          abstract: what a delta promises
  │           ▲ refines                 ▲ cited
ExecutorFileSystem ── ApplyHunks ── ApplyHunksProofs ── ApplyHunksEffectProofs
                          │                                  │ extended
                      ApplyPatch ─────────────────── ApplyPatchProofs
                      │        │                     the two ways to the engine
ParsePatch ── Invocation    StandaloneExecutable

UpdateFileChunk ── FileUpdate ── FileUpdateProofs
       └────────── StreamingParser ── StreamingParserProofs

MirrorRelease ── MirrorReleaseProofs

SharedLemmas         sets of naturals, induction, iteration: for the proofs

MCDeltaJournal  MCApplyHunks  MCApplyPatch  MCFileUpdate           instances for TLC
MCStreamingParser  MCMirrorRelease
```

### ApplyHunks, over ExecutorFileSystem

`ApplyHunks` is `apply_hunks_with_options`. Its program counter `pc` names the
next storage call of the hunk `hunks[i]`:

| `pc` | the call | code |
|---|---|---|
| `hunk` | the metadata and the reads a hunk starts with | `StartAdd`, `StartDelete`, `StartUpdate` |
| `dest` | the metadata and contents of a move's destination | `ReadDestination` |
| `write`, `mkdir`, `retry` | `write_file_with_missing_parent_retry`, or the plain write of an update | `Write`, `WriteMissesParent`, `CreateParent`, `WriteError` |
| `check_dir` | `ensure_not_directory` | `CheckNotDirectory` |
| `remove` | the removal of a delete or move | `RemoveSource`, `RemoveError` |
| `confirm` | `remove_failure_was_side_effect_free` | `ConfirmSource` |
| `report` | `print_summary` | `PrintSummary` |

Reads in a row with no write between them are one step: nobody else changes
the tree meanwhile, and what each of them may return is chosen independently.
Every call that can change the tree is a step of its own, and each has a failing
variant. `HunkDone` and the pushes to the delta belong to the step of the call
they follow, since nothing can fail between them.

`ExecutorFileSystem` is external: the trait of another crate, modelled from what
`lib.rs` and `file_update.rs` ask of it. A place holds a text, nothing, bytes
that are not UTF-8, a directory or a link; all links lead to one place outside
the patch. With `StorageMayFail` any call may fail for no visible reason: a
failing write may leave the file as it was or hold anything; a failing
`create_directory` or `remove` may have done its work.

Texts are model values; the chunks of an update are a function from the texts
they apply to, to the result. `FileUpdate` opens that function up.

### Delta and DeltaJournal

`Delta` defines the records of an `AppliedPatchDelta` and what it means for a
log to *replay* (forward), *undo* (back) and *chain* (each change starts where the
previous one to that place ended). `DeltaJournal` is the abstract promise: a tree
and a log; while `exact`, each change of the tree records itself; `LoseTrack`
gives exactness up for good, after which the tree may do anything but the log
keeps what it has. `ApplyHunks` implements it, under the mapping
`tree <- fs, log <- changes, exact <- Trusted`. `Trusted` is the code's flag
except for one moment: after a removal has reported an error and before the
engine has read the file again, the flag may still be up although the file is
gone. Nobody sees the delta at that moment.

### FileUpdate, over UpdateFileChunk

One step places one chunk (`compute_replacements`), the last one rebuilds the file
(`apply_replacements`). A line is a text and an ending. Text comparison is
abstracted to `Look[pass]`, one function per pass of `seek_sequence`, each
coarser than the one before and the first the identity: the four passes of the
code have that shape, and nothing else about white space or punctuation matters to
the properties. `replacements` is a set whose elements know the chunk and gap they come
from; `Precedes` is the order the stable sort gives them.

`UpdateFileChunk` builds chunks as the parser does, so both modules speak of
the same `context_line_indices`. `SectionsAreAligned`, checked of the parser, is the
assumption `ContextPairsInOrder` that `FileUpdate` makes of its chunks.

### StreamingParser

One step is one call of `process_line`, or `finish`. Lines are classified: a form
(marker, sign, empty, other), the text behind it, and whether a space precedes it,
because in an update an indented marker is a context line and elsewhere a marker.
Where the text is cut into deltas changes nothing (the buffer holds the partial
line), so deltas are not modelled. `answer` is what the call returned. `body` and
`count` are history: the content lines of the current hunk, and the bound.

### ParsePatch

`parse_patch` as operators: trim, take off a heredoc wrapper, look at the first and
the last line, feed the parser. A text is a sequence of lines, and a whole hunk is one
line of it: what happens inside a hunk is `StreamingParser`. What stays is the control that decides
which text is accepted and which text is handed on: `PatchLines` is
`check_patch_boundaries_lenient`, `Streams` is what the streaming parser then takes,
including that its `finish` accepts an end marker behind another one.

A parse does not give back what it read. `str::lines` takes a carriage return off the end of a
line, and `push_delta` takes off one more: `Chomped`, twice. The text that is kept has lost the
first only, and when it is parsed again to be applied each line may lose another one.
`Stripped` maps a hunk to the hunk with one carriage return less at the end of its lines; it
leaves verb and paths alone, because headers are trimmed.

### Invocation and StandaloneExecutable

The decision tables, as operators. `Invocation` reads `argv`: the shells and their
flags under both path conventions, the script as the statements tree-sitter finds in it,
the two forms of a heredoc call, the patch without a command.
`StandaloneExecutable` says where `run_main` takes the text from, when it exits early and
with which code.

### ApplyPatch, over ApplyHunks, Invocation and StandaloneExecutable

A call from end to end; the engine's actions are those of `ApplyHunks`, unchanged.

| `phase` | what happens | code |
|---|---|---|
| `asked` | `ParseCommand`: refused, left to the shell, or parsed | `maybe_parse_apply_patch_verified` |
| `verifying` | `VerifyHunk`, one hunk a step; `FinishVerification` | `try_verify_apply_patch_args`, `unified_diff_from_chunks` |
| `verified` | `ApplyVerified` hands text and directory of the action on | `apply_patch_with_options` |
| `asked` | `GiveUp` or `Launch`, of an executable | `run_main` |
| `applying` | the steps of the engine; then `Exit`, of an executable | `apply_hunks_with_options`, `run_main` |

`Interfere`, while a host verifies or waits, is another tool that writes or removes a
file; `disturbed` keeps the places it touched. `Under` joins a path to a directory
and `Rooted` joins those of a hunk. `predicted` is `ApplyPatchAction::changes`; a diff is the pair of
texts it is made from.

### MirrorRelease

`step[w]` is where the run `w` of the workflow is: `list`, `view`, `tag` and
`create` are `sync/update.sh`, `upload` and `record` are
`sync/publish-macos-arm64.sh`, and the state they share is that of the mirror
(`baseline`, `tags`, `releases`). `pending` is the one run the concurrency group lets
wait, with the baseline of the commit it was triggered for. Upstream publishes at any
time, so a page of the list may repeat what the page before it held. `StopRun`,
`MissRelease`, `CreateIsInterrupted` and `UploadIsInterrupted` are the ways a
run ends early: between two steps, because a release that exists was not found, and in the
middle of creating a release or replacing a bundle. `torn` and `late` are history: which
releases such an interruption has left incomplete.

## 3. The runs

| Run | Checks | Instance | Time |
|---|---|---|---|
| `DeltaJournal` | `Consistent` | two places, two texts, logs of up to three changes | seconds |
| `ApplyHunksFaults` | `TypeOK`, `ExactDeltaIsTheWholeStory`, `HunksTakeEffectInOrder`, `MoveNeverLosesText`, `LinksAreLeftAlone`, `SummaryAgreesWithDelta`, `ImplementsDeltaJournal`, `Terminates` | every patch of up to two hunks over 17 hunks, on 12 trees, and of three over 7 hunks; any call may fail | 15 s |
| `ApplyHunksReliable` | `CallTypeOK`, `StopsOnlyWhereItMust`, `ExactUnlessOpaque`, `PredictionIsWhatHappens`, `PreviewMatchesDelta`, `VerifiedPatchesApply`, `AppliedIsVerified`, `InterceptionAgrees`, `ExitCodeTellsOutcome` | the same patches and trees and more, each given to a host and to the executable, in the forms a command, a script and a text can have; one place may be disturbed; a storage that fails only for cause | 10 s |
| `FileUpdate` | `TypeOK`, `NeverOverlap`, `ResultIsTheSplice`, `EndOfFileChunksReachTheEnd` | files of up to three lines, one chunk of up to four lines or two short ones, all endings, all passes | 5 s |
| `StreamingParser` | `TypeOK`, `FinishedUpdatesAreWhole`, `SectionsAreAligned`, `EveryLineIsInItsHunk`, `ShownHunksStay`, `EnvironmentIsFixed`, `EndOfFileClosesSection` | all sequences of seven accepted lines over 18 lines, rejected lines and `finish` anywhere | 35 s |
| `MirrorRelease` | `TypeOK`, `NoReleaseIsSkipped`, `PassedReleasesAreWhole`, `BaselineNeverGoesBack`, `EveryReleaseIsMirrored` | five releases on pages of two, two runs, two failures | 30 s |

Six more runs each violate one statement found in the repository:

| Run | Statement | What happens |
|---|---|---|
| `SelfMove` | `SKILL.md:248`: source and destination of a move must differ (which implementations must enforce, `SKILL.md:97`) | `lib.rs:583`: nobody compares them; the file is written, then removed, and the call succeeds |
| `MixedEndings` | `text_file.rs:81`: unchanged lines retain their endings | `text_file.rs:111`: a lone CR followed by a blank LF line becomes one CRLF |
| `ContextLost` | `SKILL.md:166`: a context line remains unchanged; `file_update.rs:125`: context lines survive | `file_update.rs:111`: in a file of one blank line, blank context followed by the removal of a blank line removes the context |
| `EndOfFileFallback` | `seek_sequence.rs:4-6`: the search falls back to `start` | `seek_sequence.rs:29`: it does not |
| `PredictedChanges` | `lib.rs:186`: the action's changes are those that would be made by applying the patch | `invocation.rs:212`: each hunk is predicted from the unpatched tree, and only sources are compared; where a move lands on a path that another hunk writes, something else happens |
| `CarriageReturns` | `lib.rs:186`, and `lib.rs:172`: the text of an action can be used to apply it | `streaming_parser.rs:143`: each parse takes carriage returns off; a content line that ends in three of them is shown with one and written with none |

**Bounds and why they are enough.** Two hunks are enough for every pair of a
change and a later one at the same or another place; three let a file be created,
moved and changed again. The trees put a link, a directory, a binary file or
nothing at the places the hunks name; one path has a directory that must be made
first, one cannot be joined to the working directory. The chunks of `FileUpdate`
include context at either end and in the middle, a blank last line (with and without its counterpart), pure
additions, pure removals, a change context, the end-of-file marker; two chunks are
enough for an overlap, three lines for a match before, at and behind the wrong
place. Seven lines of patch leave room for begin, a header, and five lines, among them two sections
or two hunks. Verified patches need no more than the engine's; one disturbed
place (`MaxDisturbances`) is enough, because the properties speak of the paths that were left alone, and
links let it stand for a place no hunk names. The commands have every shell,
flag and wrapper the code distinguishes, one too many and one too few of each, and
both path conventions; five hunks have contents with up to three carriage returns; the texts have each wrapper, white space inside and outside of it,
a missing or a doubled end. Five releases (`MaxReleases`) on pages of two
(`PageSize`) give a baseline, a plan of several releases and a list of
several pages with a publication between them; two failures (`MaxFailures`) let a repair be interrupted
too; two runs show what the concurrency group is for. What the runs leave to larger instances, the theorems of section 5
cover for the properties proved there.

**Fairness.** `Terminates` assumes, in `ApplyHunks!FairSpec`, that the engine
takes its next step, that is, that every storage call returns and the caller
polls the future to its end (`run_main` blocks on it). No call is assumed to
succeed. `EveryReleaseIsMirrored` assumes, in `MirrorRelease!FairSpec`, that the
schedule goes on triggering the workflow (`WF` of `Trigger`: there is a cron entry for every
day) and that a run that is not stopped goes on (`WF` of `Proceed`: a job is cancelled
or runs out of time otherwise, which is a failure). Failures are bounded by
`MaxFailures`: if every run failed, nothing would be mirrored; so the property says that
no failure leaves behind what the next run cannot get past. The parser, the
file update and a call of a host run when they are called, so no liveness is
stated for them. Nothing in the models has a deadlock;
a call that has returned is modelled as a step that changes nothing.

## 4. Hazards

`PROJECT.json` lists them at their lines with the properties that cover them.
One has no property: a release that upstream withdraws between two pages of the list
moves the rest forward, and the next page starts one release too late; the model takes
upstream releases to stay published.

Seen while modelling, not made into runs: Add File overwrites a file that is there
(`lib.rs:482`), which the scenario `011_add_overwrites_existing_file` pins and `SKILL.md:112` and
`:117` forbid; an update that only names a destination is refused (`streaming_parser.rs:55`, pinned by
the parser's tests), though `SKILL.md:266` gives it as an example and the grammar at `parser.rs:14` makes
the changes optional; a chunk without old lines is always added at
the end of the file, even behind a change context (`file_update.rs:86`, against
`SKILL.md:168`); a blank context line that is not found matches anywhere, because
the shortened pattern is empty, and the end-of-file marker is then not looked at
(`file_update.rs:108`); `finish` accepts an end marker in every mode, even when the
patch has not begun (`streaming_parser.rs:158`); an end-of-file marker in front of
the first section is dropped (`streaming_parser.rs:300`), and `SKILL.md:220` allows
one per update while the parser allows one per section; an Add File without lines
and a patch without hunks parse, though the grammar asks for one at least;
deleting a file that does not exist clears `exact` although nothing was changed
(`lib.rs:515`), and an apply that was going to fail anyway is no worse for it.

Of a call: the comment at `invocation.rs:277` says the directory of `cd` may not be
quoted, but the query accepts both kinds of quotes; behind a `cd` the query lets
`apply_patch` have arguments, in front of the heredoc of a direct call it does not.
`parse_patch` accepts a patch with a doubled end marker, also an indented one,
because the last line reaches the parser without a line feed, in `finish`; a caller that streams the
same text with a line feed at its end is told it is an error. A patch without
hunks verifies, with no changes, and then fails to apply. A hunk that adds a file
where a directory is verifies too, as does a move onto one.

Of the workflow: a release whose creation was interrupted is kept as it is by the next run,
and nobody makes the missing bundles of Linux and Windows again, although the baseline moves past it
(`update.sh:107`; the repository's `README.md` says that all four platform bundles are
built). `PassedReleasesAreWhole` names this case and the bundle lost while it was replaced
as its two exceptions.

## 5. What is proved

All theorems hold for every value of the constants, under the named assumptions of the
modules: `NodesAssumption`, `NoneAssumption` (sentinels are not texts or places),
`StorageAssumption` (sentinels differ, every path has a parent), `PatchAssumption`
of `ApplyHunks` (hunks are hunks, trees are well
formed), `CallAssumption` of `ApplyPatch` (joining keeps different paths apart and makes
hunks of hunks, taking carriage returns off a hunk leaves its verb and its paths alone, texts are
sequences of lines, markers are not blank and no hunks, what is not there is
not an exit code), `InputAssumption` of `StreamingParser`
(each line has what its form carries, the absence of a text is not a text),
`MirrorAssumption` (pages are not empty, the bundle of macOS is none of the others), `LookAssumption` (passes get coarser), `UpdateAssumption` (files are as
parsed, chunks have their context pairs in order).

**The journal and the engine's delta.**

- `JournalConsistent`: `Spec => [](TypeOK /\ Consistent)` for the journal.
  `Consistent` is inductive as it stands, because `LoseTrack` ends what it
  claims. Two lemmas do the work: appending a change that starts from what the
  tree holds keeps a log telling the story (`AppendTold`), and so does replacing the
  last Add by the Update of a move (`ReplaceTold`).
- `ApplyHunksProofs!TypeCorrect`. `TypeOK` is not inductive: that the text to be
  written is a text, that a move's source was read, and that the last change is the Add
  of its destination depend on `pc`. `IInv` adds, for each group of values of `pc`,
  what the engine then knows, among others that while the delta is exact what was
  read is what the place still holds.
- `Implementation`: every step of the engine is a step of the journal or a
  stutter. From `IInv`: a write maps to `RecordAdd` or `RecordUpdate`, the removal
  to `RecordDelete` or `RecordMove`, a failed write or removal to `LoseTrack`, all else
  to a stutter or a `LoseTrack` that changes only the flag.
- `ExactDelta`: `Spec => []ExactDeltaIsTheWholeStory`, from the two theorems above.

**What the engine does to the tree.**

- `LinksSafe` (`LinksAreLeftAlone`): with `follow_symlinks` off no step changes a link or what links
  lead to; what the engine holds of a source or of what it overwrites, to patch it, write it elsewhere or
  record it, was never read through a link; and a hunk that names a link does not complete. The
  invariant knows of each `pc` behind the reads that the place they were made at is no link.
- `MoveSafety`: at every step of a move the source still holds the text or the
  destination the new text. The invariant says at which `pc` which of them holds.
- `InOrder` (`HunksTakeEffectInOrder`), whatever fails and whenever. The property
  compares the tree between hunks with `TreeAfter`, a recursive function of the patch.
  `Meaning` is the inductive invariant: it compares at *every* call, and says which
  places of the current hunk may already differ from the tree the hunks before it left, and
  what they then hold.
- `StopsRightly` (`StopsOnlyWhereItMust`) follows from `Meaning` and from what a
  stop needs at each `pc`; `ExactWithoutCause` (`ExactUnlessOpaque`) is
  inductive on top of `Meaning`, which tells what a read that cost exactness has found.
- `DeltaHunkByHunk`: while the delta is exact, its change number `n` is what hunk `n`
  means on `TreeAfter[n - 1]` (`Logged`). The summary lists hunk by hunk too
  (`Listed`); so the two name the same paths in the same order, `SummaryAndDelta`
  (`SummaryAgreesWithDelta`).

**A call.**

- `Interception`: for every command line the interception and the
  verification agree, a raw patch and a script that is one included.
- `HandOver` (`AppliedIsVerified`): the engine gets as many hunks as were verified, in order, each with
  the verb, source and destination it was verified with, and the whole hunk, contents and chunks, unless
  a line of it ends in a carriage return when it is verified. The lemma `ParsesAgain` does the work: the text `parse_patch` hands on has
  lost its wrapper and its surrounding white space, and parses again to `Stripped` of each of its hunks, verb and places unchanged and the hunk
  itself as well where no line of it ends in a carriage return. The invariant
  `CallInv` carries that fact from the parse to the application, and that the verified paths
  are as many as the verified hunks, because no source may be named twice.
- `EngineInv` is the bridge from the engine to a call: before the engine is started its
  variables are those of a start, and a step of a call that starts it or runs it is a step of
  `ApplyHunks`. So the engine's invariants hold within a call, on whatever tree others
  have left: `CallTypeCorrect` (`CallTypeOK`), `ExitCodes` (`ExitCodeTellsOutcome`),
  `CallStopsRightly` and `CallExactWithoutCause`.
- `Predicted` (`PredictionIsWhatHappens`), `PreviewAndDelta` (`PreviewMatchesDelta`)
  and `VerifiedApplies` (`VerifiedPatchesApply`) relate two readings of one tree. All three speak of
  hunks none of whose verified lines ends in a carriage return: of the others the application has other
  contents than the verification (the run `CarriageReturns`). `PreviewInv`
  says of each prediction that it is that of its hunk, on the tree as it was wherever nobody else has
  written since. `EachOnItsOwn` is the second half: hunks that keep out of each other's way do to
  the tree, one after the other, what each of them would do to it alone. It is an
  induction over the patch.

**The file update.**

- `FileUpdateProofs!TypeCorrect` and `ReplacementsAreDisjoint`: all replacements
  lie inside the file and behind one another, so `apply_replacements` never
  subtracts below zero. The invariant places the replacements of a chunk between
  its match and the new `line_index`.
- `EndsAtEndOfFile`: a chunk marked as the end of the file is placed there,
  since a search for it starts where its pattern would end the file. `placed` has one
  entry per chunk behind `c`, and entries stay.
- `Splice` (`ResultIsTheSplice`): the file that the replacements build is the one a reader of the
  patch expects, for files and chunk lists of any length. The property takes context from the chunks
  (`Context`: every pair whose old line was matched), not from what the code keeps of it. It leaves out
  the updates with a chunk for which `KeepsContext` is false: found without its last, blank, line, and with a
  context line whose new side is the blank last new line that is dropped with it. There the code removes the
  context line; the run `ContextLost` shows it. Four facts carry the theorem. `ContextIs` says that
  of every other chunk the pairs the code keeps are the context.
  `SpliceInv` says that the replacements are the gaps between the context lines of the placed
  chunks, and that only a gap with nothing on either side is left out; so a line is removed,
  or added, exactly where a gap has it (`RemovedIs`, `AdditionsAre`). `PrecedingEnds` says that
  in sorted order each replacement ends where the next one may start, so what lies between
  two of them is untouched. And `Listing` says of a text that it is the lines of a set of
  entries in the order of their keys, of which there is only one (`IsInOrder`): what is copied and
  inserted up to a replacement is the listing of all entries in front of it (`ListedNext`), by induction
  over the replacements.

**The parser.**

- `TypeCorrect`, `UpdatesAreWhole`, `Aligned`, `ShownStay`,
  `ClosedSections`, `EnvironmentStays`. The inductive invariant says that only the
  last section of the last hunk may be empty, that the mode tells which hunk is
  last, and that every section has its context pairs in order. `Aligned` is the
  assumption `ContextPairsInOrder` under which `FileUpdateProofs` reasons: for input
  of any length the one module delivers what the other takes for granted. The action
  properties follow from what each step may do to the last hunk (`Continues`).
- `LinesKept` (`EveryLineIsInItsHunk`): each side of the sections of a hunk, put one behind
  the other, is what the content lines since its header add to that side. A step adds
  a line to the last section or opens a new one; `FlattenAppend` and `FlattenLast` say that
  the concatenation then grows by that line, at its end.

**The workflow.**

- `TypeCorrect`, `NoneSkipped`, `PassedWhole`, `NeverBack`, for
  any number of releases, runs, bundles and failures, and pages of any size. The
  inductive invariant knows of each run that what it has listed has no gap down from the
  newest release it saw, that its plan is every release behind its baseline up to
  the last, which of them it has already made sure of, and that no baseline a run
  holds or waits with is ahead of the recorded one. That at most one run is in progress (`Alone`)
  is what keeps a stale plan from taking the baseline back.

**Induction.** Several of these need an induction over the patch or over the lines of a hunk:
that a function which is defined by recursion exists, that trees the patch means are trees, that hunks
which keep apart do not disturb each other, that sections are concatenated, that a file is rebuilt
replacement by replacement. The
library's induction theorems take a predicate as a parameter, which the provers used here cannot
instantiate; `SharedLemmas!SetInduction` states the same of a *set* of naturals, and `Iteration` what
follows for a function that is stepped.

**Only model-checked.** `Terminates` and `EveryReleaseIsMirrored` are liveness under
fairness, which is out of the prover's reach. Every other property of a passing run is
stated by a theorem. The six runs that violate a statement
are counterexamples and need no proof.

## 6. What is not modelled

- Formatting of messages, line numbers in errors, the format of the unified diff, printing.
- How paths are joined and normalised: two spellings of one file, hard links, and links
  among the ancestors of a path are one place each in the model, so what happens when
  two hunks name one file by two names is not covered.
- Other processes that change the tree while a patch is applied. Changes between
  verification and application are modelled.
- In `FileUpdate` and `StreamingParser`, lines whose text is only white space other than the empty
  text. Carriage returns at the end of patch lines are modelled in `ParsePatch`, hunk by hunk and not line
  by line; elsewhere a carriage return is part of the text like any other character.
- How tree-sitter parses a shell script, and how a path is split: the models start from the
  statements of a script and the last segment of a path.
- What `sync/sync.py` copies and `sync/package.sh` builds: they keep no state of
  the protocol, and fail as a step of it. The run that finds no new release and
  synchronises upstream main: it touches neither the baseline nor a release.
- Upstream releases that are withdrawn or published out of order.
- The build files and the tests.

## 7. Plan

Done: every component that keeps state or decides something is modelled; the
runs and theorems above.

What would come next:

1. What the parser's hunks are as texts, so that `EveryLineIsInItsHunk` is carried on to the
   chunks that `FileUpdate` applies.
2. Paths as sequences of segments, to cover links among ancestors and two spellings
   of one file.
3. Withdrawn releases in `MirrorRelease`, if the repository ever handles them.
