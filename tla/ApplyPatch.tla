----------------------------- MODULE ApplyPatch -----------------------------
(***************************************************************************)
(* apply_patch and the two ways to it.                                     *)
(*                                                                         *)
(* A host that is about to run a command asks first whether the command is *)
(* a call of apply_patch (maybe_parse_apply_patch_verified).  If it is,    *)
(* the targets are read, hunk by hunk, and the answer is an                *)
(* ApplyPatchAction: the changes to show and a patch to apply.  The host   *)
(* applies that patch some time later with options of its own; until then  *)
(* others may change the tree.  Or the executable is started and applies   *)
(* the text it is given (run_main).                                        *)
(*                                                                         *)
(* Application is the engine of ApplyHunks, which reads the tree again.    *)
(***************************************************************************)
EXTENDS ApplyHunks, FiniteSets

CONSTANTS
    BeginPatch, EndPatch, HeredocStart, HeredocEnd, \* see ParsePatch
    BlankLine, OtherLines, Stripped,
    Lower,          \* see Invocation
    Callers,        \* the calls: of a host, or launches of the executable
    Under,          \* for each directory, the place of each relative path; the
                    \* directory None is the one the call is made in
    Disturbances,   \* what others may write: places and contents
    MaxDisturbances \* bound on how many places they write

INSTANCE Invocation

Main == INSTANCE StandaloneExecutable

(* A hunk with its paths joined to a directory. *)
Rooted(h, dir) ==
    IF IsMove(h)
    THEN [h EXCEPT !.path = Under[dir][@], !.move_path = Under[dir][@]]
    ELSE [h EXCEPT !.path = Under[dir][@]]

(* Hunks holds the hunks of the texts and what joining their paths gives.    *)
ASSUME CallAssumption ==
    /\ None \in DOMAIN Under
    /\ None \notin {0, 1, 2}
    /\ \A dir \in DOMAIN Under :
          /\ Under[dir] \in [Paths -> Paths]
          /\ \A p, q \in Paths : Under[dir][p] = Under[dir][q] => p = q
          /\ \A h \in Hunks : Rooted(h, dir) \in Hunks
    /\ BeginPatch # BlankLine /\ EndPatch # BlankLine
    /\ Failed \notin Seq(Lines) \cup ApplyPatchArgs
    /\ {BeginPatch, EndPatch, HeredocStart, HeredocEnd, BlankLine} \cap Hunks = {}
    /\ Stripped \in [Hunks -> Hunks]
    /\ \A h \in Hunks :
          /\ Stripped[h].verb = h.verb
          /\ Stripped[h].path = h.path
          /\ h.verb = "update" => Stripped[h].move_path = h.move_path
    /\ \A c \in Callers :
          /\ c.kind \in {"host", "main"}
          /\ c.kind = "host" =>
                \A k \in 1..Len(c.argv) :
                    /\ c.argv[k].lines \in Seq(Lines)
                    /\ c.argv[k].script # Failed =>
                          \A j \in 1..Len(c.argv[k].script) :
                              c.argv[k].script[j].heredoc \in Seq(Lines) \cup {None}
          /\ c.kind = "main" =>
                /\ c.args \in Seq(Seq(Lines) \cup {Failed})
                /\ c.stdin \in Seq(Lines) \cup {Failed}
    /\ Disturbances \subseteq [place : Files, node : Texts \cup {None}]
    /\ MaxDisturbances \in Nat

-----------------------------------------------------------------------------
VARIABLES
    caller,
    phase,
    answer,      \* of the verification: the tag of MaybeApplyPatchVerified
    args,        \* what the command was parsed to (ApplyPatchArgs)
    verified,    \* how many of its hunks have been verified
    predicted,   \* ApplyPatchAction::changes, by path
    exit_code,
    disturbed    \* history: places changed by others since the call

verification == <<answer, args, verified, predicted>>
call == <<caller, phase, verification, exit_code, disturbed>>
engine == <<locals, i, pc, changes, exact, affected>>
all == <<vars, call>>

PredictedChanges ==
    [verb : {"add", "delete"}, content : Texts]
    \cup [verb : {"update"}, unified_diff : Texts \X Texts,
          move_path : Option(Paths), new_content : Texts]

CallTypeOK ==
    /\ StorageTypeOK
    /\ phase \in {"asked", "verifying", "verified", "refused", "applying", "exited"}
    /\ answer \in {None, "Body", "CorrectnessError", "ShellParseError", "NotApplyPatch"}
    /\ phase = "verifying" => verified \in 0..Len(args.hunks)
    /\ DOMAIN predicted \subseteq Paths
    /\ \A p \in DOMAIN predicted : predicted[p] \in PredictedChanges
    /\ exit_code \in {None, 0, 1, 2}
    /\ exit_code # None <=> phase = "exited"

CallInit ==
    /\ caller \in Callers
    /\ phase = "asked"
    /\ answer = None
    /\ args = None
    /\ verified = 0
    /\ predicted = <<>>
    /\ exit_code = None
    /\ disturbed = {}
    /\ fs \in InitialTrees
    /\ dirs = InitialDirs
    /\ fs0 = fs
    /\ hunks = <<>>
    /\ follow_symlinks = TRUE
    /\ i = 1
    /\ pc = "hunk"
    /\ original_contents = None
    /\ overwritten_content = None
    /\ new_contents = None
    /\ changes = <<>>
    /\ exact = TRUE
    /\ affected = [verb \in {"add", "update", "delete"} |-> <<>>]

-----------------------------------------------------------------------------
(***************************************************************************)
(* The verification.                                                       *)
(***************************************************************************)
Answer(tag) ==
    /\ answer' = tag
    /\ phase' = IF tag = "Body" THEN "verified" ELSE "refused"

IsImplicit == IsImplicitPatch(caller.argv, caller.convention)

ParsedCommand == MaybeParseApplyPatch(caller.argv, caller.convention)

RefuseCommand ==
    /\ \/ IsImplicit
       \/ ParsedCommand.tag = "PatchParseError"
       \/ ParsedCommand.tag = "Body" /\ ParsedCommand.args.workdir \notin DOMAIN Under
    /\ Answer("CorrectnessError")
    /\ UNCHANGED args

PassCommandOn ==
    /\ ~IsImplicit
    /\ ParsedCommand.tag \in {"ShellParseError", "NotApplyPatch"}
    /\ Answer(ParsedCommand.tag)
    /\ UNCHANGED args

AcceptCommand ==
    /\ ~IsImplicit
    /\ ParsedCommand.tag = "Body"
    /\ ParsedCommand.args.workdir \in DOMAIN Under
    /\ args' = ParsedCommand.args
    /\ phase' = "verifying"
    /\ UNCHANGED answer

(* maybe_parse_apply_patch_verified, up to the first hunk. *)
ParseCommand ==
    /\ caller.kind = "host"
    /\ phase = "asked"
    /\ RefuseCommand \/ PassCommandOn \/ AcceptCommand
    /\ UNCHANGED <<caller, verified, predicted, exit_code, disturbed, vars>>

NextHunk == Rooted(args.hunks[verified + 1], args.workdir)

(* Mutant of AlreadyTargeted: a path may be named again. *)
NeverTargeted(p) == FALSE

(* "multiple operations target": only the sources of hunks are looked at. *)
AlreadyTargeted(p) == p \in DOMAIN predicted

(* Mutants of Updates: the diff is taken the wrong way round; the result of  *)
(* a read that failed is the new text.                                       *)
UpdatesReversed(p, edit) ==
    {IF read \in DOMAIN edit
     THEN [unified_diff |-> <<edit[read], read>>, content |-> edit[read]]
     ELSE Failed : read \in ReadFileText(p, TRUE)}

UpdatesLeakError(p, edit) ==
    {[unified_diff |-> <<read, read>>, content |-> read] : read \in ReadFileText(p, TRUE)}

(* unified_diff_from_chunks: the diff, which stands for the two texts it is  *)
(* made from, and the new text.  It follows links, whatever the policy of    *)
(* the application will be.                                                  *)
Updates(p, edit) ==
    {IF read \in DOMAIN edit
     THEN [unified_diff |-> <<read, edit[read]>>, content |-> edit[read]]
     ELSE Failed : read \in ReadFileText(p, TRUE)}

(* Mutant of Predictions: a delete need not find a text. *)
PredictionsOfBlindDelete(h) ==
    CASE h.verb = "add" -> {[verb |-> "add", content |-> h.contents]}
      [] h.verb = "delete" -> {[verb |-> "delete", content |-> CHOOSE text \in Texts : TRUE]}
      [] h.verb = "update" ->
            {IF update = Failed \/ h.move_path \in Unresolvable
             THEN Failed
             ELSE [verb |-> "update", unified_diff |-> update.unified_diff,
                   move_path |-> h.move_path, new_content |-> update.content] :
                update \in Updates(h.path, h.chunks)}

(* The change predicted for a hunk, or Failed. *)
Predictions(h) ==
    CASE h.verb = "add" -> {[verb |-> "add", content |-> h.contents]}
      [] h.verb = "delete" ->
            {IF read \in Texts THEN [verb |-> "delete", content |-> read] ELSE Failed :
                read \in ReadFileText(h.path, TRUE)}
      [] h.verb = "update" ->
            {IF update = Failed \/ h.move_path \in Unresolvable
             THEN Failed
             ELSE [verb |-> "update", unified_diff |-> update.unified_diff,
                   move_path |-> h.move_path, new_content |-> update.content] :
                update \in Updates(h.path, h.chunks)}

VerifyHunk ==
    /\ phase = "verifying"
    /\ verified < Len(args.hunks)
    /\ LET p == NextHunk.path
       IN  IF p \in Unresolvable \/ AlreadyTargeted(p)
           THEN Answer("CorrectnessError") /\ UNCHANGED <<verified, predicted>>
           ELSE \E change \in Predictions(NextHunk) :
                   IF change = Failed
                   THEN Answer("CorrectnessError") /\ UNCHANGED <<verified, predicted>>
                   ELSE /\ verified' = verified + 1
                        /\ predicted' = [q \in DOMAIN predicted \cup {p} |->
                                            IF q = p THEN change ELSE predicted[q]]
                        /\ UNCHANGED <<phase, answer>>
    /\ UNCHANGED <<caller, args, exit_code, disturbed, vars>>

FinishVerification ==
    /\ phase = "verifying"
    /\ verified = Len(args.hunks)
    /\ Answer("Body")
    /\ UNCHANGED <<caller, args, verified, predicted, exit_code, disturbed, vars>>

(* Another tool writes or removes a file the host has asked about. *)
Interfere ==
    /\ phase \in {"verifying", "verified"}
    /\ Cardinality(disturbed) < MaxDisturbances
    /\ \E d \in Disturbances :
          /\ fs[d.place] # d.node
          /\ fs' = [fs EXCEPT ![d.place] = d.node]
          /\ disturbed' = disturbed \cup {d.place}
    /\ UNCHANGED <<caller, phase, verification, exit_code, dirs, patch, engine>>

-----------------------------------------------------------------------------
(***************************************************************************)
(* The application.  The text is parsed, again if it was verified.         *)
(***************************************************************************)
ApplyText(text, dir, follow) ==
    LET parsed == ParsePatch(text)
    IN  /\ phase' = "applying"
        /\ follow_symlinks' = follow
        /\ fs0' = fs
        /\ IF parsed = Failed
           THEN pc' = "failed" /\ UNCHANGED hunks
           ELSE /\ hunks' = [k \in DOMAIN parsed.hunks |-> Rooted(parsed.hunks[k], dir)]
                /\ UNCHANGED pc
        /\ UNCHANGED <<locals, storage, i, changes, exact, affected>>

(* apply_patch_with_options, called with the patch and cwd of the action. *)
ApplyVerified ==
    /\ phase = "verified"
    /\ \E follow \in FollowSymlinks : ApplyText(args.patch, args.workdir, follow)
    /\ UNCHANGED <<caller, verification, exit_code, disturbed>>

GiveUp ==
    /\ caller.kind = "main"
    /\ phase = "asked"
    /\ Main!EarlyExit(caller) # None
    /\ phase' = "exited"
    /\ exit_code' = Main!EarlyExit(caller)
    /\ UNCHANGED <<caller, verification, disturbed, vars>>

(* apply_patch, called by run_main with the default options. *)
Launch ==
    /\ caller.kind = "main"
    /\ phase = "asked"
    /\ Main!EarlyExit(caller) = None
    /\ ApplyText(Main!PatchArg(caller), None, TRUE)
    /\ UNCHANGED <<caller, verification, exit_code, disturbed>>

ApplyHunksStep == phase = "applying" /\ Step /\ UNCHANGED call

(* Mutant of Exit: what could be applied counts as success. *)
ExitByDelta ==
    /\ caller.kind = "main"
    /\ phase = "applying"
    /\ pc \in {"succeeded", "failed"}
    /\ phase' = "exited"
    /\ exit_code' = IF changes = <<>> THEN 1 ELSE 0
    /\ UNCHANGED <<caller, verification, disturbed, vars>>

Exit ==
    /\ caller.kind = "main"
    /\ phase = "applying"
    /\ pc \in {"succeeded", "failed"}
    /\ phase' = "exited"
    /\ exit_code' = Main!ExitCode(pc)
    /\ UNCHANGED <<caller, verification, disturbed, vars>>

CallOver ==
    /\ \/ phase \in {"refused", "exited"}
       \/ phase = "applying" /\ caller.kind = "host" /\ pc \in {"succeeded", "failed"}
    /\ UNCHANGED all

CallNext ==
    \/ ParseCommand \/ VerifyHunk \/ FinishVerification \/ Interfere \/ ApplyVerified
    \/ GiveUp \/ Launch \/ Exit
    \/ ApplyHunksStep
    \/ CallOver

CallSpec == CallInit /\ [][CallNext]_all

-----------------------------------------------------------------------------
(***************************************************************************)
(* What a verified patch does.                                             *)
(***************************************************************************)
FromHost == phase = "applying" /\ caller.kind = "host"

(* No hunk moves a file to a path that it or another hunk names, and at most *)
(* one path of the patch is a link: then, given that their sources differ,   *)
(* no hunk sees what another one did.                                        *)
HunksApart ==
    LET Named == UNION {{hunks[k].path, HunkPath(hunks[k])} : k \in DOMAIN hunks}
    IN  /\ \A j, k \in DOMAIN hunks :
              IsMove(hunks[j]) =>
                  /\ hunks[j].move_path # hunks[k].path
                  /\ j # k => hunks[j].move_path # HunkPath(hunks[k])
        /\ \A p, q \in Named : p # q => Link \notin {fs0[p], fs0[q]} \/ fs0[p] # fs0[q]

PredictedDestination(p) ==
    IF predicted[p].verb = "update" THEN predicted[p].move_path ELSE None

(* No line of verified hunk k ends in a carriage return: what was read of    *)
(* the hunk for the verification is what is read of it for the application.  *)
ReadsAlike(k) == Stripped[args.hunks[k]] = args.hunks[k]

PathReadsAlike(p) == \A k \in DOMAIN hunks : hunks[k].path = p => ReadsAlike(k)

Undisturbed(p) ==
    \A q \in {p, PredictedDestination(p)} \ {None} : {q, At(fs0, q)} \cap disturbed = {}

Happened(p) ==
    LET change == predicted[p]
        dest == PredictedDestination(p)
    IN  CASE change.verb = "add" -> fs[Resolve(p)] = change.content
          [] change.verb = "delete" -> fs[p] = None
          [] change.verb = "update" ->
                IF dest = None
                THEN fs[Resolve(p)] = change.new_content
                ELSE fs[Resolve(dest)] = change.new_content /\ fs[p] = None

(* The changes a host was shown are what happens, path by path: after a      *)
(* verified patch has been applied, each path that nobody else changed in    *)
(* the meantime is as predicted, if hunks keep out of each other's way and   *)
(* the hunk of the path has no lines that end in a carriage return.          *)
PredictionIsWhatHappens ==
    FromHost /\ pc = "succeeded" /\ HunksApart =>
        \A p \in DOMAIN predicted : Undisturbed(p) /\ PathReadsAlike(p) => Happened(p)

(* And the delta of the application says of such a path what the diff shown  *)
(* before said: the same old text and the same new one.                      *)
RecordedAsPredicted(p, c) ==
    LET change == predicted[p]
    IN  /\ c.kind = change.verb
        /\ c.path = p
        /\ change.verb = "update"
              => /\ c.move_path = change.move_path
                 /\ <<c.old_content, c.new_content>> = change.unified_diff
        /\ change.verb # "update" => c.content = change.content

PreviewMatchesDelta ==
    FromHost /\ pc = "succeeded" /\ exact /\ HunksApart =>
        \A p \in DOMAIN predicted :
            Undisturbed(p) /\ PathReadsAlike(p) =>
                \E k \in DOMAIN changes : RecordedAsPredicted(p, changes[k])

(* A patch that verifies can be applied: on a tree that has not changed, and *)
(* following links as the verification did, only a directory at a path that  *)
(* is written can stop it, a patch without hunks, or a hunk with lines that  *)
(* end in a carriage return.                                                 *)
VerifiedPatchesApply ==
    /\ FromHost
    /\ pc = "failed"
    /\ disturbed = {}
    /\ follow_symlinks
    /\ HunksApart
    /\ ~StorageMayFail
    => \/ hunks = <<>> /\ args.hunks = <<>>
       \/ i > Len(hunks)
       \/ fs[HunkPath(Hunk)] = Directory
       \/ ~ReadsAlike(i)

(* The engine gets the hunks that were verified: the text handed over with   *)
(* the action parses again, whatever wrapper the command had, to as many     *)
(* hunks, each with the same verb, source and destination; and to the very   *)
(* same hunk, contents and chunks included, unless a line of it ended in a   *)
(* carriage return when it was verified.                                     *)
AppliedIsVerified ==
    FromHost =>
        /\ Len(hunks) = Len(args.hunks)
        /\ Len(hunks) = Cardinality(DOMAIN predicted)
        /\ {hunks[k].path : k \in DOMAIN hunks} = DOMAIN predicted
        /\ \A k \in DOMAIN hunks :
              LET h == Rooted(args.hunks[k], args.workdir)
              IN  /\ hunks[k].verb = h.verb
                  /\ hunks[k].path = h.path
                  /\ HunkPath(hunks[k]) = HunkPath(h)
                  /\ ReadsAlike(k) => hunks[k] = h

(* intercepts_command, which reads no file, claims exactly the commands that *)
(* the verification does not leave to the shell.                             *)
InterceptionAgrees ==
    answer # None =>
        (answer \in {"Body", "CorrectnessError"}
            <=> InterceptsCommand(caller.argv, caller.convention))

(* The exit code of the executable: 0 only if every hunk has taken effect,   *)
(* in order, and 2 only if nothing was touched.                              *)
ExitCodeTellsOutcome ==
    /\ exit_code = 0 =>
          /\ hunks # <<>>
          /\ \A k \in DOMAIN hunks : Applicable(hunks[k], TreeAfter[k - 1])
          /\ \A p \in Files : fs[p] = TreeAfter[Len(hunks)][p]
    /\ exit_code = 2 => fs = fs0 /\ pc = "hunk"

-----------------------------------------------------------------------------
(* ApplyPatchAction::changes: "the changes that would be made by applying    *)
(* the patch", on the tree they were computed from.                          *)
ChangesWouldBeMade ==
    FromHost /\ pc = "succeeded" /\ disturbed = {} =>
        \A p \in DOMAIN predicted : Happened(p)

(* The same of hunks that keep out of each other's way: then "the raw patch  *)
(* argument that can be used to apply the patch" holds the contents that     *)
(* were shown.                                                               *)
ShownContentsAreMade ==
    FromHost /\ pc = "succeeded" /\ disturbed = {} /\ HunksApart =>
        \A p \in DOMAIN predicted : Happened(p)
=============================================================================
