----------------------------- MODULE ApplyHunks -----------------------------
(***************************************************************************)
(* The apply engine: apply_hunks_with_options and apply_hunks_to_files of  *)
(* lib.rs.  The hunks of a patch are applied in order; each hunk is a      *)
(* sequence of storage calls, any of which may fail, and one step of this  *)
(* specification is what happens between two calls that can change the     *)
(* tree.  The engine stops at the first error, and what it committed       *)
(* before is described by the delta, whose flag exact says whether the     *)
(* description is complete.                                                *)
(*                                                                         *)
(* Nobody else changes the tree while a patch is applied (the patch format *)
(* leaves serialising concurrent edits to its callers).                    *)
(***************************************************************************)
EXTENDS ExecutorFileSystem, Naturals, Sequences

CONSTANTS
    Edits,          \* chunk lists: each maps the texts they apply to to the result
    Hunks,          \* the hunks patches are made of
    Patches,        \* sequences of hunks
    InitialTrees,   \* contents of the storage before the patch
    InitialDirs,    \* and the directories it has
    FollowSymlinks, \* values of the option follow_symlinks
    Unresolvable    \* paths that cannot be joined to the working directory

INSTANCE Delta

AddFile(p, text) == [verb |-> "add", path |-> p, contents |-> text]

DeleteFile(p) == [verb |-> "delete", path |-> p]

UpdateFile(p, dest, edit) ==
    [verb |-> "update", path |-> p, move_path |-> dest, chunks |-> edit]

AllHunks ==
    [verb : {"add"}, path : Paths, contents : Texts]
    \cup [verb : {"delete"}, path : Paths]
    \cup [verb : {"update"}, path : Paths, move_path : Option(Paths), chunks : Edits]

WellFormedTree(tree) ==
    /\ tree \in [Files -> Nodes]
    /\ \A p \in Paths : tree[p] # None => Parent[p] \in InitialDirs
    /\ tree[Outside] \in Texts \cup {Binary}

ASSUME PatchAssumption ==
    /\ \A edit \in Edits : DOMAIN edit \subseteq Texts
    /\ \A edit \in Edits : \A text \in DOMAIN edit : edit[text] \in Texts
    /\ Hunks \subseteq AllHunks
    /\ Patches \subseteq Seq(Hunks)
    /\ \A tree \in InitialTrees : WellFormedTree(tree)
    /\ InitialDirs \subseteq Dirs
    /\ FollowSymlinks \subseteq BOOLEAN
    /\ Unresolvable \subseteq Paths

-----------------------------------------------------------------------------
VARIABLES
    hunks,                \* the patch
    follow_symlinks,
    i,                    \* the hunk being applied
    pc,                   \* the next storage call of that hunk
    original_contents,    \* what the source held, None if it could not be read
    overwritten_content,  \* what the target of a write held
    new_contents,         \* the text to write
    changes,              \* the delta
    exact,
    affected,             \* AffectedPaths
    fs0                   \* history: the tree before the patch

patch == <<hunks, follow_symlinks, fs0>>
locals == <<original_contents, overwritten_content, new_contents>>
storage == <<fs, dirs>>
vars == <<patch, locals, storage, i, pc, changes, exact, affected>>

Hunk == hunks[i]

IsMove(h) == h.verb = "update" /\ h.move_path # None

IsPlainUpdate(h) == h.verb = "update" /\ h.move_path = None

(* Mutant of HunkPath: the source of a move instead of its destination. *)
HunkPathOfSource(h) == h.path

(* Hunk::path: the path a hunk writes, or deletes, and is reported under. *)
HunkPath(h) == IF IsMove(h) THEN h.move_path ELSE h.path

Running == {"hunk", "dest", "write", "mkdir", "retry", "check_dir", "remove",
            "confirm", "report"}

TypeOK ==
    /\ StorageTypeOK
    /\ fs0 \in [Files -> Nodes]
    /\ hunks \in Seq(Hunks)
    /\ follow_symlinks \in BOOLEAN
    /\ i \in 1..(Len(hunks) + 1)
    /\ pc \in Running \cup {"succeeded", "failed"}
    /\ pc \in Running \ {"hunk", "report"} => i \in DOMAIN hunks
    /\ original_contents \in Option(Texts)
    /\ overwritten_content \in Option(Texts)
    /\ new_contents \in Option(Texts)
    /\ changes \in Seq(Changes)
    /\ exact \in BOOLEAN
    /\ affected \in [{"add", "update", "delete"} -> Seq(Paths)]

Init ==
    /\ hunks \in Patches
    /\ follow_symlinks \in FollowSymlinks
    /\ fs \in InitialTrees
    /\ dirs = InitialDirs
    /\ fs0 = fs
    /\ i = 1
    /\ pc = "hunk"
    /\ original_contents = None
    /\ overwritten_content = None
    /\ new_contents = None
    /\ changes = <<>>
    /\ exact = TRUE
    /\ affected = [verb \in {"add", "update", "delete"} |-> <<>>]

-----------------------------------------------------------------------------
(***************************************************************************)
(* What the engine asks the storage before it changes a place.  Whether a  *)
(* file is one the delta can describe is asked first                       *)
(* (note_existing_path_delta_support); any other answer makes the delta    *)
(* inexact.                                                                *)
(***************************************************************************)
DeltaSupport(p) ==
    {supported \in BOOLEAN :
        \E kind \in GetMetadata(p, follow_symlinks) :
            supported <=> kind \in {Regular, None}}

(* Mutant of ReadText: the option follow_symlinks is not passed on. *)
ReadTextFollowingLinks(p) == ReadFileText(p, TRUE)

ReadText(p) == ReadFileText(p, follow_symlinks)

(* Mutants of ReadOptional: an error passed on as contents, and a target     *)
(* that does not exist taken for one that cannot be described.               *)
ReadOptionalLeaksError(p) ==
    {[content |-> read, exact |-> supported /\ read # Failed] :
        supported \in DeltaSupport(p), read \in ReadText(p)}

ReadOptionalDoubtsAbsence(p) ==
    {[content |-> IF read \in Texts THEN read ELSE None,
      exact |-> supported /\ read \in Texts] :
        supported \in DeltaSupport(p), read \in ReadText(p)}

(* read_optional_file_text_for_delta: the contents, and whether to stay exact. *)
ReadOptional(p) ==
    {[content |-> IF read \in Texts THEN read ELSE None,
      exact |-> supported /\ read # Failed] :
        supported \in DeltaSupport(p), read \in ReadText(p)}

Fail == pc' = "failed" /\ UNCHANGED <<i, locals>>

(* Mutant of HunkDone: a move is reported under its source. *)
HunkDoneReportsSource(h) ==
    /\ i' = i + 1
    /\ pc' = IF i < Len(hunks) THEN "hunk" ELSE "report"
    /\ original_contents' = None
    /\ overwritten_content' = None
    /\ new_contents' = None
    /\ affected' = [affected EXCEPT ![h.verb] = Append(@, h.path)]

HunkDone(h) ==
    /\ i' = i + 1
    /\ pc' = IF i < Len(hunks) THEN "hunk" ELSE "report"
    /\ original_contents' = None
    /\ overwritten_content' = None
    /\ new_contents' = None
    /\ affected' = [affected EXCEPT ![h.verb] = Append(@, HunkPath(h))]

-----------------------------------------------------------------------------
(* The two errors that precede every storage call of a hunk. *)
RejectEmptyPatch ==
    /\ pc = "hunk"
    /\ hunks = <<>>
    /\ Fail
    /\ UNCHANGED <<patch, storage, changes, exact, affected>>

AtHunk == pc = "hunk" /\ hunks # <<>>

RejectPath ==
    /\ AtHunk
    /\ Hunk.path \in Unresolvable
    /\ Fail
    /\ UNCHANGED <<patch, storage, changes, exact, affected>>

(* Add File reads what it is about to replace. *)
StartAdd ==
    /\ AtHunk
    /\ Hunk.verb = "add"
    /\ Hunk.path \notin Unresolvable
    /\ \E read \in ReadOptional(Hunk.path) :
          /\ overwritten_content' = read.content
          /\ exact' = (exact /\ read.exact)
    /\ new_contents' = Hunk.contents
    /\ pc' = "write"
    /\ UNCHANGED <<patch, storage, i, original_contents, changes, affected>>

(* Delete File goes on without the contents if it cannot read them. *)
StartDelete ==
    /\ AtHunk
    /\ Hunk.verb = "delete"
    /\ Hunk.path \notin Unresolvable
    /\ \E supported \in DeltaSupport(Hunk.path), read \in ReadText(Hunk.path) :
          /\ original_contents' = IF read \in Texts THEN read ELSE None
          /\ exact' = (exact /\ supported /\ read \in Texts)
    /\ pc' = "check_dir"
    /\ UNCHANGED <<patch, storage, i, overwritten_content, new_contents,
                   changes, affected>>

(***************************************************************************)
(* Update File derives the new contents from the old ones                  *)
(* (derive_new_contents_from_chunks): an error if the source cannot be     *)
(* read or the chunks do not match it.                                     *)
(***************************************************************************)
StartUpdate ==
    /\ AtHunk
    /\ Hunk.verb = "update"
    /\ Hunk.path \notin Unresolvable
    /\ \E supported \in DeltaSupport(Hunk.path), read \in ReadText(Hunk.path) :
          /\ exact' = (exact /\ supported)
          /\ \/ /\ read \in DOMAIN Hunk.chunks
                /\ original_contents' = read
                /\ new_contents' = Hunk.chunks[read]
                /\ pc' = IF IsMove(Hunk) THEN "dest" ELSE "write"
                /\ UNCHANGED <<i, overwritten_content>>
             \/ read \notin DOMAIN Hunk.chunks /\ Fail
    /\ UNCHANGED <<patch, storage, changes, affected>>

ReadDestination ==
    /\ pc = "dest"
    /\ Hunk.move_path \notin Unresolvable
    /\ \E read \in ReadOptional(Hunk.move_path) :
          /\ overwritten_content' = read.content
          /\ exact' = (exact /\ read.exact)
    /\ pc' = "write"
    /\ UNCHANGED <<patch, storage, i, original_contents, new_contents,
                   changes, affected>>

RejectDestination ==
    /\ pc = "dest"
    /\ Hunk.move_path \in Unresolvable
    /\ Fail
    /\ UNCHANGED <<patch, storage, changes, exact, affected>>

-----------------------------------------------------------------------------
(***************************************************************************)
(* write_file_with_missing_parent_retry, and the plain write of an update  *)
(* in place.  The delta records the write in the same step: nothing can    *)
(* fail between the two.  A move is not done after the write: its          *)
(* destination is recorded as an Add until the source is removed.          *)
(***************************************************************************)
(* Mutant of WriteChange: what the write replaced is not recorded. *)
WriteChangeForgetsOverwritten(h) ==
    IF IsPlainUpdate(h)
    THEN Update(h.path, None, original_contents, None, new_contents)
    ELSE Add(HunkPath(h), new_contents, None)

WriteChange(h) ==
    IF IsPlainUpdate(h)
    THEN Update(h.path, None, original_contents, None, new_contents)
    ELSE Add(HunkPath(h), new_contents, overwritten_content)

(* Mutant of Write: the option follow_symlinks is not passed on. *)
WriteFollowingLinks ==
    /\ pc \in {"write", "retry"}
    /\ WriteFile(HunkPath(Hunk), new_contents, TRUE)
    /\ changes' = Append(changes, WriteChange(Hunk))
    /\ IF IsMove(Hunk)
       THEN pc' = "check_dir" /\ UNCHANGED <<i, locals, affected>>
       ELSE HunkDone(Hunk)
    /\ UNCHANGED <<patch, dirs, exact>>

Write ==
    /\ pc \in {"write", "retry"}
    /\ WriteFile(HunkPath(Hunk), new_contents, follow_symlinks)
    /\ changes' = Append(changes, WriteChange(Hunk))
    /\ IF IsMove(Hunk)
       THEN pc' = "check_dir" /\ UNCHANGED <<i, locals, affected>>
       ELSE HunkDone(Hunk)
    /\ UNCHANGED <<patch, dirs, exact>>

(* NotFound, on the first attempt of a write that may create its directory. *)
WriteMissesParent ==
    /\ pc = "write"
    /\ ~IsPlainUpdate(Hunk)
    /\ WriteFindsNoParent(HunkPath(Hunk))
    /\ pc' = "mkdir"
    /\ UNCHANGED <<patch, locals, storage, i, changes, exact, affected>>

CreateParent ==
    /\ pc = "mkdir"
    /\ CreateDirectory(HunkPath(Hunk))
    /\ pc' = "retry"
    /\ UNCHANGED <<patch, locals, fs, i, changes, exact, affected>>

(* Mutants of WriteError: the error of a move's write is not looked at, and  *)
(* a write that failed is tried again, however often.                        *)
WriteErrorIgnoredByMove ==
    /\ pc \in {"write", "retry"}
    /\ WriteFails(HunkPath(Hunk), follow_symlinks)
    /\ exact' = FALSE
    /\ IF IsMove(Hunk) THEN pc' = "check_dir" /\ UNCHANGED <<i, locals>> ELSE Fail
    /\ UNCHANGED <<patch, dirs, changes, affected>>

WriteErrorRetried ==
    /\ pc \in {"write", "retry"}
    /\ WriteFails(HunkPath(Hunk), follow_symlinks)
    /\ exact' = FALSE
    /\ pc' = "retry"
    /\ UNCHANGED <<patch, locals, dirs, i, changes, affected>>

(* try_write!: whatever fails on the way of a write costs exactness. *)
WriteError ==
    /\ \/ /\ pc \in {"write", "retry"}
          /\ WriteFails(HunkPath(Hunk), follow_symlinks)
          /\ UNCHANGED dirs
       \/ /\ pc = "mkdir"
          /\ CreateDirectoryFails(HunkPath(Hunk))
          /\ UNCHANGED fs
    /\ exact' = FALSE
    /\ Fail
    /\ UNCHANGED <<patch, changes, affected>>

-----------------------------------------------------------------------------
(* Mutant of CheckNotDirectory: only regular files may be removed. *)
CheckRegularFile ==
    /\ pc = "check_dir"
    /\ \E kind \in GetMetadata(Hunk.path, follow_symlinks) :
          \/ /\ kind # Regular
             /\ Fail
          \/ /\ kind = Regular
             /\ pc' = "remove"
             /\ UNCHANGED <<i, locals>>
    /\ UNCHANGED <<patch, storage, changes, exact, affected>>

(* ensure_not_directory, before the source of a delete or move is removed. *)
CheckNotDirectory ==
    /\ pc = "check_dir"
    /\ \E kind \in GetMetadata(Hunk.path, follow_symlinks) :
          \/ /\ kind \in {Failed, None, Directory}
             /\ Fail
          \/ /\ kind \notin {Failed, None, Directory}
             /\ pc' = "remove"
             /\ UNCHANGED <<i, locals>>
    /\ UNCHANGED <<patch, storage, changes, exact, affected>>

(***************************************************************************)
(* The removal completes the hunk.  A delete whose contents were not read  *)
(* leaves no change; a move turns the Add of its destination, still the    *)
(* last change, into an Update.                                            *)
(***************************************************************************)
MoveChange(h) ==
    Update(h.path, h.move_path, original_contents, overwritten_content, new_contents)

(* Mutant of RemovalChanges: the move is recorded after the Add of its       *)
(* destination, not in its place.                                            *)
RemovalChangesAppended(h) ==
    IF IsMove(h)
    THEN Append(changes, MoveChange(h))
    ELSE IF original_contents = None
         THEN changes
         ELSE Append(changes, Delete(h.path, original_contents))

RemovalChanges(h) ==
    IF IsMove(h)
    THEN [changes EXCEPT ![Len(changes)] = MoveChange(h)]
    ELSE IF original_contents = None
         THEN changes
         ELSE Append(changes, Delete(h.path, original_contents))

RemoveSource ==
    /\ pc = "remove"
    /\ Remove(Hunk.path, follow_symlinks)
    /\ changes' = RemovalChanges(Hunk)
    /\ HunkDone(Hunk)
    /\ UNCHANGED <<patch, dirs, exact>>

RemoveError ==
    /\ pc = "remove"
    /\ RemoveFails(Hunk.path, follow_symlinks)
    /\ pc' = "confirm"
    /\ UNCHANGED <<patch, locals, dirs, i, changes, exact, affected>>

(* remove_failure_was_side_effect_free: is the source still what was read? *)
ConfirmSource ==
    /\ pc = "confirm"
    /\ \E read \in ReadText(Hunk.path) :
          exact' = (exact /\ read \in Texts /\ read = original_contents)
    /\ Fail
    /\ UNCHANGED <<patch, storage, changes, affected>>

-----------------------------------------------------------------------------
(* print_summary: writing to stdout may fail, which keeps the delta. *)
PrintSummary ==
    /\ pc = "report"
    /\ pc' \in {"succeeded", "failed"}
    /\ UNCHANGED <<patch, locals, storage, i, changes, exact, affected>>

Step ==
    \/ RejectEmptyPatch \/ RejectPath
    \/ StartAdd \/ StartDelete \/ StartUpdate
    \/ ReadDestination \/ RejectDestination
    \/ Write \/ WriteMissesParent \/ CreateParent \/ WriteError
    \/ CheckNotDirectory \/ RemoveSource \/ RemoveError \/ ConfirmSource
    \/ PrintSummary

(* The call has returned. *)
Returned == pc \in {"succeeded", "failed"} /\ UNCHANGED vars

Next == Step \/ Returned

Spec == Init /\ [][Next]_vars

(* The caller drives the future to completion and every storage call returns. *)
FairSpec == Spec /\ WF_vars(Step)

-----------------------------------------------------------------------------
(***************************************************************************)
(* The delta.  After a removal that failed the engine has still to find    *)
(* out whether the source is gone (ConfirmSource), so for that one call    *)
(* the flag exact may claim too much; nobody sees the delta then.          *)
(***************************************************************************)
Trusted == exact /\ ~(pc = "confirm" /\ fs[Hunk.path] = None)

J == INSTANCE DeltaJournal WITH
        tree <- fs, tree0 <- fs0, log <- changes, exact <- Trusted

(* ApplyHunks implements DeltaJournal: while the delta is exact, every step  *)
(* that changes the tree records what it replaced and what it left, and no   *)
(* recorded change is dropped later, failures included.                      *)
ImplementsDeltaJournal == J!Spec

(* Whether apply_patch succeeds or fails, a delta that says it is exact      *)
(* rolls the tree forward from before the patch, and back, change by change. *)
ExactDeltaIsTheWholeStory ==
    Trusted => /\ Replays(changes, fs0, fs)
               /\ Undoes(changes, fs0)
               /\ Chained(changes)

-----------------------------------------------------------------------------
(***************************************************************************)
(* The meaning of a patch, as a function from tree to tree: the effect of  *)
(* each hunk on what the hunks before it left.                             *)
(***************************************************************************)
At(tree, p) == IF tree[p] = Link THEN Outside ELSE p

Updated(h, tree) == h.chunks[tree[At(tree, h.path)]]

Effect(h, tree) ==
    CASE h.verb = "add" -> [tree EXCEPT ![At(tree, h.path)] = h.contents]
      [] h.verb = "delete" -> [tree EXCEPT ![h.path] = None]
      [] IsPlainUpdate(h) -> [tree EXCEPT ![At(tree, h.path)] = Updated(h, tree)]
      [] IsMove(h) ->
            [tree EXCEPT ![At(tree, h.move_path)] = Updated(h, tree), ![h.path] = None]

TreeAfter[n \in Nat] == IF n = 0 THEN fs0 ELSE Effect(hunks[n], TreeAfter[n - 1])

(* Whether a hunk can be applied to a tree at all. *)
Reachable(tree, p) ==
    /\ p \notin Unresolvable
    /\ tree[p] = Link => follow_symlinks

Applicable(h, tree) ==
    /\ Reachable(tree, h.path)
    /\ h.verb = "add" => tree[h.path] # Directory
    /\ h.verb = "delete" => tree[h.path] \notin {None, Directory}
    /\ h.verb = "update" => tree[At(tree, h.path)] \in DOMAIN h.chunks
    /\ IsMove(h) => Reachable(tree, h.move_path) /\ tree[h.move_path] # Directory

(* At every point, and above all after an error, the tree is what the hunks  *)
(* already applied made of it, in order, except at the places the current    *)
(* hunk names; a hunk that follows never changes the tree before its turn.   *)
HunksTakeEffectInOrder ==
    \A p \in Files :
        \/ fs[p] = TreeAfter[i - 1][p]
        \/ /\ pc # "hunk"
           /\ i \in DOMAIN hunks
           /\ p \in {Hunk.path, At(TreeAfter[i - 1], Hunk.path),
                     At(TreeAfter[i - 1], HunkPath(Hunk))}

(* A move writes its destination before it removes its source: whatever call *)
(* fails, and wherever the program is killed, the source still reads as it   *)
(* did or the destination reads as the new text.                             *)
MoveNeverLosesText ==
    LET source == fs[Resolve(Hunk.path)]
        destination == fs[Resolve(Hunk.move_path)]
    IN  /\ i \in DOMAIN hunks
        /\ IsMove(Hunk)
        /\ original_contents # None
        /\ Resolve(Hunk.path) # Resolve(Hunk.move_path)
        => source = original_contents \/ destination = new_contents

(* apply_patch succeeds only if every hunk could be applied to what the      *)
(* hunks before it left, and it reports failure on a storage that does not   *)
(* fail only at a hunk that cannot be applied (or for an unwritable stdout). *)
StopsOnlyWhereItMust ==
    /\ pc = "succeeded" =>
          /\ hunks # <<>>
          /\ \A k \in DOMAIN hunks : Applicable(hunks[k], TreeAfter[k - 1])
    /\ pc = "failed" /\ ~StorageMayFail /\ i \in DOMAIN hunks =>
          ~Applicable(Hunk, TreeAfter[i - 1])

(* Exactness is not given up without a cause: on a storage that does not     *)
(* fail, some hunk named a link, a directory or a file that is not text, or  *)
(* deleted a file that was not there.                                        *)
Opaque(tree, p) == tree[p] \in {Link, Directory, Binary}

ExactUnlessOpaque ==
    ~exact /\ ~StorageMayFail =>
        \E k \in 1..i : /\ k \in DOMAIN hunks
                        /\ \/ Opaque(TreeAfter[k - 1], hunks[k].path)
                           \/ Opaque(TreeAfter[k - 1], HunkPath(hunks[k]))
                           \/ /\ hunks[k].verb = "delete"
                              /\ TreeAfter[k - 1][hunks[k].path] = None

(* With follow_symlinks off, nothing is written through a link: what links   *)
(* lead to stays as it was and so do the links.  Nothing is read through one *)
(* either: what the engine holds, to patch it, to write it elsewhere or to   *)
(* put it in the delta, it read where there was no link.  And a hunk that    *)
(* names a link, as source or destination, never completes.                  *)
LinksAreLeftAlone ==
    ~follow_symlinks =>
        /\ fs[Outside] = fs0[Outside]
        /\ \A p \in Paths : fs0[p] = Link <=> fs[p] = Link
        /\ original_contents # None => fs0[Hunk.path] # Link
        /\ overwritten_content # None => fs0[HunkPath(Hunk)] # Link
        /\ \A k \in 1..(i - 1) : Link \notin {fs0[hunks[k].path], fs0[HunkPath(hunks[k])]}

(* The summary on stdout and an exact delta tell the same story: under each  *)
(* of A, M and D the same paths in the same order.                           *)
ReportedPath(c) ==
    IF c.kind = "update" /\ c.move_path # None THEN c.move_path ELSE c.path

AreReported(paths, kind) ==
    \E at \in [DOMAIN paths -> DOMAIN changes] :
        /\ \A j, k \in DOMAIN paths : j < k => at[j] < at[k]
        /\ {at[k] : k \in DOMAIN paths} = {m \in DOMAIN changes : changes[m].kind = kind}
        /\ \A k \in DOMAIN paths : paths[k] = ReportedPath(changes[at[k]])

SummaryAgreesWithDelta ==
    pc \in {"report", "succeeded"} /\ exact =>
        \A verb \in DOMAIN affected : AreReported(affected[verb], verb)

(* apply_patch returns, whichever calls fail. *)
Terminates == <>(pc \in {"succeeded", "failed"})

-----------------------------------------------------------------------------
(***************************************************************************)
(* What the patch format says of two hunks, against what the engine does.  *)
(***************************************************************************)

(* A hunk with Move to reports success only if the destination then holds a  *)
(* text (SKILL.md: source and destination must differ, which nobody checks). *)
MoveDeliversContent ==
    /\ pc = "succeeded"
    /\ IsMove(hunks[Len(hunks)])
    => fs[Resolve(hunks[Len(hunks)].move_path)] \in Texts
=============================================================================
