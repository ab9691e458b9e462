---------------------------- MODULE DeltaJournal ----------------------------
(***************************************************************************)
(* What an AppliedPatchDelta promises (lib.rs, AppliedPatchDelta): as long *)
(* as the delta is exact, every change to the tree is in the log, with the *)
(* text it replaced and the text it left, in the order the changes         *)
(* happened.  The log survives a failure; only exactness is lost.          *)
(*                                                                         *)
(* The apply engine (ApplyHunks) is shown to implement this specification. *)
(***************************************************************************)
EXTENDS Delta

CONSTANT Nodes   \* what a place may hold: a text, no file, or something else

ASSUME NodesAssumption == Texts \cup {None} \subseteq Nodes

ASSUME NoneAssumption == None \notin Texts \cup Files

VARIABLES
    tree,    \* what every place holds now
    tree0,   \* what it held before the patch
    log,     \* AppliedPatchDelta::changes
    exact    \* AppliedPatchDelta::exact

vars == <<tree, tree0, log, exact>>

TypeOK ==
    /\ tree \in [Files -> Nodes]
    /\ tree0 \in [Files -> Nodes]
    /\ log \in Seq(Changes)
    /\ exact \in BOOLEAN

Init ==
    /\ tree \in [Files -> Nodes]
    /\ tree0 = tree
    /\ log = <<>>
    /\ exact = TRUE

-----------------------------------------------------------------------------
Recording == exact /\ exact' = TRUE /\ UNCHANGED tree0

RecordAdd(p, text) ==
    /\ Recording
    /\ tree[p] \in Option(Texts)
    /\ tree' = [tree EXCEPT ![p] = text]
    /\ log' = Append(log, Add(p, text, tree[p]))

RecordDelete(p) ==
    /\ Recording
    /\ tree[p] \in Texts
    /\ tree' = [tree EXCEPT ![p] = None]
    /\ log' = Append(log, Delete(p, tree[p]))

RecordUpdate(p, text) ==
    /\ Recording
    /\ tree[p] \in Texts
    /\ tree' = [tree EXCEPT ![p] = text]
    /\ log' = Append(log, Update(p, None, tree[p], None, text))

(***************************************************************************)
(* The second half of a move.  The destination was written first and       *)
(* recorded as an Add; when the source p is gone too, that Add becomes the *)
(* Update that names both.                                                 *)
(***************************************************************************)
LastAdd == log[Len(log)]

(* Mutant of MoveOf: what the destination held is not carried over. *)
MoveForgetsOverwritten(p, old) ==
    Update(p, LastAdd.path, old, None, LastAdd.content)

MoveOf(p, old) ==
    Update(p, LastAdd.path, old, LastAdd.overwritten_content, LastAdd.content)

RecordMove(p, old) ==
    /\ Recording
    /\ log # <<>>
    /\ LastAdd.kind = "add"
    /\ old = IF p = LastAdd.path THEN LastAdd.overwritten_content ELSE tree[p]
    /\ tree' = [tree EXCEPT ![p] = None]
    /\ log' = [log EXCEPT ![Len(log)] = MoveOf(p, old)]

(***************************************************************************)
(* Something happened that the log cannot tell: a write that failed half   *)
(* way, a link, a file that is not text.  The tree may now hold anything,  *)
(* and no later change makes the log exact again; what the log has         *)
(* recorded stays there.                                                   *)
(***************************************************************************)
Upgraded(old, new) ==
    /\ old.kind = "add"
    /\ new.kind = "update"
    /\ new.move_path = old.path
    /\ new.new_content = old.content
    /\ new.overwritten_move_content = old.overwritten_content

KeepsLog ==
    \/ log' = log
    \/ \E c \in Changes : log' = Append(log, c)
    \/ /\ log # <<>>
       /\ \E c \in Changes :
             /\ log' = [log EXCEPT ![Len(log)] = c]
             /\ Upgraded(LastAdd, c)

LoseTrack ==
    /\ exact' = FALSE
    /\ UNCHANGED tree0
    /\ tree' \in [Files -> Nodes]
    /\ KeepsLog

Next ==
    \/ \E p \in Files :
          \/ RecordDelete(p)
          \/ \E text \in Texts :
                RecordAdd(p, text) \/ RecordUpdate(p, text) \/ RecordMove(p, text)
    \/ LoseTrack

Spec == Init /\ [][Next]_vars

-----------------------------------------------------------------------------
(* An exact log rolls the tree forward and back, change by change. *)
Consistent ==
    exact => /\ Replays(log, tree0, tree)
             /\ Undoes(log, tree0)
             /\ Chained(log)
=============================================================================
