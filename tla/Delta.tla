------------------------------- MODULE Delta -------------------------------
(***************************************************************************)
(* The records of an AppliedPatchDelta (lib.rs, AppliedPatchChange and     *)
(* AppliedPatchFileChange) and what a reader of the delta may do with      *)
(* them: roll the tree forward from the state before the patch, or back    *)
(* from the state after it.                                                *)
(*                                                                         *)
(* None stands for Rust's Option::None in the record fields and for an     *)
(* absent file in a tree.                                                  *)
(***************************************************************************)
EXTENDS Naturals, Sequences

CONSTANTS
    Files,   \* places that hold a file
    Texts,   \* UTF-8 file contents
    None     \* no value, and no file

Add(p, content, overwritten) ==
    [kind |-> "add", path |-> p, content |-> content,
     overwritten_content |-> overwritten]

Delete(p, content) ==
    [kind |-> "delete", path |-> p, content |-> content]

Update(p, dest, old, overwritten, new) ==
    [kind |-> "update", path |-> p, move_path |-> dest, old_content |-> old,
     overwritten_move_content |-> overwritten, new_content |-> new]

Option(S) == S \cup {None}

Changes ==
    [kind : {"add"}, path : Files, content : Texts,
     overwritten_content : Option(Texts)]
    \cup [kind : {"delete"}, path : Files, content : Texts]
    \cup [kind : {"update"}, path : Files, move_path : Option(Files),
          old_content : Texts, overwritten_move_content : Option(Texts),
          new_content : Texts]

-----------------------------------------------------------------------------
(***************************************************************************)
(* What one change says of the place p: whether it is about p at all, what *)
(* p held before the change and what it holds after it.                    *)
(***************************************************************************)
Touches(c, p) ==
    \/ c.path = p
    \/ c.kind = "update" /\ c.move_path = p

Before(c, p) ==
    CASE c.kind = "add" -> c.overwritten_content
      [] c.kind = "delete" -> c.content
      [] c.kind = "update" ->
            IF c.path = p THEN c.old_content ELSE c.overwritten_move_content

After(c, p) ==
    CASE c.kind = "add" -> c.content
      [] c.kind = "delete" -> None
      [] c.kind = "update" ->
            IF c.path = p /\ c.move_path # None THEN None ELSE c.new_content

-----------------------------------------------------------------------------
(***************************************************************************)
(* Replaying log on tree0 gives tree: a place that log touches holds what  *)
(* the last change to it says, any other place is as it was.               *)
(***************************************************************************)
Replays(log, tree0, tree) ==
    \A p \in Files :
        \/ /\ \A k \in DOMAIN log : ~Touches(log[k], p)
           /\ tree[p] = tree0[p]
        \/ \E k \in DOMAIN log :
              /\ Touches(log[k], p)
              /\ \A j \in DOMAIN log : j > k => ~Touches(log[j], p)
              /\ tree[p] = After(log[k], p)

(***************************************************************************)
(* Undoing log gives tree0 back: the first change to a place says what     *)
(* tree0 held there.                                                       *)
(***************************************************************************)
Undoes(log, tree0) ==
    \A p \in Files : \A k \in DOMAIN log :
        /\ Touches(log[k], p)
        /\ \A j \in DOMAIN log : j < k => ~Touches(log[j], p)
        => tree0[p] = Before(log[k], p)

(***************************************************************************)
(* Each change to a place starts from what the previous change to it left, *)
(* so the log can be undone and replayed one change at a time.             *)
(***************************************************************************)
Chained(log) ==
    \A p \in Files : \A j, k \in DOMAIN log :
        /\ j < k
        /\ Touches(log[j], p)
        /\ Touches(log[k], p)
        /\ \A m \in DOMAIN log : j < m /\ m < k => ~Touches(log[m], p)
        => After(log[j], p) = Before(log[k], p)
=============================================================================
