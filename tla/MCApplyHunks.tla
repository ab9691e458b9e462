---------------------------- MODULE MCApplyHunks ----------------------------
(***************************************************************************)
(* Instances of ApplyHunks for TLC: two paths in a directory that exists,  *)
(* one whose directory must be created, one that cannot be joined to the   *)
(* working directory; a link, a directory, a file that is not text.        *)
(***************************************************************************)
EXTENDS ApplyHunks, TLC

CONSTANTS near, other, far, bad, here, there, t1, t2

MCPaths == {near, other, far, bad}

MCDirs == {here, there}

MCParent == far :> there @@ [p \in {near, other, bad} |-> here]

MCTexts == {t1, t2}

(* One chunk list that applies to one text only, one that applies to both. *)
OneEdit == t1 :> t2

AnyEdit == [text \in MCTexts |-> t1]

MCEdits == {OneEdit, AnyEdit}

Tree(nearNode, otherNode) ==
    near :> nearNode @@ other :> otherNode @@ [p \in {far, bad, Outside} |->
        IF p = Outside THEN t1 ELSE None]

-----------------------------------------------------------------------------
(* Every hunk over near, other and far, and two that name bad. *)
AllMCHunks ==
    {AddFile(p, t2) : p \in {near, other, far}}
    \cup {DeleteFile(p) : p \in {near, other}}
    \cup {UpdateFile(p, None, AnyEdit) : p \in {near, other}}
    \cup {UpdateFile(p, dest, OneEdit) : p \in {near, other}, dest \in {None, near, other, far}}
    \cup {AddFile(bad, t1), UpdateFile(near, bad, OneEdit)}

AllMCTrees ==
    {Tree(n, o) : n \in {t1, Link, Directory}, o \in {None, t2, Binary, Link}}

PatchesUpTo(n, S) == UNION {[1..m -> S] : m \in 0..n}

PairPatches == PatchesUpTo(2, AllMCHunks)

(* Longer patches over fewer hunks and plain trees. *)
ChainHunks ==
    {AddFile(near, t1), AddFile(far, t1), DeleteFile(near),
     UpdateFile(near, None, OneEdit), UpdateFile(near, far, OneEdit),
     UpdateFile(far, near, AnyEdit), UpdateFile(near, near, OneEdit)}

ChainTrees == {Tree(t1, None), Tree(Link, None)}

ChainPatches == PatchesUpTo(3, ChainHunks)

MCHunks == AllMCHunks \cup ChainHunks

PairAndChainPatches == PairPatches \cup ChainPatches

(* Patches that end in a move onto the path it comes from, or in an Add. *)
LastHunkPatches == PatchesUpTo(1, ChainHunks)
=============================================================================
