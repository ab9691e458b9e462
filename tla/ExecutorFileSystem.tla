------------------------- MODULE ExecutorFileSystem -------------------------
(***************************************************************************)
(* The storage calls the apply engine makes: the trait ExecutorFileSystem  *)
(* of the external crate codex-exec-server, modelled from how lib.rs and   *)
(* file_update.rs use it (which results they tell apart, which effects     *)
(* they allow for).                                                        *)
(*                                                                         *)
(* A place holds a text, no file, bytes that are not UTF-8, a directory or *)
(* a symbolic link.  All links lead to Outside, a file no hunk can name.   *)
(* A call that may not follow links fails on a link.                       *)
(*                                                                         *)
(* A read is the set of results it may return.  A write is an action, in   *)
(* two forms: the call that succeeds and the call that reports an error,   *)
(* which may have changed the place before it failed.                      *)
(***************************************************************************)
CONSTANTS
    Paths,           \* the paths a hunk can name
    Outside,         \* what the symbolic links lead to
    Dirs,            \* directories that hold the paths
    Parent,          \* the directory of each path
    Texts,           \* UTF-8 file contents
    None,            \* no file: the call answers NotFound
    Binary,          \* file contents that are not UTF-8
    Directory,
    Link,
    Regular,         \* metadata of a file that is neither directory nor link
    Failed,          \* any error but NotFound
    StorageMayFail   \* whether calls may fail for no reason the tree shows

VARIABLES
    fs,     \* what every place holds
    dirs    \* the directories that exist

Files == Paths \cup {Outside}

Nodes == Texts \cup {None, Binary, Directory, Link}

ASSUME StorageAssumption ==
    /\ Outside \notin Paths
    /\ Parent \in [Paths -> Dirs]
    /\ StorageMayFail \in BOOLEAN
    /\ None \notin Paths \cup {Outside}
    /\ Texts \cap {None, Binary, Directory, Link, Regular, Failed} = {}
    /\ None \notin {Binary, Directory, Link, Regular, Failed}
    /\ Binary \notin {Directory, Link, Regular, Failed}
    /\ Directory \notin {Link, Regular, Failed}
    /\ Link \notin {Regular, Failed}
    /\ Regular # Failed

-----------------------------------------------------------------------------
Resolve(p) == IF fs[p] = Link THEN Outside ELSE p

Denied(p, follow_symlinks) == fs[p] = Link /\ ~follow_symlinks

Faults == IF StorageMayFail THEN {Failed} ELSE {}

ReadFileText(p, follow_symlinks) ==
    IF Denied(p, follow_symlinks) \/ fs[Resolve(p)] \in {Binary, Directory}
    THEN {Failed}
    ELSE {fs[Resolve(p)]} \cup Faults

GetMetadata(p, follow_symlinks) ==
    IF Denied(p, follow_symlinks)
    THEN {Failed}
    ELSE {IF fs[p] \in Texts \cup {Binary} THEN Regular ELSE fs[p]} \cup Faults

-----------------------------------------------------------------------------
Writable(p, follow_symlinks) ==
    /\ ~Denied(p, follow_symlinks)
    /\ Parent[p] \in dirs
    /\ fs[p] # Directory

WriteFile(p, text, follow_symlinks) ==
    /\ Writable(p, follow_symlinks)
    /\ fs' = [fs EXCEPT ![Resolve(p)] = text]

WriteFindsNoParent(p) == Parent[p] \notin dirs

(* For example: the file was truncated, then the device was full. *)
WriteFails(p, follow_symlinks) ==
    \/ /\ StorageMayFail \/ (Parent[p] \in dirs /\ ~Writable(p, follow_symlinks))
       /\ UNCHANGED fs
    \/ /\ StorageMayFail
       /\ Writable(p, follow_symlinks)
       /\ \E garbled \in Texts \cup {Binary} :
             fs' = [fs EXCEPT ![Resolve(p)] = garbled]

CreateDirectory(p) == dirs' = dirs \cup {Parent[p]}

CreateDirectoryFails(p) ==
    /\ StorageMayFail
    /\ dirs' \in {dirs, dirs \cup {Parent[p]}}

(* Removing a link removes the link, not what it leads to. *)
Removable(p, follow_symlinks) ==
    /\ ~Denied(p, follow_symlinks)
    /\ fs[p] \notin {None, Directory}

Remove(p, follow_symlinks) ==
    /\ Removable(p, follow_symlinks)
    /\ fs' = [fs EXCEPT ![p] = None]

RemoveFails(p, follow_symlinks) ==
    \/ /\ StorageMayFail \/ ~Removable(p, follow_symlinks)
       /\ UNCHANGED fs
    \/ StorageMayFail /\ Remove(p, follow_symlinks)

-----------------------------------------------------------------------------
StorageTypeOK ==
    /\ fs \in [Files -> Nodes]
    /\ dirs \subseteq Dirs

(* A file needs its directory, and what links lead to is a file. *)
StorageWellFormed ==
    /\ \A p \in Paths : fs[p] # None => Parent[p] \in dirs
    /\ fs[Outside] \in Texts \cup {Binary}
=============================================================================
