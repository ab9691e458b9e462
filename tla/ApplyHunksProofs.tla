-------------------------- MODULE ApplyHunksProofs --------------------------
(***************************************************************************)
(* Proofs about the apply engine, for every storage, every patch and every *)
(* pattern of failing calls: type correctness, that ApplyHunks implements  *)
(* DeltaJournal, and hence that an exact delta is the whole story.         *)
(*                                                                         *)
(* The inductive invariant adds to TypeOK two facts about a hunk under     *)
(* way.  Shape says which locals are set at which call.  Tracked says      *)
(* that, while the delta is exact, what the engine read of a place is      *)
(* still what the place holds when the change to it is recorded.           *)
(***************************************************************************)
EXTENDS ApplyHunks, TLAPS

Writing == pc \in {"write", "mkdir", "retry"}

Removing == pc \in {"check_dir", "remove", "confirm"}

Shape ==
    /\ AtHunk => i \in DOMAIN hunks
    /\ pc = "dest" => /\ IsMove(Hunk)
                      /\ original_contents \in Texts
                      /\ new_contents \in Texts
    /\ Writing => /\ Hunk.verb \in {"add", "update"}
                  /\ Hunk.verb = "update" => original_contents \in Texts
                  /\ new_contents \in Texts
    /\ Removing => /\ Hunk.verb = "delete" \/ IsMove(Hunk)
                   /\ IsMove(Hunk) =>
                         /\ original_contents \in Texts
                         /\ new_contents \in Texts
                         /\ changes # <<>>
                         /\ changes[Len(changes)] =
                               Add(Hunk.move_path, new_contents, overwritten_content)

(* What the source holds once the destination of a move is written. *)
OntoItself == IsMove(Hunk) /\ Hunk.move_path = Hunk.path

SourceContents == IF OntoItself THEN new_contents ELSE original_contents

Tracked ==
    exact =>
        /\ pc = "dest" => fs[Hunk.path] = original_contents
        /\ Writing => /\ ~IsPlainUpdate(Hunk) => fs[HunkPath(Hunk)] = overwritten_content
                      /\ Hunk.verb = "update" => fs[Hunk.path] = original_contents
        /\ Removing => /\ original_contents \in Texts
                       /\ OntoItself => overwritten_content = original_contents
                       /\ \/ fs[Hunk.path] = SourceContents
                          \/ pc = "confirm" /\ fs[Hunk.path] = None

IInv == TypeOK /\ Shape /\ Tracked

-----------------------------------------------------------------------------
LEMMA HunkTypes ==
    ASSUME TypeOK, i \in DOMAIN hunks
    PROVE  /\ Hunk.path \in Paths
           /\ Hunk.verb \in {"add", "update", "delete"}
           /\ Hunk.verb = "add" => Hunk.contents \in Texts
           /\ Hunk.verb = "update" =>
                 /\ Hunk.move_path \in Option(Paths)
                 /\ DOMAIN Hunk.chunks \subseteq Texts
                 /\ \A text \in DOMAIN Hunk.chunks : Hunk.chunks[text] \in Texts
           /\ IsMove(Hunk) => Hunk.verb = "update" /\ Hunk.move_path \in Paths
           /\ HunkPath(Hunk) \in Paths
           /\ i \in Nat \ {0} /\ i <= Len(hunks)
<1>1. Hunk \in Hunks /\ i \in Nat \ {0} /\ i <= Len(hunks)
  BY DEF TypeOK, Hunk
<1>2. Hunk \in AllHunks
  BY <1>1, PatchAssumption
<1>3. CASE Hunk \in [verb : {"add"}, path : Paths, contents : Texts]
  BY <1>1, <1>3 DEF IsMove, HunkPath
<1>4. CASE Hunk \in [verb : {"delete"}, path : Paths]
  BY <1>1, <1>4 DEF IsMove, HunkPath
<1>5. CASE Hunk \in [verb : {"update"}, path : Paths,
                     move_path : Option(Paths), chunks : Edits]
  BY <1>1, <1>5, PatchAssumption DEF IsMove, HunkPath, Option
<1> QED BY <1>2, <1>3, <1>4, <1>5 DEF AllHunks


LEMMA StorageFacts ==
    ASSUME TypeOK, NEW p \in Paths
    PROVE  /\ p \in Files /\ Outside \in Files /\ Resolve(p) \in Files
           /\ fs[p] \in Nodes /\ fs[Resolve(p)] \in Nodes
           /\ None \notin Texts /\ Link \notin Texts /\ Failed \notin Texts
           /\ None # Failed /\ None # Link
BY StorageAssumption DEF TypeOK, StorageTypeOK, Files, Resolve, Nodes

LEMMA DeltaSupportType == \A p : DeltaSupport(p) \subseteq BOOLEAN
BY DEF DeltaSupport

(* A read that may count as exact returned what the place itself holds. *)
LEMMA SupportedRead ==
    ASSUME TypeOK, NEW p \in Paths, TRUE \in DeltaSupport(p),
           NEW read \in ReadText(p), read # Failed
    PROVE  read = fs[p] /\ fs[p] \in Option(Texts)
<1>1. PICK kind \in GetMetadata(p, follow_symlinks) : kind \in {Regular, None}
  BY DEF DeltaSupport
<1>2. fs[p] \in Texts \cup {Binary, None}
  <2>1. fs[p] \in Nodes /\ kind # Failed /\ ~Denied(p, follow_symlinks)
    BY <1>1, StorageFacts, StorageAssumption DEF GetMetadata, Faults
  <2>2. kind = IF fs[p] \in Texts \cup {Binary} THEN Regular ELSE fs[p]
    BY <1>1, <2>1 DEF GetMetadata, Faults
  <2> QED BY <1>1, <2>1, <2>2, StorageAssumption DEF Nodes
<1>3. Resolve(p) = p
  BY <1>2, StorageAssumption DEF Resolve
<1>4. read = fs[p] /\ fs[p] # Binary
  BY <1>3, StorageAssumption DEF ReadText, ReadFileText, Faults
<1> QED BY <1>2, <1>4 DEF Option

LEMMA ReadOptionalType ==
    ASSUME TypeOK, NEW p \in Paths, NEW read \in ReadOptional(p)
    PROVE  /\ read.content \in Option(Texts)
           /\ read.exact \in BOOLEAN
           /\ read.exact => read.content = fs[p]
<1>1. PICK supported \in DeltaSupport(p), r \in ReadText(p) :
         read = [content |-> IF r \in Texts THEN r ELSE None,
                 exact |-> supported /\ r # Failed]
  BY DEF ReadOptional
<1>2. read.content \in Option(Texts) /\ read.exact \in BOOLEAN
  BY <1>1 DEF Option, DeltaSupport
<1>3. ASSUME read.exact PROVE read.content = fs[p]
  <2>1. supported = TRUE /\ r # Failed
    BY <1>1, <1>3 DEF DeltaSupport
  <2>2. r = fs[p] /\ fs[p] \in Option(Texts)
    BY <2>1, SupportedRead
  <2> QED BY <1>1, <2>2 DEF Option
<1> QED BY <1>2, <1>3

-----------------------------------------------------------------------------
(***************************************************************************)
(* The effects of the storage calls keep the type of the storage.          *)
(***************************************************************************)
LEMMA WriteFileType ==
    ASSUME TypeOK, NEW p \in Paths, NEW text \in Texts,
           WriteFile(p, text, follow_symlinks), UNCHANGED dirs
    PROVE  StorageTypeOK'
BY StorageFacts DEF WriteFile, TypeOK, StorageTypeOK, Nodes

LEMMA WriteFailsType ==
    ASSUME TypeOK, NEW p \in Paths, WriteFails(p, follow_symlinks), UNCHANGED dirs
    PROVE  StorageTypeOK'
BY StorageFacts DEF WriteFails, TypeOK, StorageTypeOK, Nodes

LEMMA RemoveType ==
    ASSUME TypeOK, NEW p \in Paths, RemoveFails(p, follow_symlinks), UNCHANGED dirs
    PROVE  StorageTypeOK'
BY StorageFacts DEF RemoveFails, Remove, TypeOK, StorageTypeOK, Nodes

(* Leaving a hunk, by success or failure, leaves the engine between hunks.   *)
LEMMA HunkDoneTypes ==
    ASSUME TypeOK, i \in DOMAIN hunks, HunkDone(Hunk), UNCHANGED patch
    PROVE  /\ i' \in 1..(Len(hunks') + 1)
           /\ pc' \in {"hunk", "report"}
           /\ AtHunk' => i' \in DOMAIN hunks'
           /\ original_contents' \in Option(Texts)
           /\ overwritten_content' \in Option(Texts)
           /\ new_contents' \in Option(Texts)
           /\ affected' \in [{"add", "update", "delete"} -> Seq(Paths)]
<1>1. i \in Nat \ {0} /\ i <= Len(hunks) /\ hunks \in Seq(Hunks)
  BY HunkTypes DEF TypeOK
<1>2. i' = i + 1 /\ hunks' = hunks
  BY DEF HunkDone, patch
<1>3. affected' \in [{"add", "update", "delete"} -> Seq(Paths)]
  BY HunkTypes DEF HunkDone, TypeOK
<1>4. pc' = IF i < Len(hunks) THEN "hunk" ELSE "report"
  BY DEF HunkDone
<1>5. AtHunk' => i' \in DOMAIN hunks'
  BY <1>1, <1>2, <1>4 DEF AtHunk
<1> QED BY <1>1, <1>2, <1>3, <1>4, <1>5 DEF HunkDone, Option

(* A failure ends the call: it leaves nothing of the invariant but types. *)
LEMMA FailInvariant ==
    ASSUME IInv, Fail, UNCHANGED <<patch, affected, changes>>,
           StorageTypeOK', exact' \in BOOLEAN
    PROVE  IInv'
<1>1. TypeOK'
  BY DEF IInv, Fail, TypeOK, patch, locals, Running, StorageTypeOK
<1>2. Shape'
  BY DEF Fail, Shape, AtHunk, Writing, Removing
<1>3. Tracked'
  BY DEF Fail, Tracked, Writing, Removing
<1> QED BY <1>1, <1>2, <1>3 DEF IInv

LEMMA InitInvariant == Init => IInv
<1> SUFFICES ASSUME Init PROVE IInv
  OBVIOUS
<1>1. fs \in [Files -> Nodes] /\ dirs \subseteq Dirs
  BY PatchAssumption DEF Init, WellFormedTree
<1>2. hunks \in Seq(Hunks) /\ follow_symlinks \in BOOLEAN
  BY PatchAssumption DEF Init
<1>3. TypeOK
  BY <1>1, <1>2 DEF Init, TypeOK, StorageTypeOK, Running, Option
<1>4. Shape
  BY <1>2 DEF Init, Shape, AtHunk, Writing, Removing
<1>5. Tracked
  BY DEF Init, Tracked, Writing, Removing
<1> QED BY <1>3, <1>4, <1>5 DEF IInv

-----------------------------------------------------------------------------
LEMMA StartAddInvariant == IInv /\ StartAdd => IInv'
<1> SUFFICES ASSUME IInv, StartAdd PROVE IInv'
  OBVIOUS
<1> USE DEF IInv
<1>1. i \in DOMAIN hunks
  BY DEF StartAdd, Shape
<1>2. PICK read \in ReadOptional(Hunk.path) :
         /\ overwritten_content' = read.content
         /\ exact' = (exact /\ read.exact)
  BY DEF StartAdd
<1>3. /\ read.content \in Option(Texts) /\ read.exact \in BOOLEAN
      /\ read.exact => read.content = fs[Hunk.path]
  BY <1>1, ReadOptionalType, HunkTypes
<1>4. Hunk' = Hunk /\ Hunk.verb = "add" /\ Hunk.contents \in Texts /\ pc' = "write"
  BY <1>1, HunkTypes DEF StartAdd, Hunk, patch
<1>5. TypeOK'
  BY <1>1, <1>2, <1>3, <1>4
     DEF StartAdd, TypeOK, StorageTypeOK, patch, storage, Running, Option
<1>6. Shape'
  BY <1>4 DEF StartAdd, Shape, AtHunk, Writing, Removing
<1>7. Tracked'
  BY <1>2, <1>3, <1>4
     DEF StartAdd, Tracked, Writing, Removing, IsPlainUpdate, IsMove, HunkPath, storage, TypeOK
<1> QED BY <1>5, <1>6, <1>7

LEMMA StartDeleteInvariant == IInv /\ StartDelete => IInv'
<1> SUFFICES ASSUME IInv, StartDelete PROVE IInv'
  OBVIOUS
<1> USE DEF IInv
<1>1. i \in DOMAIN hunks
  BY DEF StartDelete, Shape
<1>2. PICK supported \in DeltaSupport(Hunk.path), read \in ReadText(Hunk.path) :
         /\ original_contents' = IF read \in Texts THEN read ELSE None
         /\ exact' = (exact /\ supported /\ read \in Texts)
  BY DEF StartDelete
<1>3. supported \in BOOLEAN
  BY DeltaSupportType
<1>4. supported /\ read \in Texts => read = fs[Hunk.path]
  BY <1>1, <1>3, SupportedRead, HunkTypes, StorageAssumption
<1>5. Hunk' = Hunk /\ Hunk.verb = "delete" /\ pc' = "check_dir"
  BY DEF StartDelete, Hunk, patch
<1>6. TypeOK'
  BY <1>1, <1>2, <1>3, <1>5
     DEF StartDelete, TypeOK, StorageTypeOK, patch, storage, Running, Option
<1>7. Shape'
  BY <1>5 DEF StartDelete, Shape, AtHunk, Writing, Removing, IsMove
<1>8. Tracked'
  <2>1. exact' => supported /\ read \in Texts /\ original_contents' = read
    BY <1>2
  <2>2. exact' => original_contents' = fs[Hunk.path] /\ original_contents' \in Texts
    BY <1>4, <2>1
  <2>3. ~OntoItself' /\ SourceContents' = original_contents'
    BY <1>5 DEF OntoItself, SourceContents, IsMove
  <2>4. fs' = fs
    BY DEF StartDelete, storage
  <2>5. (fs[Hunk.path])' = fs[Hunk.path]
    BY <1>5, <2>4
  <2>6. exact' => /\ original_contents' \in Texts
                  /\ (fs[Hunk.path])' = SourceContents'
    BY <2>2, <2>3, <2>5
  <2> QED BY <1>5, <2>3, <2>6 DEF Tracked, Writing
<1> QED BY <1>6, <1>7, <1>8

LEMMA StartUpdateInvariant == IInv /\ StartUpdate => IInv'
<1> SUFFICES ASSUME IInv, StartUpdate PROVE IInv'
  OBVIOUS
<1> USE DEF IInv
<1>1. i \in DOMAIN hunks
  BY DEF StartUpdate, Shape
<1>2. PICK supported \in DeltaSupport(Hunk.path), read \in ReadText(Hunk.path) :
         /\ exact' = (exact /\ supported)
         /\ \/ /\ read \in DOMAIN Hunk.chunks
               /\ original_contents' = read
               /\ new_contents' = Hunk.chunks[read]
               /\ pc' = IF IsMove(Hunk) THEN "dest" ELSE "write"
               /\ UNCHANGED <<i, overwritten_content>>
            \/ read \notin DOMAIN Hunk.chunks /\ Fail
  BY DEF StartUpdate
<1>3. supported \in BOOLEAN /\ StorageTypeOK' /\ exact' \in BOOLEAN
  <2>1. supported \in BOOLEAN
    BY DeltaSupportType
  <2>2. exact' \in BOOLEAN
    BY <1>2
  <2>3. StorageTypeOK'
    BY DEF StartUpdate, storage, StorageTypeOK, TypeOK
  <2> QED BY <2>1, <2>2, <2>3
<1>4. CASE Fail
  BY <1>3, <1>4, FailInvariant DEF StartUpdate
<1>5. CASE /\ read \in DOMAIN Hunk.chunks
           /\ original_contents' = read
           /\ new_contents' = Hunk.chunks[read]
           /\ pc' = IF IsMove(Hunk) THEN "dest" ELSE "write"
           /\ UNCHANGED <<i, overwritten_content>>
  <2>1. /\ Hunk' = Hunk /\ Hunk.verb = "update" /\ read \in Texts
        /\ new_contents' \in Texts /\ hunks' = hunks
    BY <1>1, <1>5, HunkTypes DEF StartUpdate, Hunk, patch
  <2>2. supported => read = fs[Hunk.path]
    BY <1>1, <1>3, <2>1, SupportedRead, HunkTypes, StorageAssumption
  <2>3. TypeOK'
    BY <1>1, <1>3, <1>5, <2>1 DEF StartUpdate, TypeOK, patch, Running, Option
  <2>4. Shape'
    BY <1>5, <2>1 DEF Shape, AtHunk, Writing, Removing, IsMove
  <2>5. Tracked'
    BY <1>2, <1>3, <1>5, <2>1, <2>2
       DEF StartUpdate, Tracked, Writing, Removing, IsMove, IsPlainUpdate, storage, TypeOK
  <2> QED BY <2>3, <2>4, <2>5
<1> QED BY <1>2, <1>4, <1>5

LEMMA ReadDestinationInvariant == IInv /\ ReadDestination => IInv'
<1> SUFFICES ASSUME IInv, ReadDestination PROVE IInv'
  OBVIOUS
<1> USE DEF IInv
<1>1. i \in DOMAIN hunks /\ IsMove(Hunk) /\ Hunk.verb = "update"
  BY DEF ReadDestination, Shape, TypeOK, Running, IsMove
<1>2. PICK read \in ReadOptional(Hunk.move_path) :
         /\ overwritten_content' = read.content
         /\ exact' = (exact /\ read.exact)
  BY DEF ReadDestination
<1>3. /\ read.content \in Option(Texts) /\ read.exact \in BOOLEAN
      /\ read.exact => read.content = fs[Hunk.move_path]
  BY <1>1, ReadOptionalType, HunkTypes
<1>4. Hunk' = Hunk /\ hunks' = hunks /\ pc' = "write" /\ fs' = fs
      /\ original_contents' = original_contents /\ new_contents' = new_contents
  BY DEF ReadDestination, Hunk, patch, storage
<1>5. TypeOK'
  BY <1>1, <1>2, <1>3, <1>4
     DEF ReadDestination, TypeOK, StorageTypeOK, patch, storage, Running, Option
<1>6. Shape'
  BY <1>1, <1>4 DEF ReadDestination, Shape, AtHunk, Writing, Removing, IsMove
<1>7. Tracked'
  <2>1. exact => fs[Hunk.path] = original_contents
    BY DEF Tracked, ReadDestination
  <2> QED BY <1>1, <1>2, <1>3, <1>4, <2>1
       DEF Tracked, Writing, Removing, IsMove, IsPlainUpdate, HunkPath, TypeOK
<1> QED BY <1>5, <1>6, <1>7

-----------------------------------------------------------------------------
LEMMA WriteInvariant == IInv /\ Write => IInv'
<1> SUFFICES ASSUME IInv, Write PROVE IInv'
  OBVIOUS
<1> USE DEF IInv
<1>1. i \in DOMAIN hunks /\ Writing /\ pc # "hunk"
  BY DEF Write, TypeOK, Running, Writing
<1>2. /\ Hunk.verb \in {"add", "update"} /\ new_contents \in Texts
      /\ Hunk.verb = "update" => original_contents \in Texts
      /\ HunkPath(Hunk) \in Paths /\ Hunk.path \in Paths
  BY <1>1, HunkTypes DEF Shape
<1>3. Hunk' = (hunks[i])' /\ hunks' = hunks /\ exact' = exact /\ dirs' = dirs
      /\ UNCHANGED patch
  BY DEF Write, patch, Hunk
<1>4. StorageTypeOK'
  BY <1>2, <1>3, WriteFileType DEF Write
<1>5. WriteChange(Hunk) \in Changes
  BY <1>1, <1>2, HunkTypes
     DEF WriteChange, Changes, Add, Update, Option, Files, TypeOK, IsPlainUpdate
<1>6. changes' = Append(changes, WriteChange(Hunk)) /\ changes' \in Seq(Changes)
  BY <1>5 DEF Write, TypeOK
<1>7. CASE IsMove(Hunk)
  <2>1. /\ pc' = "check_dir" /\ UNCHANGED <<i, locals, affected>> /\ Hunk' = Hunk
        /\ IsMove(Hunk') /\ HunkPath(Hunk) = Hunk.move_path /\ ~IsPlainUpdate(Hunk)
        /\ Hunk.verb = "update"
    BY <1>3, <1>7 DEF Write, IsMove, HunkPath, IsPlainUpdate, Hunk
  <2>2. TypeOK'
    BY <1>1, <1>3, <1>4, <1>6, <2>1 DEF TypeOK, patch, locals, Running
  <2>3. changes' # <<>> /\ changes'[Len(changes')] = WriteChange(Hunk)
    BY <1>5, <1>6 DEF TypeOK
  <2>4. Shape'
    BY <1>2, <2>1, <2>3
       DEF Shape, AtHunk, Writing, Removing, WriteChange, locals, IsMove
  <2>5. Tracked'
    <3> SUFFICES ASSUME exact'
                 PROVE  /\ original_contents' \in Texts
                        /\ OntoItself' => overwritten_content' = original_contents'
                        /\ fs'[Hunk'.path] = SourceContents'
      BY <2>1 DEF Tracked, Writing, Removing
    <3>1. /\ fs[Hunk.move_path] = overwritten_content
          /\ fs[Hunk.path] = original_contents
      BY <1>1, <1>3, <2>1 DEF Tracked
    <3>2. fs[Hunk.move_path] # Link
      BY <3>1, StorageAssumption DEF TypeOK, Option
    <3>3. fs' = [fs EXCEPT ![Hunk.move_path] = new_contents]
      BY <2>1, <3>2 DEF Write, WriteFile, Resolve
    <3>4. fs'[Hunk.path] = IF Hunk.move_path = Hunk.path THEN new_contents
                                                          ELSE original_contents
      BY <1>2, <3>1, <3>3 DEF TypeOK, StorageTypeOK, Files
    <3> QED BY <1>2, <1>7, <2>1, <3>1, <3>4 DEF OntoItself, SourceContents, locals
  <2> QED BY <2>2, <2>4, <2>5
<1>8. CASE ~IsMove(Hunk)
  <2>1. HunkDone(Hunk)
    BY <1>8 DEF Write
  <2>2. TypeOK'
    BY <1>1, <1>3, <1>4, <1>6, <2>1, HunkDoneTypes DEF TypeOK, patch, Running
  <2>3. Shape'
    BY <1>1, <1>3, <2>1, HunkDoneTypes DEF Shape, Writing, Removing
  <2>4. Tracked'
    BY <1>1, <1>3, <2>1, HunkDoneTypes DEF Tracked, Writing, Removing
  <2> QED BY <2>2, <2>3, <2>4
<1> QED BY <1>7, <1>8

LEMMA ParentInvariant == IInv /\ (WriteMissesParent \/ CreateParent) => IInv'
<1> SUFFICES ASSUME IInv, WriteMissesParent \/ CreateParent PROVE IInv'
  OBVIOUS
<1> USE DEF IInv
<1>1. /\ i \in DOMAIN hunks /\ Writing
      /\ pc' \in {"mkdir", "retry"}
      /\ UNCHANGED <<patch, locals, fs, i, changes, exact, affected>>
  BY DEF WriteMissesParent, CreateParent, TypeOK, Running, Writing, storage
<1>2. Hunk' = Hunk
  BY <1>1 DEF Hunk, patch
<1>3. dirs' \subseteq Dirs
  BY <1>1, HunkTypes, StorageAssumption
     DEF WriteMissesParent, CreateParent, CreateDirectory, storage, TypeOK, StorageTypeOK
<1>4. TypeOK'
  BY <1>1, <1>3 DEF TypeOK, StorageTypeOK, patch, locals, Running
<1>5. Shape'
  BY <1>1, <1>2 DEF Shape, AtHunk, Writing, Removing, locals
<1>6. Tracked'
  BY <1>1, <1>2 DEF Tracked, Writing, Removing, locals
<1> QED BY <1>4, <1>5, <1>6

LEMMA CheckInvariant == IInv /\ CheckNotDirectory => IInv'
<1> SUFFICES ASSUME IInv, CheckNotDirectory PROVE IInv'
  OBVIOUS
<1> USE DEF IInv
<1>1. UNCHANGED <<patch, storage, changes, exact, affected>>
  BY DEF CheckNotDirectory
<1>2. StorageTypeOK' /\ exact' \in BOOLEAN
  BY <1>1 DEF storage, StorageTypeOK, TypeOK
<1>3. CASE Fail
  BY <1>1, <1>2, <1>3, FailInvariant
<1>4. CASE pc' = "remove" /\ UNCHANGED <<i, locals>>
  <2>1. Hunk' = Hunk /\ Removing /\ fs' = fs /\ i \in DOMAIN hunks
    BY <1>1, <1>4 DEF Hunk, patch, CheckNotDirectory, Removing, storage, TypeOK, Running
  <2>2. TypeOK'
    BY <1>1, <1>2, <1>4, <2>1 DEF TypeOK, patch, locals, Running
  <2>3. Shape'
    BY <1>1, <1>4, <2>1 DEF Shape, AtHunk, Writing, Removing, locals
  <2>4. Tracked'
    BY <1>1, <1>4, <2>1
       DEF CheckNotDirectory, Tracked, Writing, Removing, OntoItself, SourceContents, locals
  <2> QED BY <2>2, <2>3, <2>4
<1> QED BY <1>3, <1>4 DEF CheckNotDirectory

LEMMA RemoveSourceInvariant == IInv /\ RemoveSource => IInv'
<1> SUFFICES ASSUME IInv, RemoveSource PROVE IInv'
  OBVIOUS
<1> USE DEF IInv
<1>1. i \in DOMAIN hunks /\ Removing /\ Hunk.path \in Paths /\ UNCHANGED <<patch, dirs, exact>>
  BY HunkTypes DEF RemoveSource, TypeOK, Running, Removing
<1>2. HunkDone(Hunk) /\ changes' = RemovalChanges(Hunk)
  BY DEF RemoveSource
<1>3. StorageTypeOK'
  <2>1. fs' = [fs EXCEPT ![Hunk.path] = None]
    BY DEF RemoveSource, Remove
  <2> QED BY <1>1, <2>1 DEF TypeOK, StorageTypeOK, Nodes
<1>4. changes' \in Seq(Changes)
  <2>1. CASE IsMove(Hunk)
    <3>1. MoveChange(Hunk) \in Changes /\ changes # <<>>
      BY <1>1, <2>1, HunkTypes
         DEF MoveChange, Update, Changes, Shape, Option, Files, TypeOK, IsMove
    <3> QED BY <1>2, <2>1, <3>1 DEF RemovalChanges, TypeOK
  <2>2. CASE ~IsMove(Hunk)
    <3>1. original_contents # None => Delete(Hunk.path, original_contents) \in Changes
      BY <1>1 DEF Delete, Changes, Files, TypeOK, Option
    <3> QED BY <1>2, <2>2, <3>1 DEF RemovalChanges, TypeOK
  <2> QED BY <2>1, <2>2
<1>5. TypeOK'
  BY <1>1, <1>2, <1>3, <1>4, HunkDoneTypes DEF TypeOK, patch, Running
<1>6. Shape'
  BY <1>1, <1>2, HunkDoneTypes DEF Shape, Writing, Removing
<1>7. Tracked'
  BY <1>1, <1>2, HunkDoneTypes DEF Tracked, Writing, Removing
<1> QED BY <1>5, <1>6, <1>7

LEMMA RemoveErrorInvariant == IInv /\ RemoveError => IInv'
<1> SUFFICES ASSUME IInv, RemoveError PROVE IInv'
  OBVIOUS
<1> USE DEF IInv
<1>1. /\ i \in DOMAIN hunks /\ Removing /\ pc = "remove" /\ pc' = "confirm"
      /\ Hunk.path \in Paths /\ Hunk' = Hunk
      /\ UNCHANGED <<patch, locals, dirs, i, changes, exact, affected>>
  BY HunkTypes DEF RemoveError, TypeOK, Running, Removing, Hunk, patch
<1>2. fs' = fs \/ fs' = [fs EXCEPT ![Hunk.path] = None]
  BY DEF RemoveError, RemoveFails, Remove
<1>3. StorageTypeOK' /\ fs'[Hunk.path] \in {fs[Hunk.path], None}
  BY <1>1, <1>2 DEF TypeOK, StorageTypeOK, Nodes, Files
<1>4. TypeOK'
  BY <1>1, <1>3 DEF TypeOK, patch, locals, Running
<1>5. Shape'
  BY <1>1 DEF Shape, AtHunk, Writing, Removing, locals
<1>6. Tracked'
  BY <1>1, <1>3 DEF Tracked, Writing, Removing, OntoItself, SourceContents, locals
<1> QED BY <1>4, <1>5, <1>6

LEMMA PrintInvariant == IInv /\ PrintSummary => IInv'
<1> SUFFICES ASSUME IInv, PrintSummary PROVE IInv'
  OBVIOUS
<1>1. TypeOK'
  BY DEF IInv, PrintSummary, TypeOK, StorageTypeOK, patch, locals, storage, Running
<1>2. Shape' /\ Tracked'
  BY DEF PrintSummary, Shape, Tracked, AtHunk, Writing, Removing
<1> QED BY <1>1, <1>2 DEF IInv

(* Every other step is a failure. *)
LEMMA FailureInvariant ==
    IInv /\ (RejectEmptyPatch \/ RejectPath \/ RejectDestination
             \/ WriteError \/ ConfirmSource) => IInv'
<1>1. ASSUME IInv, RejectEmptyPatch \/ RejectPath \/ RejectDestination PROVE IInv'
  BY <1>1, FailInvariant
     DEF RejectEmptyPatch, RejectPath, RejectDestination, IInv, TypeOK, storage, StorageTypeOK
<1>2. ASSUME IInv, WriteError PROVE IInv'
  <2>1. i \in DOMAIN hunks /\ HunkPath(Hunk) \in Paths
    BY <1>2, HunkTypes DEF WriteError, IInv, TypeOK, Running
  <2>2. StorageTypeOK'
    <3>1. CASE WriteFails(HunkPath(Hunk), follow_symlinks) /\ UNCHANGED dirs
      BY <1>2, <2>1, <3>1, WriteFailsType DEF IInv
    <3>2. CASE CreateDirectoryFails(HunkPath(Hunk)) /\ UNCHANGED fs
      BY <1>2, <2>1, <3>2, StorageAssumption
         DEF CreateDirectoryFails, IInv, TypeOK, StorageTypeOK
    <3> QED BY <1>2, <3>1, <3>2 DEF WriteError
  <2> QED BY <1>2, <2>2, FailInvariant DEF WriteError
<1>3. ASSUME IInv, ConfirmSource PROVE IInv'
  <2>1. StorageTypeOK' /\ exact' \in BOOLEAN
    BY <1>3 DEF ConfirmSource, IInv, TypeOK, storage, StorageTypeOK
  <2> QED BY <1>3, <2>1, FailInvariant DEF ConfirmSource
<1> QED BY <1>1, <1>2, <1>3

-----------------------------------------------------------------------------
LEMMA StepInvariant == IInv /\ [Next]_vars => IInv'
<1>1. IInv /\ Step => IInv'
  BY FailureInvariant, StartAddInvariant, StartDeleteInvariant, StartUpdateInvariant,
     ReadDestinationInvariant, WriteInvariant, ParentInvariant, CheckInvariant,
     RemoveSourceInvariant, RemoveErrorInvariant, PrintInvariant
     DEF Step
<1>2. IInv /\ UNCHANGED vars => IInv'
  BY DEF vars, patch, locals, storage, IInv, TypeOK, StorageTypeOK, Shape, Tracked,
         AtHunk, Writing, Removing, Hunk, OntoItself, SourceContents
<1> QED BY <1>1, <1>2 DEF Next, Returned

(* The invariant of the engine holds in every state. *)
THEOREM Invariant == Spec => []IInv
BY InitInvariant, StepInvariant, PTL DEF Spec

(* The engine's state has its type at every step, whatever calls fail; in    *)
(* particular no change is replaced when the delta has none.                 *)
THEOREM TypeCorrect == Spec => []TypeOK
<1>1. IInv => TypeOK
  BY DEF IInv
<1> QED BY <1>1, Invariant, PTL

-----------------------------------------------------------------------------
(***************************************************************************)
(* ApplyHunks implements DeltaJournal.  A step that records nothing and    *)
(* changes nothing is a stutter, or loses track; a write or removal is a   *)
(* recording action while the delta is exact, and loses track otherwise.   *)
(***************************************************************************)
LEMMA SameOperators ==
    /\ J!Changes = Changes
    /\ \A p, c, o : J!Add(p, c, o) = Add(p, c, o)
    /\ \A p, c : J!Delete(p, c) = Delete(p, c)
    /\ \A p, d, old, o, c : J!Update(p, d, old, o, c) = Update(p, d, old, o, c)
    /\ J!Option(Texts) = Option(Texts)
BY DEF J!Changes, Changes, J!Add, Add, J!Delete, Delete, J!Update, Update, J!Option, Option

(* Dropping exactness is always allowed, if the recorded changes are kept. *)
LEMMA MayLoseTrack ==
    ASSUME IInv', ~Trusted', UNCHANGED fs0,
           \/ changes' = changes
           \/ \E c \in Changes : changes' = Append(changes, c)
           \/ /\ changes # <<>>
              /\ \E c \in Changes :
                    /\ changes' = [changes EXCEPT ![Len(changes)] = c]
                    /\ J!Upgraded(changes[Len(changes)], c),
           changes \in Seq(Changes)
    PROVE  J!LoseTrack
<1>1. Trusted' = FALSE
  BY DEF Trusted, IInv, TypeOK
<1>2. fs' \in [Files -> Nodes] /\ changes' \in Seq(Changes)
  BY DEF IInv, TypeOK, StorageTypeOK
<1>3. J!KeepsLog
  BY SameOperators DEF J!KeepsLog, J!LastAdd
<1> QED BY <1>1, <1>2, <1>3 DEF J!LoseTrack

(* A step that leaves tree and changes alone. *)
LEMMA QuietStep ==
    ASSUME IInv, IInv', UNCHANGED <<fs, changes, fs0>>, Trusted' => Trusted
    PROVE  [J!Next]_(J!vars)
<1>1. Trusted \in BOOLEAN /\ Trusted' \in BOOLEAN
  BY DEF Trusted, IInv, TypeOK
<1>2. CASE Trusted'
  BY <1>1, <1>2 DEF J!vars
<1>3. CASE ~Trusted'
  <2>1. J!LoseTrack
    BY <1>3, MayLoseTrack DEF IInv, TypeOK
  <2> QED BY <2>1 DEF J!Next
<1> QED BY <1>2, <1>3

LEMMA RecordSteps ==
    ASSUME NEW p \in Files, NEW text \in Texts,
           \/ J!RecordAdd(p, text)
           \/ J!RecordDelete(p)
           \/ J!RecordUpdate(p, text)
           \/ J!RecordMove(p, text)
    PROVE  J!Next
BY DEF J!Next

LEMMA WriteStep == IInv /\ IInv' /\ Write => J!Next
<1> SUFFICES ASSUME IInv, IInv', Write PROVE J!Next
  OBVIOUS
<1>1. /\ i \in DOMAIN hunks /\ Writing /\ pc # "confirm" /\ pc' # "confirm"
      /\ UNCHANGED <<fs0, exact>>
  BY DEF Write, IInv, TypeOK, Running, Writing, patch, HunkDone
<1>2. /\ new_contents \in Texts
      /\ Hunk.path \in Files /\ HunkPath(Hunk) \in Files
      /\ overwritten_content \in Option(Texts)
      /\ Hunk.verb = "update" => original_contents \in Texts
  BY <1>1, HunkTypes DEF IInv, Shape, Files, TypeOK
<1>3. Trusted = exact /\ Trusted' = exact
  BY <1>1 DEF Trusted, IInv, TypeOK
<1>4. changes' = Append(changes, WriteChange(Hunk))
  BY DEF Write
<1>5. CASE ~exact
  <2>1. WriteChange(Hunk) \in Changes
    BY <1>1, <1>2 DEF WriteChange, Changes, Add, Update, Option, IsPlainUpdate
  <2>2. J!LoseTrack
    BY <1>1, <1>3, <1>4, <1>5, <2>1, MayLoseTrack DEF IInv, TypeOK
  <2> QED BY <2>2 DEF J!Next
<1>6. CASE exact /\ IsPlainUpdate(Hunk)
  <2>1. fs[Hunk.path] = original_contents /\ HunkPath(Hunk) = Hunk.path
        /\ original_contents \in Texts
    BY <1>1, <1>2, <1>6 DEF IInv, Tracked, IsPlainUpdate, IsMove, HunkPath
  <2>2. fs' = [fs EXCEPT ![Hunk.path] = new_contents]
    BY <2>1, StorageAssumption DEF Write, WriteFile, Resolve
  <2>3. changes' = Append(changes, J!Update(Hunk.path, None, fs[Hunk.path], None, new_contents))
    BY <1>4, <1>6, <2>1 DEF WriteChange, J!Update, Update
  <2>4. J!RecordUpdate(Hunk.path, new_contents)
    BY <1>1, <1>3, <1>6, <2>1, <2>2, <2>3 DEF J!RecordUpdate, J!Recording
  <2> QED BY <1>2, <2>4, RecordSteps
<1>7. CASE exact /\ ~IsPlainUpdate(Hunk)
  <2> DEFINE p == HunkPath(Hunk)
  <2>1. fs[p] = overwritten_content
    BY <1>1, <1>7 DEF IInv, Tracked
  <2>2. fs' = [fs EXCEPT ![p] = new_contents]
    BY <1>2, <2>1, StorageAssumption DEF Write, WriteFile, Resolve, Option
  <2>3. changes' = Append(changes, J!Add(p, new_contents, fs[p]))
    BY <1>4, <1>7, <2>1 DEF WriteChange, J!Add, Add
  <2>4. fs[p] \in J!Option(Texts)
    BY <1>2, <2>1, SameOperators
  <2>5. J!RecordAdd(p, new_contents)
    BY <1>1, <1>3, <1>7, <2>2, <2>3, <2>4 DEF J!RecordAdd, J!Recording
  <2> QED BY <1>2, <2>5, RecordSteps
<1> QED BY <1>5, <1>6, <1>7

LEMMA RemoveSourceStep == IInv /\ IInv' /\ RemoveSource => [J!Next]_(J!vars)
<1> SUFFICES ASSUME IInv, IInv', RemoveSource PROVE [J!Next]_(J!vars)
  OBVIOUS
<1>1. /\ i \in DOMAIN hunks /\ Removing /\ pc = "remove" /\ pc' # "confirm"
      /\ UNCHANGED <<fs0, exact>> /\ Hunk.path \in Files
      /\ original_contents \in Option(Texts)
      /\ changes \in Seq(Changes)
  BY HunkTypes DEF RemoveSource, IInv, TypeOK, Running, Removing, patch, HunkDone, Files
<1>2. /\ changes' = RemovalChanges(Hunk)
      /\ fs' = [fs EXCEPT ![Hunk.path] = None]
  BY DEF RemoveSource, Remove
<1>3. Trusted = exact /\ Trusted' = exact
  BY <1>1 DEF Trusted, IInv, TypeOK
<1>4. ASSUME IsMove(Hunk)
      PROVE  /\ changes # <<>>
             /\ changes[Len(changes)] =
                   Add(Hunk.move_path, new_contents, overwritten_content)
             /\ original_contents \in Texts
             /\ MoveChange(Hunk) \in Changes
  <2>1. Hunk.move_path \in Files
    BY <1>1, <1>4, HunkTypes DEF IInv, Files
  <2> QED BY <1>1, <1>4, <2>1
       DEF IInv, Shape, MoveChange, Update, Changes, Option, TypeOK
<1>5. CASE ~exact
  <2>1. \/ changes' = changes
        \/ \E c \in Changes : changes' = Append(changes, c)
        \/ /\ changes # <<>>
           /\ \E c \in Changes :
                 /\ changes' = [changes EXCEPT ![Len(changes)] = c]
                 /\ J!Upgraded(changes[Len(changes)], c)
    <3>1. CASE IsMove(Hunk)
      <4>1. J!Upgraded(changes[Len(changes)], MoveChange(Hunk))
        BY <1>4, <3>1 DEF J!Upgraded, MoveChange, Update, Add
      <4>2. changes' = [changes EXCEPT ![Len(changes)] = MoveChange(Hunk)]
        BY <1>2, <3>1 DEF RemovalChanges
      <4> QED BY <1>4, <3>1, <4>1, <4>2
    <3>2. CASE ~IsMove(Hunk) /\ original_contents # None
      <4>1. Delete(Hunk.path, original_contents) \in Changes
        BY <1>1, <3>2 DEF Delete, Changes, Option
      <4> QED BY <1>2, <3>2, <4>1 DEF RemovalChanges
    <3>3. CASE ~IsMove(Hunk) /\ original_contents = None
      BY <1>2, <3>3 DEF RemovalChanges
    <3> QED BY <3>1, <3>2, <3>3
  <2>2. J!LoseTrack
    BY <1>1, <1>3, <1>5, <2>1, MayLoseTrack
  <2> QED BY <2>2 DEF J!Next
<1>6. CASE exact /\ ~IsMove(Hunk)
  <2>1. fs[Hunk.path] = original_contents /\ original_contents \in Texts
    BY <1>1, <1>6 DEF IInv, Tracked, OntoItself, SourceContents
  <2>2. changes' = Append(changes, J!Delete(Hunk.path, fs[Hunk.path]))
    BY <1>2, <1>6, <2>1, StorageAssumption DEF RemovalChanges, J!Delete, Delete
  <2>3. J!RecordDelete(Hunk.path)
    BY <1>1, <1>2, <1>3, <1>6, <2>1, <2>2 DEF J!RecordDelete, J!Recording
  <2> QED BY <1>1, <2>1, <2>3, RecordSteps
<1>7. CASE exact /\ IsMove(Hunk)
  <2>1. /\ OntoItself => overwritten_content = original_contents
        /\ fs[Hunk.path] = SourceContents
    BY <1>1, <1>7 DEF IInv, Tracked
  <2>2. /\ J!LastAdd.kind = "add"
        /\ J!LastAdd.path = Hunk.move_path
        /\ J!LastAdd.content = new_contents
        /\ J!LastAdd.overwritten_content = overwritten_content
    BY <1>4, <1>7 DEF J!LastAdd, Add
  <2>3. original_contents = IF Hunk.path = J!LastAdd.path
                            THEN J!LastAdd.overwritten_content
                            ELSE fs[Hunk.path]
    BY <1>7, <2>1, <2>2 DEF OntoItself, SourceContents
  <2>4. changes' = [changes EXCEPT ![Len(changes)] = J!MoveOf(Hunk.path, original_contents)]
    BY <1>2, <1>7, <2>2 DEF RemovalChanges, MoveChange, J!MoveOf, J!Update, Update
  <2>5. J!RecordMove(Hunk.path, original_contents)
    BY <1>1, <1>2, <1>3, <1>4, <1>7, <2>2, <2>3, <2>4 DEF J!RecordMove, J!Recording
  <2> QED BY <1>1, <1>4, <1>7, <2>5, RecordSteps
<1> QED BY <1>5, <1>6, <1>7

(* A removal that failed may have happened; the flag is corrected by the     *)
(* read that follows, so the delta is not trusted in between.                *)
LEMMA RemoveErrorStep == IInv /\ IInv' /\ RemoveError => [J!Next]_(J!vars)
<1> SUFFICES ASSUME IInv, IInv', RemoveError PROVE [J!Next]_(J!vars)
  OBVIOUS
<1>1. /\ i \in DOMAIN hunks /\ Removing /\ pc = "remove" /\ pc' = "confirm"
      /\ Hunk.path \in Paths /\ Hunk' = Hunk
      /\ UNCHANGED <<fs0, exact, changes>>
  BY HunkTypes DEF RemoveError, IInv, TypeOK, Running, Removing, Hunk, patch
<1>2. fs' = fs \/ fs' = [fs EXCEPT ![Hunk.path] = None]
  BY DEF RemoveError, RemoveFails, Remove
<1>3. CASE fs' = fs
  <2>1. Trusted' => Trusted
    BY <1>1 DEF Trusted
  <2> QED BY <1>1, <1>3, <2>1, QuietStep
<1>4. CASE fs' = [fs EXCEPT ![Hunk.path] = None]
  <2>1. fs'[Hunk.path] = None
    BY <1>1, <1>4 DEF IInv, TypeOK, StorageTypeOK, Files
  <2>2. ~Trusted'
    BY <1>1, <2>1 DEF Trusted
  <2>3. J!LoseTrack
    BY <1>1, <2>2, MayLoseTrack DEF IInv, TypeOK
  <2> QED BY <2>3 DEF J!Next
<1> QED BY <1>2, <1>3, <1>4

(* The read after it trusts the delta again only if the source is there. *)
LEMMA ConfirmStep == IInv /\ IInv' /\ ConfirmSource => [J!Next]_(J!vars)
<1> SUFFICES ASSUME IInv, IInv', ConfirmSource PROVE [J!Next]_(J!vars)
  OBVIOUS
<1>1. /\ pc = "confirm" /\ i \in DOMAIN hunks /\ Hunk.path \in Paths
      /\ UNCHANGED <<fs, changes, fs0>>
  BY HunkTypes DEF ConfirmSource, IInv, TypeOK, Running, storage, patch
<1>2. PICK read \in ReadText(Hunk.path) :
         exact' = (exact /\ read \in Texts /\ read = original_contents)
  BY DEF ConfirmSource
<1>3. read \in Texts => fs[Hunk.path] # None
  BY StorageAssumption DEF ReadText, ReadFileText, Resolve, Faults
<1>4. Trusted' => Trusted
  BY <1>1, <1>2, <1>3 DEF Trusted
<1> QED BY <1>1, <1>4, QuietStep

LEMMA WriteErrorStep == IInv /\ IInv' /\ WriteError => [J!Next]_(J!vars)
<1> SUFFICES ASSUME IInv, IInv', WriteError PROVE [J!Next]_(J!vars)
  OBVIOUS
<1>1. ~Trusted' /\ UNCHANGED <<changes, fs0>>
  BY DEF WriteError, Trusted, patch
<1>2. J!LoseTrack
  BY <1>1, MayLoseTrack DEF IInv, TypeOK
<1> QED BY <1>2 DEF J!Next

(* The steps that only ask, create a directory, or report. *)
LEMMA QuietSteps ==
    /\ IInv /\ IInv'
    /\ \/ RejectEmptyPatch \/ RejectPath \/ StartAdd \/ StartDelete \/ StartUpdate
       \/ ReadDestination \/ RejectDestination \/ WriteMissesParent \/ CreateParent
       \/ CheckNotDirectory \/ PrintSummary
    => [J!Next]_(J!vars)
<1> SUFFICES ASSUME IInv, IInv',
                    \/ RejectEmptyPatch \/ RejectPath
                    \/ StartAdd \/ StartDelete \/ StartUpdate
                    \/ ReadDestination \/ RejectDestination
                    \/ WriteMissesParent \/ CreateParent
                    \/ CheckNotDirectory \/ PrintSummary
             PROVE  [J!Next]_(J!vars)
  OBVIOUS
<1>1. UNCHANGED <<fs, changes, fs0>> /\ pc # "confirm"
  BY DEF RejectEmptyPatch, RejectPath, StartAdd, StartDelete, StartUpdate,
         ReadDestination, RejectDestination, WriteMissesParent, CreateParent,
         CheckNotDirectory, PrintSummary, AtHunk, patch, storage
<1>2. exact' => exact
  BY DEF RejectEmptyPatch, RejectPath, StartAdd, StartDelete, StartUpdate,
         ReadDestination, RejectDestination, WriteMissesParent, CreateParent,
         CheckNotDirectory, PrintSummary
<1>3. Trusted' => Trusted
  BY <1>1, <1>2 DEF Trusted
<1> QED BY <1>1, <1>3, QuietStep

LEMMA StepImplements == IInv /\ IInv' /\ [Next]_vars => [J!Next]_(J!vars)
<1>1. IInv /\ IInv' /\ Step => [J!Next]_(J!vars)
  BY WriteStep, RemoveSourceStep, RemoveErrorStep, ConfirmStep, WriteErrorStep, QuietSteps
     DEF Step
<1>2. IInv /\ UNCHANGED vars => UNCHANGED J!vars
  BY DEF vars, patch, storage, J!vars, Trusted, Hunk
<1> QED BY <1>1, <1>2 DEF Next, Returned

LEMMA InitImplements == Init => J!Init
<1> SUFFICES ASSUME Init PROVE J!Init
  OBVIOUS
<1>1. fs \in [Files -> Nodes]
  BY PatchAssumption DEF Init, WellFormedTree
<1>2. Trusted = TRUE
  BY DEF Init, Trusted
<1> QED BY <1>1, <1>2 DEF Init, J!Init

(* While the delta is exact, every step that changes the tree records what   *)
(* it replaced and what it left; recorded changes outlive every failure.     *)
THEOREM Implementation == Spec => ImplementsDeltaJournal
BY Invariant, InitImplements, StepImplements, PTL DEF Spec, J!Spec, ImplementsDeltaJournal

-----------------------------------------------------------------------------
(***************************************************************************)
(* What DeltaJournal promises therefore holds of the engine.               *)
(***************************************************************************)
JP == INSTANCE DeltaJournalProofs WITH
        tree <- fs, tree0 <- fs0, log <- changes, exact <- Trusted

LEMMA JournalAssumptions ==
    /\ Texts \cup {None} \subseteq Nodes
    /\ None \notin Texts \cup Files
BY StorageAssumption DEF Nodes, Files

(* The journal of the proofs is the journal the engine implements. *)
LEMMA SameJournal ==
    /\ J!Init => JP!Init
    /\ [J!Next]_(J!vars) => [JP!Next]_(JP!vars)
BY DEF J!Init, JP!Init, J!Next, JP!Next, J!vars, JP!vars, J!Recording,
         JP!Recording, J!RecordAdd, JP!RecordAdd, J!RecordDelete,
         JP!RecordDelete, J!RecordUpdate, JP!RecordUpdate, J!RecordMove,
         JP!RecordMove, J!LoseTrack, JP!LoseTrack, J!KeepsLog, JP!KeepsLog,
         J!Upgraded, JP!Upgraded, J!MoveOf, JP!MoveOf, J!LastAdd, JP!LastAdd,
         J!Add, JP!Add, J!Delete, JP!Delete, J!Update, JP!Update, J!Changes,
         JP!Changes, J!Option, JP!Option

LEMMA JournalIsTheWholeStory == JP!Consistent => ExactDeltaIsTheWholeStory
BY DEF JP!Consistent, ExactDeltaIsTheWholeStory, JP!Replays, Replays,
       JP!Undoes, Undoes, JP!Chained, Chained, JP!Touches, Touches,
       JP!Before, Before, JP!After, After

(* After a success, after a failure and at every point between, an exact     *)
(* delta rolls the tree forward and back, for patches of any length.         *)
THEOREM ExactDelta == Spec => []ExactDeltaIsTheWholeStory
<1>1. JP!Spec => [](JP!TypeOK /\ JP!Consistent)
  BY JP!JournalConsistent, JournalAssumptions
<1>2. J!Spec => JP!Spec
  BY SameJournal, PTL DEF J!Spec, JP!Spec
<1>3. Spec => J!Spec
  BY Implementation DEF ImplementsDeltaJournal
<1>4. JP!Consistent => ExactDeltaIsTheWholeStory
  BY JournalIsTheWholeStory
<1> QED BY <1>1, <1>2, <1>3, <1>4, PTL
=============================================================================
